------------------------- MODULE IgnitionRelayProofs -------------------------
(***************************************************************************)
(* Theorems about the ignition relay service: what its two tasks keep      *)
(* however their accesses to pin, flag and timer interleave.               *)
(***************************************************************************)
EXTENDS IgnitionRelay, TLAPS

\* Only an enable request starts the timer, and a disable request stops it first.
NoTimerPastCancel == request = "disable" /\ handler # "cancel_timer" => ~armed

IInv == TypeOK /\ EnableIsTimed /\ NoTimerPastCancel

LEMMA Initially == Init => IInv
  BY DEF Init, IInv, TypeOK, EnableIsTimed, NoTimerPastCancel, CallbackStep

\* The timer task: a timer that expires leaves a callback on its way to the pin, and
\* a callback that leaves the pin leaves it off.
LEMMA TimerTaskInv == IInv /\ TimerTask => IInv'
<1> SUFFICES ASSUME IInv, TimerTask PROVE IInv'
  OBVIOUS
<1> USE DEF IInv, TypeOK, EnableIsTimed, NoTimerPastCancel, CallbackStep
<1>1. CASE Expire
  BY <1>1 DEF Expire
<1>2. CASE CallbackPinOff
  BY <1>2 DEF CallbackPinOff
<1>3. CASE CallbackClear
  BY <1>3 DEF CallbackClear
<1> QED
  BY <1>1, <1>2, <1>3 DEF TimerTask

\* A new request finds the handler idle.
LEMMA CommandInv == ASSUME IInv, NEW r \in {"enable", "disable"}, Command(r)
                    PROVE  IInv'
  BY DEF IInv, TypeOK, EnableIsTimed, NoTimerPastCancel, Command, Goto, EnableStep, DisableStep

\* The handler: the enable branch ends with a running timer, the disable branch
\* begins by stopping it.
LEMMA HandlerTaskInv == IInv /\ HandlerTask => IInv'
<1> SUFFICES ASSUME IInv, HandlerTask PROVE IInv'
  OBVIOUS
<1> USE DEF IInv, TypeOK, EnableIsTimed, NoTimerPastCancel, EnableStep, DisableStep, Goto
<1>1. CASE TestOn
  BY <1>1 DEF TestOn
<1>2. CASE PinOn
  BY <1>2 DEF PinOn
<1>3. CASE SetActive
  BY <1>3 DEF SetActive
<1>4. CASE PostIgnited
  BY <1>4 DEF PostIgnited
<1>5. CASE StopTimer
  BY <1>5 DEF StopTimer
<1>6. CASE StartTimer
  BY <1>6 DEF StartTimer
<1>7. CASE CancelTimer
  BY <1>7 DEF CancelTimer
<1>8. CASE TestOff
  BY <1>8 DEF TestOff
<1>9. CASE PinOff
  BY <1>9 DEF PinOff
<1>10. CASE ClearActive
  BY <1>10 DEF ClearActive
<1> QED
  BY <1>1, <1>2, <1>3, <1>4, <1>5, <1>6, <1>7, <1>8, <1>9, <1>10 DEF HandlerTask

LEMMA Inductive == IInv /\ [Next]_vars => IInv'
<1> SUFFICES ASSUME IInv, [Next]_vars PROVE IInv'
  OBVIOUS
<1>1. CASE Next
  BY <1>1, TimerTaskInv, CommandInv, HandlerTaskInv DEF Next
<1>2. CASE UNCHANGED vars
  BY <1>2 DEF vars, IInv, TypeOK, EnableIsTimed, NoTimerPastCancel
<1> QED
  BY <1>1, <1>2

LEMMA Invariance == Spec => []IInv
  BY Initially, Inductive, PTL DEF Spec

\* The handler never leaves the branch its request chose (handle_ignition, if/else).
THEOREM TypeCorrect == Spec => []TypeOK
<1>1. IInv => TypeOK
  BY DEF IInv
<1> QED
  BY <1>1, Invariance, PTL

\* After a handled enable request, a relay that is on is going to be switched off by
\* the timer or by a callback under way (start_ignition_timer is the last thing done).
THEOREM EnabledRelayIsTimed == Spec => []EnableIsTimed
<1>1. IInv => EnableIsTimed
  BY DEF IInv
<1> QED
  BY <1>1, Invariance, PTL

\* A handled disable request leaves no timer running (stop_ignition_and_timer).
THEOREM DisableCancelsTimer == Spec => []NoTimerAfterDisable
<1>1. IInv => NoTimerAfterDisable
  BY DEF IInv, NoTimerPastCancel, NoTimerAfterDisable
<1> QED
  BY <1>1, Invariance, PTL
=============================================================================
