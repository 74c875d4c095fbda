---------------------------- MODULE IgnitionRelay ----------------------------
(***************************************************************************)
(* The ignition relay service                                              *)
(* (services/actuation/ignition_relay_service/ignition_relay_service.c).   *)
(* Two tasks share a GPIO pin and a flag without a lock: the dispatcher    *)
(* task, which runs the COMMAND_IGNITION handler on core 1, and the        *)
(* esp_timer task, which runs the auto-shutdown callback on the other      *)
(* core.  Every access to the pin, the flag and the timer is a step.       *)
(*                                                                         *)
(* A one-shot esp_timer is disarmed when the timer task takes it for       *)
(* dispatch; from then on esp_timer_stop can no longer keep the callback   *)
(* from running.  Time itself is left out: an armed timer may expire at    *)
(* any moment.                                                             *)
(***************************************************************************)

VARIABLES pin,       \* level of IGNITION_RELAY_GPIO: is the relay on
          active,    \* s_relay_active
          armed,     \* s_timer is running
          callback,  \* where the timer task is in ignition_timeout_callback
          handler,   \* where the dispatcher task is in handle_ignition
          request    \* "enable" or "disable": the last request taken up

vars == <<pin, active, armed, callback, handler, request>>

CallbackStep == {"none", "pin_off", "clear"}
EnableStep   == {"test_on", "pin_on", "set", "post", "stop_timer", "start_timer"}
DisableStep  == {"cancel_timer", "test_off", "pin_off", "clear"}

\* ignition_relay_service_init: relay off, timer created and not started.
Init == /\ pin = FALSE /\ active = FALSE /\ armed = FALSE
        /\ callback = "none" /\ handler = "idle"
        /\ request = "disable"

-----------------------------------------------------------------------------
(* The timer task.                                                         *)

Expire == /\ armed
          /\ callback = "none"
          /\ armed' = FALSE
          /\ callback' = "pin_off"
          /\ UNCHANGED <<pin, active, handler, request>>

\* Slip: the callback trusts the flag, as the handler does.
CallbackPinOff_IfActive == /\ callback = "pin_off"
                           /\ pin' = (pin /\ ~active)
                           /\ callback' = "clear"
                           /\ UNCHANGED <<active, armed, handler, request>>

CallbackPinOff == /\ callback = "pin_off"
                  /\ pin' = FALSE
                  /\ callback' = "clear"
                  /\ UNCHANGED <<active, armed, handler, request>>

CallbackClear == /\ callback = "clear"
                 /\ active' = FALSE
                 /\ callback' = "none"
                 /\ UNCHANGED <<pin, armed, handler, request>>

TimerTask == Expire \/ CallbackPinOff \/ CallbackClear

-----------------------------------------------------------------------------
(* The handler, in the dispatcher task.                                    *)

Goto(from, to) == handler = from /\ handler' = to

\* A ground command, forwarded by the rocket command service.
Command(r) == /\ Goto("idle", IF r = "enable" THEN "test_on" ELSE "cancel_timer")
              /\ request' = r
              /\ UNCHANGED <<pin, active, armed, callback>>

\* if (!s_relay_active) ... else "Relay already ON, resetting timer".
TestOn == /\ Goto("test_on", IF active THEN "stop_timer" ELSE "pin_on")
          /\ UNCHANGED <<pin, active, armed, callback, request>>

PinOn == /\ Goto("pin_on", "set")
         /\ pin' = TRUE
         /\ UNCHANGED <<active, armed, callback, request>>

SetActive == /\ Goto("set", "post")
             /\ active' = TRUE
             /\ UNCHANGED <<pin, armed, callback, request>>

\* Slip: the timer is started only when a running relay is re-enabled.
PostIgnited_NoTimer == /\ Goto("post", "idle")
                       /\ UNCHANGED <<pin, active, armed, callback, request>>

\* EVENT_ENGINE_IGNITED goes to the dispatcher's queue (FlightCore!Ignite).
PostIgnited == /\ Goto("post", "stop_timer")
               /\ UNCHANGED <<pin, active, armed, callback, request>>

\* start_ignition_timer: esp_timer_stop, whose result is not looked at ...
StopTimer == /\ Goto("stop_timer", "start_timer")
             /\ armed' = FALSE
             /\ UNCHANGED <<pin, active, callback, request>>

\* Slip: the missing else of handle_ignition, control falls into the disable branch.
StartTimer_NoElse == /\ Goto("start_timer", "cancel_timer")
                     /\ armed' = TRUE
                     /\ UNCHANGED <<pin, active, callback, request>>

\* ... then esp_timer_start_once, on a timer that is not running.
StartTimer == /\ Goto("start_timer", "idle")
              /\ armed' = TRUE
              /\ UNCHANGED <<pin, active, callback, request>>

\* Slip: the timer is left running when the relay is switched off by command.
CancelTimer_LeftRunning == /\ Goto("cancel_timer", "test_off")
                           /\ UNCHANGED <<pin, active, armed, callback, request>>

\* stop_ignition_and_timer.
CancelTimer == /\ Goto("cancel_timer", "test_off")
               /\ armed' = FALSE
               /\ UNCHANGED <<pin, active, callback, request>>

TestOff == /\ Goto("test_off", IF active THEN "pin_off" ELSE "idle")
           /\ UNCHANGED <<pin, active, armed, callback, request>>

PinOff == /\ Goto("pin_off", "clear")
          /\ pin' = FALSE
          /\ UNCHANGED <<active, armed, callback, request>>

ClearActive == /\ Goto("clear", "idle")
               /\ active' = FALSE
               /\ UNCHANGED <<pin, armed, callback, request>>

HandlerTask == \/ TestOn \/ PinOn \/ SetActive \/ PostIgnited \/ StopTimer \/ StartTimer
               \/ CancelTimer \/ TestOff \/ PinOff \/ ClearActive

-----------------------------------------------------------------------------

Next == TimerTask \/ (\E r \in {"enable", "disable"} : Command(r)) \/ HandlerTask

Spec == Init /\ [][Next]_vars

\* Both tasks are scheduled and an armed timer expires; commands need not come.
FairSpec == Spec /\ WF_vars(TimerTask) /\ WF_vars(HandlerTask)

-----------------------------------------------------------------------------

\* The branch the handler is in is the one its request chose.
TypeOK == /\ pin \in BOOLEAN /\ active \in BOOLEAN /\ armed \in BOOLEAN
          /\ callback \in CallbackStep
          /\ request \in {"enable", "disable"}
          /\ handler \in {"idle"} \union (IF request = "enable" THEN EnableStep ELSE DisableStep)

\* Whenever the last request is an enable that has been handled and the relay is
\* on, something is going to switch it off: the timer, or a callback that has not
\* reached the pin yet.  (the promise of the auto-shutdown timer, whatever races
\* between callback and handler came before)
EnableIsTimed == handler = "idle" /\ request = "enable" /\ pin
                   => armed \/ callback = "pin_off"

\* No timer survives a handled disable request, to cut a later ignition short.
NoTimerAfterDisable == handler = "idle" /\ request = "disable" => ~armed

\* What the file's header says of a disable request: "the timer is cancelled and the
\* relay is turned off".  The code does not keep this: a callback already dispatched
\* can clear the flag after a later enable has driven the pin, and the disable
\* request, which looks at the flag, then leaves the pin alone.
DisableTurnsOff == handler = "idle" /\ request = "disable" => ~pin

\* Auto-shutdown: when requests stop coming and the last one is an enable, the relay
\* goes off and stays off.
AutoShutOff == <>[](handler = "idle" /\ request = "enable") => <>[](~pin)
=============================================================================
