---------------------------- MODULE LoadcellProofs ----------------------------
(***************************************************************************)
(* The load cell service for every window, number of pulses and of         *)
(* attempts, with the sampling task deleted at any point.                  *)
(***************************************************************************)
EXTENDS Loadcell, TLAPS

USE LoadcellAssumption

\* Who may be there, by what the commander is at.
Tracked == /\ \A s \in Tasks : at[s] # "absent" => task = s /\ (running \/ at[Commander] = "stopping")
           /\ running => task \in Tasks /\ at[Commander] # "stopping"
           /\ at[Commander] = "stopping" => task \in Tasks
           /\ at[Commander] \in {"booting", "starting"} => ~started
           /\ ~started => ~running /\ at[Commander] # "stopping"

\* The buffer is full, or filled as far as the index; the count never runs ahead.
Full == Slot \subseteq written
Filled == /\ Full \/ (0..(index - 1) \subseteq written /\ filled <= index)
          /\ \A s \in Tasks : /\ at[s] = "advance" => index \in written
                              /\ at[s] = "count" => Full \/ filled < index
                              /\ at[s] = "average" /\ Window > 1 => filled >= 1

\* A read that is under way has an attempt, and within it a pulse, to go.
Counted == \A r \in Reader : /\ at[r] = "wait" => attempt[r] < Attempts
                             /\ at[r] \in {"low", "high"} => pulse[r] < Pulses

IInv == TypeOK /\ Counted /\ Tracked /\ Filled /\ ClockRests

LEMMA NextIndex ==
  ASSUME NEW i \in Slot
  PROVE  (i + 1) % Window = IF i + 1 = Window THEN 0 ELSE i + 1
BY DEF Slot

\* Of two sampling tasks one is absent.
LEMMA Sole ==
  ASSUME Tracked, NEW s \in Tasks, NEW t \in Tasks, at[s] # "absent", at[t] # "absent"
  PROVE  s = t
BY DEF Tracked

LEMMA Initial == Init => IInv
<1> SUFFICES ASSUME Init PROVE IInv
  OBVIOUS
<1>1. TypeOK
  <2>1. AtBoot \in [Reader -> Place]
    BY DEF AtBoot, Place
  <2>2. [r \in Reader |-> 0] \in [Reader -> 0..Attempts] /\ [r \in Reader |-> 0] \in [Reader -> 0..Pulses]
    OBVIOUS
  <2>3. 0 \in Slot /\ 0 \in 0..Window
    BY DEF Slot
  <2> QED
    BY <2>1, <2>2, <2>3 DEF Init, TypeOK
<1>2. Tracked
  BY DEF Init, AtBoot, Tracked, Reader
<1>3. Filled
  BY DEF Init, AtBoot, Filled, Reader
<1>4. ClockRests
  BY DEF Init, ClockRests
<1>5. Counted
  BY DEF Init, AtBoot, Counted
<1> QED
  BY <1>1, <1>2, <1>3, <1>4, <1>5 DEF IInv

-----------------------------------------------------------------------------
(* Reading, in either task: it touches neither the service's state nor     *)
(* the filter's, and ends outside update_filter or at its beginning.       *)

LEMMA BeginReadKeeps ==
  ASSUME TypeOK, Counted, ClockRests, NEW r \in Reader, at[r] # "high", BeginRead(r)
  PROVE  TypeOK' /\ Counted' /\ ClockRests'
<1>1. TypeOK'
  BY DEF TypeOK, BeginRead, Go, Place, Reading, service, filter, line
<1>2. Counted'
  BY DEF TypeOK, Counted, BeginRead, Go
<1>3. ClockRests'
  BY DEF TypeOK, ClockRests, BeginRead, Go, line
<1> QED
  BY <1>1, <1>2, <1>3

LEMMA ReadKeeps ==
  ASSUME TypeOK, Counted, ClockRests, NEW r \in Reader,
         NEW done \in Filtering \union {"idle", "starting"},
         NEW failed \in {"loop", "idle", "down"},
         Read(r, done, failed)
  PROVE  TypeOK' /\ Counted' /\ ClockRests'
<1>1. CASE DataReady(r)
  <2>1. TypeOK'
    BY <1>1 DEF TypeOK, DataReady, Go, Place, Reading, service, filter, line
  <2>2. Counted' /\ ClockRests'
    BY <1>1 DEF TypeOK, Counted, ClockRests, DataReady, Go, line
  <2> QED
    BY <2>1, <2>2
<1>2. CASE NotReady(r, failed)
  <2>1. attempt[r] + 1 \in 0..Attempts /\ failed \in Place
    BY <1>2 DEF TypeOK, Counted, NotReady, Place
  <2>2. TypeOK'
    BY <1>2, <2>1 DEF TypeOK, NotReady, Go, service, filter, line
  <2>3. Counted' /\ ClockRests'
    BY <1>2 DEF TypeOK, Counted, ClockRests, NotReady, Go, line
  <2> QED
    BY <2>2, <2>3
<1>3. CASE Raise(r)
  <2>1. TypeOK'
    BY <1>3 DEF TypeOK, Raise, Go, Place, Reading, locals, service, filter
  <2>2. Counted' /\ ClockRests'
    BY <1>3 DEF TypeOK, Counted, ClockRests, Raise, Go, locals
  <2> QED
    BY <2>1, <2>2
<1>4. CASE Lower(r, done)
  <2>1. pulse[r] + 1 \in 0..Pulses /\ done \in Place
    BY <1>4 DEF TypeOK, Counted, Lower, Place
  <2>2. TypeOK'
    BY <1>4, <2>1 DEF TypeOK, Lower, Go, Place, Reading, service, filter
  <2>3. Counted' /\ ClockRests'
    BY <1>4 DEF TypeOK, Counted, ClockRests, Lower, Go, Filtering
  <2> QED
    BY <2>2, <2>3
<1> QED
  BY <1>1, <1>2, <1>3, <1>4 DEF Read

LEMMA ReadMoves ==
  ASSUME TypeOK, NEW r \in Reader, NEW done, NEW failed, Read(r, done, failed)
  PROVE  /\ at[r] \in Reading
         /\ \E p \in Reading \union {done, failed} : at' = [at EXCEPT ![r] = p]
         /\ UNCHANGED <<service, filter>>
<1>1. CASE DataReady(r)
  BY <1>1 DEF DataReady, Go, Reading
<1>2. CASE NotReady(r, failed)
  <2>1. at' = [at EXCEPT ![r] = "wait"] \/ at' = [at EXCEPT ![r] = failed]
    BY <1>2 DEF NotReady, Go, TypeOK
  <2> QED
    BY <1>2, <2>1 DEF NotReady, Reading
<1>3. CASE Raise(r)
  BY <1>3 DEF Raise, Go, Reading
<1>4. CASE Lower(r, done)
  BY <1>4 DEF Lower, Go, Reading
<1> QED
  BY <1>1, <1>2, <1>3, <1>4 DEF Read
-----------------------------------------------------------------------------
(* What a move of one task leaves of the invariant.                        *)

\* The commander, reading: the sampling task and its filter notice nothing.
LEMMA CommanderReads ==
  ASSUME IInv, CalibrationRead
  PROVE  IInv'
<1> DEFINE done == IF started THEN "idle" ELSE "starting"
           failed == IF started THEN "idle" ELSE "down"
<1>1. Commander \in Reader /\ done \in Filtering \union {"idle", "starting"}
      /\ failed \in {"loop", "idle", "down"}
  BY DEF Reader
<1>2. TypeOK' /\ Counted' /\ ClockRests'
  BY <1>1, ReadKeeps DEF IInv, CalibrationRead
<1>3. /\ at[Commander] \in Reading
      /\ \E p \in Reading \union {done, failed} : at' = [at EXCEPT ![Commander] = p]
      /\ UNCHANGED <<service, filter>>
  BY <1>1, ReadMoves DEF IInv, CalibrationRead
<1>4. Tracked'
  BY <1>1, <1>3 DEF IInv, TypeOK, Tracked, service, Reading
<1>5. Filled'
  BY <1>1, <1>3 DEF IInv, TypeOK, Filled, Full, filter, Slot
<1> QED
  BY <1>2, <1>4, <1>5 DEF IInv

\* A sampling task that goes elsewhere without touching the filter.
LEMMA SamplerMoves ==
  ASSUME IInv, NEW s \in Tasks, NEW p, at[s] # "absent",
         p \notin {"advance", "count"}, Window > 1 => p # "average",
         at' = [at EXCEPT ![s] = p], UNCHANGED <<service, filter>>
  PROVE  Tracked' /\ Filled'
<1>1. s \in Reader /\ s # Commander /\ Commander \in Reader
  BY DEF Reader
<1>2. Tracked'
  BY <1>1 DEF IInv, TypeOK, Tracked, service
<1>3. Filled'
  BY <1>1 DEF IInv, TypeOK, Filled, Full, filter, Slot, Reader
<1> QED
  BY <1>2, <1>3

LEMMA SamplerReads ==
  ASSUME IInv, NEW s \in Tasks, Read(s, IF Window > 1 THEN "store" ELSE "average", "loop")
  PROVE  IInv'
<1> DEFINE done == IF Window > 1 THEN "store" ELSE "average"
<1>1. s \in Reader /\ done \in Filtering \union {"idle", "starting"}
      /\ "loop" \in {"loop", "idle", "down"}
  BY DEF Reader, Filtering
<1>2. TypeOK' /\ Counted' /\ ClockRests'
  BY <1>1, ReadKeeps DEF IInv
<1>3. /\ at[s] \in Reading
      /\ \E p \in Reading \union {done, "loop"} : at' = [at EXCEPT ![s] = p]
      /\ UNCHANGED <<service, filter>>
  BY <1>1, ReadMoves DEF IInv
<1>4. Tracked' /\ Filled'
  BY <1>3, SamplerMoves DEF Reading
<1> QED
  BY <1>2, <1>4 DEF IInv

\* Within the filter, and around the loop, no read is disturbed.
LEMMA StepKeepsReads ==
  ASSUME IInv, NEW r \in Reader, NEW p, p \notin Reading, at[r] \notin Reading,
         at' = [at EXCEPT ![r] = p], UNCHANGED <<locals, line>>
  PROVE  Counted' /\ ClockRests'
BY DEF IInv, TypeOK, Counted, ClockRests, Reading, locals, line

LEMMA FilterSteps ==
  ASSUME IInv, NEW s \in Tasks, Store(s) \/ Advance(s) \/ Count(s)
  PROVE  IInv'
<1>1. s \in Reader /\ s # Commander /\ Commander \in Reader
  BY DEF Reader
<1>2. \A t \in Tasks : t # s => at[t] = "absent"
  BY Sole DEF IInv, Store, Advance, Count
<1>3. \E p \in {"advance", "count", "average"} : at' = [at EXCEPT ![s] = p]
  BY DEF Store, Advance, Count, Go
<1>4. at[s] \in {"store", "advance", "count"} /\ UNCHANGED <<locals, service, line>>
  BY DEF Store, Advance, Count
<1>5. Counted' /\ ClockRests'
  BY <1>1, <1>3, <1>4, StepKeepsReads DEF Reading
<1>6. Tracked'
  BY <1>1, <1>3, <1>4 DEF IInv, TypeOK, Tracked, service
<1>7. at' \in [Reader -> Place]
  BY <1>3 DEF IInv, TypeOK, Place, Filtering
<1>8. CASE Store(s)
  <2>1. TypeOK'
    BY <1>4, <1>7, <1>8 DEF IInv, TypeOK, Store, locals, service, line
  <2>2. Filled'
    BY <1>1, <1>2, <1>8 DEF IInv, TypeOK, Filled, Full, Store, Go, Slot, Reader
  <2> QED
    BY <1>5, <1>6, <2>1, <2>2 DEF IInv
<1>9. CASE Advance(s)
  <2>1. index' = IF index + 1 = Window THEN 0 ELSE index + 1
    BY <1>9, NextIndex DEF IInv, TypeOK, Advance
  <2>2. TypeOK'
    BY <1>4, <1>7, <1>9, <2>1 DEF IInv, TypeOK, Advance, locals, service, line, Slot
  <2>3. index \in written
    BY <1>9 DEF IInv, Filled, Advance
  <2>4. CASE index + 1 = Window
    <3>1. Full'
      BY <1>9, <2>3, <2>4 DEF IInv, TypeOK, Filled, Full, Advance, Slot
    <3>2. Filled'
      BY <1>1, <1>2, <1>9, <3>1 DEF IInv, TypeOK, Filled, Advance, Go, Reader
    <3> QED
      BY <1>5, <1>6, <2>2, <3>2 DEF IInv
  <2>5. CASE index + 1 # Window
    <3>1. Full \/ (0..(index' - 1) \subseteq written /\ filled < index')
      BY <1>9, <2>1, <2>3, <2>5 DEF IInv, TypeOK, Filled, Full, Advance, Slot
    <3>2. Filled'
      BY <1>1, <1>2, <1>9, <2>2, <3>1 DEF IInv, TypeOK, Filled, Full, Advance, Go, Reader, Slot
    <3> QED
      BY <1>5, <1>6, <2>2, <3>2 DEF IInv
  <2> QED
    BY <2>4, <2>5
<1>10. CASE Count(s)
  <2>1. TypeOK'
    BY <1>4, <1>7, <1>10 DEF IInv, TypeOK, Count, locals, service, line
  <2>2. Full \/ filled < index
    BY <1>10 DEF IInv, Filled, Count
  <2>3. filled' >= 1 /\ (Full' \/ filled' <= index')
    BY <1>10, <2>2 DEF IInv, TypeOK, Full, Count, Slot
  <2>4. Filled'
    BY <1>1, <1>2, <1>10, <2>3 DEF IInv, TypeOK, Filled, Full, Count, Go, Reader, Slot
  <2> QED
    BY <1>5, <1>6, <2>1, <2>4 DEF IInv
<1> QED
  BY <1>8, <1>9, <1>10

LEMMA SamplingSteps ==
  ASSUME IInv, NEW s \in Tasks, SamplingTask(s)
  PROVE  IInv'
<1>1. s \in Reader /\ s # Commander
  BY DEF Reader
<1>2. CASE Sample(s)
  <2>1. at' = [at EXCEPT ![s] = "wait"] /\ UNCHANGED <<service, filter>> /\ at[s] = "loop"
    BY <1>2 DEF Sample, BeginRead, Go
  <2>2. TypeOK' /\ Counted' /\ ClockRests'
    BY <1>1, <1>2, BeginReadKeeps DEF IInv, Sample
  <2> QED
    BY <2>1, <2>2, SamplerMoves DEF IInv
<1>3. CASE Leave(s) \/ Average(s)
  <2>1. /\ \E p \in {"absent", "loop"} : at' = [at EXCEPT ![s] = p]
        /\ UNCHANGED <<locals, service, filter, line>>
        /\ at[s] \in {"loop", "average"}
    BY <1>3 DEF Leave, Average, Go
  <2>2. TypeOK'
    BY <2>1 DEF IInv, TypeOK, Place, locals, service, filter, line
  <2>3. Counted' /\ ClockRests'
    BY <1>1, <2>1, StepKeepsReads DEF Reading
  <2>4. Tracked' /\ Filled'
    BY <2>1, SamplerMoves
  <2> QED
    BY <2>2, <2>3, <2>4 DEF IInv
<1> QED
  BY <1>2, <1>3, SamplerReads, FilterSteps DEF SamplingTask

-----------------------------------------------------------------------------
(* The commands.                                                           *)

\* The commander moves, and nobody else, while the filter rests.
LEMMA CommanderMoves ==
  ASSUME IInv, NEW p \in Place, at' = [at EXCEPT ![Commander] = p], UNCHANGED filter
  PROVE  /\ Filled'
         /\ /\ UNCHANGED service /\ at[Commander] # "stopping"
            /\ p \notin {"stopping", "booting", "starting"}
            => Tracked'
<1>1. Commander \in Reader /\ \A s \in Tasks : s \in Reader /\ at'[s] = at[s]
  BY DEF IInv, TypeOK, Reader
<1>2. Filled'
  BY <1>1 DEF IInv, Filled, Full, filter, Slot
<1>3. ASSUME UNCHANGED service, p \notin {"stopping", "booting", "starting"},
             at[Commander] # "stopping"
      PROVE  Tracked'
  BY <1>1, <1>3 DEF IInv, TypeOK, Tracked, service
<1> QED
  BY <1>2, <1>3

LEMMA CommandSteps ==
  ASSUME IInv, Calibrate \/ StartFails \/ StartSampling \/ StopFlag
  PROVE  IInv'
<1>1. Commander \in Reader /\ \A s \in Tasks : s \in Reader /\ s # Commander
  BY DEF Reader
<1>2. CASE Calibrate
  <2>1. /\ at' = [at EXCEPT ![Commander] = "wait"] /\ UNCHANGED <<service, filter>>
        /\ at[Commander] \in {"booting", "idle"}
    BY <1>2 DEF Calibrate, BeginRead, Go
  <2>2. TypeOK' /\ Counted' /\ ClockRests'
    BY <1>1, <1>2, BeginReadKeeps DEF IInv, Calibrate
  <2>3. "wait" \in Place
    BY DEF Place, Reading
  <2>4. Tracked' /\ Filled'
    BY <2>1, <2>3, CommanderMoves
  <2> QED
    BY <2>2, <2>4 DEF IInv
<1>3. CASE StartFails
  <2>1. TypeOK'
    BY <1>3 DEF IInv, TypeOK, StartFails, Go, Place, locals, service, filter, line
  <2>2. Counted' /\ ClockRests'
    BY <1>1, <1>3, StepKeepsReads DEF StartFails, Go, Reading
  <2>3. "down" \in Place
    BY DEF Place
  <2>4. /\ at' = [at EXCEPT ![Commander] = "down"] /\ UNCHANGED <<service, filter>>
        /\ at[Commander] = "starting"
    BY <1>3 DEF StartFails, Go
  <2>5. Tracked' /\ Filled'
    BY <2>3, <2>4, CommanderMoves
  <2> QED
    BY <2>1, <2>2, <2>5 DEF IInv
<1>4. CASE StopFlag
  <2>1. TypeOK'
    BY <1>4 DEF IInv, TypeOK, StopFlag, Go, Place, locals, filter, line
  <2>2. Counted' /\ ClockRests'
    BY <1>1, <1>4, StepKeepsReads DEF StopFlag, Go, Reading
  <2>3. Filled'
    BY <1>4, CommanderMoves DEF StopFlag, Go, Place
  <2>4. Tracked'
    BY <1>1, <1>4 DEF IInv, TypeOK, Tracked, StopFlag, Go
  <2> QED
    BY <2>1, <2>2, <2>3, <2>4 DEF IInv
<1>5. CASE StartSampling
  <2>1. PICK s \in Tasks : /\ at[s] = "absent"
                           /\ at' = [at EXCEPT ![s] = "loop", ![Commander] = "idle"]
                           /\ task' = s
    BY <1>5 DEF StartSampling
  <2>2. TypeOK'
    BY <1>1, <1>5, <2>1 DEF IInv, TypeOK, StartSampling, Place, locals, filter, line
  <2>3. at'[s] = "loop" /\ at'[Commander] = "idle"
        /\ \A r \in Reader \ {s, Commander} : at'[r] = at[r]
    BY <1>1, <2>1 DEF IInv, TypeOK
  <2>4. at[Commander] \in {"starting", "idle"} /\ UNCHANGED <<locals, filter, line>>
    BY <1>5 DEF StartSampling
  <2>5. Counted' /\ ClockRests'
    BY <1>1, <2>1, <2>3, <2>4 DEF IInv, Counted, ClockRests, locals, line
  <2>6. ~running /\ running' /\ started'
    BY <1>5 DEF IInv, Tracked, StartSampling
  <2>7. \A t \in Tasks : at[t] = "absent"
    BY <2>4, <2>6 DEF IInv, Tracked
  <2>8. Tracked'
    BY <1>1, <2>1, <2>3, <2>6, <2>7 DEF Tracked
  <2>9. Filled'
    BY <1>1, <2>3, <2>4 DEF IInv, Filled, Full, filter, Slot
  <2> QED
    BY <2>2, <2>5, <2>8, <2>9 DEF IInv
<1> QED
  BY <1>2, <1>3, <1>4, <1>5

LEMMA DeleteSteps ==
  ASSUME IInv, Delete \/ DeleteFreed
  PROVE  IInv'
<1>1. /\ task \in Tasks /\ task # Commander /\ task \in Reader /\ Commander \in Reader
      /\ ~running /\ started
  BY DEF IInv, Tracked, Delete, DeleteFreed, Reader
<1>2. /\ at'[task] = "absent" /\ at'[Commander] = "idle" /\ task' = Null
      /\ \A r \in Reader \ {task, Commander} : at'[r] = at[r]
      /\ UNCHANGED <<locals, running, started, filter, clock>>
  BY <1>1 DEF IInv, TypeOK, Delete, DeleteFreed, Go, line
<1>3. TypeOK'
  <2>1. at' \in [Reader -> Place]
    BY <1>1 DEF IInv, TypeOK, Delete, DeleteFreed, Go, Place
  <2>2. cut' \in BOOLEAN
    BY DEF IInv, TypeOK, Delete, DeleteFreed, line
  <2> QED
    BY <1>2, <2>1, <2>2 DEF IInv, TypeOK, locals, filter
<1>4. Counted'
  BY <1>1, <1>2 DEF IInv, Counted, locals
<1>5. ClockRests'
  <2>1. CASE Delete
    <3>1. at[Commander] = "stopping" /\ (cut' <=> cut \/ at[task] = "high")
      BY <2>1 DEF Delete
    <3>2. ASSUME clock' PROVE cut' \/ \E r \in Reader : at'[r] = "high"
      <4>1. cut \/ \E r \in Reader : at[r] = "high"
        BY <1>2, <3>2 DEF IInv, ClockRests
      <4> QED
        BY <1>2, <3>1, <4>1
    <3> QED
      BY <3>2 DEF ClockRests
  <2>2. CASE DeleteFreed
    BY <1>1, <1>2, <2>2 DEF IInv, ClockRests, DeleteFreed, line
  <2> QED
    BY <2>1, <2>2
<1>6. Tracked'
  <2>1. \A s \in Tasks : at'[s] = "absent"
    BY <1>1, <1>2 DEF IInv, Tracked, Reader
  <2> QED
    BY <1>1, <1>2, <2>1 DEF Tracked
<1>7. Filled'
  BY <1>1, <1>2 DEF IInv, Filled, Full, filter, Slot, Reader
<1> QED
  BY <1>3, <1>4, <1>5, <1>6, <1>7 DEF IInv

\* A panic takes everything back to the initial state.
LEMMA RebootStarts == Reboot => IInv'
<1>1. Init' => IInv'
  BY Initial, PTL
<1> QED
  BY <1>1 DEF Reboot, Init, AtBoot

LEMMA Invariance == Spec => []IInv
<1>1. IInv /\ [Next]_vars => IInv'
  <2> SUFFICES ASSUME IInv, [Next]_vars PROVE IInv'
    OBVIOUS
  <2>1. CASE Next
    BY <2>1, SamplingSteps, CommandSteps, CommanderReads, DeleteSteps, RebootStarts
       DEF Next, Finish
  <2>2. CASE UNCHANGED vars
    BY <2>2 DEF IInv, TypeOK, Counted, Tracked, Filled, Full, ClockRests, Slot,
                vars, locals, service, filter, line
  <2> QED
    BY <2>1, <2>2
<1> QED
  BY Initial, <1>1, PTL DEF Spec

-----------------------------------------------------------------------------
(* The theorems.                                                           *)

\* Types, and with them the bounds of the filter's index and count.
THEOREM TypeCorrect == Spec => []TypeOK
<1>1. IInv => TypeOK
  BY DEF IInv
<1> QED
  BY <1>1, Invariance, PTL

\* The moving average never divides by nothing and never reads a slot without a sample,
\* wherever sampling tasks have been deleted before.
THEOREM AveragesAreOfSamples == Spec => []AverageOverSamples
<1>1. IInv => AverageOverSamples
  <2> SUFFICES ASSUME IInv, NEW s \in Tasks, at[s] = "average", Window > 1
               PROVE  filled \in 1..Window /\ 0..(filled - 1) \subseteq written
    BY DEF AverageOverSamples
  <2>1. filled \in 1..Window
    BY DEF IInv, TypeOK, Filled
  <2>2. Full \/ (0..(index - 1) \subseteq written /\ filled <= index)
    BY DEF IInv, Filled
  <2> QED
    BY <2>1, <2>2 DEF IInv, TypeOK, Full, Slot
<1> QED
  BY <1>1, Invariance, PTL

\* Starts and stops never leave two tasks sampling, nor one that nobody stops.
THEOREM OneTaskSamples == Spec => []OneSampler
<1>1. IInv => OneSampler
  BY Sole DEF IInv, OneSampler, Tracked
<1> QED
  BY <1>1, Invariance, PTL

\* Two tasks that pulse one line leave it low, unless one was deleted while it was high.
THEOREM ClockIsReleased == Spec => []ClockRests
<1>1. IInv => ClockRests
  BY DEF IInv
<1> QED
  BY <1>1, Invariance, PTL
-----------------------------------------------------------------------------
(* How long a read lasts.                                                  *)

\* The steps a read has to go at most: attempts, and then two edges for each pulse.
StepsLeft(r) == IF at[r] = "wait" THEN Attempts - attempt[r] + 2 * Pulses
                ELSE IF at[r] = "low" THEN 2 * (Pulses - pulse[r])
                ELSE 2 * (Pulses - pulse[r]) - 1

\* A read that neither ends nor stands still comes nearer to its end.
Advances(r) == at[r] \in Reading /\ at'[r] \in Reading =>
                 \/ at'[r] = at[r] /\ attempt'[r] = attempt[r] /\ pulse'[r] = pulse[r]
                 \/ StepsLeft(r)' < StepsLeft(r)

\* A step of a task that is not reading before, or not after.
LEMMA OneAdvances ==
  ASSUME TypeOK, NEW r \in Reader, NEW p, at' = [at EXCEPT ![r] = p],
         UNCHANGED locals, at[r] \notin Reading \/ p \notin Reading
  PROVE  \A q \in Reader : Advances(q)
  BY DEF TypeOK, Advances, locals

LEMMA ReadAdvances ==
  ASSUME TypeOK, Counted, NEW r \in Reader, NEW done, NEW failed,
         done \notin Reading, failed \notin Reading, Read(r, done, failed)
  PROVE  \A q \in Reader : Advances(q)
<1>1. ASSUME NEW q \in Reader, q # r PROVE Advances(q)
  BY <1>1 DEF TypeOK, Advances, Read, DataReady, NotReady, Raise, Lower, Go, locals
<1>2. Advances(r)
  <2>1. attempt[r] \in Nat /\ pulse[r] \in Nat /\ Pulses \in Nat \ {0} /\ Attempts \in Nat
    BY DEF TypeOK
  <2>2. CASE DataReady(r)
    BY <2>1, <2>2 DEF TypeOK, Counted, Advances, StepsLeft, DataReady, Go
  <2>3. CASE NotReady(r, failed)
    BY <2>1, <2>3 DEF TypeOK, Advances, StepsLeft, NotReady, Go
  <2>4. CASE Raise(r)
    BY <2>1, <2>4 DEF TypeOK, Advances, StepsLeft, Raise, Go, locals
  <2>5. CASE Lower(r, done)
    BY <2>1, <2>5 DEF TypeOK, Advances, StepsLeft, Lower, Go
  <2> QED
    BY <2>2, <2>3, <2>4, <2>5 DEF Read
<1> QED
  BY <1>1, <1>2

LEMMA SamplingAdvances ==
  ASSUME IInv, NEW s \in Tasks, SamplingTask(s)
  PROVE  \A q \in Reader : Advances(q)
<1>1. s \in Reader /\ TypeOK /\ Counted
  BY DEF Reader, IInv
<1>2. CASE Sample(s)
  BY <1>1, <1>2 DEF Sample, BeginRead, Go, Advances, TypeOK, Reading
<1>3. CASE Leave(s) \/ Store(s) \/ Advance(s) \/ Count(s) \/ Average(s)
  <2>1. /\ \E p : at' = [at EXCEPT ![s] = p]
        /\ UNCHANGED locals /\ at[s] \notin Reading
    BY <1>3, Zenon DEF Leave, Store, Advance, Count, Average, Go, Reading
  <2> QED
    BY <1>1, <2>1, OneAdvances
<1>4. CASE Read(s, IF Window > 1 THEN "store" ELSE "average", "loop")
  BY <1>1, <1>4, ReadAdvances DEF Reading
<1> QED
  BY <1>2, <1>3, <1>4 DEF SamplingTask

LEMMA CommanderAdvances ==
  ASSUME IInv, Calibrate \/ StartSampling \/ StopFlag \/ Finish
  PROVE  \A q \in Reader : Advances(q)
<1>1. Commander \in Reader /\ TypeOK /\ Counted /\ Tasks \subseteq Reader
  BY DEF Reader, IInv
<1>2. CASE Calibrate
  BY <1>1, <1>2 DEF Calibrate, BeginRead, Go, Advances, TypeOK, Reading
<1>3. CASE StartSampling \/ Delete
  BY <1>1, <1>3 DEF StartSampling, Delete, Advances, TypeOK, locals, Reading
<1>4. CASE StopFlag \/ StartFails \/ DeleteFreed
  <2>1. /\ \E p : at' = [at EXCEPT ![Commander] = p]
        /\ UNCHANGED locals /\ at[Commander] \notin Reading
    BY <1>4 DEF StopFlag, StartFails, DeleteFreed, Go, Reading
  <2> QED
    BY <1>1, <2>1, OneAdvances
<1>5. CASE CalibrationRead
  BY <1>1, <1>5, ReadAdvances DEF CalibrationRead, Reading
<1>6. CASE Reboot
  BY <1>6 DEF Reboot, AtBoot, Advances, Reading
<1> QED
  BY <1>2, <1>3, <1>4, <1>5, <1>6 DEF Finish

\* A read ends after its attempts and its pulses, whatever level the chip shows and whatever
\* the other task does with the same lines: no step of anybody lengthens it (read_hx711_raw).
THEOREM ReadsAreBounded ==
  Spec => /\ [](\A r \in Reader : at[r] \in Reading =>
                                    StepsLeft(r) \in 1..(Attempts + 2 * Pulses))
          /\ [][\A r \in Reader : Advances(r)]_vars
<1>1. IInv => \A r \in Reader : at[r] \in Reading =>
                                  StepsLeft(r) \in 1..(Attempts + 2 * Pulses)
  <2> SUFFICES ASSUME TypeOK, Counted, NEW r \in Reader, at[r] \in Reading
               PROVE  StepsLeft(r) \in 1..(Attempts + 2 * Pulses)
    BY DEF IInv
  <2>1. /\ attempt[r] \in Nat /\ pulse[r] \in Nat /\ Pulses \in Nat /\ Attempts \in Nat
        /\ at[r] = "wait" => attempt[r] < Attempts
        /\ at[r] \in {"low", "high"} => pulse[r] < Pulses
    BY DEF TypeOK, Counted
  <2> QED
    BY <2>1 DEF StepsLeft, Reading
<1>2. IInv /\ [Next]_vars => [\A r \in Reader : Advances(r)]_vars
  BY SamplingAdvances, CommanderAdvances DEF Next
<1> QED
  BY <1>1, <1>2, Invariance, PTL DEF Spec
=============================================================================
