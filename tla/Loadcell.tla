------------------------------- MODULE Loadcell -------------------------------
(***************************************************************************)
(* The load cell service (services/sensing/loadcell_service) on its driver *)
(* for the HX711 (drivers/sensors/loadcell_driver): the sampling task, and *)
(* the commands, which other tasks execute and which start, stop and       *)
(* disturb it.  There is no lock: both clock the chip, and a stop deletes  *)
(* the sampling task wherever it is.                                       *)
(*                                                                         *)
(* A read is a step for each edge of the clock line.  The chip is external *)
(* and its data line shows any level at any time.  What is read is left    *)
(* out, and with it offset and scale: no decision of the tasks reads them. *)
(***************************************************************************)
EXTENDS Integers

CONSTANTS Window,      \* filter_window_size
          Pulses,      \* of the clock in a read: one for each bit and one more
          Attempts,    \* to find the data line low
          Tasks,       \* what a sampling task's handle may be
          Null,        \* the handle of none
          Commander    \* the task that executes commands: app_main, then the dispatcher's

ASSUME LoadcellAssumption == /\ Window \in Nat \ {0} /\ Pulses \in Nat \ {0}
                             /\ Attempts \in Nat \ {0}
                             /\ Null \notin Tasks /\ Commander \notin Tasks

Reader == Tasks \union {Commander}

VARIABLES at,        \* where each task is
          attempt,   \* attempt, i: the local variables of read_hx711_raw
          pulse,
          running,   \* s_ctx.running
          task,      \* s_ctx.task
          started,   \* loadcell_service_start has returned
          index,     \* filter_index
          filled,    \* filter_count
          written,   \* slots of filter_buffer that a sample has been stored in
          clock,     \* the clock line is high
          cut        \* a task was deleted between two edges and nobody has clocked since

locals == <<attempt, pulse>>
service == <<running, task, started>>
filter == <<index, filled, written>>
line == <<clock, cut>>
vars == <<at, locals, service, filter, line>>

Slot == 0..(Window - 1)

\* Within read_hx711_raw, and within update_filter.
Reading == {"wait", "low", "high"}
Filtering == {"store", "advance", "count", "average"}
Place == Reading \union Filtering \union {"absent", "loop"} \union
         {"booting", "starting", "idle", "stopping", "down"}

\* Calibration is the first thing the service's start does.
AtBoot == [r \in Reader |-> IF r = Commander THEN "booting" ELSE "absent"]

Init == /\ at = AtBoot
        /\ attempt = [r \in Reader |-> 0] /\ pulse = [r \in Reader |-> 0]
        /\ running = FALSE /\ task = Null /\ started = FALSE
        /\ index = 0 /\ filled = 0 /\ written = {}
        /\ clock = FALSE /\ cut = FALSE

Go(r, place) == at' = [at EXCEPT ![r] = place]

-----------------------------------------------------------------------------
(* read_hx711_raw, in whichever task; `done` and `failed` are where it     *)
(* returns to.                                                             *)

BeginRead(r) == /\ Go(r, "wait")
                /\ attempt' = [attempt EXCEPT ![r] = 0]
                /\ UNCHANGED <<pulse, service, filter, line>>

DataReady(r) == /\ at[r] = "wait"
                /\ Go(r, "low")
                /\ pulse' = [pulse EXCEPT ![r] = 0]
                /\ UNCHANGED <<attempt, service, filter, line>>

\* Slip: the read never gives up.
NotReady_Tireless(r, failed) == /\ at[r] = "wait"
                                /\ attempt' = [attempt EXCEPT ![r] = (@ + 1) % Attempts]
                                /\ UNCHANGED <<at, pulse, service, filter, line>>

NotReady(r, failed) == /\ at[r] = "wait"
                       /\ attempt' = [attempt EXCEPT ![r] = @ + 1]
                       /\ IF attempt[r] + 1 < Attempts THEN UNCHANGED at ELSE Go(r, failed)
                       /\ UNCHANGED <<pulse, service, filter, line>>

Raise(r) == /\ at[r] = "low"
            /\ Go(r, "high")
            /\ clock' = TRUE
            /\ UNCHANGED <<locals, service, filter, cut>>

\* Slip: the last pulse is left high.
Lower_NotTheLast(r, done) ==
  /\ at[r] = "high"
  /\ pulse' = [pulse EXCEPT ![r] = @ + 1]
  /\ Go(r, IF pulse[r] + 1 < Pulses THEN "low" ELSE done)
  /\ clock' = (pulse[r] + 1 = Pulses) /\ cut' = FALSE
  /\ UNCHANGED <<attempt, service, filter>>

Lower(r, done) == /\ at[r] = "high"
                  /\ pulse' = [pulse EXCEPT ![r] = @ + 1]
                  /\ Go(r, IF pulse[r] + 1 < Pulses THEN "low" ELSE done)
                  /\ clock' = FALSE /\ cut' = FALSE
                  /\ UNCHANGED <<attempt, service, filter>>

Read(r, done, failed) == DataReady(r) \/ NotReady(r, failed) \/ Raise(r) \/ Lower(r, done)

-----------------------------------------------------------------------------
(* The sampling task.  A window of one has no buffer.                      *)

Sample(s) == /\ at[s] = "loop" /\ running
             /\ BeginRead(s)

Leave(s) == /\ at[s] = "loop" /\ ~running
            /\ Go(s, "absent")
            /\ UNCHANGED <<locals, service, filter, line>>

\* Slip: the index is advanced before the sample is stored.
Store_Next(s) == /\ at[s] = "store"
                 /\ Go(s, "advance")
                 /\ written' = written \union {(index + 1) % Window}
                 /\ UNCHANGED <<locals, service, index, filled, line>>

Store(s) == /\ at[s] = "store"
            /\ Go(s, "advance")
            /\ written' = written \union {index}
            /\ UNCHANGED <<locals, service, index, filled, line>>

\* Slip: one slot more than there is.
Advance_Further(s) == /\ at[s] = "advance"
                      /\ Go(s, "count")
                      /\ index' = (index + 1) % (Window + 1)
                      /\ UNCHANGED <<locals, service, filled, written, line>>

Advance(s) == /\ at[s] = "advance"
              /\ Go(s, "count")
              /\ index' = (index + 1) % Window
              /\ UNCHANGED <<locals, service, filled, written, line>>

Count(s) == /\ at[s] = "count"
            /\ Go(s, "average")
            /\ filled' = IF filled < Window THEN filled + 1 ELSE filled
            /\ UNCHANGED <<locals, service, index, written, line>>

\* The average is posted, from time to time published, and the task sleeps.
Average(s) == /\ at[s] = "average"
              /\ Go(s, "loop")
              /\ UNCHANGED <<locals, service, filter, line>>

SamplingTask(s) == \/ Sample(s) \/ Leave(s)
                   \/ Read(s, IF Window > 1 THEN "store" ELSE "average", "loop")
                   \/ Store(s) \/ Advance(s) \/ Count(s) \/ Average(s)

-----------------------------------------------------------------------------
(* The commands, one at a time, and before them loadcell_service_start:    *)
(* both calibrate, and both start the sampling task.                       *)

Calibrate == /\ at[Commander] \in {"booting", "idle"}
             /\ BeginRead(Commander)

CalibrationRead == Read(Commander, IF started THEN "idle" ELSE "starting",
                                   IF started THEN "idle" ELSE "down")

\* Without the task the service does not start; a command leaves everything as it was.
StartFails == /\ at[Commander] = "starting"
              /\ Go(Commander, "down")
              /\ UNCHANGED <<locals, service, filter, line>>

StartSampling == /\ at[Commander] = "starting" \/ (at[Commander] = "idle" /\ ~running)
                 /\ \E s \in Tasks : /\ at[s] = "absent"
                                     /\ at' = [at EXCEPT ![s] = "loop", ![Commander] = "idle"]
                                     /\ task' = s
                 /\ running' = TRUE /\ started' = TRUE
                 /\ UNCHANGED <<locals, filter, line>>

StopFlag == /\ at[Commander] = "idle" /\ running
            /\ running' = FALSE
            /\ Go(Commander, "stopping")
            /\ UNCHANGED <<locals, task, started, filter, line>>

\* Slip: the task is left to find the flag cleared.
Delete_Trusting == /\ at[Commander] = "stopping"
                   /\ Go(Commander, "idle")
                   /\ task' = Null
                   /\ UNCHANGED <<locals, running, started, filter, line>>

Delete == /\ at[Commander] = "stopping" /\ at[task] # "absent"
          /\ at' = [at EXCEPT ![task] = "absent", ![Commander] = "idle"]
          /\ cut' = (cut \/ at[task] = "high")
          /\ task' = Null
          /\ UNCHANGED <<locals, running, started, filter, clock>>

\* The task has left by itself and the handle names what has been freed: the deletion has
\* no effect, or it destroys something and the firmware panics and starts again.
DeleteFreed == /\ at[Commander] = "stopping" /\ at[task] = "absent"
               /\ Go(Commander, "idle")
               /\ task' = Null
               /\ UNCHANGED <<locals, running, started, filter, line>>

Reboot == /\ at[Commander] = "stopping" /\ at[task] = "absent"
          /\ at' = AtBoot
          /\ attempt' = [r \in Reader |-> 0] /\ pulse' = [r \in Reader |-> 0]
          /\ running' = FALSE /\ task' = Null /\ started' = FALSE
          /\ index' = 0 /\ filled' = 0 /\ written' = {}
          /\ clock' = FALSE /\ cut' = FALSE

\* What the task that executes commands does without being given another.
Finish == CalibrationRead \/ StartFails \/ Delete \/ DeleteFreed \/ Reboot

Next == \/ \E s \in Tasks : SamplingTask(s)
        \/ Calibrate \/ StartSampling \/ StopFlag
        \/ Finish

Spec == Init /\ [][Next]_vars

\* Both tasks are scheduled; no command is assumed to come.
FairSpec == /\ Spec
            /\ WF_vars(Finish)
            /\ \A s \in Tasks : WF_vars(SamplingTask(s))

-----------------------------------------------------------------------------
(* Properties.                                                             *)

TypeOK == /\ at \in [Reader -> Place]
          /\ attempt \in [Reader -> 0..Attempts] /\ pulse \in [Reader -> 0..Pulses]
          /\ running \in BOOLEAN /\ task \in Tasks \union {Null} /\ started \in BOOLEAN
          /\ index \in Slot /\ filled \in 0..Window /\ written \subseteq Slot
          /\ clock \in BOOLEAN /\ cut \in BOOLEAN

\* The average is taken over samples only, at least one, and within the buffer, although a
\* deletion may leave the filter between a store, its index and its count.
AverageOverSamples ==
  (\E s \in Tasks : at[s] = "average") /\ Window > 1 =>
     filled \in 1..Window /\ 0..(filled - 1) \subseteq written

\* No two tasks sample, however starts, stops and the flag follow each other, and none does
\* once a stop is done.
OneSampler == /\ \A s, t \in Tasks : at[s] # "absent" /\ at[t] # "absent" => s = t
              /\ at[Commander] = "idle" /\ ~running => \A s \in Tasks : at[s] = "absent"

\* Both tasks drive one line.  It stays high, which switches the chip off, with nobody there
\* to lower it, only after a deletion in the middle of a pulse.
ClockRests == clock => cut \/ \E r \in Reader : at[r] = "high"

\* No read, and no command with it, waits for a chip for ever.
ReadsEnd == \A r \in Reader : at[r] \in Reading ~> at[r] \notin Reading
=============================================================================
