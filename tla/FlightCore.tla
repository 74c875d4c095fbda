------------------------------ MODULE FlightCore ------------------------------
(***************************************************************************)
(* The avionics core at run time: the bounded event queue and dispatcher   *)
(* task of core/src/event_dispatcher.c, the transition engine of           *)
(* core/src/state_manager.c which that task runs, and the command router   *)
(* of core/src/command_router.c, locked, through which the engine acts.    *)
(*                                                                         *)
(* Any number of service tasks and interrupts post events; one task takes  *)
(* them out.  It handles one event as a sequence of steps, with posts in   *)
(* between: it takes the event, absorbs it in the context and selects the  *)
(* rule (Receive); executes the rule's commands one by one (Execute,       *)
(* Forward, Ignite); stores the next state (Finish).  Context and state    *)
(* are touched by this task alone.                                         *)
(***************************************************************************)
EXTENDS FlightTable

CONSTANTS QueueLength,   \* EVENT_QUEUE_LENGTH
          Registered,    \* commands with a handler when the router was locked
          Inputs         \* events the producers may post

ASSUME CoreAssumption == /\ QueueLength \in Nat \ {0}
                         /\ Registered \subseteq Command
                         /\ Inputs \subseteq Event

VARIABLES started,     \* s_started
          queue,       \* s_event_queue
          ctx,         \* s_ctx
          state,       \* s_current_state
          hand,        \* the event the task is processing, or Nothing
          todo,        \* commands of the matched rule still to be executed
          next,        \* next_state of the matched rule
          commanded,   \* what the executed commands have told the vehicle to run
          deploys      \* how often a rule executed COMMAND_DEPLOY_PARACHUTE

vars == <<started, queue, ctx, state, hand, todo, next, commanded, deploys>>
task == <<hand, todo, next>>

Nothing == [id |-> "none", data |-> "none"]

Facility == {"logging", "telemetry", "gimbal", "parachute"}

Engages(c) == CASE c = "START_LOGGING"         -> {"logging"}
                [] c = "START_TELEMETRY"       -> {"telemetry"}
                [] c = "ENABLE_GIMBAL_CONTROL" -> {"gimbal"}
                [] c = "ARM_PARACHUTE"         -> {"parachute"}
                [] OTHER                       -> {}

Releases(c) == CASE c = "STOP_LOGGING"        -> {"logging"}
                 [] c = "STOP_TELEMETRY"      -> {"telemetry"}
                 [] c = "STOP_GIMBAL_CONTROL" -> {"gimbal"}
                 [] c = "DEPLOY_PARACHUTE"    -> {"parachute"}
                 [] OTHER                     -> {}

-----------------------------------------------------------------------------

Init == /\ started = FALSE
        /\ queue = << >>
        /\ ctx = InitialContext
        /\ state = "INIT"
        /\ hand = Nothing
        /\ todo = << >>
        /\ next = ANY
        /\ commanded = {}
        /\ deploys = 0

\* event_dispatcher_start, the last step of app_main's boot sequence.
Start == /\ ~started
         /\ started' = TRUE
         /\ UNCHANGED <<queue, ctx, state, task, commanded, deploys>>

\* Slip: the queue is taken to be unbounded.
Offer_Unbounded(e) == Append(queue, e)

\* xQueueSend with a zero timeout: the event is dropped when the queue is full.
Offer(e) == IF Len(queue) < QueueLength THEN Append(queue, e) ELSE queue

\* event_dispatcher_post and event_dispatcher_post_from_isr; they refuse the
\* event before the dispatcher is started.
Post(e) == /\ started
           /\ queue' = Offer(e)
           /\ UNCHANGED <<started, ctx, state, task, commanded, deploys>>

\* Slips: the table is scanned before the context is updated; the next state is
\* stored before the batch is executed.
Receive_ScanFirst ==
  /\ started
  /\ hand = Nothing
  /\ queue # << >>
  /\ hand' = Head(queue)
  /\ queue' = Tail(queue)
  /\ ctx' = Absorb(ctx, hand')
  /\ IF Matching(state, hand', ctx) = {}
     THEN /\ todo' = Unmatched(hand')
          /\ next' = ANY
     ELSE LET rule == Table[FirstMatch(state, hand', ctx)]
          IN  /\ todo' = rule.batch
              /\ next' = rule.to
  /\ UNCHANGED <<started, state, commanded, deploys>>

Receive_StateFirst ==
  /\ started
  /\ hand = Nothing
  /\ queue # << >>
  /\ hand' = Head(queue)
  /\ queue' = Tail(queue)
  /\ ctx' = Absorb(ctx, hand')
  /\ IF Matching(state, hand', ctx') = {}
     THEN /\ todo' = Unmatched(hand')
          /\ next' = ANY
          /\ UNCHANGED state
     ELSE LET rule == Table[FirstMatch(state, hand', ctx')]
          IN  /\ todo' = rule.batch
              /\ next' = rule.to
              /\ state' = IF rule.to = ANY THEN state ELSE rule.to
  /\ UNCHANGED <<started, commanded, deploys>>

\* The task takes the oldest event; state_manager_process_event absorbs it,
\* reads the state and scans the table, in this order.
Receive ==
  /\ started
  /\ hand = Nothing
  /\ queue # << >>
  /\ hand' = Head(queue)
  /\ queue' = Tail(queue)
  /\ ctx' = Absorb(ctx, hand')
  /\ IF Matching(state, hand', ctx') = {}
     THEN /\ todo' = Unmatched(hand')
          /\ next' = ANY
     ELSE LET rule == Table[FirstMatch(state, hand', ctx')]
          IN  /\ todo' = rule.batch
              /\ next' = rule.to
  /\ UNCHANGED <<started, state, commanded, deploys>>

\* Slip: a command without a handler ends the batch.
Execute_StopAtMissing ==
  /\ todo # << >>
  /\ Head(todo) \notin {"PROCESS_ROCKET_COMMAND", "IGNITION"} \intersect Registered
  /\ todo' = IF Head(todo) \in Registered THEN Tail(todo) ELSE << >>
  /\ IF hand.id = "NETWORK_MESSAGE_RECEIVED"
     THEN UNCHANGED <<commanded, deploys>>
     ELSE /\ commanded' = (commanded \union Engages(Head(todo))) \ Releases(Head(todo))
          /\ deploys' = IF Head(todo) = "DEPLOY_PARACHUTE" THEN deploys + 1 ELSE deploys
  /\ UNCHANGED <<started, queue, ctx, state, hand, next>>

\* execute_command_batch hands one command to command_router_execute.  A missing
\* handler (NOT_FOUND) or a handler's error is logged and the batch goes on.
Execute ==
  /\ todo # << >>
  /\ Head(todo) \notin {"PROCESS_ROCKET_COMMAND", "IGNITION"} \intersect Registered
  /\ todo' = Tail(todo)
  /\ IF hand.id = "NETWORK_MESSAGE_RECEIVED"
     THEN UNCHANGED <<commanded, deploys>>
     ELSE /\ commanded' = (commanded \union Engages(Head(todo))) \ Releases(Head(todo))
          /\ deploys' = IF Head(todo) = "DEPLOY_PARACHUTE" THEN deploys + 1 ELSE deploys
  /\ UNCHANGED <<started, queue, ctx, state, hand, next>>

\* The rocket command handler calls command_router_execute from inside its own
\* execution, with the command the ground message names.
Forward ==
  /\ todo # << >>
  /\ Head(todo) = "PROCESS_ROCKET_COMMAND"
  /\ Head(todo) \in Registered
  /\ todo' = Translate(hand.data) \o Tail(todo)
  /\ UNCHANGED <<started, queue, ctx, state, hand, next, commanded, deploys>>

\* The ignition handler, running in the dispatcher task, posts EVENT_ENGINE_IGNITED
\* to that task's own queue when it switches the relay on (module IgnitionRelay).
Ignite ==
  /\ todo # << >>
  /\ Head(todo) = "IGNITION"
  /\ Head(todo) \in Registered
  /\ todo' = Tail(todo)
  /\ queue' \in {queue, Offer(Plain("ENGINE_IGNITED"))}
  /\ UNCHANGED <<started, ctx, state, hand, next, commanded, deploys>>

\* Slip: the abort rule leaves the state alone.
Finish_AbortNotStored ==
  /\ hand # Nothing
  /\ todo = << >>
  /\ state' = IF next \in {ANY, "ERROR"} THEN state ELSE next
  /\ hand' = Nothing
  /\ next' = ANY
  /\ UNCHANGED <<started, queue, ctx, todo, commanded, deploys>>

\* The batch is done: only now is the next state stored.
Finish ==
  /\ hand # Nothing
  /\ todo = << >>
  /\ state' = IF next = ANY THEN state ELSE next
  /\ hand' = Nothing
  /\ next' = ANY
  /\ UNCHANGED <<started, queue, ctx, todo, commanded, deploys>>

Dispatcher == Receive \/ Execute \/ Forward \/ Ignite \/ Finish

Next == Start \/ (\E e \in Inputs : Post(e)) \/ Dispatcher

Spec == Init /\ [][Next]_vars

\* The dispatcher task has the highest priority on its core, its handlers return,
\* and no step of it waits for anything but an empty queue.
FairSpec == Spec /\ WF_vars(Dispatcher)

-----------------------------------------------------------------------------
(* Invariants.                                                             *)

TypeOK == /\ started \in BOOLEAN
          /\ queue \in Seq(Event)
          /\ Len(queue) <= QueueLength
          /\ ctx \in Context
          /\ state \in State
          /\ hand \in Event \union {Nothing}
          /\ todo \in Seq(Command)
          /\ next \in State \union {ANY}
          /\ commanded \subseteq Facility
          /\ deploys \in Nat

Waiting == hand = Nothing

\* The rule that leads to `target` has been selected and its batch is under way.
EnRouteTo(target) == hand # Nothing /\ next = target

\* The flight logic fires the parachute at most once, and exactly once on every
\* flight that got past apogee: never before, never again after an abort.
\* (rule ASCENT -> DESCENT; a rule's commands run before the state changes)
ParachuteOnce ==
  /\ deploys <= 1
  /\ deploys = 1 => \/ state \in {"DESCENT", "LANDED", "ERROR"}
                    \/ EnRouteTo("DESCENT") /\ "DEPLOY_PARACHUTE" \notin {todo[i] : i \in DOMAIN todo}
  /\ state \in {"DESCENT", "LANDED"} => deploys = 1

InStep == /\ "gimbal" \in commanded <=> state = "ASCENT"
          /\ state \in {"IDLE", "ARMED", "ASCENT", "DESCENT"} => {"logging", "telemetry"} \subseteq commanded
          /\ state \in {"INIT", "LANDED"} => commanded = {}
          /\ state \in {"ARMED", "ASCENT"} => "parachute" \in commanded
          /\ state = "DESCENT" => "parachute" \notin commanded

\* Between events the gimbal has been told to run exactly in ASCENT, logging and
\* telemetry are running from IDLE until landing, and the parachute is armed from
\* ARMED until it is fired: every rule out of a state, the abort included, undoes
\* what entering the state commanded (an abort leaves the recorders as they were).
CommandsMatchState == Waiting => InStep

\* Between events the core is in ERROR exactly when some sensor has failed.
FaultMeansError == Waiting => (ctx.fault <=> state = "ERROR")

\* A flight decision rests on the readings as they are after the event that
\* triggered it, all of them valid.
DecisionOnCurrentData ==
  LET Valid(class) == [class |-> class, valid |-> TRUE]
  IN  /\ EnRouteTo("ASCENT")  => hand.data = Valid("boost") /\ ctx.vel = Valid("climb")
      /\ EnRouteTo("DESCENT") => hand.data = Valid("sink")  /\ ctx.alt = Valid("high")
      /\ EnRouteTo("LANDED")  => /\ hand.data = Valid("low")
                                 /\ ctx.vel = Valid("still")
                                 /\ ctx.acc = Valid("quiet")

-----------------------------------------------------------------------------
(* Action properties.                                                      *)

StaysAborted == ctx.fault => /\ deploys' = deploys
                             /\ "gimbal" \in commanded' => "gimbal" \in commanded

\* Once a failure has been absorbed no rule ever deploys the parachute or drives
\* the gimbal again: the abort is final.
AbortIsFinal == [][StaysAborted]_vars

-----------------------------------------------------------------------------
(* Refinement.                                                             *)

Queued(id) == \E i \in DOMAIN queue : queue[i].id = id

M == INSTANCE Mission WITH
       phase   <- state,
       chute   <- IF deploys = 0 THEN "stowed" ELSE "fired",
       failing <- hand.id = "SENSOR_FAILURE" \/ Queued("SENSOR_FAILURE")

\* The core implements the mission: phases in order and never back, the parachute
\* fired once and before DESCENT is stored, and every sensor failure that made it
\* into the queue eventually stored as ERROR, whatever is posted around it.
MissionSpec == M!Spec
=============================================================================
