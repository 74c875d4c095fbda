-------------------------- MODULE FlightCoreProofs --------------------------
(***************************************************************************)
(* Theorems about the avionics core, for every queue length, every set of  *)
(* registered handlers and every set of events the producers post.         *)
(*                                                                         *)
(* The invariants of FlightCore speak of what holds between rules or of    *)
(* the state; what makes them inductive is what holds in the middle of a   *)
(* rule: which rule may be under way in which state, and which of its      *)
(* commands can still be pending.                                          *)
(***************************************************************************)
EXTENDS FlightCore, TLAPS

\* Between events nothing is pending.
Settled == hand = Nothing => todo = << >> /\ next = ANY

\* Only a network message is forwarded to the rocket command service.
GroundOnly == \A i \in DOMAIN todo :
                todo[i] = "PROCESS_ROCKET_COMMAND" => hand.id = "NETWORK_MESSAGE_RECEIVED"

\* A rule that changes the state was selected in the state it starts from, for the
\* event it is about.
RuleUnderWay ==
  /\ next # "INIT"
  /\ next = "IDLE"    => state = "INIT"
  /\ next = "ARMED"   => state = "IDLE"
  /\ next = "ASCENT"  => state = "ARMED"   /\ hand.id = "ACCELERATION_UPDATE"
  /\ next = "DESCENT" => state = "ASCENT"  /\ hand.id = "VELOCITY_UPDATE"
  /\ next = "LANDED"  => state = "DESCENT" /\ hand.id = "ALTITUDE_UPDATE"
  /\ next = "ERROR" <=> hand.id = "SENSOR_FAILURE"

\* A rule has the parachute deployed as the first command on the way to DESCENT
\* and nowhere else, and the gimbal enabled on the way to ASCENT and nowhere else.
DeployPending ==
  hand.id # "NETWORK_MESSAGE_RECEIVED" =>
    \A i \in DOMAIN todo :
      /\ todo[i] = "DEPLOY_PARACHUTE" => i = 1 /\ next = "DESCENT" /\ deploys = 0
      /\ todo[i] = "ENABLE_GIMBAL_CONTROL" => next = "ASCENT"

\* How often the parachute has been fired, by phase.
DeployCount ==
  /\ deploys \in {0, 1}
  /\ state \in {"INIT", "IDLE", "ARMED"} => deploys = 0
  /\ state = "ASCENT" /\ next # "DESCENT" => deploys = 0
  /\ next = "DESCENT" => deploys = 1 \/ (todo # << >> /\ todo[1] = "DEPLOY_PARACHUTE")
  /\ state \in {"DESCENT", "LANDED"} => deploys = 1

\* A fault bit is set exactly from the moment a failure is absorbed.
FaultRecorded == ctx.fault <=> (state = "ERROR" \/ next = "ERROR")

\* A flight decision was taken on a context that holds the event it was taken on.
DecisionTaken ==
  /\ next = "ASCENT"  => LaunchDetected(ctx) /\ ctx.acc = hand.data
  /\ next = "DESCENT" => ApogeeDetected(ctx) /\ ctx.vel = hand.data
  /\ next = "LANDED"  => Landed(ctx) /\ ctx.alt = hand.data

IInv == /\ TypeOK
        /\ Settled
        /\ GroundOnly
        /\ RuleUnderWay
        /\ DeployPending
        /\ DeployCount
        /\ FaultRecorded
        /\ DecisionTaken

-----------------------------------------------------------------------------
(* The table.                                                              *)

\* What every rule of the table has in common, and what is peculiar to the rules that
\* lead to a given state: where they start, on which event and condition, and at
\* which place of which batch the parachute and the gimbal are commanded.
LEMMA RuleFacts ==
  ASSUME NEW i \in 1..10
  PROVE  LET r == Table[i]
         IN  /\ r.to \in (State \union {ANY}) \ {"INIT"}
             /\ r.batch \in Seq(Command)
             /\ r.batch # << >>
             /\ r.on # "NETWORK_MESSAGE_RECEIVED"
             /\ r.to = "IDLE"    => r.from = "INIT"
             /\ r.to = "ARMED"   => r.from = "IDLE"
             /\ r.to = "ASCENT"  => /\ r.from = "ARMED"
                                    /\ r.on = "ACCELERATION_UPDATE"
                                    /\ r.cond = "launch_detected"
             /\ r.to = "DESCENT" => /\ r.from = "ASCENT"
                                    /\ r.on = "VELOCITY_UPDATE"
                                    /\ r.cond = "apogee_detected"
                                    /\ r.batch[1] = "DEPLOY_PARACHUTE"
             /\ r.to = "LANDED"  => /\ r.from = "DESCENT"
                                    /\ r.on = "ALTITUDE_UPDATE"
                                    /\ r.cond = "landed"
             /\ r.to = "ERROR" <=> r.on = "SENSOR_FAILURE"
             /\ \A k \in DOMAIN r.batch :
                  /\ r.batch[k] # "PROCESS_ROCKET_COMMAND"
                  /\ r.batch[k] = "DEPLOY_PARACHUTE" => k = 1 /\ r.to = "DESCENT"
                  /\ r.batch[k] = "ENABLE_GIMBAL_CONTROL" => r.to = "ASCENT"
<1>1. i = 1 \/ i = 2 \/ i = 3 \/ i = 4 \/ i = 5 \/ i = 6 \/ i = 7 \/ i = 8 \/ i = 9 \/ i = 10
  OBVIOUS
<1>2. CASE i = 1
  <2>1. /\ Table[1].from = "INIT" /\ Table[1].on = "SYSTEM_TICK"
        /\ Table[1].cond = "always" /\ Table[1].to = "IDLE"
    BY DEF Table, Rule
  <2>2. Table[1].batch = <<"START_LOGGING", "START_TELEMETRY">>
    BY DEF Table, Rule
  <2> QED
    BY <1>2, <2>1, <2>2 DEF State, ANY, Command
<1>3. CASE i = 2
  <2>1. /\ Table[2].from = "IDLE" /\ Table[2].on = "SYSTEM_TICK"
        /\ Table[2].cond = "always" /\ Table[2].to = "ARMED"
    BY DEF Table, Rule
  <2>2. Table[2].batch = <<"SYSTEM_ARM", "ARM_PARACHUTE">>
    BY DEF Table, Rule
  <2> QED
    BY <1>3, <2>1, <2>2 DEF State, ANY, Command
<1>4. CASE i = 3
  <2>1. /\ Table[3].from = "ARMED" /\ Table[3].on = "ACCELERATION_UPDATE"
        /\ Table[3].cond = "launch_detected" /\ Table[3].to = "ASCENT"
    BY DEF Table, Rule
  <2>2. Table[3].batch = <<"ENABLE_GIMBAL_CONTROL", "SET_GIMBAL_QUATERNION">>
    BY DEF Table, Rule
  <2> QED
    BY <1>4, <2>1, <2>2 DEF State, ANY, Command
<1>5. CASE i = 4
  <2>1. /\ Table[4].from = "ASCENT" /\ Table[4].on = "VELOCITY_UPDATE"
        /\ Table[4].cond = "apogee_detected" /\ Table[4].to = "DESCENT"
    BY DEF Table, Rule
  <2>2. Table[4].batch = <<"DEPLOY_PARACHUTE", "STOP_GIMBAL_CONTROL">>
    BY DEF Table, Rule
  <2> QED
    BY <1>5, <2>1, <2>2 DEF State, ANY, Command
<1>6. CASE i = 5
  <2>1. /\ Table[5].from = "DESCENT" /\ Table[5].on = "ALTITUDE_UPDATE"
        /\ Table[5].cond = "landed" /\ Table[5].to = "LANDED"
    BY DEF Table, Rule
  <2>2. Table[5].batch = <<"STOP_TELEMETRY", "STOP_LOGGING", "FLUSH_STORAGE">>
    BY DEF Table, Rule
  <2> QED
    BY <1>6, <2>1, <2>2 DEF State, ANY, Command
<1>7. CASE i = 6
  <2>1. /\ Table[6].from = ANY /\ Table[6].on = "SENSOR_FAILURE"
        /\ Table[6].cond = "always" /\ Table[6].to = "ERROR"
    BY DEF Table, Rule
  <2>2. Table[6].batch = <<"STOP_GIMBAL_CONTROL", "ABORT_MISSION">>
    BY DEF Table, Rule
  <2> QED
    BY <1>7, <2>1, <2>2 DEF State, ANY, Command
<1>8. CASE i = 7
  <2>1. /\ Table[7].from = ANY /\ Table[7].on = "PERIODIC_TIMER_EXPIRED"
        /\ Table[7].cond = "always" /\ Table[7].to = ANY
    BY DEF Table, Rule
  <2>2. Table[7].batch = <<"READ_ULTRASONIC">>
    BY DEF Table, Rule
  <2> QED
    BY <1>8, <2>1, <2>2 DEF State, ANY, Command
<1>9. CASE i = 8
  <2>1. /\ Table[8].from = ANY /\ Table[8].on = "ULTRASONIC_DATA"
        /\ Table[8].cond = "always" /\ Table[8].to = ANY
    BY DEF Table, Rule
  <2>2. Table[8].batch = <<"LOG_MESSAGE">>
    BY DEF Table, Rule
  <2> QED
    BY <1>9, <2>1, <2>2 DEF State, ANY, Command
<1>10. CASE i = 9
  <2>1. /\ Table[9].from = ANY /\ Table[9].on = "MQTT_CONNECTED"
        /\ Table[9].cond = "always" /\ Table[9].to = ANY
    BY DEF Table, Rule
  <2>2. Table[9].batch = <<"NOTIFY_MQTT_CONNECTED">>
    BY DEF Table, Rule
  <2> QED
    BY <1>10, <2>1, <2>2 DEF State, ANY, Command
<1>11. CASE i = 10
  <2>1. /\ Table[10].from = ANY /\ Table[10].on = "ENGINE_IGNITED"
        /\ Table[10].cond = "always" /\ Table[10].to = ANY
    BY DEF Table, Rule
  <2>2. Table[10].batch = <<"LOG_MESSAGE">>
    BY DEF Table, Rule
  <2> QED
    BY <1>11, <2>1, <2>2 DEF State, ANY, Command
<1> QED
  BY <1>1, <1>2, <1>3, <1>4, <1>5, <1>6, <1>7, <1>8, <1>9, <1>10, <1>11

\* When some rule matches, the first match is one of those that do.
LEMMA FirstMatchMatches ==
  ASSUME NEW s, NEW e, NEW c, Matching(s, e, c) # {}
  PROVE  /\ FirstMatch(s, e, c) \in 1..10
         /\ Matches(Table[FirstMatch(s, e, c)], s, e, c)
<1> DEFINE M1 == Matching(s, e, c)
<1>1. M1 \subseteq 1..10 /\ M1 # {}
  BY DEF Matching
<1>2. \E i \in M1 : \A j \in M1 : i <= j
  <2>1. SUFFICES ASSUME \A i \in M1 : \E j \in M1 : j < i
                 PROVE  FALSE
    BY <1>1
  <2>2. \A i \in 1..3 : i \notin M1
    BY <1>1, <2>1
  <2>3. \A i \in 4..6 : i \notin M1
    BY <1>1, <2>1, <2>2
  <2>4. \A i \in 7..10 : i \notin M1
    BY <1>1, <2>1, <2>2, <2>3
  <2> QED
    BY <1>1, <2>2, <2>3, <2>4
<1>3. FirstMatch(s, e, c) \in M1
  BY <1>2 DEF FirstMatch
<1> QED
  BY <1>3 DEF Matching

\* A sensor failure is matched in every state.
LEMMA FailureMatches ==
  ASSUME NEW s, NEW e, NEW c, e.id = "SENSOR_FAILURE"
  PROVE  Matching(s, e, c) # {}
<1>1. Table[6].from = ANY /\ Table[6].on = "SENSOR_FAILURE" /\ Table[6].cond = "always"
  BY DEF Table, Rule
<1>2. Matches(Table[6], s, e, c)
  BY <1>1 DEF Matches, Holds
<1> QED
  BY <1>2 DEF Matching

\* Absorbing an event yields a context.
LEMMA AbsorbType ==
  ASSUME NEW c \in Context, NEW e \in Event
  PROVE  Absorb(c, e) \in Context
  BY DEF Absorb, Context, Event, PlainEvent, GroundRequest

\* What a ground message is translated to is a sequence of commands, and never again
\* a request to forward it.
LEMMA TranslateType ==
  ASSUME NEW r \in GroundRequest
  PROVE  /\ Translate(r) \in Seq(Command)
         /\ \A i \in DOMAIN Translate(r) : Translate(r)[i] # "PROCESS_ROCKET_COMMAND"
<1>1. CASE r = "rejected"
  <2>1. Translate(r) = << >>
    BY <1>1 DEF Translate
  <2> QED
    BY <2>1
<1>2. CASE r # "rejected"
  <2>1. PICK c \in Command \ {"PROCESS_ROCKET_COMMAND"} : Translate(r) = <<c>>
    BY <1>2 DEF GroundRequest, Translate, Command
  <2> QED
    BY <2>1
<1> QED
  BY <1>1, <1>2

\* A command that no rule needs to be told of is dropped or forwarded: what an event
\* without a rule issues.
LEMMA UnmatchedType ==
  ASSUME NEW e \in Event
  PROVE  /\ Unmatched(e) \in Seq(Command)
         /\ e.id # "NETWORK_MESSAGE_RECEIVED" => Unmatched(e) = << >>
<1>1. <<"PROCESS_ROCKET_COMMAND">> \in Seq(Command)
  BY DEF Command
<1> QED
  BY <1>1 DEF Unmatched

-----------------------------------------------------------------------------
(* The step that takes an event out of the queue.                          *)

\* Receive either selects a rule that matches the absorbed event in the current
\* state, or, for an event that is not a sensor failure, finds none.
LEMMA Received ==
  ASSUME TypeOK, Receive
  PROVE  /\ hand' \in Event
         /\ queue' \in Seq(Event)
         /\ Len(queue') <= QueueLength
         /\ ctx' \in Context
         /\ ctx' = Absorb(ctx, hand')
         /\ \/ /\ hand'.id # "SENSOR_FAILURE"
               /\ todo' = Unmatched(hand')
               /\ next' = ANY
            \/ \E i \in 1..10 : /\ Matches(Table[i], state, hand', ctx')
                                /\ todo' = Table[i].batch
                                /\ next' = Table[i].to
<1>1. hand' \in Event /\ queue' \in Seq(Event) /\ Len(queue') <= QueueLength
  BY CoreAssumption DEF TypeOK, Receive
<1>2. ctx' = Absorb(ctx, hand')
  BY DEF Receive
<1>3. ctx' \in Context
  BY <1>1, <1>2, AbsorbType DEF TypeOK
<1>4. CASE Matching(state, hand', ctx') = {}
  <2>1. hand'.id # "SENSOR_FAILURE"
    BY <1>4, FailureMatches
  <2> QED
    BY <1>1, <1>2, <1>3, <1>4, <2>1 DEF Receive
<1>5. CASE Matching(state, hand', ctx') # {}
  <2> DEFINE i == FirstMatch(state, hand', ctx')
  <2>1. i \in 1..10 /\ Matches(Table[i], state, hand', ctx')
    BY <1>5, FirstMatchMatches
  <2>2. todo' = Table[i].batch /\ next' = Table[i].to
    BY <1>5 DEF Receive
  <2> QED
    BY <1>1, <1>2, <1>3, <2>1, <2>2
<1> QED
  BY <1>4, <1>5

\* Taking the next event preserves the inductive invariant.
LEMMA ReceiveInv == IInv /\ Receive => IInv'
<1> SUFFICES ASSUME IInv, Receive
             PROVE  IInv'
  OBVIOUS
<1> USE DEF IInv
<1>1. /\ hand = Nothing /\ next = ANY /\ hand' \in Event
      /\ UNCHANGED <<started, state, commanded, deploys>>
  BY Received DEF Receive, Settled
<1>2. hand' # Nothing /\ hand.id = "none" /\ "ERROR" # ANY
  BY <1>1 DEF Nothing, Event, PlainEvent, ANY
<1>3. /\ ctx'.fault <=> (ctx.fault \/ hand'.id = "SENSOR_FAILURE")
      /\ hand'.id = "ALTITUDE_UPDATE" => ctx'.alt = hand'.data
      /\ hand'.id = "VELOCITY_UPDATE" => ctx'.vel = hand'.data
      /\ hand'.id = "ACCELERATION_UPDATE" => ctx'.acc = hand'.data
  <2>1. ctx' = Absorb(ctx, hand') /\ ctx.fault \in BOOLEAN
    BY Received DEF TypeOK, Context
  <2> QED
    BY <2>1 DEF Absorb
<1>4. CASE /\ hand'.id # "SENSOR_FAILURE"
           /\ todo' = Unmatched(hand')
           /\ next' = ANY
  <2>1. TypeOK'
    BY <1>1, <1>4, Received, UnmatchedType DEF TypeOK
  <2>2. GroundOnly' /\ DeployPending'
    BY <1>1, <1>4, UnmatchedType DEF GroundOnly, DeployPending
  <2>3. Settled' /\ RuleUnderWay' /\ DeployCount' /\ DecisionTaken'
    BY <1>1, <1>2, <1>4 DEF Settled, RuleUnderWay, DeployCount, DecisionTaken, ANY
  <2>4. FaultRecorded'
    BY <1>1, <1>2, <1>3, <1>4 DEF FaultRecorded
  <2> QED
    BY <2>1, <2>2, <2>3, <2>4
<1>5. ASSUME NEW i \in 1..10,
             Matches(Table[i], state, hand', ctx'),
             todo' = Table[i].batch,
             next' = Table[i].to
      PROVE  IInv'
  <2>1. /\ Table[i].from \in {state, ANY}
        /\ Table[i].on = hand'.id
        /\ Holds(Table[i].cond, ctx')
    BY <1>5 DEF Matches
  <2>2. TypeOK'
    BY <1>1, <1>5, Received, RuleFacts DEF TypeOK
  <2>3. Settled' /\ GroundOnly'
    BY <1>2, <1>5, RuleFacts DEF Settled, GroundOnly
  <2>4. RuleUnderWay'
    BY <1>1, <1>5, <2>1, RuleFacts DEF RuleUnderWay, ANY
  <2>5. DeployCount'
    BY <1>1, <1>5, <2>1, RuleFacts DEF DeployCount, ANY
  <2>6. DeployPending'
    BY <1>1, <1>2, <1>5, <2>1, <2>4, RuleFacts DEF DeployPending, DeployCount, RuleUnderWay, ANY
  <2>7. FaultRecorded'
    BY <1>1, <1>2, <1>3, <1>5, <2>1, RuleFacts DEF FaultRecorded
  <2>8. DecisionTaken'
    BY <1>3, <1>5, <2>1, RuleFacts DEF DecisionTaken, Holds
  <2> QED
    BY <2>2, <2>3, <2>4, <2>5, <2>6, <2>7, <2>8
<1> QED
  BY <1>4, <1>5, Received

-----------------------------------------------------------------------------
(* The other steps.                                                        *)

\* Offering an event to the queue leaves a queue within its bound.
LEMMA OfferType ==
  ASSUME TypeOK, NEW e \in Event
  PROVE  Offer(e) \in Seq(Event) /\ Len(Offer(e)) <= QueueLength
  BY CoreAssumption DEF TypeOK, Offer

\* While commands are pending the task has an event in hand.
LEMMA PendingInHand ==
  ASSUME IInv, todo # << >>
  PROVE  /\ hand \in Event
         /\ hand # Nothing
         /\ Head(todo) = todo[1]
         /\ Tail(todo) \in Seq(Command)
         /\ 1 \in DOMAIN todo
         /\ \A i \in DOMAIN Tail(todo) : i + 1 \in DOMAIN todo /\ Tail(todo)[i] = todo[i + 1]
  BY DEF IInv, TypeOK, Settled

\* Executing one command preserves the inductive invariant.
LEMMA ExecuteInv == IInv /\ Execute => IInv'
<1> SUFFICES ASSUME IInv, Execute
             PROVE  IInv'
  OBVIOUS
<1> USE DEF IInv
<1>1. /\ todo # << >>
      /\ todo' = Tail(todo)
      /\ UNCHANGED <<started, queue, ctx, state, hand, next>>
  BY DEF Execute
<1>2. TypeOK'
  <2>1. Engages(Head(todo)) \subseteq Facility
    BY DEF Engages, Facility
  <2>2. commanded' \subseteq Facility /\ deploys' \in Nat
    BY <2>1 DEF Execute, TypeOK
  <2> QED
    BY <1>1, <2>2, PendingInHand DEF TypeOK
<1>3. Settled' /\ GroundOnly' /\ RuleUnderWay' /\ FaultRecorded' /\ DecisionTaken'
  BY <1>1, PendingInHand
  DEF Settled, GroundOnly, RuleUnderWay, FaultRecorded, DecisionTaken, LaunchDetected,
      ApogeeDetected, Landed, Is
<1>4. CASE hand.id # "NETWORK_MESSAGE_RECEIVED" /\ Head(todo) = "DEPLOY_PARACHUTE"
  <2>1. next = "DESCENT" /\ deploys = 0 /\ deploys' = 1
    BY <1>1, <1>4, PendingInHand DEF DeployPending, Execute
  <2>2. DeployPending'
    BY <1>1, <2>1, PendingInHand DEF DeployPending
  <2>3. DeployCount'
    BY <1>1, <2>1 DEF DeployCount, RuleUnderWay
  <2> QED
    BY <1>2, <1>3, <2>2, <2>3
<1>5. CASE hand.id = "NETWORK_MESSAGE_RECEIVED" \/ Head(todo) # "DEPLOY_PARACHUTE"
  <2>1. deploys' = deploys
    BY <1>5 DEF Execute
  <2>2. DeployPending'
    BY <1>1, <2>1, PendingInHand DEF DeployPending
  <2>3. DeployCount'
    BY <1>1, <1>5, <2>1, PendingInHand DEF DeployCount, RuleUnderWay
  <2> QED
    BY <1>2, <1>3, <2>2, <2>3
<1> QED
  BY <1>4, <1>5

\* Forwarding a ground message preserves the inductive invariant.
LEMMA ForwardInv == IInv /\ Forward => IInv'
<1> SUFFICES ASSUME IInv, Forward
             PROVE  IInv'
  OBVIOUS
<1> USE DEF IInv
<1>1. /\ todo # << >>
      /\ todo' = Translate(hand.data) \o Tail(todo)
      /\ UNCHANGED <<started, queue, ctx, state, hand, next, commanded, deploys>>
  BY DEF Forward
<1>2. hand.id = "NETWORK_MESSAGE_RECEIVED" /\ hand.data \in GroundRequest
  <2>1. hand.id = "NETWORK_MESSAGE_RECEIVED"
    BY PendingInHand DEF Forward, GroundOnly
  <2> QED
    BY <1>1, <2>1, PendingInHand DEF Event, PlainEvent
<1>3. todo' \in Seq(Command)
  BY <1>1, <1>2, TranslateType, PendingInHand
<1>4. TypeOK'
  BY <1>1, <1>3 DEF TypeOK
<1>5. Settled' /\ GroundOnly' /\ DeployPending'
  BY <1>1, <1>2, PendingInHand DEF Settled, GroundOnly, DeployPending
<1>6. RuleUnderWay' /\ FaultRecorded' /\ DecisionTaken'
  BY <1>1 DEF RuleUnderWay, FaultRecorded, DecisionTaken, LaunchDetected, ApogeeDetected,
              Landed, Is
<1>7. DeployCount'
  BY <1>1, <1>2 DEF DeployCount, RuleUnderWay
<1> QED
  BY <1>4, <1>5, <1>6, <1>7

\* Handling an ignition command preserves the inductive invariant.
LEMMA IgniteInv == IInv /\ Ignite => IInv'
<1> SUFFICES ASSUME IInv, Ignite
             PROVE  IInv'
  OBVIOUS
<1> USE DEF IInv
<1>1. /\ todo # << >>
      /\ todo[1] = "IGNITION"
      /\ todo' = Tail(todo)
      /\ UNCHANGED <<started, ctx, state, hand, next, commanded, deploys>>
  BY PendingInHand DEF Ignite
<1>2. TypeOK'
  <2>1. Plain("ENGINE_IGNITED") \in Event
    BY DEF Plain, Event, PlainEvent
  <2>2. queue' \in Seq(Event) /\ Len(queue') <= QueueLength
    BY <2>1, OfferType DEF Ignite, TypeOK
  <2> QED
    BY <1>1, <2>2, PendingInHand DEF TypeOK
<1>3. Settled' /\ GroundOnly' /\ DeployPending'
  BY <1>1, PendingInHand DEF Settled, GroundOnly, DeployPending
<1>4. RuleUnderWay' /\ FaultRecorded' /\ DecisionTaken'
  BY <1>1 DEF RuleUnderWay, FaultRecorded, DecisionTaken, LaunchDetected, ApogeeDetected,
              Landed, Is
<1>5. DeployCount'
  BY <1>1 DEF DeployCount
<1> QED
  BY <1>2, <1>3, <1>4, <1>5

\* Storing the next state preserves the inductive invariant.
LEMMA FinishInv == IInv /\ Finish => IInv'
<1> SUFFICES ASSUME IInv, Finish
             PROVE  IInv'
  OBVIOUS
<1> USE DEF IInv
<1>1. /\ hand # Nothing /\ todo = << >>
      /\ state' = IF next = ANY THEN state ELSE next
      /\ hand' = Nothing /\ next' = ANY
      /\ UNCHANGED <<started, queue, ctx, todo, commanded, deploys>>
  BY DEF Finish
<1>2. TypeOK'
  BY <1>1 DEF TypeOK
<1>3. Settled' /\ GroundOnly' /\ DeployPending' /\ RuleUnderWay' /\ DecisionTaken'
  BY <1>1 DEF Settled, GroundOnly, DeployPending, RuleUnderWay, DecisionTaken, Nothing, ANY
<1>4. DeployCount'
  BY <1>1 DEF DeployCount, RuleUnderWay, TypeOK, State, ANY
<1>5. FaultRecorded'
  <2>1. state = "ERROR" /\ next # ANY => next = "ERROR"
    BY DEF RuleUnderWay, TypeOK, State
  <2> QED
    BY <1>1, <2>1 DEF FaultRecorded, ANY
<1> QED
  BY <1>2, <1>3, <1>4, <1>5

-----------------------------------------------------------------------------
(* Theorems.                                                               *)

\* The strengthened invariant holds of the initial states and is kept by every step.
LEMMA Initially == Init => IInv
<1> SUFFICES ASSUME Init
             PROVE  IInv
  OBVIOUS
<1>1. InitialContext \in Context /\ InitialContext.fault = FALSE
  BY DEF InitialContext, Context, Altitude, Velocity, Acceleration, Reading
<1>2. TypeOK
  <2>1. queue \in Seq(Event) /\ todo \in Seq(Command) /\ Len(queue) = 0
    BY DEF Init
  <2>2. Len(queue) <= QueueLength
    BY <2>1, CoreAssumption
  <2>3. ctx \in Context /\ state \in State /\ hand = Nothing /\ next = ANY
    BY <1>1 DEF Init, State
  <2>4. started \in BOOLEAN /\ commanded \subseteq Facility /\ deploys \in Nat
    BY DEF Init
  <2> QED
    BY <2>1, <2>2, <2>3, <2>4 DEF TypeOK
<1> QED
  BY <1>1, <1>2
  DEF Init, IInv, Settled, GroundOnly, RuleUnderWay, DeployPending, DeployCount,
      FaultRecorded, DecisionTaken, Nothing, ANY

LEMMA Inductive == IInv /\ [Next]_vars => IInv'
<1> SUFFICES ASSUME IInv, [Next]_vars
             PROVE  IInv'
  OBVIOUS
<1> USE DEF IInv
<1>1. CASE Start
  BY <1>1
  DEF Start, task, TypeOK, Settled, GroundOnly, RuleUnderWay, DeployPending, DeployCount,
      FaultRecorded, DecisionTaken, LaunchDetected, ApogeeDetected, Landed, Is
<1>2. ASSUME NEW e \in Inputs, Post(e)
      PROVE  IInv'
  <2>1. e \in Event
    BY CoreAssumption
  <2>2. TypeOK'
    BY <1>2, <2>1, OfferType DEF Post, task, TypeOK
  <2> QED
    BY <1>2, <2>2
    DEF Post, task, Settled, GroundOnly, RuleUnderWay, DeployPending, DeployCount,
        FaultRecorded, DecisionTaken, LaunchDetected, ApogeeDetected, Landed, Is
<1>3. CASE Dispatcher
  BY <1>3, ReceiveInv, ExecuteInv, ForwardInv, IgniteInv, FinishInv DEF Dispatcher
<1>4. CASE UNCHANGED vars
  BY <1>4
  DEF vars, TypeOK, Settled, GroundOnly, RuleUnderWay, DeployPending, DeployCount,
      FaultRecorded, DecisionTaken, LaunchDetected, ApogeeDetected, Landed, Is
<1> QED
  BY <1>1, <1>2, <1>3, <1>4 DEF Next

LEMMA Invariance == Spec => []IInv
  BY Initially, Inductive, PTL DEF Spec

\* Types, and the bound of the queue: no post, and no post the dispatcher task makes to
\* its own queue, exceeds EVENT_QUEUE_LENGTH.
THEOREM TypeCorrect == Spec => []TypeOK
<1>1. IInv => TypeOK
  BY DEF IInv
<1> QED
  BY <1>1, Invariance, PTL

\* The flight logic deploys the parachute at most once, only on the way from ASCENT to
\* DESCENT, and always before DESCENT is stored.
THEOREM ParachuteDeployedOnce == Spec => []ParachuteOnce
<1>1. IInv => ParachuteOnce
  <2> SUFFICES ASSUME IInv
               PROVE  ParachuteOnce
    OBVIOUS
  <2> USE DEF IInv
  <2>1. deploys <= 1
    BY DEF DeployCount
  <2>2. ASSUME deploys = 1
        PROVE  \/ state \in {"DESCENT", "LANDED", "ERROR"}
               \/ EnRouteTo("DESCENT") /\ "DEPLOY_PARACHUTE" \notin {todo[i] : i \in DOMAIN todo}
    <3>1. state \in {"DESCENT", "LANDED", "ERROR"} \/ (state = "ASCENT" /\ next = "DESCENT")
      BY <2>2 DEF DeployCount, TypeOK, State
    <3>2. CASE next = "DESCENT"
      BY <2>2, <3>1, <3>2 DEF RuleUnderWay, DeployPending, EnRouteTo, Settled, ANY
    <3> QED
      BY <3>1, <3>2
  <2>3. state \in {"DESCENT", "LANDED"} => deploys = 1
    BY DEF DeployCount
  <2> QED
    BY <2>1, <2>2, <2>3 DEF ParachuteOnce
<1> QED
  BY <1>1, Invariance, PTL

\* Between events the system is in ERROR exactly when a fault bit is set.
THEOREM FaultsReachError == Spec => []FaultMeansError
<1>1. IInv => FaultMeansError
  BY DEF IInv, FaultRecorded, FaultMeansError, Waiting, Settled, ANY
<1> QED
  BY <1>1, Invariance, PTL

\* Launch, apogee and landing are decided on the event just absorbed and on readings
\* that are marked valid.
THEOREM DecisionsAreCurrent == Spec => []DecisionOnCurrentData
<1>1. IInv => DecisionOnCurrentData
  <2> SUFFICES ASSUME IInv
               PROVE  DecisionOnCurrentData
    OBVIOUS
  <2>1. ctx \in Context
    BY DEF IInv, TypeOK
  <2>2. \A c \in {"alt", "vel", "acc"} : \A class :
          Is(ctx[c], class) => ctx[c] = [class |-> class, valid |-> TRUE]
    BY <2>1 DEF Context, Altitude, Velocity, Acceleration, Reading, Is
  <2> QED
    BY <2>2 DEF IInv, DecisionTaken, DecisionOnCurrentData, EnRouteTo, LaunchDetected,
                ApogeeDetected, Landed
<1> QED
  BY <1>1, Invariance, PTL

\* Once a failure has been absorbed, no step deploys the parachute or enables the gimbal.
THEOREM AbortsAreFinal == Spec => AbortIsFinal
<1>1. IInv /\ [Next]_vars => [StaysAborted]_vars
  <2> SUFFICES ASSUME IInv, Next, ctx.fault
               PROVE  /\ deploys' = deploys
                      /\ "gimbal" \in commanded' => "gimbal" \in commanded
    BY DEF StaysAborted
  <2>1. next \notin {"ASCENT", "DESCENT"}
    BY DEF IInv, FaultRecorded, RuleUnderWay
  <2>2. CASE Execute
    <3>1. CASE hand.id = "NETWORK_MESSAGE_RECEIVED"
      BY <2>2, <3>1 DEF Execute
    <3>2. CASE hand.id # "NETWORK_MESSAGE_RECEIVED"
      <4>1. Head(todo) \notin {"DEPLOY_PARACHUTE", "ENABLE_GIMBAL_CONTROL"}
        BY <2>1, <2>2, <3>2, PendingInHand DEF IInv, DeployPending, Execute
      <4>2. "gimbal" \notin Engages(Head(todo))
        BY <4>1 DEF Engages
      <4> QED
        BY <2>2, <3>2, <4>1, <4>2 DEF Execute
    <3> QED
      BY <3>1, <3>2
  <2>3. CASE Start \/ (\E e \in Inputs : Post(e)) \/ Receive \/ Forward \/ Ignite \/ Finish
    BY <2>3 DEF Start, Post, Receive, Forward, Ignite, Finish
  <2> QED
    BY <2>2, <2>3 DEF Next, Dispatcher
<1> QED
  BY <1>1, Invariance, PTL DEF Spec, AbortIsFinal

-----------------------------------------------------------------------------
(* The core implements the abstract mission: safety.                       *)

\* A rule that changes the state is an abort or goes to the successor of the state it
\* starts from, the parachute being deployed by the time DESCENT is stored.
LEMMA StoredStep ==
  ASSUME IInv, Finish
  PROVE  M!Next \/ UNCHANGED M!vars
<1> USE DEF IInv
<1>1. /\ hand # Nothing /\ todo = << >>
      /\ state' = IF next = ANY THEN state ELSE next
      /\ hand' = Nothing
      /\ UNCHANGED <<queue, deploys>>
  BY DEF Finish
<1>2. Queued("SENSOR_FAILURE")' <=> Queued("SENSOR_FAILURE")
  BY <1>1 DEF Queued
<1>3. hand'.id # "SENSOR_FAILURE"
  BY <1>1 DEF Nothing
<1>4. CASE next = "ERROR"
  <2>1. hand.id = "SENSOR_FAILURE" /\ state' = "ERROR"
    BY <1>1, <1>4 DEF RuleUnderWay, ANY
  <2>2. M!Abort
    BY <1>1, <2>1 DEF M!Abort
  <2> QED
    BY <2>2 DEF M!Next
<1>5. CASE next = ANY
  <2>1. hand.id # "SENSOR_FAILURE"
    BY <1>5 DEF RuleUnderWay, ANY
  <2> QED
    BY <1>1, <1>2, <1>3, <1>5, <2>1 DEF M!vars
<1>6. CASE next \notin {ANY, "ERROR"}
  <2>1. hand.id # "SENSOR_FAILURE" /\ state' = next
    BY <1>1, <1>6 DEF RuleUnderWay
  <2>2. next \in {"IDLE", "ARMED", "ASCENT", "DESCENT", "LANDED"}
    BY <1>6 DEF TypeOK, State, RuleUnderWay
  <2>3. /\ state \in DOMAIN M!Successor
        /\ M!Successor[state] = next
        /\ state = "ASCENT" => deploys = 1
    BY <1>1, <2>2 DEF RuleUnderWay, DeployCount, M!Successor
  <2>4. M!Advance
    BY <1>1, <1>2, <1>3, <2>1, <2>3 DEF M!Advance
  <2> QED
    BY <2>4 DEF M!Next
<1> QED
  BY <1>4, <1>5, <1>6

\* Moving an event from the queue into the task's hand loses no accepted failure and
\* invents none.
LEMMA ReceivedStep ==
  ASSUME IInv, Receive
  PROVE  UNCHANGED M!vars
<1> USE DEF IInv
<1>1. /\ hand.id = "none"
      /\ queue \in Seq(Event) /\ queue # << >>
      /\ hand' = queue[1] /\ queue' = Tail(queue)
      /\ UNCHANGED <<state, deploys>>
  BY DEF Receive, TypeOK, Nothing
<1>2. ASSUME hand'.id = "SENSOR_FAILURE" \/ Queued("SENSOR_FAILURE")'
      PROVE  Queued("SENSOR_FAILURE")
  BY <1>1, <1>2 DEF Queued
<1>3. ASSUME Queued("SENSOR_FAILURE")
      PROVE  hand'.id = "SENSOR_FAILURE" \/ Queued("SENSOR_FAILURE")'
  <2>1. PICK i \in DOMAIN queue : queue[i].id = "SENSOR_FAILURE"
    BY <1>3 DEF Queued
  <2>2. CASE i = 1
    BY <1>1, <2>1, <2>2
  <2>3. CASE i # 1
    <3>1. i - 1 \in DOMAIN queue' /\ queue'[i - 1] = queue[i]
      BY <1>1, <2>3
    <3> QED
      BY <2>1, <3>1 DEF Queued
  <2> QED
    BY <2>2, <2>3
<1> QED
  BY <1>1, <1>2, <1>3 DEF M!vars

\* Offering an event either leaves what is accepted alone or accepts a failure.
LEMMA OfferedStep ==
  ASSUME IInv, NEW e \in Event, queue' = Offer(e), UNCHANGED <<hand, state, deploys>>
  PROVE  M!Next \/ UNCHANGED M!vars
<1> USE DEF IInv
<1>1. queue \in Seq(Event)
  BY DEF TypeOK
<1>2. Queued("SENSOR_FAILURE") => Queued("SENSOR_FAILURE")'
  <2> SUFFICES ASSUME NEW i \in DOMAIN queue, queue[i].id = "SENSOR_FAILURE"
               PROVE  Queued("SENSOR_FAILURE")'
    BY DEF Queued
  <2>1. i \in DOMAIN queue' /\ queue'[i] = queue[i]
    BY <1>1 DEF Offer
  <2> QED
    BY <2>1 DEF Queued
<1>3. CASE hand.id = "SENSOR_FAILURE" \/ Queued("SENSOR_FAILURE")
  BY <1>2, <1>3 DEF M!vars
<1>4. CASE ~ (hand.id = "SENSOR_FAILURE" \/ Queued("SENSOR_FAILURE"))
  <2>1. CASE Queued("SENSOR_FAILURE")'
    BY <1>4, <2>1 DEF M!Next, M!Fail
  <2>2. CASE ~ Queued("SENSOR_FAILURE")'
    BY <1>4, <2>2 DEF M!vars
  <2> QED
    BY <2>1, <2>2
<1> QED
  BY <1>3, <1>4

\* Executing a command is invisible, but for the deployment, which is the mission's.
LEMMA ExecutedStep ==
  ASSUME IInv, Execute
  PROVE  M!Next \/ UNCHANGED M!vars
<1> USE DEF IInv
<1>1. todo # << >> /\ UNCHANGED <<queue, state, hand>>
  BY DEF Execute
<1>2. (Queued("SENSOR_FAILURE")' <=> Queued("SENSOR_FAILURE")) /\ hand' = hand
  BY <1>1 DEF Queued
<1>3. CASE deploys' = deploys
  BY <1>1, <1>2, <1>3 DEF M!vars
<1>4. CASE deploys' # deploys
  <2>1. hand.id # "NETWORK_MESSAGE_RECEIVED" /\ Head(todo) = "DEPLOY_PARACHUTE" /\ deploys' = deploys + 1
    BY <1>4 DEF Execute
  <2>2. next = "DESCENT" /\ deploys = 0
    BY <1>1, <2>1, PendingInHand DEF DeployPending
  <2>3. state = "ASCENT"
    BY <2>2 DEF RuleUnderWay
  <2>4. M!Fire
    BY <1>1, <1>2, <2>1, <2>2, <2>3 DEF M!Fire
  <2> QED
    BY <2>4 DEF M!Next
<1> QED
  BY <1>3, <1>4

LEMMA ForwardedStep ==
  ASSUME IInv, Forward
  PROVE  UNCHANGED M!vars
  BY DEF Forward, Queued, M!vars

\* The mission without its liveness: initial states and steps.
THEOREM ImplementsMission == Spec => M!Init /\ [][M!Next]_(M!vars)
<1>1. Init => M!Init
  BY DEF Init, M!Init, Queued, Nothing
<1>2. IInv /\ [Next]_vars => [M!Next]_(M!vars)
  <2> SUFFICES ASSUME IInv, [Next]_vars
               PROVE  M!Next \/ UNCHANGED M!vars
    OBVIOUS
  <2>1. CASE Start \/ UNCHANGED vars
    BY <2>1 DEF Start, task, vars, Queued, M!vars
  <2>2. ASSUME NEW e \in Inputs, Post(e)
        PROVE  M!Next \/ UNCHANGED M!vars
    BY <2>2, CoreAssumption, OfferedStep DEF Post, task
  <2>3. CASE Ignite
    <3>1. Plain("ENGINE_IGNITED") \in Event
      BY DEF Plain, Event, PlainEvent
    <3>2. CASE queue' = queue
      BY <2>3, <3>2 DEF Ignite, Queued, M!vars
    <3>3. CASE queue' = Offer(Plain("ENGINE_IGNITED"))
      BY <2>3, <3>1, <3>3, OfferedStep DEF Ignite
    <3> QED
      BY <2>3, <3>2, <3>3 DEF Ignite
  <2>4. CASE Receive \/ Execute \/ Forward \/ Finish
    BY <2>4, ReceivedStep, ExecutedStep, ForwardedStep, StoredStep
  <2> QED
    BY <2>1, <2>2, <2>3, <2>4 DEF Next, Dispatcher
<1> QED
  BY <1>1, <1>2, Invariance, PTL DEF Spec

-----------------------------------------------------------------------------
(* What the executed commands have left running.                           *)

\* The commands a rule to the given state may have pending.
BatchFor ==
  [target \in State \union {ANY} |->
     CASE target = "INIT"    -> {}
       [] target = "IDLE"    -> {"START_LOGGING", "START_TELEMETRY"}
       [] target = "ARMED"   -> {"SYSTEM_ARM", "ARM_PARACHUTE"}
       [] target = "ASCENT"  -> {"ENABLE_GIMBAL_CONTROL", "SET_GIMBAL_QUATERNION"}
       [] target = "DESCENT" -> {"DEPLOY_PARACHUTE", "STOP_GIMBAL_CONTROL"}
       [] target = "LANDED"  -> {"STOP_TELEMETRY", "STOP_LOGGING", "FLUSH_STORAGE"}
       [] target = "ERROR"   -> {"STOP_GIMBAL_CONTROL", "ABORT_MISSION"}
       [] target = ANY       -> {"READ_ULTRASONIC", "LOG_MESSAGE", "NOTIFY_MQTT_CONNECTED"}]

BatchPending ==
  /\ hand.id = "NETWORK_MESSAGE_RECEIVED" => next = ANY
  /\ hand.id # "NETWORK_MESSAGE_RECEIVED" => \A i \in DOMAIN todo : todo[i] \in BatchFor[next]

Pending(c) == \E i \in DOMAIN todo : todo[i] = c
On(f, c)   == f \in commanded \/ Pending(c)
Off(f, c)  == f \notin commanded \/ Pending(c)

\* In the middle of a rule, what the state to come requires is commanded or pending.
InProgress ==
  /\ next = ANY => InStep
  /\ next = "IDLE" => /\ commanded \subseteq {"logging", "telemetry"}
                      /\ On("logging", "START_LOGGING") /\ On("telemetry", "START_TELEMETRY")
  /\ next = "ARMED" => /\ {"logging", "telemetry"} \subseteq commanded
                       /\ "gimbal" \notin commanded
                       /\ On("parachute", "ARM_PARACHUTE")
  /\ next = "ASCENT" => /\ {"logging", "telemetry", "parachute"} \subseteq commanded
                        /\ On("gimbal", "ENABLE_GIMBAL_CONTROL")
  /\ next = "DESCENT" => /\ {"logging", "telemetry"} \subseteq commanded
                         /\ Off("gimbal", "STOP_GIMBAL_CONTROL")
                         /\ Off("parachute", "DEPLOY_PARACHUTE")
  /\ next = "LANDED" => /\ commanded \subseteq {"logging", "telemetry"}
                        /\ Off("logging", "STOP_LOGGING") /\ Off("telemetry", "STOP_TELEMETRY")
  /\ next = "ERROR" => Off("gimbal", "STOP_GIMBAL_CONTROL")

CInv == IInv /\ BatchPending /\ InProgress

\* The batch of the rule that leads to each state.
LEMMA RuleBatch ==
  ASSUME NEW i \in 1..10
  PROVE  LET r == Table[i]
         IN  /\ r.to = "IDLE"    => r.batch = <<"START_LOGGING", "START_TELEMETRY">>
             /\ r.to = "ARMED"   => r.batch = <<"SYSTEM_ARM", "ARM_PARACHUTE">>
             /\ r.to = "ASCENT"  => r.batch = <<"ENABLE_GIMBAL_CONTROL", "SET_GIMBAL_QUATERNION">>
             /\ r.to = "DESCENT" => r.batch = <<"DEPLOY_PARACHUTE", "STOP_GIMBAL_CONTROL">>
             /\ r.to = "LANDED"  => r.batch = <<"STOP_TELEMETRY", "STOP_LOGGING", "FLUSH_STORAGE">>
             /\ r.to = "ERROR"   => r.batch = <<"STOP_GIMBAL_CONTROL", "ABORT_MISSION">>
             /\ r.to = ANY => \E c \in BatchFor[ANY] : r.batch = <<c>>
<1>1. /\ Table[1].to = "IDLE" /\ Table[2].to = "ARMED" /\ Table[3].to = "ASCENT"
      /\ Table[4].to = "DESCENT" /\ Table[5].to = "LANDED" /\ Table[6].to = "ERROR"
      /\ Table[7].to = ANY /\ Table[8].to = ANY /\ Table[9].to = ANY /\ Table[10].to = ANY
  BY DEF Table, Rule
<1>2. /\ Table[1].batch = <<"START_LOGGING", "START_TELEMETRY">>
      /\ Table[2].batch = <<"SYSTEM_ARM", "ARM_PARACHUTE">>
      /\ Table[3].batch = <<"ENABLE_GIMBAL_CONTROL", "SET_GIMBAL_QUATERNION">>
      /\ Table[4].batch = <<"DEPLOY_PARACHUTE", "STOP_GIMBAL_CONTROL">>
      /\ Table[5].batch = <<"STOP_TELEMETRY", "STOP_LOGGING", "FLUSH_STORAGE">>
      /\ Table[6].batch = <<"STOP_GIMBAL_CONTROL", "ABORT_MISSION">>
  BY DEF Table, Rule
<1>3. /\ Table[7].batch = <<"READ_ULTRASONIC">>
      /\ Table[8].batch = <<"LOG_MESSAGE">>
      /\ Table[9].batch = <<"NOTIFY_MQTT_CONNECTED">>
      /\ Table[10].batch = <<"LOG_MESSAGE">>
  BY DEF Table, Rule
<1>4. BatchFor[ANY] = {"READ_ULTRASONIC", "LOG_MESSAGE", "NOTIFY_MQTT_CONNECTED"}
  BY DEF BatchFor, State, ANY
<1>5. i \in {7, 8, 9, 10} => \E c \in BatchFor[ANY] : Table[i].batch = <<c>>
  BY <1>3, <1>4
<1> QED
  BY <1>1, <1>2, <1>5 DEF ANY

\* The commands pending after a rule has been selected are those of its batch, all.
LEMMA Selected ==
  ASSUME CInv, Receive
  PROVE  BatchPending' /\ InProgress'
<1> USE DEF CInv
<1>1. /\ next = ANY /\ UNCHANGED <<state, commanded>>
  BY DEF IInv, Receive, Settled
<1>2. InStep /\ (InStep' <=> InStep)
  BY <1>1 DEF InProgress, InStep
<1>3. CASE /\ hand'.id # "SENSOR_FAILURE"
           /\ todo' = Unmatched(hand')
           /\ next' = ANY
  <2>1. BatchPending'
    BY <1>3, Received, UnmatchedType DEF IInv, BatchPending
  <2>2. InProgress'
    BY <1>2, <1>3 DEF InProgress, ANY
  <2> QED
    BY <2>1, <2>2
<1>4. ASSUME NEW i \in 1..10,
             Matches(Table[i], state, hand', ctx'),
             todo' = Table[i].batch,
             next' = Table[i].to
      PROVE  BatchPending' /\ InProgress'
  <2>1. next' \in (State \union {ANY}) \ {"INIT"} /\ hand'.id # "NETWORK_MESSAGE_RECEIVED"
    BY <1>4, RuleFacts DEF Matches
  <2>2. RuleUnderWay'
    BY <1>4, ReceiveInv DEF IInv
  <2>3. CASE next' = "IDLE"
    <3>1. todo' = <<"START_LOGGING", "START_TELEMETRY">> /\ state = "INIT"
      BY <1>1, <1>4, <2>2, <2>3, RuleBatch DEF RuleUnderWay
    <3> QED
      BY <1>1, <1>2, <2>1, <2>3, <3>1
      DEF BatchPending, BatchFor, InProgress, InStep, On, Pending, State, ANY
  <2>4. CASE next' = "ARMED"
    <3>1. todo' = <<"SYSTEM_ARM", "ARM_PARACHUTE">> /\ state = "IDLE"
      BY <1>1, <1>4, <2>2, <2>4, RuleBatch DEF RuleUnderWay
    <3> QED
      BY <1>1, <1>2, <2>1, <2>4, <3>1
      DEF BatchPending, BatchFor, InProgress, InStep, On, Pending, State, ANY
  <2>5. CASE next' = "ASCENT"
    <3>1. todo' = <<"ENABLE_GIMBAL_CONTROL", "SET_GIMBAL_QUATERNION">> /\ state = "ARMED"
      BY <1>1, <1>4, <2>2, <2>5, RuleBatch DEF RuleUnderWay
    <3> QED
      BY <1>1, <1>2, <2>1, <2>5, <3>1
      DEF BatchPending, BatchFor, InProgress, InStep, On, Pending, State, ANY
  <2>6. CASE next' = "DESCENT"
    <3>1. todo' = <<"DEPLOY_PARACHUTE", "STOP_GIMBAL_CONTROL">> /\ state = "ASCENT"
      BY <1>1, <1>4, <2>2, <2>6, RuleBatch DEF RuleUnderWay
    <3> QED
      BY <1>1, <1>2, <2>1, <2>6, <3>1
      DEF BatchPending, BatchFor, InProgress, InStep, Off, Pending, State, ANY
  <2>7. CASE next' = "LANDED"
    <3>1. todo' = <<"STOP_TELEMETRY", "STOP_LOGGING", "FLUSH_STORAGE">> /\ state = "DESCENT"
      BY <1>1, <1>4, <2>2, <2>7, RuleBatch DEF RuleUnderWay
    <3>2. commanded \subseteq {"logging", "telemetry"}
      BY <1>2, <3>1 DEF IInv, TypeOK, Facility, InStep
    <3> QED
      BY <1>1, <2>1, <2>7, <3>1, <3>2
      DEF BatchPending, BatchFor, InProgress, Off, Pending, State, ANY
  <2>8. CASE next' = "ERROR"
    <3>1. todo' = <<"STOP_GIMBAL_CONTROL", "ABORT_MISSION">>
      BY <1>4, <2>8, RuleBatch
    <3> QED
      BY <2>1, <2>8, <3>1 DEF BatchPending, BatchFor, InProgress, Off, Pending, State, ANY
  <2>9. CASE next' = ANY
    <3>1. PICK c \in BatchFor[ANY] : todo' = <<c>>
      BY <1>4, <2>9, RuleBatch
    <3> QED
      BY <1>2, <2>1, <2>9, <3>1 DEF BatchPending, InProgress, ANY
  <2> QED
    BY <2>1, <2>3, <2>4, <2>5, <2>6, <2>7, <2>8, <2>9 DEF State
<1> QED
  BY <1>3, <1>4, Received DEF IInv

\* A command leaves the others pending and does what it is pending for.
LEMMA Commanded ==
  ASSUME CInv, Execute
  PROVE  BatchPending' /\ InProgress'
<1> USE DEF CInv
<1>1. /\ todo # << >> /\ todo' = Tail(todo)
      /\ UNCHANGED <<hand, next, state>>
  BY DEF Execute
<1>2. BatchPending'
  BY <1>1, PendingInHand DEF BatchPending
<1>3. CASE hand.id = "NETWORK_MESSAGE_RECEIVED"
  <2>1. next = ANY /\ commanded' = commanded
    BY <1>3 DEF BatchPending, Execute
  <2> QED
    BY <1>1, <1>2, <2>1 DEF InProgress, InStep, ANY
<1>4. CASE hand.id # "NETWORK_MESSAGE_RECEIVED"
  <2> DEFINE c == Head(todo)
  <2>1. c \in BatchFor[next]
    BY <1>1, <1>4, PendingInHand DEF BatchPending
  <2>2. commanded' = (commanded \union Engages(c)) \ Releases(c)
    BY <1>4 DEF Execute
  <2>3. \A d : Pending(d) => Pending(d)' \/ d = c
    <3> SUFFICES ASSUME NEW d, NEW i \in DOMAIN todo, todo[i] = d, d # c
                 PROVE  Pending(d)'
      BY DEF Pending
    <3>1. i - 1 \in DOMAIN todo' /\ todo'[i - 1] = d
      BY <1>1 DEF IInv, TypeOK
    <3> QED
      BY <3>1 DEF Pending
  <2>4. next \in (State \union {ANY}) \ {"INIT"}
    BY DEF IInv, TypeOK, RuleUnderWay
  <2> HIDE DEF c
  <2>5. InProgress'
    <3>1. CASE next = "IDLE"
      BY <1>1, <2>1, <2>2, <2>3, <3>1
      DEF InProgress, BatchFor, On, Off, Engages, Releases, State, ANY
    <3>2. CASE next = "ARMED"
      BY <1>1, <2>1, <2>2, <2>3, <3>2
      DEF InProgress, BatchFor, On, Off, Engages, Releases, State, ANY
    <3>3. CASE next = "ASCENT"
      BY <1>1, <2>1, <2>2, <2>3, <3>3
      DEF InProgress, BatchFor, On, Off, Engages, Releases, State, ANY
    <3>4. CASE next = "DESCENT"
      BY <1>1, <2>1, <2>2, <2>3, <3>4
      DEF InProgress, BatchFor, On, Off, Engages, Releases, State, ANY
    <3>5. CASE next = "LANDED"
      BY <1>1, <2>1, <2>2, <2>3, <3>5
      DEF InProgress, BatchFor, On, Off, Engages, Releases, State, ANY
    <3>6. CASE next = "ERROR"
      BY <1>1, <2>1, <2>2, <2>3, <3>6
      DEF InProgress, BatchFor, On, Off, Engages, Releases, State, ANY
    <3>7. CASE next = ANY
      <4>1. Engages(c) = {} /\ Releases(c) = {}
        BY <2>1, <3>7 DEF BatchFor, Engages, Releases, State, ANY
      <4>2. commanded' = commanded
        BY <2>2, <4>1
      <4> QED
        BY <1>1, <3>7, <4>2 DEF InProgress, InStep, ANY
    <3> QED
      BY <2>4, <3>1, <3>2, <3>3, <3>4, <3>5, <3>6, <3>7 DEF State
  <2> QED
    BY <1>2, <2>5
<1> QED
  BY <1>3, <1>4

\* When the batch is done, what the stored state requires is commanded.
LEMMA Stored ==
  ASSUME CInv, Finish
  PROVE  BatchPending' /\ InProgress'
<1> USE DEF CInv
<1>1. /\ todo = << >> /\ todo' = << >> /\ commanded' = commanded
      /\ state' = IF next = ANY THEN state ELSE next
      /\ hand' = Nothing /\ next' = ANY
  BY DEF Finish
<1>2. \A d : ~ Pending(d)
  BY <1>1 DEF Pending
<1>3. next \in (State \union {ANY}) \ {"INIT"} /\ commanded \subseteq Facility
  BY DEF IInv, TypeOK, RuleUnderWay
<1>4. InStep'
  <2>1. CASE next = ANY
    BY <1>1, <2>1 DEF InProgress, InStep
  <2>2. CASE next \in {"IDLE", "ARMED"}
    BY <1>1, <1>2, <2>2 DEF InProgress, InStep, On, ANY
  <2>3. CASE next = "ASCENT"
    BY <1>1, <1>2, <2>3 DEF InProgress, InStep, On, ANY
  <2>4. CASE next \in {"DESCENT", "ERROR"}
    BY <1>1, <1>2, <2>4 DEF InProgress, InStep, Off, ANY
  <2>5. CASE next = "LANDED"
    BY <1>1, <1>2, <2>5 DEF InProgress, InStep, Off, ANY
  <2> QED
    BY <1>3, <2>1, <2>2, <2>3, <2>4, <2>5 DEF State
<1> QED
  BY <1>1, <1>4 DEF BatchPending, InProgress, Nothing, ANY

\* Between events, what the rules have commanded is what the state requires: the gimbal
\* runs exactly in ASCENT, the recorders run from IDLE until landing, the parachute is
\* armed until it is fired.
THEOREM CommandsFollowState == Spec => []CommandsMatchState
<1>1. Init => CInv
  BY Initially
  DEF Init, CInv, BatchPending, InProgress, InStep, Nothing, ANY
<1>2. CInv /\ [Next]_vars => CInv'
  <2> SUFFICES ASSUME CInv, [Next]_vars
               PROVE  BatchPending' /\ InProgress'
    BY Inductive DEF CInv
  <2>1. CASE Start \/ (\E e \in Inputs : Post(e)) \/ UNCHANGED vars
    BY <2>1 DEF CInv, Start, Post, task, vars, BatchPending, InProgress, InStep, On, Off, Pending
  <2>2. CASE Forward
    <3>1. hand.id = "NETWORK_MESSAGE_RECEIVED"
      BY <2>2, PendingInHand DEF CInv, IInv, Forward, GroundOnly
    <3> QED
      BY <2>2, <3>1 DEF CInv, Forward, BatchPending, InProgress, InStep, ANY
  <2>3. CASE Ignite
    <3>1. hand.id = "NETWORK_MESSAGE_RECEIVED"
      <4>1. todo[1] = "IGNITION" /\ 1 \in DOMAIN todo
        BY <2>3, PendingInHand DEF CInv, Ignite
      <4>2. \A t \in State \union {ANY} : "IGNITION" \notin BatchFor[t]
        BY DEF BatchFor, State, ANY
      <4> QED
        BY <4>1, <4>2 DEF CInv, IInv, TypeOK, BatchPending
    <3> QED
      BY <2>3, <3>1 DEF CInv, Ignite, BatchPending, InProgress, InStep, ANY
  <2>4. CASE Receive \/ Execute \/ Finish
    BY <2>4, Selected, Commanded, Stored
  <2> QED
    BY <2>1, <2>2, <2>3, <2>4 DEF Next, Dispatcher
<1>3. CInv => CommandsMatchState
  BY DEF CInv, IInv, Settled, InProgress, CommandsMatchState, Waiting
<1> QED
  BY <1>1, <1>2, <1>3, PTL DEF Spec
=============================================================================
