----------------------------- MODULE FlightTable -----------------------------
(***************************************************************************)
(* The vocabulary of the avionics core and its single source of truth, the *)
(* transition table of core/src/state_manager.c, together with the three   *)
(* conditions of core/src/conditions.c and the context update of           *)
(* core/src/system_context.c.  Everything here is a constant operator.     *)
(*                                                                         *)
(* A measurement is represented by the class its float falls in with       *)
(* respect to the thresholds the conditions compare it with, and by its    *)
(* validity flag.                                                          *)
(*   altitude      low: < 3 m      high: > 50 m     mid: between           *)
(*   velocity      climb: > 5 m/s  still: |v| < 0.5 sink: < -1   slow: else*)
(*   acceleration  boost: > 12     quiet: < 1.5     mild: between          *)
(***************************************************************************)
EXTENDS Integers, Sequences

State == {"INIT", "IDLE", "ARMED", "ASCENT", "DESCENT", "LANDED", "ERROR"}

\* SYSTEM_STATE_ANY: a rule that matches every state, or leaves the state alone.
ANY == "ANY"

Command == {"START_LOGGING", "STOP_LOGGING", "START_TELEMETRY", "STOP_TELEMETRY",
            "FLUSH_STORAGE", "SYSTEM_ARM", "ARM_PARACHUTE", "DEPLOY_PARACHUTE",
            "ENABLE_GIMBAL_CONTROL", "SET_GIMBAL_QUATERNION",
            "STOP_GIMBAL_CONTROL", "ABORT_MISSION", "READ_ULTRASONIC",
            "LOG_MESSAGE", "NOTIFY_MQTT_CONNECTED", "PROCESS_ROCKET_COMMAND",
            "IGNITION", "EXPLODE", "UPDATE_CONFIG", "CALIBRATE_SENSOR",
            "SET_TELEMETRY_RATE"}

-----------------------------------------------------------------------------
(* Events.                                                                 *)

Reading(classes) == [class : classes, valid : BOOLEAN]

Altitude     == Reading({"low", "mid", "high"})
Velocity     == Reading({"climb", "slow", "still", "sink"})
Acceleration == Reading({"boost", "mild", "quiet"})

\* What the last topic level and the JSON payload of a ground message ask for;
\* "rejected" stands for a topic without '/', a payload that does not parse, a
\* missing field or an unknown command.
GroundRequest == {"ignition", "parachute", "explode", "config", "calibrate",
                  "request_data", "rejected"}

\* Events without a payload the core reads.  "OTHER" is every event that no rule
\* and no context field mentions (network status, raw sensors, GPS, battery).
PlainEvent == {"SYSTEM_TICK", "SENSOR_FAILURE", "PERIODIC_TIMER_EXPIRED",
               "ULTRASONIC_DATA", "MQTT_CONNECTED", "ENGINE_IGNITED", "OTHER"}

Event == [id : PlainEvent, data : {"none"}]
           \union [id : {"ALTITUDE_UPDATE"}, data : Altitude]
           \union [id : {"VELOCITY_UPDATE"}, data : Velocity]
           \union [id : {"ACCELERATION_UPDATE"}, data : Acceleration]
           \union [id : {"NETWORK_MESSAGE_RECEIVED"}, data : GroundRequest]

Plain(id) == [id |-> id, data |-> "none"]

-----------------------------------------------------------------------------
(* The system context: latest readings and whether a fault bit is set.      *)

Context == [alt : Altitude, vel : Velocity, acc : Acceleration, fault : BOOLEAN]

\* Static zero initialisation: every value 0.0, every validity flag false.
InitialContext == [alt   |-> [class |-> "low",   valid |-> FALSE],
                   vel   |-> [class |-> "still", valid |-> FALSE],
                   acc   |-> [class |-> "quiet", valid |-> FALSE],
                   fault |-> FALSE]

\* Slip: the fault word is assigned, not or-ed into.
Absorb_FaultAssigned(ctx, e) ==
  [alt   |-> IF e.id = "ALTITUDE_UPDATE"     THEN e.data ELSE ctx.alt,
   vel   |-> IF e.id = "VELOCITY_UPDATE"     THEN e.data ELSE ctx.vel,
   acc   |-> IF e.id = "ACCELERATION_UPDATE" THEN e.data ELSE ctx.acc,
   fault |-> e.id = "SENSOR_FAILURE"]

\* system_context_update: the value is taken even when it is marked invalid.
\* A failed sensor sets bit 1 << sensor_id of the fault word, which is never cleared.
\* The id has 8 bits and the shift is undefined from 32 on; this target's shift
\* instruction takes the low five bits, so that one bit or another is always set.
Absorb(ctx, e) ==
  [alt   |-> IF e.id = "ALTITUDE_UPDATE"     THEN e.data ELSE ctx.alt,
   vel   |-> IF e.id = "VELOCITY_UPDATE"     THEN e.data ELSE ctx.vel,
   acc   |-> IF e.id = "ACCELERATION_UPDATE" THEN e.data ELSE ctx.acc,
   fault |-> ctx.fault \/ e.id = "SENSOR_FAILURE"]

-----------------------------------------------------------------------------
(* Conditions.                                                             *)

Is(reading, class) == reading.valid /\ reading.class = class

LaunchDetected(ctx) == Is(ctx.acc, "boost") /\ Is(ctx.vel, "climb")
ApogeeDetected(ctx) == Is(ctx.vel, "sink") /\ Is(ctx.alt, "high")
Landed(ctx) == Is(ctx.alt, "low") /\ Is(ctx.vel, "still") /\ Is(ctx.acc, "quiet")

Holds(cond, ctx) == \/ cond = "always"
                    \/ cond = "launch_detected" /\ LaunchDetected(ctx)
                    \/ cond = "apogee_detected" /\ ApogeeDetected(ctx)
                    \/ cond = "landed" /\ Landed(ctx)

-----------------------------------------------------------------------------
(* The table.                                                              *)

Rule(from, on, cond, to, batch) ==
  [from |-> from, on |-> on, cond |-> cond, to |-> to, batch |-> batch]

Table == <<
  Rule("INIT", "SYSTEM_TICK", "always", "IDLE",
       <<"START_LOGGING", "START_TELEMETRY">>),
  Rule("IDLE", "SYSTEM_TICK", "always", "ARMED",
       <<"SYSTEM_ARM", "ARM_PARACHUTE">>),
  Rule("ARMED", "ACCELERATION_UPDATE", "launch_detected", "ASCENT",
       <<"ENABLE_GIMBAL_CONTROL", "SET_GIMBAL_QUATERNION">>),
  Rule("ASCENT", "VELOCITY_UPDATE", "apogee_detected", "DESCENT",
       <<"DEPLOY_PARACHUTE", "STOP_GIMBAL_CONTROL">>),
  Rule("DESCENT", "ALTITUDE_UPDATE", "landed", "LANDED",
       <<"STOP_TELEMETRY", "STOP_LOGGING", "FLUSH_STORAGE">>),
  Rule(ANY, "SENSOR_FAILURE", "always", "ERROR",
       <<"STOP_GIMBAL_CONTROL", "ABORT_MISSION">>),
  Rule(ANY, "PERIODIC_TIMER_EXPIRED", "always", ANY, <<"READ_ULTRASONIC">>),
  Rule(ANY, "ULTRASONIC_DATA", "always", ANY, <<"LOG_MESSAGE">>),
  Rule(ANY, "MQTT_CONNECTED", "always", ANY, <<"NOTIFY_MQTT_CONNECTED">>),
  Rule(ANY, "ENGINE_IGNITED", "always", ANY, <<"LOG_MESSAGE">>) >>

\* Slip: the state column is not looked at.
Matches_AnyState(rule, state, e, ctx) == rule.on = e.id /\ Holds(rule.cond, ctx)

Matches(rule, state, e, ctx) == /\ rule.from \in {state, ANY}
                                /\ rule.on = e.id
                                /\ Holds(rule.cond, ctx)

Matching(state, e, ctx) == {i \in 1..10 : Matches(Table[i], state, e, ctx)}

\* "First match wins".
FirstMatch(state, e, ctx) ==
  LET M == Matching(state, e, ctx) IN CHOOSE i \in M : \A j \in M : i <= j

-----------------------------------------------------------------------------
(* Ground messages.                                                        *)

\* An event that no rule matches issues no command, except that every network
\* message is handed to the rocket command service.
Unmatched(e) == IF e.id = "NETWORK_MESSAGE_RECEIVED"
                THEN <<"PROCESS_ROCKET_COMMAND">>
                ELSE << >>

\* The command handle_rocket_command executes, from inside its own handler.  A
\* parachute request reaches COMMAND_DEPLOY_PARACHUTE whatever its "deploy" field.
Translate(request) ==
  CASE request = "ignition"     -> <<"IGNITION">>
    [] request = "parachute"    -> <<"DEPLOY_PARACHUTE">>
    [] request = "explode"      -> <<"EXPLODE">>
    [] request = "config"       -> <<"UPDATE_CONFIG">>
    [] request = "calibrate"    -> <<"CALIBRATE_SENSOR">>
    [] request = "request_data" -> <<"SET_TELEMETRY_RATE">>
    [] request = "rejected"     -> << >>
=============================================================================
