---------------------------- MODULE MCFlightCore ----------------------------
(***************************************************************************)
(* A small instance of FlightCore.  The queue holds two events, so that    *)
(* order in the queue, a full queue and a self-post into a full queue all  *)
(* occur; the inputs hold each kind of event, and for each measurement the *)
(* classes its conditions look for; an invalid reading comes as the first  *)
(* value of each (zero, not valid) and as a sinking rate marked invalid.   *)
(***************************************************************************)
EXTENDS FlightCore

R(class, valid) == [class |-> class, valid |-> valid]

MCInputs ==
  [id : {"SYSTEM_TICK", "SENSOR_FAILURE", "PERIODIC_TIMER_EXPIRED"}, data : {"none"}]
    \union [id : {"ALTITUDE_UPDATE"},
            data : {R("low", TRUE), R("high", TRUE)}]
    \union [id : {"VELOCITY_UPDATE"},
            data : {R("climb", TRUE), R("still", TRUE), R("sink", TRUE), R("sink", FALSE)}]
    \union [id : {"ACCELERATION_UPDATE"},
            data : {R("boost", TRUE), R("quiet", TRUE)}]
    \union [id : {"NETWORK_MESSAGE_RECEIVED"}, data : {"ignition", "parachute"}]

\* Handlers the production service table registers, of the commands above.
MCRegistered == {"LOG_MESSAGE", "PROCESS_ROCKET_COMMAND", "IGNITION", "CALIBRATE_SENSOR"}
=============================================================================
