------------------------------- MODULE Mission -------------------------------
(***************************************************************************)
(* What the avionics core promises of a flight, without queue, context,    *)
(* table or commands: the flight goes through its phases in order and      *)
(* never back; the parachute is fired once, in ascent, before descent is   *)
(* entered; a sensor failure the core has accepted ends the mission, from  *)
(* whatever phase, and ERROR is never left.  (The states of                *)
(* core/include/system_state.h, and the order of the rules of              *)
(* g_transition_table in core/src/state_manager.c.)                        *)
(***************************************************************************)

VARIABLES phase,     \* the system state
          chute,     \* whether the flight logic has fired the parachute
          failing    \* a sensor failure is accepted and not yet acted upon

vars == <<phase, chute, failing>>

Phase == {"INIT", "IDLE", "ARMED", "ASCENT", "DESCENT", "LANDED", "ERROR"}

Init == phase = "INIT" /\ chute = "stowed" /\ failing = FALSE

Successor == [INIT |-> "IDLE", IDLE |-> "ARMED", ARMED |-> "ASCENT",
              ASCENT |-> "DESCENT", DESCENT |-> "LANDED"]

Advance == /\ phase \in DOMAIN Successor
           /\ phase = "ASCENT" => chute = "fired"
           /\ phase' = Successor[phase]
           /\ UNCHANGED <<chute, failing>>

Fire == /\ phase = "ASCENT"
        /\ chute = "stowed"
        /\ chute' = "fired"
        /\ UNCHANGED <<phase, failing>>

Fail == /\ failing' = TRUE
        /\ UNCHANGED <<phase, chute>>

\* A further failure may be waiting behind the one that is acted upon.
Abort == /\ failing
         /\ phase' = "ERROR"
         /\ failing' \in BOOLEAN
         /\ UNCHANGED chute

Next == Advance \/ Fire \/ Fail \/ Abort

\* An accepted failure does not wait for ever to end the mission.
Spec == Init /\ [][Next]_vars /\ WF_vars(Abort /\ phase # "ERROR")
=============================================================================
