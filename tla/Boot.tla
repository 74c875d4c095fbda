--------------------------------- MODULE Boot ---------------------------------
(***************************************************************************)
(* How the firmware comes up: app_main (main/main.c) takes the service     *)
(* manager's table (services/common/service_manager.c) through its three   *)
(* phases, locks the command router after the second and starts the event  *)
(* dispatcher last.  It gives up at the first failure and stops nothing.   *)
(*                                                                         *)
(* Services create tasks and timers on the way, and these run while the    *)
(* rest is still being started.  WiFi, MQTT and the broker are reduced to  *)
(* module Uplink, which the two services are shown to implement.           *)
(* What the dispatcher makes of an event is module FlightTable's; nobody   *)
(* posts the events that a phase of the flight would wait for.             *)
(* NVS, TCP/IP and the router's and dispatcher's own initialisation come   *)
(* before the initial state.                                               *)
(***************************************************************************)
EXTENDS FlightTable, Functions

\* g_services.
Order == <<"wifi", "mqtt", "rocket_discovery", "rocket_command",
           "ignition_relay", "logging", "mpu", "loadcell">>

\* The commands a service registers handlers for.
Handles ==
  [wifi             |-> {"CONNECT_WIFI", "DISCONNECT_WIFI", "SET_CONFIG_WIFI",
                         "GET_STATUS_WIFI", "SCAN_WIFI"},
   mqtt             |-> {"CONNECT_MQTT", "DISCONNECT_MQTT", "SET_CONFIG_MQTT", "PUBLISH_MQTT",
                         "SUBSCRIBE_MQTT", "UNSUBSCRIBE_MQTT", "MQTT_SET_WIFI_STATE"},
   rocket_discovery |-> {},
   rocket_command   |-> {"PROCESS_ROCKET_COMMAND"},
   ignition_relay   |-> {"IGNITION"},
   logging          |-> {"LOG_MESSAGE"},
   mpu              |-> {},
   loadcell         |-> {"LOADCELL_START_SAMPLING", "LOADCELL_STOP_SAMPLING",
                         "LOADCELL_CALIBRATE_ZERO", "LOADCELL_CALIBRATE_SCALE",
                         "LOADCELL_GET_LAST", "CALIBRATE_SENSOR"}]

Service == DOMAIN Handles
Handled == UNION {Handles[s] : s \in Service}

\* No command has two handlers, so that the router refuses a registration only when locked.
ASSUME OneHandlerEach == \A s, t \in Service : s # t => Handles[s] \intersect Handles[t] = {}

\* What creates a task when it is initialised, a task or a timer when it is started, and
\* what may fail for reasons of its own (hardware, memory).
InitTasks  == {"wifi", "mqtt"}
StartTasks == {"rocket_discovery", "mpu", "loadcell"}
InitFails  == {"wifi", "mqtt", "rocket_discovery", "ignition_relay", "mpu", "loadcell"}
StartFails == {"rocket_command", "mpu", "loadcell"}

VARIABLES phase,        \* what app_main is at
          next,         \* the service it comes to next
          locked,       \* s_locked of the router
          registered,   \* commands with a handler
          running,      \* services whose task or timer runs
          dispatcher,   \* s_started of the dispatcher
          wifi, news, told, mqtt, subscription,   \* see Uplink
          orders,       \* ground messages in the event queue, by age
          obeyed,       \* the ages of those that were acted upon
          notices,      \* the other events in the queue that a rule of the table is about
          unserved      \* commands executed without lock or handler

sequence == <<phase, next>>
wiring   == <<locked, registered, running, dispatcher>>
uplink   == <<wifi, news, told, mqtt, subscription>>
events   == <<orders, obeyed, notices>>
vars == <<sequence, wiring, uplink, events, unserved>>

U == INSTANCE Uplink

Phase == {"init", "register", "lock", "start", "dispatch", "ready", "failed"}

\* A ground message is early if it came before the vehicle was ready.
Age == {"early", "timely"}

\* Of the events that somebody posts in this firmware, those that a rule is about.
Notice == {"MQTT_CONNECTED", "ENGINE_IGNITED"}

Init == /\ phase = "init" /\ next = 1
        /\ locked = FALSE /\ registered = {} /\ running = {} /\ dispatcher = FALSE
        /\ U!Init
        /\ orders = {} /\ obeyed = {} /\ notices = {} /\ unserved = {}

-----------------------------------------------------------------------------
(* Executing commands and posting events.                                  *)

Served(c) == locked /\ c \in registered

ExecuteAll(cs) == unserved' = unserved \union {c \in cs : ~Served(c)}

Execute(c) == ExecuteAll({c})

\* Slip: the event goes into the queue whether the dispatcher runs or not.
Post_Unchecked(age) == orders' = orders \union {age}

Post(age) == orders' = IF dispatcher THEN orders \union {age} ELSE orders

\* The event may also find the queue full.
Notify(e) == \/ dispatcher /\ notices' = notices \union {e}
             \/ UNCHANGED notices

-----------------------------------------------------------------------------
(* app_main.                                                               *)

At(ph, s) == phase = ph /\ s = Order[next]

After(ph) == [init |-> "register", register |-> "lock", start |-> "dispatch"][ph]

\* Slip: one service more than the table has.
Advance_OneMore == IF next <= Len(Order)
                   THEN next' = next + 1 /\ UNCHANGED phase
                   ELSE next' = 1 /\ phase' = After(phase)

Advance == IF next < Len(Order)
           THEN next' = next + 1 /\ UNCHANGED phase
           ELSE next' = 1 /\ phase' = After(phase)

\* Slip: a failure is logged and the phase goes on.
Fail_Logged == Advance

\* What was created stays.
Fail == phase' = "failed" /\ UNCHANGED next

InitService(s) ==
  /\ At("init", s)
  /\ \/ Advance /\ running' = running \union (InitTasks \intersect {s})
     \/ s \in InitFails /\ Fail /\ UNCHANGED running
  /\ UNCHANGED <<locked, registered, dispatcher, uplink, events, unserved>>

RegisterService(s) ==
  /\ At("register", s)
  /\ IF locked /\ Handles[s] # {}
     THEN Fail /\ UNCHANGED registered
     ELSE Advance /\ registered' = registered \union Handles[s]
  /\ UNCHANGED <<locked, running, dispatcher, uplink, events, unserved>>

\* Slip: the router is left open.
Lock_Forgotten ==
  /\ phase = "lock"
  /\ phase' = "start"
  /\ UNCHANGED <<next, wiring, uplink, events, unserved>>

Lock ==
  /\ phase = "lock"
  /\ locked' = TRUE
  /\ phase' = "start"
  /\ UNCHANGED <<next, registered, running, dispatcher, uplink, events, unserved>>

\* The connect command is put into the WiFi service's queue.
StartWifi ==
  /\ At("start", "wifi")
  /\ Execute("CONNECT_WIFI")
  /\ IF Served("CONNECT_WIFI")
     THEN Advance /\ U!Connect
     ELSE Fail /\ UNCHANGED uplink
  /\ UNCHANGED <<wiring, events>>

\* The first announcement is published at once, whatever becomes of it.
StartDiscovery ==
  /\ At("start", "rocket_discovery")
  /\ Execute("PUBLISH_MQTT")
  /\ Advance
  /\ running' = running \union {"rocket_discovery"}
  /\ UNCHANGED <<locked, registered, dispatcher, uplink, events>>

\* The one subscription; a full queue is a failure.
StartCommands ==
  /\ At("start", "rocket_command")
  /\ Execute("SUBSCRIBE_MQTT")
  /\ \/ Served("SUBSCRIBE_MQTT") /\ Advance /\ U!Queue
     \/ Fail /\ UNCHANGED uplink
  /\ UNCHANGED <<wiring, events>>

\* Services that execute nothing when they are started.
StartOther(s) ==
  /\ s \notin {"wifi", "rocket_discovery", "rocket_command"}
  /\ At("start", s)
  /\ \/ Advance /\ running' = running \union (StartTasks \intersect {s})
     \/ s \in StartFails /\ Fail /\ UNCHANGED running
  /\ UNCHANGED <<locked, registered, dispatcher, uplink, events, unserved>>

StartDispatcher ==
  /\ phase = "dispatch"
  /\ \/ phase' = "ready" /\ dispatcher' = TRUE
     \/ phase' = "failed" /\ UNCHANGED dispatcher
  /\ UNCHANGED <<next, locked, registered, running, uplink, events, unserved>>

AppMain == \/ \E s \in Service : InitService(s) \/ RegisterService(s) \/ StartOther(s)
           \/ Lock \/ StartWifi \/ StartDiscovery \/ StartCommands \/ StartDispatcher

-----------------------------------------------------------------------------
(* What runs beside it.                                                    *)

\* The WiFi task takes the connect command up, succeeds, fails, and tries again; it tells
\* the MQTT service of a lease and of a loss.
WifiReports ==
  /\ "wifi" \in running
  /\ U!Online \/ U!Offline
  /\ Execute("MQTT_SET_WIFI_STATE")
  /\ ~Served("MQTT_SET_WIFI_STATE") => UNCHANGED news
  /\ UNCHANGED <<sequence, wiring, events>>

WifiRefused ==
  /\ "wifi" \in running
  /\ U!Refused
  /\ UNCHANGED <<sequence, wiring, events, unserved>>

\* The MQTT service is CONNECTED and posts it.
MqttConnects ==
  /\ "mqtt" \in running
  /\ U!Reach
  /\ Notify("MQTT_CONNECTED")
  /\ UNCHANGED <<sequence, wiring, orders, obeyed, unserved>>

\* What else the MQTT task and its client do.
Mqtt ==
  /\ "mqtt" \in running
  /\ U!Hear \/ U!Try \/ U!Leave \/ U!Subscribe \/ U!Forget
  /\ UNCHANGED <<sequence, wiring, events, unserved>>

\* Announcements and measurements.
Publish(s) ==
  /\ s \in running \intersect StartTasks
  /\ Execute("PUBLISH_MQTT")
  /\ UNCHANGED <<sequence, wiring, uplink, events>>

\* The MQTT service posts a ground message as an event, in whatever state it is by then.
GroundMessage ==
  /\ subscription \in {"made", "over"}
  /\ Post(IF phase = "ready" THEN "timely" ELSE "early")
  /\ UNCHANGED <<sequence, wiring, uplink, obeyed, notices, unserved>>

\* The dispatcher takes a ground message.  The rocket command service translates it and
\* executes the result at once; an ignition may be announced to the queue.
DispatchOrder ==
  /\ dispatcher
  /\ \E age \in orders : orders' = orders \ {age} /\ obeyed' = obeyed \union {age}
  /\ \E request \in GroundRequest :
       LET asked == IF Served("PROCESS_ROCKET_COMMAND") THEN Range(Translate(request)) ELSE {}
       IN  /\ ExecuteAll({"PROCESS_ROCKET_COMMAND"} \union asked)
           /\ IF "IGNITION" \in asked /\ Served("IGNITION")
              THEN Notify("ENGINE_IGNITED")
              ELSE UNCHANGED notices
  /\ UNCHANGED <<sequence, wiring, uplink>>

\* The batch of the rule on e, which holds in every state.
Batch(e) == UNION {Range(Table[i].batch) : i \in {j \in 1..10 : Table[j].on = e}}

\* The dispatcher takes another event.
DispatchNotice ==
  /\ dispatcher
  /\ \E e \in notices : notices' = notices \ {e} /\ ExecuteAll(Batch(e))
  /\ UNCHANGED <<sequence, wiring, uplink, orders, obeyed>>

-----------------------------------------------------------------------------

Next == \/ AppMain
        \/ WifiReports \/ WifiRefused \/ MqttConnects \/ Mqtt
        \/ \E s \in Service : Publish(s)
        \/ GroundMessage \/ DispatchOrder \/ DispatchNotice

Spec == Init /\ [][Next]_vars

-----------------------------------------------------------------------------
(* Invariants.                                                             *)

TypeOK == /\ phase \in Phase /\ next \in 1..Len(Order)
          /\ locked \in BOOLEAN /\ dispatcher \in BOOLEAN
          /\ registered \subseteq Handled /\ running \subseteq Service
          /\ U!TypeOK
          /\ orders \subseteq Age /\ obeyed \subseteq Age
          /\ notices \subseteq Notice
          /\ unserved \subseteq Handled \union Command

\* The dispatcher runs only in a system that is complete: every handler registered, the
\* router locked, every task and timer there ("fail-fast", service_manager.h).
ReadyMeansWired == dispatcher => /\ phase = "ready"
                                 /\ locked /\ registered = Handled
                                 /\ running = InitTasks \union StartTasks

\* A command that some service of the table handles is never refused, whoever executes it:
\* start functions, tasks and timers created before the handlers are there, the dispatcher,
\* or a handler from inside its own execution.
NothingUnserved == unserved \intersect Handled = {}

\* What the ground sends while the vehicle is not ready is not carried out later.
NoStaleOrder == "early" \notin obeyed
=============================================================================
