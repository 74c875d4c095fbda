------------------------------ MODULE BootProofs ------------------------------
(***************************************************************************)
(* Theorems about the boot sequence, in every interleaving of app_main     *)
(* with the tasks and timers that already run.                             *)
(*                                                                         *)
(* The phases make up the inductive invariant: what each has completed by  *)
(* the service it has come to, and that nothing executes a command before  *)
(* all handlers are registered and the router is locked.                   *)
(***************************************************************************)
EXTENDS Boot, TLAPS

Wired == locked /\ registered = Handled

\* The first n services have created what they create, or registered their handlers.
Created(n, tasks) == \A k \in 1..n : Order[k] \in tasks => Order[k] \in running
Registered(n)     == \A k \in 1..n : Handles[Order[k]] \subseteq registered

Progress ==
  /\ running \subseteq InitTasks \union StartTasks
  /\ phase \in {"init", "register", "lock"} => ~locked
  /\ phase = "init" => Created(next - 1, InitTasks)
  /\ phase \in Phase \ {"init", "failed"} => InitTasks \subseteq running
  /\ phase = "register" => Registered(next - 1)
  /\ phase = "lock" => registered = Handled /\ next = 1
  /\ phase \in {"start", "dispatch", "ready"} => Wired
  /\ phase = "start" => Created(next - 1, StartTasks)
  /\ phase \in {"dispatch", "ready"} => StartTasks \subseteq running
  /\ dispatcher <=> phase = "ready"

\* Whoever executes commands came to do so after the router was locked.
ActiveIsWired == wifi # "idle" \/ running \intersect StartTasks # {} => Wired

IInv == TypeOK /\ Progress /\ ActiveIsWired /\ NothingUnserved
        /\ "early" \notin orders \union obeyed

-----------------------------------------------------------------------------
(* The services.                                                           *)

LEMMA Names == Service = {"wifi", "mqtt", "rocket_discovery", "rocket_command",
                          "ignition_relay", "logging", "mpu", "loadcell"}
  BY DEF Service, Handles

LEMMA Places == /\ Len(Order) = 8
                /\ \A k \in 1..8 : Order[k] \in Service
                /\ \A s \in Service : \E k \in 1..8 : Order[k] = s
<1>1. /\ Order[1] = "wifi" /\ Order[2] = "mqtt" /\ Order[3] = "rocket_discovery"
      /\ Order[4] = "rocket_command" /\ Order[5] = "ignition_relay" /\ Order[6] = "logging"
      /\ Order[7] = "mpu" /\ Order[8] = "loadcell" /\ Len(Order) = 8
  BY DEF Order
<1>2. \A k \in 1..8 : k = 1 \/ k = 2 \/ k = 3 \/ k = 4 \/ k = 5 \/ k = 6 \/ k = 7 \/ k = 8
  OBVIOUS
<1>3. \A k \in 1..8 : Order[k] \in Service
  BY <1>1, <1>2, Names
<1>4. ASSUME NEW s \in Service PROVE \E k \in 1..8 : Order[k] = s
  <2>1. 1 \in 1..8 /\ 2 \in 1..8 /\ 3 \in 1..8 /\ 4 \in 1..8
        /\ 5 \in 1..8 /\ 6 \in 1..8 /\ 7 \in 1..8 /\ 8 \in 1..8
    OBVIOUS
  <2> QED
    BY <1>1, <2>1, Names
<1> QED
  BY <1>1, <1>3, <1>4

\* The commands that start functions, tasks and timers execute have handlers.
LEMMA Commands == {"CONNECT_WIFI", "PUBLISH_MQTT", "SUBSCRIBE_MQTT",
                   "MQTT_SET_WIFI_STATE"} \subseteq Handled
<1>1. /\ "CONNECT_WIFI" \in Handles["wifi"]
      /\ {"PUBLISH_MQTT", "SUBSCRIBE_MQTT", "MQTT_SET_WIFI_STATE"} \subseteq Handles["mqtt"]
  BY DEF Handles
<1>2. "wifi" \in Service /\ "mqtt" \in Service
  BY Names
<1> QED
  BY <1>1, <1>2 DEF Handled

\* What the dispatcher executes are commands.
LEMMA Orders ==
  ASSUME NEW request \in GroundRequest
  PROVE  Range(Translate(request)) \subseteq Command
  BY SMTT(30) DEF GroundRequest, Translate, Range, Command

LEMMA Batches ==
  ASSUME NEW e
  PROVE  Batch(e) \subseteq Command
<1>1. ASSUME NEW i \in 1..10 PROVE Range(Table[i].batch) \subseteq Command
  <2>1. /\ Table[1].batch = <<"START_LOGGING", "START_TELEMETRY">>
        /\ Table[2].batch = <<"SYSTEM_ARM", "ARM_PARACHUTE">>
        /\ Table[3].batch = <<"ENABLE_GIMBAL_CONTROL", "SET_GIMBAL_QUATERNION">>
        /\ Table[4].batch = <<"DEPLOY_PARACHUTE", "STOP_GIMBAL_CONTROL">>
        /\ Table[5].batch = <<"STOP_TELEMETRY", "STOP_LOGGING", "FLUSH_STORAGE">>
    BY DEF Table, Rule
  <2>2. /\ Table[6].batch = <<"STOP_GIMBAL_CONTROL", "ABORT_MISSION">>
        /\ Table[7].batch = <<"READ_ULTRASONIC">>
        /\ Table[8].batch = <<"LOG_MESSAGE">>
        /\ Table[9].batch = <<"NOTIFY_MQTT_CONNECTED">>
        /\ Table[10].batch = <<"LOG_MESSAGE">>
    BY DEF Table, Rule
  <2>3. i = 1 \/ i = 2 \/ i = 3 \/ i = 4 \/ i = 5 \/ i = 6 \/ i = 7 \/ i = 8 \/ i = 9 \/ i = 10
    OBVIOUS
  <2> QED
    BY <2>1, <2>2, <2>3, SMTT(30) DEF Range, Command
<1> QED
  BY <1>1 DEF Batch

LEMMA TaskNames == InitTasks \subseteq Service /\ StartTasks \subseteq Service
                   /\ InitTasks \intersect StartTasks = {}
  BY Names DEF InitTasks, StartTasks

\* A phase that has come to its last service has come to all of them.
LEMMA AllCreated == ASSUME NEW tasks \in SUBSET Service, Created(8, tasks)
                    PROVE  tasks \subseteq running
  BY Places DEF Created

LEMMA AllRegistered == ASSUME Registered(8), registered \subseteq Handled
                       PROVE  registered = Handled
  BY Places DEF Registered, Handled

\* In a wired system no command is refused that some service handles, whoever executes it.
LEMMA Executed ==
  ASSUME Wired, NothingUnserved, NEW cs, ExecuteAll(cs)
  PROVE  /\ NothingUnserved'
         /\ \A c \in cs \intersect Handled : Served(c)
         /\ unserved' \subseteq unserved \union cs
         /\ cs \subseteq Handled => unserved' = unserved
  BY DEF Wired, ExecuteAll, Served, NothingUnserved

LEMMA Serving == ASSUME Wired, NothingUnserved,
                        NEW c \in {"CONNECT_WIFI", "PUBLISH_MQTT", "SUBSCRIBE_MQTT",
                                   "MQTT_SET_WIFI_STATE"},
                        Execute(c)
                 PROVE  Served(c) /\ unserved' = unserved
  BY Commands, Executed DEF Execute

LEMMA Initially == Init => IInv
<1> SUFFICES ASSUME Init PROVE IInv
  OBVIOUS
<1> USE DEF Init
<1>1. TypeOK
  <2>1. next \in 1..Len(Order)
    BY Places
  <2>2. phase \in Phase /\ U!TypeOK
    BY DEF Phase, U!Init, U!TypeOK
  <2>3. locked \in BOOLEAN /\ dispatcher \in BOOLEAN
    OBVIOUS
  <2> QED
    BY <2>1, <2>2, <2>3 DEF TypeOK
<1>2. Progress
  BY DEF Progress, Created
<1>3. ActiveIsWired /\ NothingUnserved /\ "early" \notin orders \union obeyed
  BY DEF ActiveIsWired, NothingUnserved, U!Init
<1> QED
  BY <1>1, <1>2, <1>3 DEF IInv

\* The uplink's own steps keep its types.
LEMMA UplinkType == U!TypeOK /\ U!Next => U!TypeOK'
  BY DEF U!TypeOK, U!Next, U!Connect, U!Online, U!Offline, U!Refused, U!Hear, U!Try, U!Reach,
         U!Leave, U!Queue, U!Subscribe, U!Forget, U!Report, U!SessionKept, U!SessionOver, U!broker

-----------------------------------------------------------------------------
(* app_main.                                                               *)

LEMMA Advanced ==
  ASSUME TypeOK, phase \in {"init", "register", "start"}, Advance
  PROVE  \/ next < 8 /\ next' = next + 1 /\ next' \in 1..8 /\ phase' = phase
         \/ next = 8 /\ next' = 1 /\ phase' = After(phase)
  BY Places DEF TypeOK, Advance

LEMMA Afters == After("init") = "register" /\ After("register") = "lock"
                /\ After("start") = "dispatch"
  BY DEF After

\* A failure leaves everything as it is and ends the sequence.
LEMMA FailInv ==
  ASSUME IInv, phase # "ready", Fail,
         UNCHANGED <<locked, registered, running, dispatcher, wifi, news, told, mqtt, subscription,
                     orders, obeyed, notices, unserved>>
  PROVE  IInv'
<1>1. TypeOK'
  BY DEF IInv, TypeOK, U!TypeOK, Fail, Phase
<1>2. Progress'
  BY DEF IInv, Progress, Fail
<1>3. ActiveIsWired' /\ NothingUnserved' /\ "early" \notin (orders \union obeyed)'
  BY DEF IInv, ActiveIsWired, Wired, NothingUnserved
<1> QED
  BY <1>1, <1>2, <1>3 DEF IInv

LEMMA InitServiceInv == ASSUME IInv, NEW s \in Service, InitService(s)
                        PROVE  IInv'
<1>1. /\ phase = "init" /\ s = Order[next]
      /\ UNCHANGED <<locked, registered, dispatcher, wifi, news, told, mqtt, subscription,
                     orders, obeyed, notices, unserved>>
  BY DEF InitService, At, uplink, events
<1>2. CASE Fail /\ UNCHANGED running
  BY <1>1, <1>2, FailInv
<1>3. CASE Advance /\ running' = running \union (InitTasks \intersect {s})
  <2>1. \/ next < 8 /\ next' = next + 1 /\ next' \in 1..8 /\ phase' = "init"
        \/ next = 8 /\ next' = 1 /\ phase' = "register"
    BY <1>1, <1>3, Advanced, Afters DEF IInv
  <2>2. next \in 1..8
    BY Places DEF IInv, TypeOK
  <2>3. TypeOK'
    BY <1>1, <1>3, <2>1, <2>2, Places DEF IInv, TypeOK, U!TypeOK, Phase
  <2>4. ASSUME NEW k \in 1..next, Order[k] \in InitTasks PROVE Order[k] \in running'
    <3>1. CASE k = next
      BY <1>1, <1>3, <2>4, <3>1
    <3>2. CASE k # next
      BY <1>1, <1>3, <2>2, <2>4, <3>2 DEF IInv, Progress, Created
    <3> QED
      BY <3>1, <3>2
  <2>5. Progress'
    <3>1. running' \subseteq InitTasks \union StartTasks
      BY <1>3 DEF IInv, Progress
    <3>2. CASE phase' = "init"
      BY <1>1, <2>1, <2>2, <2>4, <3>1, <3>2 DEF IInv, Progress, Created
    <3>3. CASE phase' = "register" /\ next = 8 /\ next' = 1
      <4>1. InitTasks \subseteq running'
        BY <2>4, <3>3, Places, TaskNames
      <4> QED
        BY <1>1, <3>1, <3>3, <4>1 DEF IInv, Progress, Registered
    <3> QED
      BY <2>1, <3>2, <3>3
  <2>6. ActiveIsWired'
    BY <1>1, <1>3, TaskNames DEF IInv, ActiveIsWired, Wired
  <2> QED
    BY <1>1, <2>3, <2>5, <2>6 DEF IInv, NothingUnserved
<1> QED
  BY <1>2, <1>3 DEF InitService

LEMMA RegisterServiceInv == ASSUME IInv, NEW s \in Service, RegisterService(s)
                            PROVE  IInv'
<1>1. /\ phase = "register" /\ s = Order[next]
      /\ UNCHANGED <<locked, running, dispatcher, wifi, news, told, mqtt, subscription,
                     orders, obeyed, notices, unserved>>
  BY DEF RegisterService, At, uplink, events
<1>2. ~locked
  BY <1>1 DEF IInv, Progress
<1>3. Advance /\ registered' = registered \union Handles[s]
  BY <1>2 DEF RegisterService
<1>4. \/ next < 8 /\ next' = next + 1 /\ next' \in 1..8 /\ phase' = "register"
      \/ next = 8 /\ next' = 1 /\ phase' = "lock"
  BY <1>1, <1>3, Advanced, Afters DEF IInv
<1>5. next \in 1..8 /\ registered \subseteq Handled /\ Handles[s] \subseteq Handled
  BY Places DEF IInv, TypeOK, Handled
<1>6. TypeOK'
  BY <1>1, <1>3, <1>4, <1>5, Places DEF IInv, TypeOK, U!TypeOK, Phase
<1>7. ASSUME NEW k \in 1..next PROVE Handles[Order[k]] \subseteq registered'
  <2>1. CASE k = next
    BY <1>1, <1>3, <2>1
  <2>2. CASE k # next
    BY <1>1, <1>3, <1>5, <2>2 DEF IInv, Progress, Registered
  <2> QED
    BY <2>1, <2>2
<1>8. Progress'
  <2>1. running' \subseteq InitTasks \union StartTasks /\ InitTasks \subseteq running'
        /\ ~locked' /\ ~dispatcher'
    BY <1>1, <1>2 DEF IInv, Progress, Phase
  <2>2. CASE phase' = "register" /\ next' = next + 1
    BY <1>5, <1>7, <2>1, <2>2 DEF Progress, Registered
  <2>3. CASE phase' = "lock" /\ next = 8 /\ next' = 1
    <3>1. registered' = Handled
      BY <1>6, <1>7, <2>3, Places DEF TypeOK, Handled
    <3> QED
      BY <2>1, <2>3, <3>1 DEF Progress
  <2> QED
    BY <1>4, <2>2, <2>3
<1>9. ActiveIsWired'
  BY <1>1, <1>2 DEF IInv, ActiveIsWired, Wired
<1> QED
  BY <1>1, <1>6, <1>8, <1>9 DEF IInv, NothingUnserved

LEMMA LockInv == IInv /\ Lock => IInv'
<1> SUFFICES ASSUME IInv, Lock PROVE IInv'
  OBVIOUS
<1>1. /\ phase = "lock" /\ phase' = "start" /\ locked' = TRUE /\ next' = next
      /\ UNCHANGED <<registered, running, dispatcher, wifi, news, told, mqtt, subscription,
                     orders, obeyed, notices, unserved>>
  BY DEF Lock, uplink, events
<1>2. registered = Handled /\ next = 1
  BY <1>1 DEF IInv, Progress
<1>3. TypeOK'
  BY <1>1 DEF IInv, TypeOK, U!TypeOK, Phase
<1>4. Progress' /\ ActiveIsWired'
  BY <1>1, <1>2 DEF IInv, Progress, ActiveIsWired, Wired, Created, Phase
<1> QED
  BY <1>1, <1>3, <1>4 DEF IInv, NothingUnserved

\* A service is started: it has created its task or timer if it has one.
LEMMA StartedInv ==
  ASSUME IInv, NEW s \in Service, At("start", s), Advance,
         running' = running \union (StartTasks \intersect {s}),
         UNCHANGED <<locked, registered, dispatcher, orders, obeyed, notices, unserved>>,
         UNCHANGED uplink \/ U!Next
  PROVE  IInv'
<1>1. phase = "start" /\ s = Order[next] /\ Wired
  BY DEF At, IInv, Progress
<1>2. \/ next < 8 /\ next' = next + 1 /\ next' \in 1..8 /\ phase' = "start"
      \/ next = 8 /\ next' = 1 /\ phase' = "dispatch"
  BY <1>1, Advanced, Afters DEF IInv
<1>3. next \in 1..8
  BY Places DEF IInv, TypeOK
<1>4. TypeOK'
  <2>1. U!TypeOK'
    BY UplinkType DEF IInv, TypeOK, U!TypeOK, uplink
  <2> QED
    BY <1>1, <1>2, <1>3, <2>1, Places DEF IInv, TypeOK, Phase
<1>5. ASSUME NEW k \in 1..next, Order[k] \in StartTasks PROVE Order[k] \in running'
  <2>1. CASE k = next
    BY <1>1, <1>5, <2>1
  <2>2. CASE k # next
    BY <1>1, <1>3, <1>5, <2>2 DEF IInv, Progress, Created
  <2> QED
    BY <2>1, <2>2
<1>6. Progress'
  <2>1. /\ running' \subseteq InitTasks \union StartTasks /\ InitTasks \subseteq running'
        /\ Wired' /\ ~dispatcher'
    BY <1>1 DEF IInv, Progress, Wired, Phase
  <2>2. CASE phase' = "start" /\ next' = next + 1
    BY <1>3, <1>5, <2>1, <2>2 DEF Progress, Created
  <2>3. CASE phase' = "dispatch" /\ next = 8
    <3>1. StartTasks \subseteq running'
      BY <1>5, <2>3, Places, TaskNames
    <3> QED
      BY <2>1, <2>3, <3>1 DEF Progress
  <2> QED
    BY <1>2, <2>2, <2>3
<1>7. ActiveIsWired'
  BY <1>1 DEF ActiveIsWired, Wired
<1> QED
  BY <1>4, <1>6, <1>7 DEF IInv, NothingUnserved

LEMMA StartInv ==
  ASSUME IInv,
         \/ StartWifi \/ StartDiscovery \/ StartCommands
         \/ \E s \in Service : StartOther(s)
  PROVE  IInv'
<1>1. "wifi" \in Service \ StartTasks /\ "rocket_command" \in Service \ StartTasks
      /\ "rocket_discovery" \in Service \intersect StartTasks
  BY Names DEF StartTasks
<1>2. phase = "start" /\ Wired /\ NothingUnserved
  BY DEF StartWifi, StartDiscovery, StartCommands, StartOther, At, IInv, Progress
<1>3. CASE StartWifi
  <2>1. Served("CONNECT_WIFI") /\ unserved' = unserved
    BY <1>2, <1>3, Serving DEF StartWifi
  <2>2. running' = running \union (StartTasks \intersect {"wifi"})
    BY <1>1, <1>3 DEF StartWifi, wiring
  <2> QED
    BY <1>1, <1>3, <2>1, <2>2, StartedInv DEF StartWifi, wiring, events, U!Next
<1>4. CASE StartDiscovery
  <2>1. unserved' = unserved
    BY <1>2, <1>4, Serving DEF StartDiscovery
  <2>2. running' = running \union (StartTasks \intersect {"rocket_discovery"})
    BY <1>1, <1>4 DEF StartDiscovery
  <2> QED
    BY <1>1, <1>4, <2>1, <2>2, StartedInv DEF StartDiscovery, events
<1>5. CASE StartCommands
  <2>1. unserved' = unserved
    BY <1>2, <1>5, Serving DEF StartCommands
  <2>2. running' = running \union (StartTasks \intersect {"rocket_command"})
    BY <1>1, <1>5 DEF StartCommands, wiring
  <2> QED
    BY <1>1, <1>2, <1>5, <2>1, <2>2, StartedInv, FailInv
       DEF StartCommands, wiring, uplink, events, U!Next
<1>6. CASE \E s \in Service : StartOther(s)
  BY <1>2, <1>6, StartedInv, FailInv DEF StartOther, uplink, events
<1> QED
  BY <1>3, <1>4, <1>5, <1>6

LEMMA StartDispatcherInv == IInv /\ StartDispatcher => IInv'
<1> SUFFICES ASSUME IInv, StartDispatcher PROVE IInv'
  OBVIOUS
<1>1. /\ phase = "dispatch"
      /\ UNCHANGED <<next, locked, registered, running, wifi, news, told, mqtt, subscription,
                     orders, obeyed, notices, unserved>>
  BY DEF StartDispatcher, uplink, events
<1>2. CASE phase' = "failed" /\ UNCHANGED dispatcher
  BY <1>1, <1>2, FailInv DEF Fail
<1>3. CASE phase' = "ready" /\ dispatcher' = TRUE
  <2>1. TypeOK'
    BY <1>1, <1>3 DEF IInv, TypeOK, U!TypeOK, Phase
  <2>2. Progress' /\ ActiveIsWired'
    BY <1>1, <1>3 DEF IInv, Progress, ActiveIsWired, Wired, Phase
  <2> QED
    BY <1>1, <2>1, <2>2 DEF IInv, NothingUnserved
<1> QED
  BY <1>2, <1>3 DEF StartDispatcher

-----------------------------------------------------------------------------
(* What runs beside it.                                                    *)

\* A step of the tasks and timers leaves the sequence and the wiring alone.
LEMMA BesideInv ==
  ASSUME IInv, UNCHANGED <<phase, next, locked, registered, running, dispatcher>>,
         notices' \subseteq Notice, unserved' \subseteq Handled \union Command, NothingUnserved',
         UNCHANGED uplink \/ U!Next, wifi # "idle" \/ wifi' = wifi,
         orders' \subseteq Age \ {"early"}, obeyed' \subseteq Age \ {"early"}
  PROVE  IInv'
<1>1. U!TypeOK'
  BY UplinkType DEF IInv, TypeOK, U!TypeOK, uplink
<1>2. TypeOK'
  BY <1>1 DEF IInv, TypeOK
<1>3. Progress'
  BY DEF IInv, Progress, Wired, Created, Registered
<1>4. ActiveIsWired'
  BY DEF IInv, ActiveIsWired, Wired
<1> QED
  BY <1>2, <1>3, <1>4 DEF IInv

LEMMA TasksInv ==
  ASSUME IInv,
         \/ WifiReports \/ WifiRefused \/ MqttConnects \/ Mqtt
         \/ \E s \in Service : Publish(s)
         \/ GroundMessage
  PROVE  IInv'
<1> USE DEF sequence, wiring, events
<1>1. /\ orders \subseteq Age \ {"early"} /\ obeyed \subseteq Age \ {"early"}
      /\ notices \subseteq Notice /\ unserved \subseteq Handled \union Command
      /\ NothingUnserved
  BY DEF IInv, TypeOK
<1>0. unserved' = unserved => unserved' \subseteq Handled \union Command /\ NothingUnserved'
  BY <1>1 DEF NothingUnserved
<1>2. CASE WifiReports
  <2>1. wifi # "idle" /\ U!Next
    BY <1>2 DEF WifiReports, U!Online, U!Offline, U!Next
  <2>2. unserved' = unserved
    BY <1>1, <1>2, <2>1, Serving DEF WifiReports, IInv, ActiveIsWired
  <2> QED
    BY <1>0, <1>1, <1>2, <2>1, <2>2, BesideInv DEF WifiReports
<1>3. CASE WifiRefused
  BY <1>0, <1>1, <1>3, BesideInv DEF WifiRefused, U!Refused, U!Next
<1>4. CASE MqttConnects \/ Mqtt
  <2>1. U!Next /\ wifi' = wifi
    BY <1>4 DEF MqttConnects, Mqtt, U!Next, U!Hear, U!Try, U!Reach, U!Leave, U!Subscribe, U!Forget
  <2>2. notices' \subseteq Notice
    BY <1>1, <1>4 DEF MqttConnects, Mqtt, Notify, Notice
  <2> QED
    BY <1>0, <1>1, <1>4, <2>1, <2>2, BesideInv DEF MqttConnects, Mqtt
<1>5. CASE \E s \in Service : Publish(s)
  <2>1. Wired /\ wifi' = wifi
    BY <1>5 DEF IInv, ActiveIsWired, Publish, uplink
  <2>2. unserved' = unserved
    BY <1>1, <1>5, <2>1, Serving DEF Publish
  <2> QED
    BY <1>0, <1>1, <1>5, <2>1, <2>2, BesideInv DEF Publish
<1>6. CASE GroundMessage
  <2>1. dispatcher => phase = "ready"
    BY DEF IInv, Progress
  <2>2. orders' \subseteq Age \ {"early"} /\ wifi' = wifi
    BY <1>1, <1>6, <2>1 DEF GroundMessage, Post, Age, uplink
  <2> QED
    BY <1>0, <1>1, <1>6, <2>2, BesideInv DEF GroundMessage
<1> QED
  BY <1>2, <1>3, <1>4, <1>5, <1>6

\* The dispatcher runs in a wired system.
LEMMA DispatcherInv == ASSUME IInv, DispatchOrder \/ DispatchNotice
                       PROVE  IInv'
<1> USE DEF sequence, wiring, events
<1>1. /\ orders \subseteq Age \ {"early"} /\ obeyed \subseteq Age \ {"early"}
      /\ notices \subseteq Notice /\ unserved \subseteq Handled \union Command
      /\ NothingUnserved
  BY DEF IInv, TypeOK
<1>2. Wired /\ wifi' = wifi
  BY DEF DispatchOrder, DispatchNotice, IInv, Progress, uplink
<1>3. ASSUME NEW cs \in SUBSET Command, ExecuteAll(cs)
      PROVE  unserved' \subseteq Handled \union Command /\ NothingUnserved'
  BY <1>1, <1>2, <1>3, Executed
<1>4. CASE DispatchOrder
  <2>1. orders' \subseteq Age \ {"early"} /\ obeyed' \subseteq Age \ {"early"}
    BY <1>1, <1>4 DEF DispatchOrder
  <2>2. PICK request \in GroundRequest :
          LET asked == IF Served("PROCESS_ROCKET_COMMAND") THEN Range(Translate(request)) ELSE {}
          IN  /\ ExecuteAll({"PROCESS_ROCKET_COMMAND"} \union asked)
              /\ IF "IGNITION" \in asked /\ Served("IGNITION")
                 THEN Notify("ENGINE_IGNITED")
                 ELSE UNCHANGED notices
    BY <1>4 DEF DispatchOrder
  <2>3. PICK cs \in SUBSET Command : ExecuteAll(cs)
    <3>1. "PROCESS_ROCKET_COMMAND" \in Command
      BY DEF Command
    <3> QED
      BY <2>2, <3>1, Orders
  <2>4. notices' \subseteq Notice
    BY <1>1, <2>2 DEF Notify, Notice
  <2> QED
    BY <1>2, <1>3, <1>4, <2>1, <2>3, <2>4, BesideInv DEF DispatchOrder
<1>5. CASE DispatchNotice
  <2>1. PICK e \in notices : notices' = notices \ {e} /\ ExecuteAll(Batch(e))
    BY <1>5 DEF DispatchNotice
  <2>2. Batch(e) \in SUBSET Command
    BY Batches
  <2> QED
    BY <1>1, <1>2, <1>3, <1>5, <2>1, <2>2, BesideInv DEF DispatchNotice
<1> QED
  BY <1>4, <1>5

-----------------------------------------------------------------------------
(* The theorems.                                                           *)

LEMMA Inductive == IInv /\ [Next]_vars => IInv'
<1> SUFFICES ASSUME IInv, [Next]_vars PROVE IInv'
  OBVIOUS
<1>1. CASE AppMain
  BY <1>1, InitServiceInv, RegisterServiceInv, LockInv, StartInv, StartDispatcherInv DEF AppMain
<1>2. CASE \/ WifiReports \/ WifiRefused \/ MqttConnects \/ Mqtt
           \/ \E s \in Service : Publish(s)
           \/ GroundMessage
  BY <1>2, TasksInv
<1>3. CASE DispatchOrder \/ DispatchNotice
  BY <1>3, DispatcherInv
<1>4. CASE UNCHANGED vars
  <2>1. /\ orders \subseteq Age \ {"early"} /\ obeyed \subseteq Age \ {"early"}
        /\ notices \subseteq Notice /\ unserved \subseteq Handled \union Command
        /\ NothingUnserved
    BY DEF IInv, TypeOK
  <2>2. UNCHANGED <<phase, next, locked, registered, running, dispatcher, wifi, uplink,
                    orders, obeyed, notices, unserved>>
    BY <1>4 DEF vars, sequence, wiring, uplink, events
  <2>3. NothingUnserved'
    BY <2>1, <2>2 DEF NothingUnserved
  <2> QED
    BY <2>1, <2>2, <2>3, BesideInv
<1> QED
  BY <1>1, <1>2, <1>3, <1>4 DEF Next

LEMMA Invariance == Spec => []IInv
  BY Initially, Inductive, PTL DEF Spec

\* Types.
THEOREM TypeCorrect == Spec => []TypeOK
<1>1. IInv => TypeOK
  BY DEF IInv
<1> QED
  BY <1>1, Invariance, PTL

\* The dispatcher runs only in a complete system (service_manager.c: fail-fast phases).
THEOREM DispatcherComesLast == Spec => []ReadyMeansWired
<1>1. IInv => ReadyMeansWired
  BY DEF IInv, Progress, ReadyMeansWired, Wired, Phase
<1> QED
  BY <1>1, Invariance, PTL

\* The router never refuses a command that some service handles, for want of its lock or of
\* the handler (command_router_execute): not to a start function, a task or a timer that runs
\* before the others are registered, not to the dispatcher, and not to the rocket command
\* handler, which executes its command from inside the dispatcher's.
THEOREM EveryCommandIsServed == Spec => []NothingUnserved
<1>1. IInv => NothingUnserved
  BY DEF IInv
<1> QED
  BY <1>1, Invariance, PTL

\* A ground message that came before the vehicle was ready is never acted upon
\* (event_dispatcher_post refuses it).
THEOREM OldOrdersAreVoid == Spec => []NoStaleOrder
<1>1. IInv => NoStaleOrder
  BY DEF IInv, NoStaleOrder
<1> QED
  BY <1>1, Invariance, PTL
=============================================================================
