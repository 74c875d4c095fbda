------------------------- MODULE ConnectivityProofs -------------------------
(***************************************************************************)
(* The WiFi service and the MQTT service together, for every length of the *)
(* two queues and with messages lost or not: each of the two goes on doing *)
(* what it does alone (so that what is proved of it alone holds here), the *)
(* WiFi service's reports arrive through the MQTT service's queue, and the *)
(* two implement the abstract uplink.                                      *)
(***************************************************************************)
EXTENDS Connectivity, MqttServiceProofs

\* The WiFi service again, with what is proved about it.
P == INSTANCE WifiStationProofs
       WITH QueueLength <- WifiQueueLength, CountCap <- WifiCountCap, MaxRequests <- 1,
            queue <- wifiQueue, state <- wifiState, count <- wifiCount, user <- wifiUser,
            timer <- wifiTimer, firing <- wifiFiring, link <- wifiLink, lost <- wifiLost

CInv == /\ queue \in Seq(Item) /\ wifi \in BOOLEAN /\ told \in BOOLEAN /\ stale \in BOOLEAN
        /\ ReportsArrive

-----------------------------------------------------------------------------
(* A row of messages.                                                      *)

LEMMA KnownAppended ==
  ASSUME NEW q \in Seq(Item), NEW m \in Item, NEW known \in BOOLEAN
  PROVE  KnownAfter(Append(q, m), known) <=>
           m.id = "WIFI_UP" \/ (m.id # "WIFI_DOWN" /\ KnownAfter(q, known))
<1> DEFINE r == Append(q, m)
<1>1. /\ Len(q) \in Nat /\ DOMAIN q = 1..Len(q) /\ DOMAIN r = 1..(Len(q) + 1)
      /\ r[Len(q) + 1] = m /\ \A i \in 1..Len(q) : r[i] = q[i]
  OBVIOUS
<1> HIDE DEF r
<1>2. CASE m.id = "WIFI_UP"
  BY <1>1, <1>2 DEF KnownAfter
<1>3. CASE m.id = "WIFI_DOWN"
  BY <1>1, <1>3 DEF KnownAfter
<1>4. CASE m.id \notin {"WIFI_UP", "WIFI_DOWN"}
  <2>1. ASSUME KnownAfter(q, known) PROVE KnownAfter(r, known)
    BY <1>1, <1>4, <2>1 DEF KnownAfter
  <2>2. ASSUME KnownAfter(r, known) PROVE KnownAfter(q, known)
    BY <1>1, <1>4, <2>2 DEF KnownAfter
  <2> QED
    BY <1>4, <2>1, <2>2 DEF r
<1> QED
  BY <1>2, <1>3, <1>4 DEF r

\* What the first message of the row is taken for.
Learnt(m, known) == m.id = "WIFI_UP" \/ (m.id # "WIFI_DOWN" /\ known)

LEMMA KnownTaken ==
  ASSUME NEW q \in Seq(Item), q # << >>, NEW known \in BOOLEAN
  PROVE  KnownAfter(Tail(q), Learnt(Head(q), known)) <=> KnownAfter(q, known)
<1> DEFINE t == Tail(q)
           m == Head(q)
<1>1. /\ Len(q) \in Nat \ {0} /\ DOMAIN q = 1..Len(q) /\ DOMAIN t = 1..(Len(q) - 1)
      /\ q[1] = m /\ \A i \in 1..(Len(q) - 1) : t[i] = q[i + 1]
  OBVIOUS
<1>2. \A i \in 1..Len(q) : i # 1 => i - 1 \in 1..(Len(q) - 1) /\ t[i - 1] = q[i]
  BY <1>1
<1>3. \A i \in 1..(Len(q) - 1) : i + 1 \in 1..Len(q)
  BY <1>1
<1> HIDE DEF t, m
<1>4. ASSUME KnownAfter(t, Learnt(m, known)) PROVE KnownAfter(q, known)
  <2>1. CASE \E i \in DOMAIN t : /\ t[i].id = "WIFI_UP"
                                /\ \A j \in DOMAIN t : t[j].id = "WIFI_DOWN" => j < i
    <3>1. PICK i \in DOMAIN t : /\ t[i].id = "WIFI_UP"
                               /\ \A j \in DOMAIN t : t[j].id = "WIFI_DOWN" => j < i
      BY <2>1
    <3>2. i + 1 \in DOMAIN q /\ q[i + 1].id = "WIFI_UP"
      BY <1>1, <1>3, <3>1
    <3>3. ASSUME NEW j \in DOMAIN q, q[j].id = "WIFI_DOWN" PROVE j < i + 1
      <4>1. CASE j = 1
        BY <1>1, <4>1
      <4>2. CASE j # 1
        <5>1. j - 1 \in DOMAIN t /\ t[j - 1].id = "WIFI_DOWN"
          BY <1>1, <1>2, <3>3, <4>2
        <5>2. j - 1 < i
          BY <3>1, <5>1
        <5> QED
          BY <1>1, <5>2
      <4> QED
        BY <4>1, <4>2
    <3> QED
      BY <3>2, <3>3 DEF KnownAfter
  <2>2. CASE Learnt(m, known) /\ \A j \in DOMAIN t : t[j].id # "WIFI_DOWN"
    <3>1. \A j \in DOMAIN q : q[j].id = "WIFI_DOWN" => j = 1
      BY <1>1, <1>2, <2>2
    <3>2. 1 \in DOMAIN q /\ q[1] = m
      BY <1>1
    <3> QED
      BY <2>2, <3>1, <3>2 DEF KnownAfter, Learnt
  <2> QED
    BY <1>4, <2>1, <2>2 DEF KnownAfter
<1>5. ASSUME KnownAfter(q, known) PROVE KnownAfter(t, Learnt(m, known))
  <2>1. CASE \E i \in DOMAIN q : /\ q[i].id = "WIFI_UP"
                                /\ \A j \in DOMAIN q : q[j].id = "WIFI_DOWN" => j < i
    <3>1. PICK i \in DOMAIN q : /\ q[i].id = "WIFI_UP"
                               /\ \A j \in DOMAIN q : q[j].id = "WIFI_DOWN" => j < i
      BY <2>1
    <3>2. CASE i = 1
      <4>1. \A j \in DOMAIN q : q[j].id # "WIFI_DOWN"
        BY <1>1, <3>1, <3>2
      <4>2. \A j \in DOMAIN t : t[j].id # "WIFI_DOWN"
        BY <1>1, <1>3, <4>1
      <4> QED
        BY <1>1, <3>1, <3>2, <4>2 DEF KnownAfter, Learnt
    <3>3. CASE i # 1
      <4>1. i - 1 \in DOMAIN t /\ t[i - 1].id = "WIFI_UP"
        BY <1>1, <1>2, <3>1, <3>3
      <4>2. ASSUME NEW j \in DOMAIN t, t[j].id = "WIFI_DOWN" PROVE j < i - 1
        <5>1. j + 1 \in DOMAIN q /\ q[j + 1].id = "WIFI_DOWN"
          BY <1>1, <1>3, <4>2
        <5>2. j + 1 < i
          BY <3>1, <5>1
        <5> QED
          BY <1>1, <3>1, <5>2
      <4> QED
        BY <4>1, <4>2 DEF KnownAfter
    <3> QED
      BY <3>2, <3>3
  <2>2. CASE known /\ \A j \in DOMAIN q : q[j].id # "WIFI_DOWN"
    <3>1. \A j \in DOMAIN t : t[j].id # "WIFI_DOWN"
      BY <1>1, <1>3, <2>2
    <3>2. m.id # "WIFI_DOWN"
      BY <1>1, <2>2
    <3> QED
      BY <2>2, <3>1, <3>2 DEF KnownAfter, Learnt
  <2> QED
    BY <1>5, <2>1, <2>2 DEF KnownAfter
<1> QED
  BY <1>4, <1>5 DEF t, m

-----------------------------------------------------------------------------
(* The MQTT service's own steps.                                           *)

LEMMA Unlearnt ==
  ASSUME NEW m, NEW known \in BOOLEAN, m.id \notin {"WIFI_UP", "WIFI_DOWN"}
  PROVE  Learnt(m, known) = known
  BY DEF Learnt

LEMMA Ids == /\ \A id \in {"WIFI_UP", "WIFI_DOWN", "SUBSCRIBE", "PUBLISH", "CONNECTED",
                           "DISCONNECTED", "OTHER", "RETRY"} :
                  Message(id) \in Item /\ Message(id).id = id
  BY DEF Item, Request, ClientEvent, Message

\* A message that is no report is put into the queue.
LEMMA PutOther ==
  ASSUME NEW q \in Seq(Item), NEW known \in BOOLEAN,
         NEW m \in Item, m.id \notin {"WIFI_UP", "WIFI_DOWN"}
  PROVE  Put(q, m) \in Seq(Item) /\ (KnownAfter(Put(q, m), known) <=> KnownAfter(q, known))
  BY KnownAppended DEF Put

\* What the service has taken from the queue it knows.
LEMMA TakenKeeps ==
  ASSUME queue \in Seq(Item), wifi \in BOOLEAN, NEW id, Take(id),
         queue' \in {Rest, Put(Rest, Message("DISCONNECTED"))},
         wifi' = Learnt(Head(queue), wifi)
  PROVE  /\ queue' \in Seq(Item) /\ wifi' \in BOOLEAN
         /\ KnownAfter(queue', wifi') <=> KnownAfter(queue, wifi)
<1>1. queue # << >> /\ Rest \in Seq(Item) /\ wifi' \in BOOLEAN
  BY DEF Take, Rest, Learnt
<1>2. KnownAfter(Rest, wifi') <=> KnownAfter(queue, wifi)
  BY <1>1, KnownTaken DEF Rest
<1>3. /\ Put(Rest, Message("DISCONNECTED")) \in Seq(Item)
      /\ KnownAfter(Put(Rest, Message("DISCONNECTED")), wifi') <=> KnownAfter(Rest, wifi')
  <2>1. /\ Message("DISCONNECTED") \in Item
        /\ Message("DISCONNECTED").id \notin {"WIFI_UP", "WIFI_DOWN"}
    BY Ids
  <2> QED
    BY <1>1, <2>1, PutOther
<1> QED
  BY <1>1, <1>2, <1>3

LEMMA TaskKeeps ==
  ASSUME queue \in Seq(Item), wifi \in BOOLEAN, Task
  PROVE  /\ queue' \in Seq(Item) /\ wifi' \in BOOLEAN
         /\ KnownAfter(queue', wifi') <=> KnownAfter(queue, wifi)
<1>1. Begin \/ Leave => queue' \in {Rest, Put(Rest, Message("DISCONNECTED"))}
  BY DEF Begin, Leave
<1>2. CASE WifiUp
  <2>1. Take("WIFI_UP") /\ wifi' = Learnt(Head(queue), wifi)
    BY <1>2 DEF WifiUp, Take, Learnt
  <2> QED
    BY <1>1, <1>2, <2>1, TakenKeeps DEF WifiUp
<1>3. CASE WifiDown
  <2>1. Take("WIFI_DOWN") /\ wifi' = Learnt(Head(queue), wifi)
    BY <1>3 DEF WifiDown, Take, Learnt
  <2> QED
    BY <1>3, <2>1, TakenKeeps DEF WifiDown
<1>4. ASSUME NEW id \in {"CONNECT", "DISCONNECT", "SET_CONFIG", "SUBSCRIBE", "UNSUBSCRIBE",
                        "PUBLISH", "OTHER", "CONNECTED", "DISCONNECTED", "RETRY"},
             Take(id), UNCHANGED wifi,
             queue' \in {Rest, Put(Rest, Message("DISCONNECTED"))}
      PROVE  /\ queue' \in Seq(Item) /\ wifi' \in BOOLEAN
             /\ KnownAfter(queue', wifi') <=> KnownAfter(queue, wifi)
  <2>1. wifi' = Learnt(Head(queue), wifi)
    BY <1>4, Unlearnt DEF Take
  <2> QED
    BY <1>4, <2>1, TakenKeeps
<1>5. CASE Connect
  BY <1>1, <1>4, <1>5 DEF Connect
<1>6. CASE Disconnect
  BY <1>1, <1>4, <1>6 DEF Disconnect
<1>7. CASE SetConfig \/ Subscribe \/ Unsubscribe
  BY <1>4, <1>7 DEF SetConfig, Subscribe, Unsubscribe, service
<1>8. CASE Ignore \/ Connected \/ RetryDropped
  BY <1>4, <1>8 DEF Ignore, Connected, RetryDropped, service
<1>9. CASE LinkLost \/ Retry
  BY <1>4, <1>9 DEF LinkLost, Retry, Disconnected
<1> QED
  BY <1>2, <1>3, <1>5, <1>6, <1>7, <1>8, <1>9 DEF Task

\* Whatever else is put into the queue is no report.
LEMMA OthersKeep ==
  ASSUME queue \in Seq(Item), wifi \in BOOLEAN,
         \/ Command(Message("SUBSCRIBE")) \/ Command(Message("PUBLISH"))
         \/ Expire \/ PostRetry
         \/ ClientConnects \/ ClientFails \/ ClientLoses \/ ClientReceives
  PROVE  /\ queue' \in Seq(Item) /\ wifi' \in BOOLEAN
         /\ KnownAfter(queue', wifi') <=> KnownAfter(queue, wifi)
<1>1. UNCHANGED wifi
  BY DEF Command, Expire, PostRetry, ClientConnects, ClientFails, ClientLoses, ClientReceives,
         Report, service
<1>2. \/ queue' = queue
      \/ \E id \in {"SUBSCRIBE", "PUBLISH", "RETRY", "CONNECTED", "DISCONNECTED", "OTHER"} :
           queue' = Put(queue, Message(id))
  BY DEF Command, Expire, PostRetry, ClientConnects, ClientFails, ClientLoses, ClientReceives,
         Report, Enqueue
<1>3. CASE queue' = queue
  BY <1>1, <1>3
<1>4. ASSUME NEW id \in {"SUBSCRIBE", "PUBLISH", "RETRY", "CONNECTED", "DISCONNECTED", "OTHER"},
             queue' = Put(queue, Message(id))
      PROVE  /\ queue' \in Seq(Item)
             /\ KnownAfter(queue', wifi) <=> KnownAfter(queue, wifi)
  <2>1. Message(id) \in Item /\ Message(id).id \notin {"WIFI_UP", "WIFI_DOWN"}
    BY Ids
  <2> QED
    BY <1>4, <2>1, PutOther
<1> QED
  BY <1>1, <1>2, <1>3, <1>4

-----------------------------------------------------------------------------
(* The reports.                                                            *)

\* A report is the last word, or it is lost.
LEMMA Told ==
  ASSUME CInv, NEW id \in {"WIFI_UP", "WIFI_DOWN"}, TellMqtt(id),
         told' \in BOOLEAN, told' <=> id = "WIFI_UP"
  PROVE  /\ queue' \in Seq(Item) /\ wifi' \in BOOLEAN /\ stale' \in BOOLEAN
         /\ ReportsArrive'
<1>1. /\ UNCHANGED wifi /\ queue' = Put(queue, Message(id))
      /\ stale' = (Len(queue) >= QueueLength)
  BY DEF TellMqtt, Command, Enqueue, service
<1>2. queue \in Seq(Item) /\ wifi \in BOOLEAN /\ Len(queue) \in Nat /\ QueueLength \in Nat
  BY MqttAssumption DEF CInv
<1>3. queue' \in Seq(Item)
  BY <1>1, <1>2, Ids DEF Put
<1>4. stale' \in BOOLEAN
  BY <1>1
<1>5. ASSUME ~stale' PROVE KnownAfter(queue', wifi') <=> told'
  <2>1. queue' = Append(queue, Message(id))
    <3>1. ~(Len(queue) >= QueueLength)
      BY <1>1, <1>5, Zenon
    <3> QED
      BY <1>1, <1>2, <3>1 DEF Put
  <2>2. KnownAfter(queue', wifi') <=> id = "WIFI_UP"
    BY <1>1, <1>2, <2>1, KnownAppended, Ids
  <2> QED
    BY <2>2
<1> QED
  BY <1>1, <1>2, <1>3, <1>4, <1>5 DEF ReportsArrive

\* The WiFi service says nothing new, and the MQTT service learns nothing new.
LEMMA NothingNew ==
  ASSUME CInv, UNCHANGED <<told, stale>>,
         queue' \in Seq(Item), wifi' \in BOOLEAN,
         KnownAfter(queue', wifi') <=> KnownAfter(queue, wifi)
  PROVE  CInv'
  BY DEF CInv, ReportsArrive

LEMMA QuietInv ==
  ASSUME CInv, UNCHANGED <<told, stale, queue, wifi>>
  PROVE  CInv'
  BY DEF CInv, ReportsArrive

-----------------------------------------------------------------------------
(* The steps of the whole.                                                 *)

LEMMA ReportsInit == AllInit => CInv
<1> SUFFICES ASSUME AllInit PROVE CInv
  OBVIOUS
<1>1. queue = << >> /\ wifi = FALSE /\ told = FALSE /\ stale = FALSE
  BY DEF AllInit, Init, W!Init
<1>2. ~KnownAfter(queue, wifi)
  BY <1>1 DEF KnownAfter
<1>3. queue \in Seq(Item)
  BY <1>1
<1>4. wifi \in BOOLEAN /\ told \in BOOLEAN /\ stale \in BOOLEAN
  BY <1>1
<1>5. ReportsArrive
  BY <1>1, <1>2, Zenon DEF ReportsArrive
<1> QED
  BY <1>3, <1>4, <1>5 DEF CInv

\* Steps of the MQTT service and its client.
MqttMoves == \/ MqttTask \/ MqttExpire \/ MqttPostRetry
             \/ BrokerAnswers \/ BrokerGone \/ BrokerMoves
             \/ StartCommands \/ Publish

\* Steps of the WiFi service and its station that report nothing, and those that might.
WifiQuiet == \/ StartWifi \/ WifiDeliver \/ WifiExpire \/ WifiPostRetry
             \/ StationAnswers \/ StationMoves
             \/ Unreported(W!Connect \/ W!Connected \/ W!RetryIgnored)
WifiReports == GotIp \/ LinkDown \/ WifiRetry

LEMMA Steps == AllNext => MqttMoves \/ WifiQuiet \/ WifiReports
  BY DEF AllNext, WifiTask, MqttMoves, WifiQuiet, WifiReports

LEMMA MqttAlone == MqttMoves => UNCHANGED <<wifiVars, stale>>
  BY DEF MqttMoves, MqttTask, MqttExpire, MqttPostRetry, BrokerAnswers, BrokerGone, BrokerMoves,
         StartCommands, Publish, Alone

LEMMA MqttSteps ==
  MqttMoves => \/ Task \/ Command(Message("SUBSCRIBE")) \/ Command(Message("PUBLISH"))
               \/ Expire \/ PostRetry
               \/ ClientConnects \/ ClientFails \/ ClientLoses \/ ClientReceives
  BY DEF MqttMoves, MqttTask, MqttExpire, MqttPostRetry, BrokerAnswers, BrokerGone, BrokerMoves,
         StartCommands, Publish, Alone

LEMMA WifiAlone == WifiQuiet => UNCHANGED <<mqttVars, stale>>
  BY DEF WifiQuiet, StartWifi, WifiDeliver, WifiExpire, WifiPostRetry, StationAnswers,
         StationMoves, Unreported

\* What the WiFi service does when it reports, or might.
LEMMA ReportSteps ==
  ASSUME told \in BOOLEAN, WifiReports
  PROVE  /\ UNCHANGED boot
         /\ \/ W!GotIp /\ told' = TRUE /\ wifiState = "CONNECTED" /\ TellMqtt("WIFI_UP")
            \/ W!LinkLost /\ told' = FALSE /\ TellMqtt("WIFI_DOWN")
            \/ W!Retry /\ told' = FALSE /\ wifiState' # "CONNECTING" /\ TellMqtt("WIFI_DOWN")
            \/ /\ W!GotIp \/ (W!Retry /\ wifiState' = "CONNECTING")
               /\ UNCHANGED <<told, mqttVars, stale>>
<1>1. CASE GotIp
  <2>1. UNCHANGED boot
    BY <1>1 DEF GotIp, TellMqtt
  <2>2. told' = (told \/ wifiState = "CONNECTED")
    BY <1>1 DEF GotIp, W!GotIp
  <2>3. CASE wifiState = "CONNECTED"
    BY <1>1, <2>1, <2>2, <2>3 DEF GotIp
  <2>4. CASE wifiState # "CONNECTED"
    <3>1. UNCHANGED told
      BY <2>2, <2>4
    <3> QED
      BY <1>1, <2>1, <2>4, <3>1 DEF GotIp
  <2> QED
    BY <2>3, <2>4
<1>2. CASE LinkDown
  BY <1>2, Zenon DEF LinkDown, W!LinkLost, W!Disconnected, TellMqtt
<1>3. CASE WifiRetry
  BY <1>3 DEF WifiRetry, W!Retry, W!Disconnected, TellMqtt
<1> QED
  BY <1>1, <1>2, <1>3 DEF WifiReports

LEMMA ReportsInductive == CInv /\ [AllNext]_allVars => CInv'
<1> SUFFICES ASSUME CInv, [AllNext]_allVars PROVE CInv'
  OBVIOUS
<1> USE DEF mqttVars, wifiVars, vars, service
<1>1. queue \in Seq(Item) /\ wifi \in BOOLEAN
  BY DEF CInv
<1>2. CASE UNCHANGED <<told, mqttVars, stale>>
  BY <1>2, QuietInv
<1>3. CASE MqttMoves
  <2>1. /\ queue' \in Seq(Item) /\ wifi' \in BOOLEAN
        /\ KnownAfter(queue', wifi') <=> KnownAfter(queue, wifi)
    BY <1>1, <1>3, MqttSteps, TaskKeeps, OthersKeep
  <2> QED
    BY <1>3, <2>1, MqttAlone, NothingNew
<1>4. CASE WifiQuiet
  <2>1. UNCHANGED told
    BY <1>4 DEF WifiQuiet, StartWifi, WifiDeliver, WifiExpire, WifiPostRetry, StationAnswers,
           StationMoves, Unreported, W!Command, W!Deliver, W!Expire, W!PostRetry, W!Associate,
           W!Lease, W!Lose, W!Connect, W!Connected, W!RetryIgnored, W!service
  <2> QED
    BY <1>2, <1>4, <2>1, WifiAlone
<1>5. CASE WifiReports
  <2>1. CASE told' = TRUE /\ TellMqtt("WIFI_UP")
    BY <2>1, Told DEF CInv
  <2>2. CASE told' = FALSE /\ TellMqtt("WIFI_DOWN")
    BY <2>2, Told DEF CInv
  <2> QED
    BY <1>2, <1>5, <2>1, <2>2, ReportSteps DEF CInv
<1> QED
  BY <1>2, <1>3, <1>4, <1>5, Steps DEF allVars

-----------------------------------------------------------------------------
(* Each service does what it does alone.                                   *)

\* W and P are the same service, step by step.
LEMMA WifiDisconnected ==
  ASSUME NEW from, NEW attempts, W!Disconnected(from, attempts)
  PROVE  P!Disconnected(from, attempts)
  BY Zenon
     DEF W!Disconnected, P!Disconnected, W!StartTimer, P!StartTimer, W!Longer, P!Longer,
         W!Failures, P!Failures, W!Exhausted, P!Exhausted, W!Increment, P!Increment,
         W!driver, P!driver, W!backoff, P!backoff

LEMMA WifiLosers == W!LinkLost => P!LinkLost
  BY WifiDisconnected, Zenon DEF W!LinkLost, P!LinkLost, W!Take, P!Take

LEMMA WifiSteps == [W!Next]_(W!vars) => [P!Next]_(P!vars)
<1> USE DEF W!service, P!service, W!driver, P!driver, W!history, P!history, W!backoff, P!backoff,
            W!Message, P!Message
<1>1. UNCHANGED W!vars => UNCHANGED P!vars
  BY Zenon DEF W!vars, P!vars
<1>2. W!Request = P!Request
  BY Zenon DEF W!Request, P!Request
<1>3. ASSUME NEW m, W!Offer(m) PROVE P!Offer(m)
  BY <1>3, Zenon DEF W!Offer, P!Offer
<1>4. ASSUME NEW m \in W!Request, W!Command(m) PROVE P!Command(m)
  <2>1. {i \in DOMAIN wifiQueue : wifiQueue[i] \in W!Request}
          = {i \in DOMAIN wifiQueue : wifiQueue[i] \in P!Request}
    BY <1>2
  <2> QED
    BY <1>3, <1>4, <2>1, Zenon DEF W!Command, P!Command, W!Cardinality, P!Cardinality
<1>5. W!Deliver => P!Deliver
  BY <1>3, Zenon DEF W!Deliver, P!Deliver
<1>6. W!Expire => P!Expire
  BY Zenon DEF W!Expire, P!Expire
<1>7. W!PostRetry => P!PostRetry
  BY <1>3, Zenon DEF W!PostRetry, P!PostRetry
<1>8. W!Associate \/ W!Lease \/ W!Lose => P!Associate \/ P!Lease \/ P!Lose
  BY Zenon DEF W!Associate, P!Associate, W!Lease, P!Lease, W!Lose, P!Lose, W!Raise, P!Raise
<1>9. W!Task => P!Task
  <2> USE DEF W!Take, P!Take, W!DriverConnects, P!DriverConnects, W!Increment, P!Increment
  <2>1. W!Connect => P!Connect
    BY Zenon DEF W!Connect, P!Connect
  <2>2. W!ConnectIgnored => P!ConnectIgnored
    BY Zenon DEF W!ConnectIgnored, P!ConnectIgnored
  <2>3. W!Disconnect => P!Disconnect
    BY Zenon DEF W!Disconnect, P!Disconnect, W!DriverDisconnects, P!DriverDisconnects,
                 W!AfterDisconnect, P!AfterDisconnect
  <2>4. W!Retry => P!Retry
    BY WifiDisconnected, Zenon DEF W!Retry, P!Retry
  <2>5. W!SetConfig \/ W!Query => P!SetConfig \/ P!Query
    BY Zenon DEF W!SetConfig, P!SetConfig, W!Query, P!Query
  <2>6. W!Connected \/ W!GotIp \/ W!RetryIgnored => P!Connected \/ P!GotIp \/ P!RetryIgnored
    BY Zenon DEF W!Connected, P!Connected, W!GotIp, P!GotIp, W!RetryIgnored, P!RetryIgnored
  <2> QED
    BY <2>1, <2>2, <2>3, <2>4, <2>5, <2>6, WifiLosers, Zenon DEF W!Task, P!Task
<1> QED
  BY <1>1, <1>2, <1>4, <1>5, <1>6, <1>7, <1>8, <1>9, Zenon DEF W!Next, P!Next

LEMMA WifiNext == [AllNext]_allVars => [W!Next]_(W!vars)
<1> SUFFICES ASSUME [AllNext]_allVars PROVE W!Next \/ UNCHANGED W!vars
  OBVIOUS
<1>1. CASE UNCHANGED wifiVars
  BY <1>1 DEF wifiVars, W!vars, W!service, W!backoff, W!driver, W!history
<1>2. CASE WifiQuiet
  <2>1. W!Message("CONNECT") \in W!Request
    BY DEF W!Request
  <2> QED
    BY <1>2, <2>1 DEF WifiQuiet, StartWifi, WifiDeliver, WifiExpire, WifiPostRetry,
                      StationAnswers, StationMoves, Unreported, W!Next, W!Task
<1>3. CASE WifiReports
  BY <1>3 DEF WifiReports, GotIp, LinkDown, WifiRetry, W!Next, W!Task
<1> QED
  BY <1>1, <1>2, <1>3, Steps, MqttAlone DEF allVars

LEMMA MqttNext == [AllNext]_allVars => [Next]_vars
<1> SUFFICES ASSUME [AllNext]_allVars PROVE Next \/ UNCHANGED vars
  OBVIOUS
<1>1. \A id \in {"WIFI_UP", "WIFI_DOWN", "SUBSCRIBE", "PUBLISH"} : Message(id) \in Request
  BY DEF Request
<1>2. CASE UNCHANGED mqttVars
  BY <1>2 DEF mqttVars
<1>3. CASE MqttMoves
  BY <1>1, <1>3, MqttSteps DEF Next
<1>4. CASE WifiReports
  BY <1>1, <1>4 DEF WifiReports, GotIp, LinkDown, WifiRetry, TellMqtt, mqttVars, Next
<1> QED
  BY <1>2, <1>3, <1>4, Steps, WifiAlone DEF allVars

\* Seen from the WiFi service alone, the whole does nothing that WifiService does not allow:
\* what is proved of the service by itself holds of it here.
THEOREM ImplementsWifi == AllSpec => W!Spec
  BY WifiNext, PTL DEF AllSpec, AllInit, W!Spec

\* And likewise seen from the MQTT service.
THEOREM ImplementsMqtt == AllSpec => Spec
  BY MqttNext, PTL DEF AllSpec, AllInit, Spec

\* What the services' own proofs show of them, and what is known of their reports.
AllInv == IInv /\ P!IInv /\ P!SInv /\ CInv

LEMMA WifiAssumed == P!WifiAssumption
  BY ConnectivityAssumption DEF P!WifiAssumption, W!WifiAssumption

LEMMA WifiTyped == P!IInv => W!TypeOK
  BY DEF P!IInv, P!TypeOK, W!TypeOK, P!State, W!State, W!Item, P!Item, W!Request, P!Request,
         W!Message, P!Message, W!DriverEvent, P!DriverEvent

LEMMA AllInitially == AllInit => AllInv
<1>1. W!Init => P!Init
  BY Zenon DEF W!Init, P!Init
<1>2. P!Init => P!IInv /\ P!SInv
  BY WifiAssumed, P!Initially, P!StationInitially
<1> QED
  BY <1>1, <1>2, Initially, ReportsInit DEF AllInit, AllInv

LEMMA AllInductive == AllInv /\ [AllNext]_allVars => AllInv'
<1> SUFFICES ASSUME AllInv, [AllNext]_allVars PROVE AllInv'
  OBVIOUS
<1>1. IInv'
  BY MqttNext, Inductive DEF AllInv
<1>2. P!IInv' /\ P!SInv'
  BY WifiNext, WifiSteps, WifiAssumed, P!Inductive, P!StationInductive DEF AllInv
<1>3. CInv'
  BY ReportsInductive DEF AllInv
<1> QED
  BY <1>1, <1>2, <1>3 DEF AllInv

LEMMA AllInvariance == AllSpec => []AllInv
  BY AllInitially, AllInductive, PTL DEF AllSpec

-----------------------------------------------------------------------------
(* The theorems about reports, and the types.                              *)

\* Every variable of either service, and of the composition, keeps its type; the queues
\* stay within their lengths.
THEOREM AllTypeCorrect == AllSpec => []AllTypeOK
<1> DEFINE BootOK == boot \in {"wifi", "commands", "none"}
<1>1. AllInit => BootOK
  BY DEF AllInit
<1>2. BootOK /\ [AllNext]_allVars => BootOK'
  BY DEF AllNext, allVars, StartWifi, StartCommands, Publish, WifiTask, GotIp, LinkDown,
         WifiRetry, TellMqtt, Unreported, WifiDeliver, WifiExpire, WifiPostRetry, StationAnswers,
         StationMoves, MqttTask, MqttExpire, MqttPostRetry, BrokerAnswers, BrokerGone,
         BrokerMoves, Alone
<1>3. AllSpec => []BootOK
  BY <1>1, <1>2, PTL DEF AllSpec
<1>4. AllInv /\ BootOK => AllTypeOK
  BY WifiTyped DEF AllInv, IInv, CInv, AllTypeOK
<1> QED
  BY <1>3, <1>4, AllInvariance, PTL

\* What the MQTT service knows of WiFi, once it has handled its queue, is what the WiFi
\* service last executed COMMAND_MQTT_SET_WIFI_STATE with, unless the queue was full then.
THEOREM ReportsReachMqtt == AllSpec => []ReportsArrive
<1>1. AllInv => ReportsArrive
  BY DEF AllInv, CInv
<1> QED
  BY <1>1, AllInvariance, PTL

\* Once both services have handled every message, the MQTT service takes WiFi to be there
\* exactly if the station has an address: from the driver's events through two queues and
\* the command router, unless an event, a retry or the last report was lost on the way.
KnowsStation ==
  queue = << >> /\ wifiQueue = << >> /\ pending = << >> /\ ~wifiLost /\ ~stale =>
    (wifi <=> leased)

\* What was lost before the last report does not matter (COMMAND_MQTT_SET_WIFI_STATE).
THEOREM MqttKnowsStation == AllSpec => []KnowsStation
<1>1. AllInv => KnowsStation
  <2> SUFFICES ASSUME AllInv, queue = << >>, wifiQueue = << >>, pending = << >>,
                      ~wifiLost, ~stale
               PROVE  wifi <=> leased
    BY DEF KnowsStation
  <2>1. told <=> leased
    BY WifiAssumed, P!Agreement DEF AllInv, P!AgreesWithStation
  <2>2. wifi <=> told
    BY DEF AllInv, CInv, ReportsArrive, KnownAfter
  <2> QED
    BY <2>1, <2>2
<1> QED
  BY <1>1, AllInvariance, PTL

\* The service begins an attempt only with WiFi there, or before it could know better.
THEOREM AttemptsAreInformed == AllSpec => NoBlindAttempt
<1> DEFINE Informed ==
             state # "CONNECTING" /\ state' = "CONNECTING" =>
               \/ wifiState = "CONNECTED"
               \/ stale
               \/ \E i \in DOMAIN queue : queue[i].id = "WIFI_DOWN"
<1>1. AllInv /\ [AllNext]_allVars => [Informed]_allVars
  <2> SUFFICES ASSUME AllInv, AllNext, state # "CONNECTING", state' = "CONNECTING", ~stale,
                      \A i \in DOMAIN queue : queue[i].id # "WIFI_DOWN"
               PROVE  wifiState = "CONNECTED"
    OBVIOUS
  <2>1. Task
    <3>1. MqttMoves
      BY Steps, WifiAlone, ReportSteps
         DEF mqttVars, vars, service, TellMqtt, Command, AllInv, CInv
    <3> QED
      BY <3>1, MqttSteps DEF Command, Expire, PostRetry, ClientConnects, ClientFails,
                             ClientLoses, ClientReceives, Report, service
  <2>2. Take("WIFI_UP") \/ wifi
    BY <2>1 DEF Task, WifiUp, WifiDown, Connect, Disconnect, SetConfig, Subscribe, Unsubscribe,
                Ignore, Connected, LinkLost, Retry, Due, Disconnected, Wait, RetryDropped,
                service, Begin
  <2>3. KnownAfter(queue, wifi)
    <3>1. CASE wifi
      BY <3>1 DEF KnownAfter
    <3>2. CASE Take("WIFI_UP")
      <4>1. 1 \in DOMAIN queue /\ queue[1].id = "WIFI_UP"
        BY <3>2 DEF Take, AllInv, CInv
      <4> QED
        BY <4>1 DEF KnownAfter
    <3> QED
      BY <2>2, <3>1, <3>2
  <2>4. told => wifiState = "CONNECTED"
    BY DEF AllInv, P!IInv, P!ToldOnlyConnected
  <2> QED
    BY <2>3, <2>4 DEF AllInv, CInv, ReportsArrive
<1> QED
  BY <1>1, AllInvariance, PTL DEF AllSpec, NoBlindAttempt

-----------------------------------------------------------------------------
(* Which messages are in a row.                                            *)

LEMMA QueuedAppended ==
  ASSUME NEW S, NEW q \in Seq(S), NEW m \in S, NEW id
  PROVE  Queued(Append(q, m), id) <=> Queued(q, id) \/ m.id = id
<1> DEFINE r == Append(q, m)
<1>1. /\ Len(q) \in Nat /\ DOMAIN q = 1..Len(q) /\ DOMAIN r = 1..(Len(q) + 1)
      /\ r[Len(q) + 1] = m /\ \A i \in 1..Len(q) : r[i] = q[i]
  OBVIOUS
<1> HIDE DEF r
<1>2. Queued(r, id) <=> Queued(q, id) \/ m.id = id
  BY <1>1 DEF Queued
<1> QED
  BY <1>2 DEF r

LEMMA QueuedTaken ==
  ASSUME NEW S, NEW q \in Seq(S), q # << >>, NEW id
  PROVE  Queued(q, id) <=> Head(q).id = id \/ Queued(Tail(q), id)
<1> DEFINE t == Tail(q)
           m == Head(q)
<1>1. /\ Len(q) \in Nat \ {0} /\ DOMAIN q = 1..Len(q) /\ DOMAIN t = 1..(Len(q) - 1)
      /\ q[1] = m /\ \A i \in 1..(Len(q) - 1) : t[i] = q[i + 1]
  OBVIOUS
<1>2. /\ \A i \in 1..Len(q) : i = 1 \/ (i - 1 \in 1..(Len(q) - 1) /\ t[i - 1] = q[i])
      /\ \A i \in 1..(Len(q) - 1) : i + 1 \in 1..Len(q)
  BY <1>1
<1> HIDE DEF t, m
<1>3. ASSUME Queued(q, id) PROVE m.id = id \/ Queued(t, id)
  BY <1>1, <1>2, <1>3 DEF Queued
<1>4. ASSUME m.id = id \/ Queued(t, id) PROVE Queued(q, id)
  BY <1>1, <1>2, <1>4 DEF Queued
<1> QED
  BY <1>3, <1>4 DEF t, m

LEMMA QueuedPut ==
  ASSUME NEW q \in Seq(Item), NEW m \in Item, NEW id
  PROVE  /\ Queued(q, id) => Queued(Put(q, m), id)
         /\ Queued(Put(q, m), id) => Queued(q, id) \/ m.id = id
  BY QueuedAppended DEF Put

\* What the MQTT task leaves in its queue.
LEMMA QueuedRest ==
  ASSUME queue \in Seq(Item), NEW id, Take(id),
         queue' \in {Rest, Put(Rest, Message("DISCONNECTED"))}
  PROVE  /\ Queued(queue, id)
         /\ \A x \in {"WIFI_UP", "WIFI_DOWN", "SUBSCRIBE"} :
              /\ Queued(queue', x) => Queued(queue, x)
              /\ Queued(queue, x) => Queued(queue', x) \/ x = id
<1>1. /\ queue # << >> /\ Head(queue).id = id /\ Rest = Tail(queue) /\ Rest \in Seq(Item)
      /\ Message("DISCONNECTED") \in Item /\ Message("DISCONNECTED").id = "DISCONNECTED"
  BY Ids DEF Take, Rest
<1>2. \A x : Queued(queue, x) <=> id = x \/ Queued(Rest, x)
  BY <1>1, QueuedTaken
<1>3. \A x : /\ Queued(Rest, x) => Queued(queue', x)
             /\ Queued(queue', x) => Queued(Rest, x) \/ "DISCONNECTED" = x
  BY <1>1, QueuedPut
<1> QED
  BY <1>2, <1>3

-----------------------------------------------------------------------------
(* What the rest of the firmware sees of a step.                           *)

LEMMA NewsIs == /\ News \subseteq BOOLEAN
                /\ TRUE \in News <=> Queued(queue, "WIFI_UP")
                /\ FALSE \in News <=> Queued(queue, "WIFI_DOWN")
  BY Zenon DEF News

LEMMA NewsKept ==
  ASSUME Queued(queue', "WIFI_UP") <=> Queued(queue, "WIFI_UP"),
         Queued(queue', "WIFI_DOWN") <=> Queued(queue, "WIFI_DOWN")
  PROVE  News' = News
  BY DEF News

\* Of one kind of news one more is in the row, or one less.
LEMMA NewsTaken ==
  ASSUME NEW up \in BOOLEAN,
         LET taken == IF up THEN "WIFI_UP" ELSE "WIFI_DOWN"
             other == IF up THEN "WIFI_DOWN" ELSE "WIFI_UP"
         IN  /\ Queued(queue', taken) => Queued(queue, taken)
             /\ Queued(queue', other) <=> Queued(queue, other)
  PROVE  News' \in {News, News \ {up}}
<1>1. ASSUME NEW x \in BOOLEAN, x # up PROVE x \in News' <=> x \in News
  BY <1>1, NewsIs DEF News
<1>2. up \in News' => up \in News
  BY DEF News
<1>3. News \subseteq BOOLEAN /\ News' \subseteq BOOLEAN
  BY DEF News
<1>4. CASE up \in News'
  BY <1>1, <1>2, <1>3, <1>4
<1>5. CASE up \notin News'
  BY <1>1, <1>3, <1>5
<1> QED
  BY <1>4, <1>5

LEMMA NewsAdded ==
  ASSUME NEW up \in BOOLEAN,
         LET put   == IF up THEN "WIFI_UP" ELSE "WIFI_DOWN"
             other == IF up THEN "WIFI_DOWN" ELSE "WIFI_UP"
         IN  /\ Queued(queue, put) => Queued(queue', put)
             /\ Queued(queue', other) <=> Queued(queue, other)
  PROVE  News' \in {News, News \union {up}}
<1>1. ASSUME NEW x \in BOOLEAN, x # up PROVE x \in News' <=> x \in News
  BY <1>1, NewsIs DEF News
<1>2. up \in News => up \in News'
  BY DEF News
<1>3. News \subseteq BOOLEAN /\ News' \subseteq BOOLEAN
  BY DEF News
<1>4. CASE up \in News'
  BY <1>1, <1>3, <1>4
<1>5. CASE up \notin News'
  BY <1>1, <1>2, <1>3, <1>5
<1> QED
  BY <1>4, <1>5

\* A row that holds the same news.
SameNews == \A x \in {"WIFI_UP", "WIFI_DOWN"} : Queued(queue', x) <=> Queued(queue, x)
SameOrder == Queued(queue', "SUBSCRIBE") <=> Queued(queue, "SUBSCRIBE")

LEMMA Session ==
  ASSUME UNCHANGED boot, SameOrder, subscribed \in BOOLEAN, subscribed' \in {subscribed, FALSE}
  PROVE  U!SessionKept \/ U!SessionOver
<1>1. CASE subscribed' = subscribed
  BY <1>1, Zenon DEF SameOrder, U!SessionKept, Subscription
<1>2. CASE ~subscribed'
  <2>1. CASE Subscription = "made"
    <3>1. Subscription' = "over"
      BY <1>2, <2>1 DEF SameOrder, Subscription
    <3> QED
      BY <2>1, <3>1 DEF U!SessionOver
  <2>2. CASE Subscription # "made"
    BY <1>2, <2>2 DEF SameOrder, U!SessionKept, Subscription
  <2> QED
    BY <2>1, <2>2
<1> QED
  BY <1>1, <1>2

\* A step that shows at most that the session is over.
LEMMA Forgets ==
  ASSUME UNCHANGED <<boot, wifiVars, wifi>>, SameNews, SameOrder,
         BrokerProgress' = BrokerProgress,
         subscribed \in BOOLEAN, subscribed' \in {subscribed, FALSE}
  PROVE  U!Next \/ UNCHANGED U!vars
<1>1. UNCHANGED <<WifiProgress, News, wifi, BrokerProgress>>
  BY NewsKept DEF SameNews, WifiProgress, wifiVars
<1> QED
  BY <1>1, Session DEF U!SessionKept, U!SessionOver, U!Forget, U!Next, U!vars, U!broker

\* A message that is neither news nor an order is put into the queue.
LEMMA PutBeside ==
  ASSUME queue \in Seq(Item), NEW id \in {"PUBLISH", "CONNECTED", "DISCONNECTED", "OTHER", "RETRY"},
         queue' = Put(queue, Message(id))
  PROVE  SameNews /\ SameOrder
  BY Ids, QueuedPut DEF SameNews, SameOrder

-----------------------------------------------------------------------------
(* The one subscription.                                                   *)

\* At most one order in a row of messages.
OneOrder(q) == \A i, j \in DOMAIN q : q[i].id = "SUBSCRIBE" /\ q[j].id = "SUBSCRIBE" => i = j

\* It is asked for when the rocket command service is started, and not again.
Once == /\ boot # "none" => ~subscribed /\ ~Queued(queue, "SUBSCRIBE")
        /\ Queued(queue, "SUBSCRIBE") => ~subscribed
        /\ OneOrder(queue)

\* Nothing happens to WiFi before the WiFi service is started.
Unstarted ==
  boot = "wifi" => /\ wifiState = "IDLE" /\ wifiQueue = << >> /\ pending = << >>
                   /\ wifiLink = "down" /\ ~wifiTimer /\ ~wifiFiring

UInv == AllInv /\ Once /\ Unstarted

LEMMA UplinkInit == AllInit => UInv
  BY AllInitially DEF AllInit, Init, W!Init, UInv, Once, OneOrder, Unstarted, Queued

LEMMA UnstartedKept == UInv /\ [AllNext]_allVars => Unstarted'
<1> SUFFICES ASSUME UInv, AllNext, boot' = "wifi" PROVE Unstarted'
  BY DEF UInv, Unstarted, allVars, wifiVars
<1>1. /\ boot = "wifi" /\ wifiState = "IDLE" /\ wifiQueue = << >> /\ pending = << >>
      /\ wifiLink = "down" /\ ~wifiTimer /\ ~wifiFiring
  BY DEF AllNext, StartWifi, StartCommands, Publish, WifiTask, GotIp, LinkDown,
         WifiRetry, TellMqtt, Unreported, WifiDeliver, WifiExpire, WifiPostRetry, StationAnswers,
         StationMoves, MqttTask, MqttExpire, MqttPostRetry, BrokerAnswers, BrokerGone,
         BrokerMoves, Alone, UInv, Unstarted
<1>2. MqttMoves
  BY <1>1 DEF AllNext, MqttMoves, StartWifi, WifiTask, GotIp, LinkDown, WifiRetry, Unreported,
              WifiDeliver, WifiExpire, WifiPostRetry, StationAnswers, StationMoves, W!Deliver,
              W!Expire, W!PostRetry, W!Associate, W!Lease, W!Lose, W!Connect, W!Connected,
              W!RetryIgnored, W!GotIp, W!LinkLost, W!Retry, W!Take
<1> QED
  BY <1>1, <1>2, MqttAlone DEF wifiVars, Unstarted

LEMMA OneAppended ==
  ASSUME NEW q \in Seq(Item), NEW m \in Item, OneOrder(q),
         m.id = "SUBSCRIBE" => ~Queued(q, "SUBSCRIBE")
  PROVE  OneOrder(Put(q, m))
<1> DEFINE r == Append(q, m)
<1>1. /\ Len(q) \in Nat /\ DOMAIN q = 1..Len(q) /\ DOMAIN r = 1..(Len(q) + 1)
      /\ r[Len(q) + 1] = m /\ \A i \in 1..Len(q) : r[i] = q[i]
  OBVIOUS
<1> HIDE DEF r
<1>2. OneOrder(r)
  BY <1>1 DEF OneOrder, Queued
<1> QED
  BY <1>2 DEF r, Put

LEMMA OneTaken ==
  ASSUME NEW q \in Seq(Item), q # << >>, OneOrder(q)
  PROVE  /\ OneOrder(Tail(q))
         /\ Head(q).id = "SUBSCRIBE" => ~Queued(Tail(q), "SUBSCRIBE")
<1> DEFINE t == Tail(q)
           m == Head(q)
<1>1. /\ Len(q) \in Nat \ {0} /\ DOMAIN q = 1..Len(q) /\ DOMAIN t = 1..(Len(q) - 1)
      /\ q[1] = m /\ \A i \in 1..(Len(q) - 1) : t[i] = q[i + 1]
      /\ \A i \in 1..(Len(q) - 1) : i \in Nat /\ i # 0 /\ i + 1 \in 1..Len(q)
  OBVIOUS
<1> HIDE DEF t, m
<1>2. OneOrder(t)
  BY <1>1 DEF OneOrder
<1>3. ASSUME m.id = "SUBSCRIBE", NEW i \in DOMAIN t, t[i].id = "SUBSCRIBE" PROVE FALSE
  <2>1. 1 = i + 1
    BY <1>1, <1>3 DEF OneOrder
  <2> QED
    BY <1>1, <2>1
<1> QED
  BY <1>2, <1>3 DEF t, m, Queued

\* The steps beside the MQTT task, and what they put into the queue.
PutsOrder == /\ boot = "commands" /\ boot' = "none"
             /\ queue' = Put(queue, Message("SUBSCRIBE"))
             /\ UNCHANGED <<state, wifi, subscribed>>
PutsOther == /\ UNCHANGED <<boot, state, wifi>>
             /\ subscribed' \in {subscribed, FALSE}
             /\ \/ UNCHANGED queue
                \/ \E id \in {"PUBLISH", "CONNECTED", "DISCONNECTED", "OTHER", "RETRY"} :
                     queue' = Put(queue, Message(id))

LEMMA PutSteps ==
  ASSUME MqttMoves
  PROVE  (Task /\ UNCHANGED boot) \/ PutsOrder \/ PutsOther
<1> USE DEF PutsOther, Alone, service, client
<1>1. CASE MqttTask
  BY <1>1 DEF MqttTask
<1>2. CASE StartCommands
  BY <1>2 DEF StartCommands, Command, Enqueue, PutsOrder
<1>3. CASE Publish
  BY <1>3 DEF Publish, Command, Enqueue
<1>4. CASE MqttExpire \/ MqttPostRetry
  BY <1>4 DEF MqttExpire, MqttPostRetry, Expire, PostRetry, Enqueue
<1>5. CASE BrokerAnswers \/ BrokerGone \/ BrokerMoves
  BY <1>5 DEF BrokerAnswers, BrokerGone, BrokerMoves, ClientConnects, ClientFails,
              ClientLoses, ClientReceives, Report, Enqueue
<1> QED
  BY <1>1, <1>2, <1>3, <1>4, <1>5 DEF MqttMoves

\* What the MQTT task does to what is seen of it, by the kind of the message it takes.
Kind    == Head(queue).id
Resting == state \notin {"CONNECTING", "CONNECTED"}

Subscribes == /\ Kind = "SUBSCRIBE"
              /\ subscribed' = (subscribed \/ (state = "CONNECTED" /\ started /\ link = "up"))
              /\ queue' = Rest /\ UNCHANGED <<state, wifi>>
Hears   == \/ /\ Kind = "WIFI_UP" /\ wifi' = TRUE
              /\ UNCHANGED state \/ (Resting /\ (Resting' \/ state' = "CONNECTING"))
           \/ Kind = "WIFI_DOWN" /\ wifi' = FALSE /\ UNCHANGED state
Tries   == wifi /\ Resting /\ state' = "CONNECTING"
Reaches == state = "CONNECTING" /\ state' = "CONNECTED" /\ UNCHANGED subscribed
Leaves  == Resting' /\ UNCHANGED subscribed
Stays   == UNCHANGED state \/ (Resting /\ Resting')
Acts    == /\ Kind \notin {"SUBSCRIBE", "WIFI_UP", "WIFI_DOWN"} /\ UNCHANGED wifi
           /\ Tries \/ Reaches \/ Leaves \/ Stays

LEMMA TaskSteps ==
  ASSUME Task
  PROVE  /\ Take(Kind)
         /\ queue' \in {Rest, Put(Rest, Message("DISCONNECTED"))}
         /\ \/ Subscribes
            \/ (Hears \/ Acts) /\ subscribed' \in {subscribed, FALSE}
<1> USE DEF service, client, Kind
<1>1. Begin => /\ queue' \in {Rest, Put(Rest, Message("DISCONNECTED"))}
               /\ subscribed' \in {subscribed, FALSE}
               /\ state' \in {"FAILED", "CONNECTING"}
  BY DEF Begin, Leave, Stopped
<1>2. CASE WifiUp \/ WifiDown
  BY <1>1, <1>2 DEF WifiUp, WifiDown, Hears, Resting, Take
<1>3. CASE Connect
  BY <1>1, <1>3 DEF Connect, Acts, Tries, Stays, Resting, Take
<1>4. CASE Disconnect
  BY <1>4 DEF Disconnect, Leave, Stopped, Acts, Stays, Resting, Take
<1>5. CASE Subscribe
  BY <1>5 DEF Subscribe, Subscribes, Take
<1>6. CASE SetConfig \/ Ignore \/ RetryDropped
  BY <1>6 DEF SetConfig, Ignore, RetryDropped, Acts, Stays, Take
<1>7. CASE Unsubscribe
  BY <1>7 DEF Unsubscribe, Acts, Stays, Take
<1>8. CASE Connected
  BY <1>8 DEF Connected, Acts, Reaches, Stays, Take
<1>9. Disconnected => /\ Resting' /\ UNCHANGED <<subscribed, wifi>> /\ queue' = Rest
  BY DEF Disconnected, Wait, Resting
<1>10. CASE LinkLost \/ Retry
  BY <1>9, <1>10 DEF LinkLost, Retry, Due, Acts, Tries, Leaves, Resting, Take
<1> QED
  BY <1>2, <1>3, <1>4, <1>5, <1>6, <1>7, <1>8, <1>10 DEF Task

LEMMA TaskRow ==
  ASSUME queue \in Seq(Item), Task
  PROVE  /\ queue # << >> /\ Rest \in Seq(Item) /\ Queued(queue, Kind)
         /\ \A x \in {"WIFI_UP", "WIFI_DOWN", "SUBSCRIBE"} :
              /\ Queued(queue', x) => Queued(queue, x)
              /\ x # Kind => (Queued(queue', x) <=> Queued(queue, x))
         /\ OneOrder(queue) => OneOrder(queue')
<1>1. Take(Kind) /\ queue' \in {Rest, Put(Rest, Message("DISCONNECTED"))}
  BY TaskSteps
<1>2. /\ queue # << >> /\ Rest \in Seq(Item)
      /\ Message("DISCONNECTED") \in Item /\ Message("DISCONNECTED").id # "SUBSCRIBE"
  BY <1>1, Ids DEF Take, Rest
<1>3. OneOrder(queue) => OneOrder(Rest) /\ OneOrder(Put(Rest, Message("DISCONNECTED")))
  BY <1>2, OneTaken, OneAppended DEF Rest
<1> QED
  BY <1>1, <1>2, <1>3, QueuedRest

LEMMA Forgotten == ASSUME subscribed' \in {subscribed, FALSE} PROVE subscribed' => subscribed
  BY Zenon

LEMMA OnceKept == UInv /\ [AllNext]_allVars => Once'
<1> SUFFICES ASSUME UInv, [AllNext]_allVars PROVE Once'
  OBVIOUS
<1>1. /\ queue \in Seq(Item) /\ subscribed \in BOOLEAN
      /\ Once /\ OneOrder(queue)
  BY DEF UInv, AllInv, IInv, TypeOK, Once
<1>2. boot = "none" => boot' = "none"
  BY DEF AllNext, allVars, StartWifi, StartCommands, Publish, WifiTask, GotIp, LinkDown,
         WifiRetry, TellMqtt, Unreported, WifiDeliver, WifiExpire, WifiPostRetry, StationAnswers,
         StationMoves, MqttTask, MqttExpire, MqttPostRetry, BrokerAnswers, BrokerGone,
         BrokerMoves, Alone
<1>3. ASSUME UNCHANGED <<queue, subscribed>> PROVE Once'
  BY <1>1, <1>2, <1>3 DEF Once
<1>4. ASSUME NEW m \in Item, m.id # "SUBSCRIBE", queue' = Put(queue, m),
             subscribed' \in {subscribed, FALSE}
      PROVE  Once'
  <2>1. OneOrder(queue') /\ (Queued(queue', "SUBSCRIBE") <=> Queued(queue, "SUBSCRIBE"))
    BY <1>1, <1>4, OneAppended, QueuedPut
  <2> QED
    BY <1>1, <1>2, <1>4, <2>1, Forgotten DEF Once
<1>5. CASE PutsOrder
  <2>1. OneOrder(queue')
    BY <1>1, <1>5, OneAppended, Ids DEF PutsOrder, Once
  <2> QED
    BY <1>1, <1>5, <2>1 DEF PutsOrder, Once
<1>6. CASE Task /\ UNCHANGED boot
  <2>1. /\ OneOrder(queue')
        /\ Queued(queue', "SUBSCRIBE") => Queued(queue, "SUBSCRIBE")
    BY <1>1, <1>6, TaskRow
  <2>2. CASE subscribed' \in {subscribed, FALSE}
    BY <1>1, <1>2, <1>6, <2>1, <2>2, Forgotten DEF Once
  <2>3. CASE Subscribes
    <3>1. Queued(queue, "SUBSCRIBE") /\ ~Queued(queue', "SUBSCRIBE")
      BY <1>1, <1>6, <2>3, TaskRow, OneTaken DEF Subscribes, Rest, Kind
    <3> QED
      BY <1>1, <1>6, <2>1, <3>1 DEF Once
  <2> QED
    BY <1>6, <2>2, <2>3, TaskSteps
<1>7. CASE PutsOther
  <2>1. CASE UNCHANGED queue
    BY <1>1, <1>2, <1>7, <2>1, Forgotten DEF PutsOther, Once
  <2>2. CASE \E id \in {"PUBLISH", "CONNECTED", "DISCONNECTED", "OTHER", "RETRY"} :
               queue' = Put(queue, Message(id))
    BY <1>4, <1>7, <2>2, Ids DEF PutsOther
  <2> QED
    BY <1>7, <2>1, <2>2 DEF PutsOther
<1>8. CASE WifiReports
  <2>1. CASE UNCHANGED mqttVars
    BY <1>3, <1>8, <2>1 DEF mqttVars, vars, client
  <2>2. CASE TellMqtt("WIFI_UP") \/ TellMqtt("WIFI_DOWN")
    BY <1>4, <1>8, <2>2, Ids DEF TellMqtt, Command, Enqueue, client
  <2> QED
    BY <1>8, <2>1, <2>2, ReportSteps DEF UInv, AllInv, CInv
<1>9. CASE WifiQuiet \/ UNCHANGED allVars
  BY <1>3, <1>9, WifiAlone DEF allVars, mqttVars, vars, client
<1> QED
  BY <1>5, <1>6, <1>7, <1>8, <1>9, Steps, PutSteps

LEMMA UplinkInductive == UInv /\ [AllNext]_allVars => UInv'
  BY AllInductive, OnceKept, UnstartedKept DEF UInv

-----------------------------------------------------------------------------
(* The abstract uplink.                                                    *)

LEMMA MqttUplink ==
  ASSUME UInv, MqttMoves
  PROVE  U!Next \/ UNCHANGED U!vars
<1>1. /\ queue \in Seq(Item) /\ subscribed \in BOOLEAN /\ state \in State
      /\ UNCHANGED <<wifiVars, WifiProgress>>
  BY MqttAlone DEF UInv, AllInv, IInv, TypeOK, WifiProgress, wifiVars
<1>2. CASE PutsOther
  <2>1. SameNews /\ SameOrder
    BY <1>1, <1>2, PutBeside DEF PutsOther, SameNews, SameOrder
  <2>2. BrokerProgress' = BrokerProgress
    BY <1>2 DEF PutsOther, BrokerProgress
  <2> QED
    BY <1>1, <1>2, <2>1, <2>2, Forgets DEF PutsOther
<1>3. CASE PutsOrder
  <2>1. UNCHANGED <<wifi, BrokerProgress, News>>
    <3>1. UNCHANGED News
      BY <1>1, <1>3, QueuedPut, Ids, NewsKept DEF PutsOrder
    <3> QED
      BY <1>3, <3>1 DEF PutsOrder, BrokerProgress
  <2>2. Subscription = "none" /\ Subscription' \in {"queued", "over"}
    BY <1>3 DEF PutsOrder, Subscription, UInv, Once
  <2> QED
    BY <1>1, <2>1, <2>2 DEF U!Queue, U!Next
<1>4. CASE Task /\ UNCHANGED boot
  <2>1. /\ Queued(queue, Kind)
        /\ \A x \in {"WIFI_UP", "WIFI_DOWN", "SUBSCRIBE"} :
              /\ Queued(queue', x) => Queued(queue, x)
              /\ x # Kind => (Queued(queue', x) <=> Queued(queue, x))
    BY <1>1, <1>4, TaskRow
  <2>2. CASE Subscribes
    <3>1. Subscription = "queued" /\ ~subscribed /\ boot' = "none"
      BY <1>4, <2>1, <2>2 DEF Subscribes, Subscription, UInv, Once
    <3>2. ~Queued(queue', "SUBSCRIBE")
      BY <1>1, <1>4, <2>2, TaskRow, OneTaken DEF Subscribes, Rest, Kind, UInv, Once
    <3>3. UNCHANGED <<wifi, BrokerProgress, News>>
      BY <2>1, <2>2, NewsKept DEF Subscribes, BrokerProgress
    <3>4. \/ Subscription' = "over"
          \/ Subscription' = "made" /\ BrokerProgress = "connected"
      BY <2>2, <3>1, <3>2 DEF Subscribes, Subscription, BrokerProgress
    <3> QED
      BY <1>1, <3>1, <3>3, <3>4 DEF U!Subscribe, U!Next
  <2>3. CASE Hears /\ subscribed' \in {subscribed, FALSE}
    <3>1. U!SessionKept \/ U!SessionOver
      BY <1>1, <1>4, <2>1, <2>3, Session DEF SameOrder, Hears
    <3>2. CASE Kind = "WIFI_UP"
      <4>1. TRUE \in News /\ News' \in {News, News \ {TRUE}} /\ wifi' = TRUE
        BY <2>1, <2>3, <3>2, NewsTaken, NewsIs DEF Hears
      <4>2. \/ UNCHANGED BrokerProgress
            \/ BrokerProgress = "idle" /\ BrokerProgress' = "trying"
        BY <2>3, <3>2 DEF Hears, Resting, BrokerProgress
      <4> QED
        BY <1>1, <3>1, <4>1, <4>2 DEF U!Hear, U!Next
    <3>3. CASE Kind = "WIFI_DOWN"
      <4>1. FALSE \in News /\ News' \in {News, News \ {FALSE}} /\ wifi' = FALSE
        BY <2>1, <2>3, <3>3, NewsTaken, NewsIs DEF Hears
      <4>2. UNCHANGED BrokerProgress
        BY <2>3, <3>3 DEF Hears, BrokerProgress
      <4> QED
        BY <1>1, <3>1, <4>1, <4>2 DEF U!Hear, U!Next
    <3> QED
      BY <2>3, <3>2, <3>3 DEF Hears
  <2>4. CASE Acts /\ subscribed' \in {subscribed, FALSE}
    <3>1. SameNews /\ SameOrder /\ UNCHANGED <<wifi, News>>
      BY <2>1, <2>4, NewsKept DEF Acts, SameNews, SameOrder
    <3>2. U!SessionKept \/ U!SessionOver
      BY <1>1, <1>4, <2>4, <3>1, Session
    <3>3. CASE Tries
      <4>1. BrokerProgress = "idle" /\ BrokerProgress' = "trying" /\ wifi
        BY <3>3 DEF Tries, Resting, BrokerProgress
      <4> QED
        BY <1>1, <3>1, <3>2, <4>1 DEF U!Try, U!Next
    <3>4. CASE UNCHANGED BrokerProgress
      BY <1>1, <1>4, <2>4, <3>1, <3>4, Forgets
    <3>5. CASE Reaches \/ Leaves
      <4>1. UNCHANGED Subscription
        BY <1>4, <3>1, <3>5 DEF Reaches, Leaves, SameOrder, Subscription
      <4>2. \/ BrokerProgress = "trying" /\ BrokerProgress' = "connected"
            \/ BrokerProgress' = "idle"
        BY <3>5 DEF Reaches, Leaves, Resting, BrokerProgress
      <4> QED
        BY <1>1, <3>1, <3>4, <4>1, <4>2 DEF U!Reach, U!Leave, U!Next
    <3>6. Stays => UNCHANGED BrokerProgress
      BY DEF Stays, Resting, BrokerProgress
    <3> QED
      BY <2>4, <3>3, <3>4, <3>5, <3>6 DEF Acts
  <2> QED
    BY <1>4, <2>2, <2>3, <2>4, TaskSteps
<1> QED
  BY <1>2, <1>3, <1>4, PutSteps

\* What the WiFi task leaves in its queue, and what others put there.
LEMMA WifiTaken ==
  ASSUME wifiQueue \in Seq(W!Item), NEW id, W!Take(id), id # "CONNECT"
  PROVE  Queued(wifiQueue', "CONNECT") <=> Queued(wifiQueue, "CONNECT")
  BY QueuedTaken DEF W!Take

LEMMA WifiOffered ==
  ASSUME wifiQueue \in Seq(W!Item), NEW m \in W!Item, W!Offer(m)
  PROVE  /\ Queued(wifiQueue, "CONNECT") => Queued(wifiQueue', "CONNECT")
         /\ Queued(wifiQueue', "CONNECT") => Queued(wifiQueue, "CONNECT") \/ m.id = "CONNECT"
  BY QueuedAppended DEF W!Offer

LEMMA WifiFacts ==
  ASSUME UInv
  PROVE  /\ W!TypeOK /\ (told => wifiState = "CONNECTED")
         /\ W!LinkLost \/ W!Retry => wifiState \in {"CONNECTING", "CONNECTED", "RECONNECT_WAIT"}
<1>1. P!IInv
  BY DEF UInv, AllInv
<1>2. W!TypeOK /\ (told => wifiState = "CONNECTED")
  BY <1>1, WifiTyped DEF P!IInv, P!ToldOnlyConnected
<1>3. ASSUME W!LinkLost PROVE wifiState \in {"CONNECTING", "CONNECTED", "RECONNECT_WAIT"}
  BY <1>1, <1>3, WifiLosers, WifiAssumed, P!LosersRetry DEF P!Retrying
<1>4. ASSUME W!Retry PROVE wifiState \in {"CONNECTING", "CONNECTED", "RECONNECT_WAIT"}
  BY <1>4 DEF W!Retry
<1> QED
  BY <1>2, <1>3, <1>4

\* The WiFi service's own steps, while it reports nothing.
LEMMA QuietUplink ==
  ASSUME UInv, WifiQuiet
  PROVE  U!Next \/ UNCHANGED U!vars
<1>1. wifiQueue \in Seq(W!Item) /\ told \in BOOLEAN /\ (told => wifiState = "CONNECTED")
  BY WifiFacts DEF W!TypeOK
<1>2. /\ UNCHANGED <<wifi, News, BrokerProgress>>
      /\ boot # "wifi" => UNCHANGED Subscription
  BY WifiAlone
     DEF mqttVars, vars, service, client, News, BrokerProgress, Subscription, WifiQuiet, StartWifi,
         WifiDeliver, WifiExpire, WifiPostRetry, StationAnswers, StationMoves, Unreported
<1>3. UNCHANGED Subscription
  <2>1. CASE boot = "wifi"
    BY <2>1 DEF WifiQuiet, StartWifi, WifiDeliver, WifiExpire, WifiPostRetry, StationAnswers,
                StationMoves, Unreported, Subscription
  <2> QED
    BY <1>2, <2>1
<1>4. CASE StartWifi
  <2>1. WifiProgress = "idle"
    BY <1>1, <1>4 DEF StartWifi, UInv, Unstarted, WifiProgress, Queued
  <2>2. WifiProgress' = "connecting"
    <3>1. /\ wifiQueue = << >> /\ ~told /\ UNCHANGED told
          /\ wifiQueue' = IF Len(wifiQueue) < WifiQueueLength
                          THEN Append(wifiQueue, W!Message("CONNECT")) ELSE wifiQueue
      BY <1>1, <1>4 DEF StartWifi, W!Command, W!Offer, W!service, UInv, Unstarted
    <3>2. Len(wifiQueue) < WifiQueueLength
      BY <3>1, ConnectivityAssumption DEF W!WifiAssumption
    <3>3. W!Message("CONNECT") \in W!Item /\ W!Message("CONNECT").id = "CONNECT"
      BY DEF W!Item, W!Request, W!Message
    <3>4. Queued(wifiQueue', "CONNECT")
      BY <1>1, <3>1, <3>2, <3>3, QueuedAppended
    <3> QED
      BY <3>1, <3>4 DEF WifiProgress
  <2> QED
    BY <1>2, <1>3, <2>1, <2>2 DEF U!Connect, U!Next, U!broker
<1>5. ASSUME UNCHANGED <<told, wifiState>>,
             Queued(wifiQueue', "CONNECT") <=> Queued(wifiQueue, "CONNECT")
      PROVE  U!Next \/ UNCHANGED U!vars
  BY <1>2, <1>3, <1>5 DEF WifiProgress, U!vars, U!broker
<1>6. CASE WifiDeliver
  <2>1. /\ W!Message(Head(pending)) \in W!Item /\ W!Message(Head(pending)).id # "CONNECT"
        /\ W!Offer(W!Message(Head(pending)))
    <3>1. Head(pending) \in W!DriverEvent
      BY <1>6, WifiFacts DEF WifiDeliver, Unreported, W!Deliver, W!TypeOK
    <3> QED
      BY <1>6, <3>1 DEF WifiDeliver, Unreported, W!Deliver, W!Item, W!Message, W!DriverEvent
  <2>2. Queued(wifiQueue', "CONNECT") <=> Queued(wifiQueue, "CONNECT")
    BY <1>1, <2>1, WifiOffered
  <2> QED
    BY <1>5, <1>6, <2>2 DEF WifiDeliver, Unreported, W!Deliver, W!service
<1>7. CASE WifiPostRetry
  <2>1. W!Message("RETRY") \in W!Item /\ W!Message("RETRY").id # "CONNECT"
    BY DEF W!Item, W!Message
  <2>2. Queued(wifiQueue', "CONNECT") <=> Queued(wifiQueue, "CONNECT")
    BY <1>1, <1>7, <2>1, WifiOffered DEF WifiPostRetry, Unreported, W!PostRetry
  <2> QED
    BY <1>5, <1>7, <2>2 DEF WifiPostRetry, Unreported, W!PostRetry, W!service
<1>8. CASE WifiExpire \/ StationAnswers \/ StationMoves
  BY <1>5, <1>8 DEF WifiExpire, StationAnswers, StationMoves, Unreported, W!Expire, W!Associate,
     W!Lease, W!Lose, W!service
<1>9. CASE W!RetryIgnored
  BY <1>1, <1>5, <1>9, WifiTaken DEF W!RetryIgnored, W!service
<1>10. CASE W!Connected
  <2>1. Queued(wifiQueue', "CONNECT") <=> Queued(wifiQueue, "CONNECT")
    BY <1>1, <1>10, WifiTaken DEF W!Connected
  <2>2. UNCHANGED told
    BY <1>10 DEF W!Connected
  <2>3. UNCHANGED wifiState \/ (wifiState = "CONNECTING" /\ wifiState' = "CONNECTED")
    BY <1>10 DEF W!Connected
  <2>4. UNCHANGED WifiProgress
    BY <2>1, <2>2, <2>3 DEF WifiProgress
  <2> QED
    BY <1>2, <1>3, <2>4 DEF U!vars, U!broker
<1>11. CASE W!Connect
  <2>1. ~told /\ ~told' /\ Queued(wifiQueue, "CONNECT")
    BY <1>1, <1>11, QueuedTaken DEF W!Connect, W!Take
  <2>2. WifiProgress = "connecting" /\ WifiProgress' \in {"connecting", "idle"}
    BY <2>1 DEF WifiProgress
  <2> QED
    BY <1>2, <1>3, <2>2 DEF U!Refused, U!Next, U!vars, U!broker
<1> QED
  BY <1>4, <1>6, <1>7, <1>8, <1>9, <1>10, <1>11 DEF WifiQuiet, Unreported

LEMMA ReportUplink ==
  ASSUME UInv, WifiReports
  PROVE  U!Next \/ UNCHANGED U!vars
<1>1. wifiQueue \in Seq(W!Item) /\ told \in BOOLEAN /\ (told => wifiState = "CONNECTED")
  BY WifiFacts DEF W!TypeOK
<1>2. UNCHANGED boot
  BY <1>1, ReportSteps
<1>3. ASSUME NEW id \in {"WIFI_UP", "WIFI_DOWN"}, TellMqtt(id)
      PROVE  /\ UNCHANGED <<wifi, BrokerProgress, Subscription>>
             /\ News' \in {News, News \union {id = "WIFI_UP"}}
  <2>1. /\ queue \in Seq(Item) /\ queue' = Put(queue, Message(id))
        /\ UNCHANGED <<state, wifi, subscribed>>
        /\ Message(id) \in Item /\ Message(id).id = id
    BY <1>3, Ids DEF TellMqtt, Command, Enqueue, service, client, UInv, AllInv, CInv
  <2>2. \A x : /\ Queued(queue, x) => Queued(queue', x)
               /\ Queued(queue', x) => Queued(queue, x) \/ id = x
    BY <2>1, QueuedPut
  <2>3. UNCHANGED <<wifi, BrokerProgress, Subscription>>
    BY <1>2, <2>1, <2>2 DEF BrokerProgress, Subscription
  <2>4. News' \in {News, News \union {id = "WIFI_UP"}}
    <3>1. CASE id = "WIFI_UP"
      BY <2>2, <3>1, NewsAdded
    <3>2. CASE id = "WIFI_DOWN"
      BY <2>2, <3>2, NewsAdded
    <3> QED
      BY <3>1, <3>2
  <2> QED
    BY <2>3, <2>4
<1>4. CASE W!GotIp /\ told' = TRUE /\ wifiState = "CONNECTED" /\ TellMqtt("WIFI_UP")
  <2>1. WifiProgress # "idle" /\ WifiProgress' = "online"
    BY <1>4 DEF WifiProgress
  <2> QED
    BY <1>3, <1>4, <2>1 DEF U!Online, U!Report, U!Next, U!broker
<1>5. CASE (W!LinkLost \/ W!Retry) /\ told' = FALSE /\ TellMqtt("WIFI_DOWN")
  <2>1. WifiProgress # "idle" /\ WifiProgress' \in {"idle", "connecting"}
    BY <1>5, WifiFacts DEF WifiProgress
  <2> QED
    BY <1>3, <1>5, <2>1 DEF U!Offline, U!Report, U!Next, U!broker
<1>6. CASE /\ W!GotIp \/ (W!Retry /\ wifiState' = "CONNECTING")
           /\ UNCHANGED <<told, mqttVars, stale>>
  <2>1. Queued(wifiQueue', "CONNECT") <=> Queued(wifiQueue, "CONNECT")
    BY <1>1, <1>6, WifiTaken DEF W!GotIp, W!Retry
  <2>2. \/ UNCHANGED wifiState
        \/ wifiState = "RECONNECT_WAIT" /\ wifiState' = "CONNECTING"
    BY <1>6 DEF W!GotIp, W!Retry
  <2>3. UNCHANGED WifiProgress
    BY <1>6, <2>1, <2>2 DEF WifiProgress
  <2>4. UNCHANGED <<wifi, News, BrokerProgress, Subscription>>
    BY <1>2, <1>6 DEF mqttVars, vars, service, client, News, BrokerProgress, Subscription
  <2> QED
    BY <2>3, <2>4 DEF U!vars, U!broker
<1> QED
  BY <1>1, <1>4, <1>5, <1>6, ReportSteps

\* The WiFi service and the MQTT service, with the handlers and queues between them, do to
\* the rest of the firmware only what the abstract uplink does, which the boot sequence is
\* built upon.
THEOREM ImplementsUplink == AllSpec => UplinkSpec
<1>1. AllInit => U!Init
  BY DEF AllInit, Init, W!Init, U!Init, WifiProgress, News, BrokerProgress, Subscription, Queued
<1>2. UInv /\ [AllNext]_allVars => [U!Next]_(U!vars)
  <2> SUFFICES ASSUME UInv, [AllNext]_allVars PROVE U!Next \/ UNCHANGED U!vars
    OBVIOUS
  <2>1. CASE UNCHANGED allVars
    BY <2>1 DEF allVars, mqttVars, wifiVars, vars, service, client, WifiProgress, News,
                BrokerProgress, Subscription, U!vars, U!broker
  <2> QED
    BY <2>1, Steps, MqttUplink, QuietUplink, ReportUplink
<1>3. AllSpec => []UInv
  BY UplinkInit, UplinkInductive, PTL DEF AllSpec
<1> QED
  BY <1>1, <1>2, <1>3, PTL DEF AllSpec, UplinkSpec, U!Spec
-----------------------------------------------------------------------------
(* Without a user's disconnect, which production never commands.           *)

Undisturbed == ~user /\ ~Queued(queue, "DISCONNECT")

\* A service that believes in an attempt or a connection has a client that runs, and that
\* will come to an answer or notice the loss of its network.
HasClient == state \in {"CONNECTING", "CONNECTED"} => started /\ link \in {"trying", "up"}

LEMMA UndisturbedKept == AllInv /\ Undisturbed /\ [AllNext]_allVars => Undisturbed'
<1> SUFFICES ASSUME AllInv, Undisturbed, [AllNext]_allVars PROVE Undisturbed'
  OBVIOUS
<1>1. queue \in Seq(Item) /\ ~user /\ ~Queued(queue, "DISCONNECT")
  BY DEF AllInv, CInv, Undisturbed
<1>2. ASSUME UNCHANGED <<queue, user>> PROVE Undisturbed'
  BY <1>1, <1>2 DEF Undisturbed
<1>3. ASSUME NEW id \in {"WIFI_UP", "WIFI_DOWN", "SUBSCRIBE", "PUBLISH", "CONNECTED",
                         "DISCONNECTED", "OTHER", "RETRY"},
             queue' = Put(queue, Message(id)), UNCHANGED user
      PROVE  Undisturbed'
  BY <1>1, <1>3, Ids, QueuedPut DEF Undisturbed
<1>4. CASE Task
  <2>1. /\ Take(Kind) /\ queue # << >> /\ Rest \in Seq(Item)
        /\ queue' \in {Rest, Put(Rest, Message("DISCONNECTED"))}
    BY <1>1, <1>4, TaskSteps, TaskRow
  <2>2. Kind # "DISCONNECT" /\ ~Queued(Rest, "DISCONNECT")
    BY <1>1, <2>1, QueuedTaken DEF Kind, Rest
  <2>3. ~Queued(queue', "DISCONNECT")
    BY <2>1, <2>2, Ids, QueuedPut
  <2>4. ~user'
    <3>1. ~Disconnect
      BY <2>2 DEF Disconnect, Take, Kind
    <3>2. user' \in {user, FALSE}
      BY <1>4, <3>1 DEF Task, WifiUp, WifiDown, Connect, SetConfig, Subscribe, Unsubscribe,
                        Ignore, Connected, LinkLost, Retry, RetryDropped, Disconnected, Begin,
                        service
    <3> QED
      BY <1>1, <3>2
  <2> QED
    BY <2>3, <2>4 DEF Undisturbed
<1>5. CASE Command(Message("SUBSCRIBE")) \/ Command(Message("PUBLISH"))
  BY <1>3, <1>5 DEF Command, Enqueue, service
<1>6. CASE Expire \/ PostRetry
  BY <1>2, <1>3, <1>6 DEF Expire, PostRetry, Enqueue, service
<1>7. CASE ClientConnects \/ ClientFails \/ ClientLoses \/ ClientReceives
  BY <1>3, <1>7 DEF ClientConnects, ClientFails, ClientLoses, ClientReceives, Report, Enqueue,
                    service
<1>8. CASE WifiReports
  <2>1. CASE UNCHANGED mqttVars
    BY <1>2, <2>1 DEF mqttVars, vars, service
  <2>2. CASE TellMqtt("WIFI_UP") \/ TellMqtt("WIFI_DOWN")
    BY <1>3, <2>2 DEF TellMqtt, Command, Enqueue, service
  <2> QED
    BY <1>8, <2>1, <2>2, ReportSteps DEF AllInv, CInv
<1>9. CASE WifiQuiet \/ UNCHANGED allVars
  BY <1>2, <1>9, WifiAlone DEF allVars, mqttVars, vars, service
<1> QED
  BY <1>4, <1>5, <1>6, <1>7, <1>8, <1>9, Steps, MqttSteps

\* The MQTT service never believes in an attempt or a connection without a client that runs,
\* whatever it is told of WiFi, and whichever of the client's calls are refused
\* (process_command, process_client_event, process_retry, mqtt_client_stop).
THEOREM ClientBehindState == AllSpec => []HasClient
<1>1. AllInit => Undisturbed
  BY DEF AllInit, Init, Undisturbed, Queued
<1>2. AllInv /\ Undisturbed => HasClient
  BY DEF AllInv, IInv, TypeOK, BackedByClient, OneClient, Undisturbed, HasClient
<1> QED
  BY <1>1, <1>2, UndisturbedKept, AllInvariance, PTL DEF AllSpec
=============================================================================
