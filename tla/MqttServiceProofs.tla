-------------------------- MODULE MqttServiceProofs --------------------------
(***************************************************************************)
(* Theorems about the MQTT service, for every length of its queue and      *)
(* every set of retry limits, with messages lost or not.                   *)
(*                                                                         *)
(* OneClient and BackedByClient are preserved by every step as they stand; *)
(* the bound of the retries needs RetriesCounted: each retry follows a     *)
(* failure that has been counted, and the service waits for a retry only   *)
(* while the count is within a limit that has been in force.               *)
(***************************************************************************)
EXTENDS MqttService, TLAPS

\* n failures are within some limit that may have been in force.
Within(n) == \E l \in Limits : n <= l

RetriesCounted ==
  0 \notin Limits => /\ retries <= count
                     /\ state = "RECONNECT_WAIT" => retries < count /\ Within(count)

IInv == /\ TypeOK /\ OneClient /\ BackedByClient
        /\ RetriesWithinLimit /\ RetriesCounted

LEMMA Initially == Init => IInv
<1> SUFFICES ASSUME Init PROVE IInv
  OBVIOUS
<1> USE MqttAssumption DEF Init
<1>1. TypeOK
  <2>1. queue \in Seq(Item) /\ Len(queue) <= QueueLength
    OBVIOUS
  <2>2. limit \in Limits /\ count \in 0..CountCap /\ retries \in 0..CountCap
    OBVIOUS
  <2> QED
    BY <2>1, <2>2 DEF TypeOK, State
<1>2. OneClient /\ BackedByClient
  BY DEF OneClient, BackedByClient
<1>3. RetriesWithinLimit
  <2>1. DefaultLimit \in Limits /\ retries <= DefaultLimit
    OBVIOUS
  <2> QED
    BY <2>1 DEF RetriesWithinLimit
<1>4. RetriesCounted
  BY DEF RetriesCounted
<1> QED
  BY <1>1, <1>2, <1>3, <1>4 DEF IInv

-----------------------------------------------------------------------------
(* The queue.                                                              *)

\* A message is put behind the others, or lost.
LEMMA Added ==
  ASSUME NEW q \in Seq(Item), Len(q) <= QueueLength, NEW m \in Item
  PROVE  Put(q, m) \in Seq(Item) /\ Len(Put(q, m)) <= QueueLength
  BY MqttAssumption DEF Put

LEMMA Enqueued ==
  ASSUME TypeOK, NEW m \in Item, Enqueue(m)
  PROVE  queue' \in Seq(Item) /\ Len(queue') <= QueueLength /\ lost' \in BOOLEAN
<1>1. queue \in Seq(Item) /\ Len(queue) <= QueueLength
  BY DEF TypeOK
<1>2. queue' \in Seq(Item) /\ Len(queue') <= QueueLength
  BY <1>1, Added DEF Enqueue
<1>3. lost' \in BOOLEAN
  BY Zenon DEF Enqueue
<1> QED
  BY <1>2, <1>3

\* The first message is taken.
LEMMA Taken ==
  ASSUME TypeOK, NEW id, Take(id)
  PROVE  /\ Head(queue) \in Item /\ Rest \in Seq(Item) /\ Len(Rest) <= QueueLength
         /\ lost' \in BOOLEAN
  BY MqttAssumption DEF TypeOK, Take, Rest

LEMMA Messages == \A id \in {"WIFI_UP", "WIFI_DOWN", "DISCONNECT", "PUBLISH", "CONNECTED",
                             "DISCONNECTED", "OTHER", "RETRY"} : Message(id) \in Item
  BY DEF Item, Request, ClientEvent

\* Stopping the client puts at most one message into the queue.
LEMMA Left ==
  ASSUME TypeOK, NEW id, Take(id), Leave
  PROVE  queue' \in Seq(Item) /\ Len(queue') <= QueueLength
  BY Taken, Added, Messages DEF Leave

-----------------------------------------------------------------------------
(* The producers and the client.                                           *)

\* A step that leaves the service alone, and the client but for what its link does.
LEMMA AsideInv ==
  ASSUME IInv, queue' \in Seq(Item), Len(queue') <= QueueLength, lost' \in BOOLEAN,
         subscribed' \in BOOLEAN,
         UNCHANGED <<state, wifi, limit, count, user, initialized, started, retries>>,
         timer' \in BOOLEAN, firing' \in BOOLEAN, paused' \in BOOLEAN,
         link' = link \/ {link, link'} \subseteq {"trying", "up"}
  PROVE  IInv'
<1>1. TypeOK'
  BY DEF IInv, TypeOK
<1>2. OneClient' /\ BackedByClient'
  BY DEF IInv, OneClient, BackedByClient
<1>3. RetriesWithinLimit' /\ RetriesCounted'
  BY DEF IInv, RetriesWithinLimit, RetriesCounted, Within
<1> QED
  BY <1>1, <1>2, <1>3 DEF IInv

LEMMA ProducersInv ==
  ASSUME IInv, (\E m \in Request : Command(m)) \/ Expire \/ PostRetry
  PROVE  IInv'
<1>1. /\ queue \in Seq(Item) /\ Len(queue) <= QueueLength
      /\ lost \in BOOLEAN /\ subscribed \in BOOLEAN
      /\ timer \in BOOLEAN /\ firing \in BOOLEAN /\ paused \in BOOLEAN
  BY DEF IInv, TypeOK
<1>2. ASSUME NEW m \in Request, Command(m) PROVE IInv'
  <2>1. queue' \in Seq(Item) /\ Len(queue') <= QueueLength /\ lost' \in BOOLEAN
    BY <1>2, Enqueued DEF Command, Item, IInv
  <2> QED
    BY <1>1, <1>2, <2>1, AsideInv DEF Command, service, client, history
<1>3. CASE Expire
  BY <1>1, <1>3, AsideInv DEF Expire, client, history
<1>4. CASE PostRetry
  <2>1. queue' \in Seq(Item) /\ Len(queue') <= QueueLength /\ lost' \in BOOLEAN
    BY <1>4, Enqueued, Messages DEF PostRetry, IInv
  <2> QED
    BY <1>1, <1>4, <2>1, AsideInv DEF PostRetry, service, client, history
<1> QED
  BY <1>2, <1>3, <1>4

LEMMA ClientInv ==
  ASSUME IInv, ClientConnects \/ ClientFails \/ ClientLoses \/ ClientReceives
  PROVE  IInv'
<1>1. PICK id \in {"CONNECTED", "DISCONNECTED", "OTHER"} : Report(id)
  BY DEF ClientConnects, ClientFails, ClientLoses, ClientReceives
<1>2. /\ queue \in Seq(Item) /\ Len(queue) <= QueueLength
      /\ timer \in BOOLEAN /\ firing \in BOOLEAN /\ paused \in BOOLEAN
      /\ subscribed' \in BOOLEAN
  BY DEF IInv, TypeOK, ClientConnects, ClientFails, ClientLoses, ClientReceives
<1>3. queue' \in Seq(Item) /\ Len(queue') <= QueueLength /\ lost' \in BOOLEAN
  BY <1>1, Enqueued, Messages DEF Report, IInv
<1>4. {link, link'} \subseteq {"trying", "up"}
  BY DEF ClientConnects, ClientFails, ClientLoses, ClientReceives
<1> QED
  BY <1>1, <1>2, <1>3, <1>4, AsideInv DEF Report, service, history

-----------------------------------------------------------------------------
(* The service task.                                                       *)

\* A new attempt starts from zero failures and zero retries, whatever becomes of the client.
LEMMA BeginInv ==
  ASSUME IInv, NEW id, Take(id), Begin, wifi' \in BOOLEAN, limit' \in Limits
  PROVE  IInv'
<1> USE MqttAssumption
<1>1. count' = 0 /\ retries' = 0 /\ UNCHANGED <<user, timer, firing, paused>>
  BY DEF Begin
<1>2. queue' \in Seq(Item) /\ Len(queue') <= QueueLength /\ lost' \in BOOLEAN
  BY Taken, Left DEF Begin, IInv
<1>3. \/ state' = "FAILED" /\ UNCHANGED <<initialized, started, link, subscribed>>
      \/ /\ state' = "FAILED" /\ initialized' \in BOOLEAN /\ started' = FALSE
         /\ link' = "off" /\ subscribed' = FALSE
      \/ /\ state' = "CONNECTING" /\ initialized' = TRUE /\ started' = TRUE
         /\ link' = "trying" /\ subscribed' = FALSE
  BY DEF Begin, Stopped, client
<1>4. TypeOK'
  <2>1. count' \in 0..CountCap /\ retries' \in 0..CountCap /\ state' \in State
    BY <1>1, <1>3 DEF State
  <2>2. /\ user' \in BOOLEAN /\ timer' \in BOOLEAN /\ firing' \in BOOLEAN
        /\ paused' \in BOOLEAN
    BY <1>1 DEF IInv, TypeOK
  <2>3. /\ initialized' \in BOOLEAN /\ started' \in BOOLEAN
        /\ link' \in {"off", "trying", "up"} /\ subscribed' \in BOOLEAN
    BY <1>3 DEF IInv, TypeOK
  <2> QED
    BY <1>2, <2>1, <2>2, <2>3 DEF TypeOK
<1>5. OneClient' /\ BackedByClient'
  BY <1>3 DEF IInv, OneClient, BackedByClient
<1>6. RetriesWithinLimit'
  <2>1. DefaultLimit \in Limits /\ retries' <= DefaultLimit
    BY <1>1
  <2> QED
    BY <2>1 DEF RetriesWithinLimit
<1>7. RetriesCounted'
  BY <1>1, <1>3 DEF RetriesCounted
<1> QED
  BY <1>4, <1>5, <1>6, <1>7 DEF IInv

\* A message that is taken without touching the service but for its settings.
LEMMA SettledInv ==
  ASSUME IInv, NEW id, Take(id), queue' = Rest, wifi' \in BOOLEAN, limit' \in Limits,
         UNCHANGED <<state, count, user, timer, firing, initialized, started, link, retries>>,
         paused' \in BOOLEAN, subscribed' \in BOOLEAN
  PROVE  IInv'
<1>1. TypeOK'
  BY Taken DEF IInv, TypeOK
<1>2. OneClient' /\ BackedByClient'
  BY DEF IInv, OneClient, BackedByClient
<1>3. RetriesWithinLimit' /\ RetriesCounted'
  BY DEF IInv, RetriesWithinLimit, RetriesCounted, Within
<1> QED
  BY <1>1, <1>2, <1>3 DEF IInv

\* A message with a limit carries one that may be in force.
LEMMA HeadLimit ==
  ASSUME IInv, Take("CONNECT") \/ Take("SET_CONFIG")
  PROVE  Head(queue).limit \in Limits
<1>1. Head(queue) \in Item /\ Head(queue).id \in {"CONNECT", "SET_CONFIG"}
  BY Taken DEF IInv, Take
<1> QED
  BY <1>1 DEF Item, Request, ClientEvent, Message

LEMMA SettingsInv ==
  ASSUME IInv, \/ WifiUp \/ WifiDown \/ Connect \/ SetConfig
               \/ Subscribe \/ Unsubscribe \/ Ignore \/ RetryDropped
  PROVE  IInv'
<1>1. /\ wifi \in BOOLEAN /\ limit \in Limits /\ paused \in BOOLEAN
      /\ subscribed \in BOOLEAN
  BY DEF IInv, TypeOK
<1>2. CASE WifiUp
  BY <1>1, <1>2, BeginInv, SettledInv DEF WifiUp, client, history
<1>3. CASE WifiDown
  BY <1>1, <1>3, SettledInv DEF WifiDown, client, history
<1>4. CASE Connect
  BY <1>1, <1>4, HeadLimit, BeginInv, SettledInv DEF Connect, client, history
<1>5. CASE SetConfig
  BY <1>1, <1>5, HeadLimit, SettledInv DEF SetConfig, client, history
<1>6. CASE Ignore
  BY <1>1, <1>6, SettledInv DEF Ignore, service, client, history
<1>7. CASE RetryDropped
  BY <1>1, <1>7, SettledInv DEF RetryDropped, service, client
<1>8. CASE Subscribe \/ Unsubscribe
  BY <1>1, <1>8, SettledInv DEF Subscribe, Unsubscribe, service, history
<1> QED
  BY <1>2, <1>3, <1>4, <1>5, <1>6, <1>7, <1>8

\* Where the service stays engaged, the user's flag is set; a service that waited goes idle.
LEMMA DisconnectInv == IInv /\ Disconnect => IInv'
<1> SUFFICES ASSUME IInv, Disconnect PROVE IInv'
  OBVIOUS
<1>1. /\ Take("DISCONNECT")
      /\ user' = TRUE /\ timer' \in BOOLEAN
      /\ state' = IF state \in {"RECONNECT_WAIT", "FAILED"} THEN "IDLE" ELSE state
      /\ UNCHANGED <<wifi, limit, count, firing, paused, retries>>
  BY DEF Disconnect, history, IInv, TypeOK
<1>2. \/ started' = FALSE /\ link' = "off" /\ initialized' = FALSE /\ subscribed' = FALSE
      \/ UNCHANGED <<initialized, started, link, subscribed>>
  BY DEF Disconnect, Stopped, client
<1>3. queue' \in Seq(Item) /\ Len(queue') <= QueueLength /\ lost' \in BOOLEAN
  BY <1>1, Taken, Left DEF Disconnect, IInv
<1>4. TypeOK'
  BY <1>1, <1>2, <1>3 DEF IInv, TypeOK, State
<1>5. OneClient' /\ BackedByClient'
  BY <1>1, <1>2 DEF IInv, OneClient, BackedByClient
<1>6. RetriesWithinLimit' /\ RetriesCounted'
  BY <1>1 DEF IInv, RetriesWithinLimit, RetriesCounted
<1> QED
  BY <1>4, <1>5, <1>6 DEF IInv

LEMMA ConnectedInv == IInv /\ Connected => IInv'
<1> SUFFICES ASSUME IInv, Connected PROVE IInv'
  OBVIOUS
<1> USE MqttAssumption
<1>1. /\ Take("CONNECTED") /\ queue' = Rest
      /\ UNCHANGED <<wifi, limit, user, timer, firing, initialized, started, link,
                     subscribed, paused>>
  BY DEF Connected, client
<1>2. CASE state = "CONNECTING"
  <2>1. state' = "CONNECTED" /\ count' = 0 /\ retries' = 0
    BY <1>2 DEF Connected
  <2>2. TypeOK'
    BY <1>1, <2>1, Taken DEF IInv, TypeOK, State
  <2>3. OneClient' /\ BackedByClient'
    BY <1>1, <1>2, <2>1 DEF IInv, OneClient, BackedByClient
  <2>4. DefaultLimit \in Limits /\ retries' <= DefaultLimit
    BY <2>1
  <2>5. RetriesWithinLimit' /\ RetriesCounted'
    BY <2>1, <2>4 DEF RetriesWithinLimit, RetriesCounted
  <2> QED
    BY <2>2, <2>3, <2>5 DEF IInv
<1>3. CASE state # "CONNECTING"
  BY <1>1, <1>3, SettledInv DEF Connected, IInv, TypeOK
<1> QED
  BY <1>2, <1>3

\* The failure is counted, so that one more retry is accounted for.
LEMMA DisconnectedInv ==
  ASSUME TypeOK, OneClient, NEW id, Take(id), Disconnected, retries' \in 0..CountCap,
         0 \notin Limits => retries' <= count, RetriesWithinLimit'
  PROVE  IInv'
<1> USE MqttAssumption
<1>1. /\ queue' = Rest /\ user' = FALSE
      /\ UNCHANGED <<wifi, limit, firing, initialized, started, link, subscribed>>
  BY DEF Disconnected, client
<1>2. \/ state' = "IDLE" /\ UNCHANGED <<count, timer, paused>>
      \/ /\ count' = Increment(count) /\ Exhausted(count')
         /\ state' = "FAILED" /\ UNCHANGED <<timer, paused>>
      \/ /\ count' = Increment(count) /\ ~Exhausted(count')
         /\ state' = "RECONNECT_WAIT" /\ timer' = TRUE /\ paused' = FALSE
  BY DEF Disconnected, Wait
<1>3. count \in 0..CountCap /\ limit \in Limits
  BY DEF TypeOK
<1>4. Increment(count) \in 0..CountCap /\ count <= Increment(count)
  BY <1>3 DEF Increment
<1>5. TypeOK'
  BY <1>1, <1>2, <1>4, Taken DEF TypeOK, State
<1>6. OneClient' /\ BackedByClient'
  BY <1>1, <1>2 DEF OneClient, BackedByClient
<1>7. ASSUME 0 \notin Limits
      PROVE  /\ retries' <= count'
             /\ state' = "RECONNECT_WAIT" => retries' < count' /\ Within(count')
  <2>1. retries' <= count'
    BY <1>2, <1>3, <1>4, <1>7
  <2>2. ASSUME state' = "RECONNECT_WAIT"
        PROVE  retries' < count' /\ Within(count')
    <3>1. count' = Increment(count) /\ ~Exhausted(count')
      BY <1>2, <2>2
    <3>2. limit \in Nat /\ limit > 0 /\ limit + 1 < CountCap
      BY <1>3, <1>7
    <3>3. count' <= limit
      BY <1>4, <3>1, <3>2 DEF Exhausted
    <3>4. count' = count + 1
      BY <1>3, <3>1, <3>2, <3>3 DEF Increment
    <3> QED
      BY <1>3, <1>7, <3>3, <3>4 DEF Within
  <2> QED
    BY <2>1, <2>2
<1>8. RetriesCounted'
  BY <1>7 DEF RetriesCounted, Within
<1> QED
  BY <1>5, <1>6, <1>8 DEF IInv

LEMMA LinkLostInv == IInv /\ LinkLost => IInv'
<1> SUFFICES ASSUME IInv, LinkLost PROVE IInv'
  OBVIOUS
<1>1. retries' = retries /\ RetriesWithinLimit'
  BY DEF LinkLost, IInv, RetriesWithinLimit
<1> QED
  BY <1>1, DisconnectedInv DEF LinkLost, IInv, TypeOK, RetriesCounted

\* The retry uses up a failure that had been counted.
LEMMA RetryInv == IInv /\ Retry => IInv'
<1> SUFFICES ASSUME IInv, Retry PROVE IInv'
  OBVIOUS
<1> USE MqttAssumption
<1>1. Take("RETRY") /\ state = "RECONNECT_WAIT" /\ retries' = Increment(retries)
  BY DEF Retry, Due
<1>2. count \in 0..CountCap /\ retries \in 0..CountCap /\ retries' \in 0..CountCap
  BY <1>1 DEF IInv, TypeOK, Increment
<1>3. ASSUME 0 \notin Limits PROVE retries' <= count
  BY <1>1, <1>2, <1>3 DEF IInv, RetriesCounted, Increment
<1>4. RetriesWithinLimit'
  <2> SUFFICES ASSUME 0 \notin Limits PROVE \E l \in Limits : retries' <= l
    BY DEF RetriesWithinLimit
  <2>1. PICK l \in Limits : count <= l
    BY <1>1 DEF IInv, RetriesCounted, Within
  <2> QED
    BY <1>2, <1>3, <2>1
<1>5. CASE /\ initialized /\ state' = "CONNECTING" /\ started' = TRUE
           /\ link' = IF started THEN link ELSE "trying"
           /\ queue' = Rest
           /\ UNCHANGED <<wifi, limit, count, user, timer, firing, initialized, subscribed,
                          paused>>
  <2>1. TypeOK'
    BY <1>1, <1>2, <1>5, Taken DEF IInv, TypeOK, State
  <2>2. OneClient' /\ BackedByClient'
    BY <1>5 DEF IInv, OneClient, BackedByClient
  <2>3. RetriesCounted'
    BY <1>3, <1>5 DEF RetriesCounted
  <2> QED
    BY <1>4, <2>1, <2>2, <2>3 DEF IInv
<1>6. CASE ~started /\ Disconnected
  BY <1>1, <1>2, <1>3, <1>4, <1>6, DisconnectedInv DEF IInv
<1> QED
  BY <1>5, <1>6 DEF Retry

-----------------------------------------------------------------------------
(* The theorems.                                                           *)

LEMMA Inductive == IInv /\ [Next]_vars => IInv'
<1> SUFFICES ASSUME IInv, [Next]_vars PROVE IInv'
  OBVIOUS
<1>1. CASE (\E m \in Request : Command(m)) \/ Expire \/ PostRetry
  BY <1>1, ProducersInv
<1>2. CASE ClientConnects \/ ClientFails \/ ClientLoses \/ ClientReceives
  BY <1>2, ClientInv
<1>3. CASE Task
  BY <1>3, SettingsInv, DisconnectInv, ConnectedInv, LinkLostInv, RetryInv DEF Task
<1>4. CASE UNCHANGED vars
  BY <1>4, AsideInv DEF vars, service, client, history, IInv, TypeOK
<1> QED
  BY <1>1, <1>2, <1>3, <1>4 DEF Next

LEMMA Invariance == Spec => []IInv
  BY Initially, Inductive, PTL DEF Spec

\* Types, the bound of the queue included.
THEOREM TypeCorrect == Spec => []TypeOK
<1>1. IInv => TypeOK
  BY DEF IInv
<1> QED
  BY <1>1, Invariance, PTL

\* The abstraction never holds a running client without a configuration, nor loses hold of
\* one that runs (mqtt_client_init, _start and _stop, their refusals included).
THEOREM NoClientIsLost == Spec => []OneClient
<1>1. IInv => OneClient
  BY DEF IInv
<1> QED
  BY <1>1, Invariance, PTL

\* CONNECTING and CONNECTED are backed by a running client, or by a user's disconnect that
\* is not accounted for yet (process_command, process_retry).
THEOREM StateIsBacked == Spec => []BackedByClient
<1>1. IInv => BackedByClient
  BY DEF IInv
<1> QED
  BY <1>1, Invariance, PTL

\* A connection costs at most as many retries as some limit that has been in force
\* (max_retry_attempts), whatever the queue loses and the client reports by itself.
THEOREM RetriesAreBounded == Spec => []RetriesWithinLimit
<1>1. IInv => RetriesWithinLimit
  BY DEF IInv
<1> QED
  BY <1>1, Invariance, PTL

\* An attempt begins only while the service has been told that WiFi is there: by that
\* message, on a connect command, or on a retry.
THEOREM WifiComesFirst == Spec => NoAttemptWithoutWifi
<1> DEFINE Backed == state # "CONNECTING" /\ state' = "CONNECTING" => wifi'
<1>1. [Next]_vars => [Backed]_vars
  <2> SUFFICES ASSUME Next, state # "CONNECTING", state' = "CONNECTING" PROVE wifi'
    OBVIOUS
  <2>1. Next => \/ UNCHANGED state
                \/ WifiUp \/ Connect \/ Disconnect \/ Connected \/ LinkLost \/ Retry
    BY DEF Next, Task, Command, Expire, PostRetry, ClientConnects, ClientFails, ClientLoses,
           ClientReceives, Report, WifiDown, SetConfig, Subscribe, Unsubscribe, Ignore,
           RetryDropped, service
  <2>2. CASE WifiUp
    BY <2>2 DEF WifiUp
  <2>3. CASE Connect
    BY <2>3 DEF Connect
  <2>4. CASE Disconnect \/ Connected
    BY <2>4 DEF Disconnect, Connected
  <2>5. CASE LinkLost
    BY <2>5 DEF LinkLost, Disconnected, Wait
  <2>6. CASE Retry
    BY <2>6 DEF Retry, Due, Disconnected, Wait
  <2> QED
    BY <2>1, <2>2, <2>3, <2>4, <2>5, <2>6
<1> QED
  BY <1>1, PTL DEF Spec, NoAttemptWithoutWifi
-----------------------------------------------------------------------------
(* What keeps the service waiting for something that will come.            *)

RetryQueued == \E i \in DOMAIN queue : queue[i].id = "RETRY"

\* A service that waits has a retry under way, or has dropped it because WiFi is away.
RetryUnderway == ~lost /\ state = "RECONNECT_WAIT" => timer \/ firing \/ paused \/ RetryQueued

\* What becomes of a message put into the queue.
LEMMA EnqueueKeeps ==
  ASSUME TypeOK, NEW m \in Item, Enqueue(m)
  PROVE  /\ \A i \in DOMAIN queue : i \in DOMAIN queue' /\ queue'[i] = queue[i]
         /\ ~lost' => ~lost /\ \E i \in DOMAIN queue' : queue'[i] = m
<1>1. queue \in Seq(Item) /\ Len(queue) \in Nat /\ QueueLength \in Nat
  BY MqttAssumption DEF TypeOK
<1>2. CASE Len(queue) < QueueLength
  <2>1. queue' = Append(queue, m)
    BY <1>2 DEF Enqueue, Put
  <2>2. /\ \A i \in DOMAIN queue : i \in DOMAIN queue' /\ queue'[i] = queue[i]
        /\ Len(queue) + 1 \in DOMAIN queue' /\ queue'[Len(queue) + 1] = m
    BY <1>1, <2>1
  <2>3. ~lost' => ~lost
    BY Zenon DEF Enqueue
  <2> QED
    BY <2>2, <2>3
<1>3. CASE ~(Len(queue) < QueueLength)
  <2>1. queue' = queue
    BY <1>3 DEF Enqueue, Put
  <2>2. Len(queue) >= QueueLength
    BY <1>1, <1>3
  <2>3. lost'
    BY <2>2, Zenon DEF Enqueue
  <2> QED
    BY <2>1, <2>3
<1> QED
  BY <1>2, <1>3

\* A retry that is not the message taken stays in the queue.
LEMMA RetryStays ==
  ASSUME TypeOK, NEW id, Take(id), id # "RETRY", queue' = Rest \/ Leave
  PROVE  RetryQueued => RetryQueued'
<1>1. /\ queue \in Seq(Item) /\ queue # << >> /\ queue[1].id = id
      /\ Rest \in Seq(Item)
      /\ \A i \in DOMAIN queue : i # 1 => i - 1 \in DOMAIN Rest /\ Rest[i - 1] = queue[i]
  BY DEF TypeOK, Take, Rest
<1>2. ASSUME NEW m PROVE \A i \in DOMAIN Rest : i \in DOMAIN Put(Rest, m)
                                                 /\ Put(Rest, m)[i] = Rest[i]
  BY <1>1 DEF Put
<1>3. \A i \in DOMAIN Rest : i \in DOMAIN queue' /\ queue'[i] = Rest[i]
  BY <1>2 DEF Leave
<1> QED
  BY <1>1, <1>3 DEF RetryQueued

LEMMA ProducersUnderway ==
  ASSUME TypeOK, RetryUnderway,
         \/ \E m \in Request : Command(m)
         \/ Expire \/ PostRetry
         \/ ClientConnects \/ ClientFails \/ ClientLoses \/ ClientReceives
  PROVE  RetryUnderway'
<1>1. ASSUME NEW m \in Item, Enqueue(m), UNCHANGED <<state, timer, firing, paused>>
      PROVE  RetryUnderway'
  <2>1. /\ RetryQueued => RetryQueued'
        /\ ~lost' => ~lost
    BY <1>1, EnqueueKeeps DEF RetryQueued
  <2> QED
    BY <1>1, <2>1 DEF RetryUnderway
<1>2. ASSUME NEW m \in Request, Command(m) PROVE RetryUnderway'
  BY <1>1, <1>2 DEF Command, Item, service, history
<1>3. CASE Expire
  BY <1>3 DEF Expire, RetryUnderway
<1>4. CASE PostRetry
  <2>1. ~lost' => RetryQueued'
    BY <1>4, EnqueueKeeps, Messages DEF PostRetry, RetryQueued, Message
  <2> QED
    BY <2>1 DEF RetryUnderway
<1>5. CASE ClientConnects \/ ClientFails \/ ClientLoses \/ ClientReceives
  <2>1. PICK id \in {"CONNECTED", "DISCONNECTED", "OTHER"} : Report(id)
    BY <1>5 DEF ClientConnects, ClientFails, ClientLoses, ClientReceives
  <2> QED
    BY <1>1, <2>1, Messages DEF Report, service, history
<1> QED
  BY <1>2, <1>3, <1>4, <1>5

LEMMA TaskUnderway ==
  ASSUME TypeOK, RetryUnderway, Task
  PROVE  RetryUnderway'
<1>1. ASSUME NEW id, Take(id), id # "RETRY", queue' = Rest \/ Leave,
             state' = "RECONNECT_WAIT" => state = "RECONNECT_WAIT" /\ timer' = timer,
             UNCHANGED <<firing, paused>>
      PROVE  RetryUnderway'
  <2>1. RetryQueued => RetryQueued'
    BY <1>1, RetryStays
  <2> QED
    BY <1>1, <2>1 DEF RetryUnderway, Take
<1>2. CASE WifiUp
  BY <1>1, <1>2 DEF WifiUp, Begin, client, history
<1>3. CASE Connect
  BY <1>1, <1>3 DEF Connect, Begin, client, history
<1>4. CASE Disconnect
  BY <1>4 DEF Disconnect, RetryUnderway
<1>5. CASE WifiDown \/ SetConfig
  BY <1>1, <1>5 DEF WifiDown, SetConfig, history
<1>6. CASE Subscribe \/ Unsubscribe \/ Ignore \/ Connected
  BY <1>1, <1>6 DEF Subscribe, Unsubscribe, Ignore, Connected, service, history
<1>7. CASE LinkLost \/ Retry
  BY <1>7 DEF LinkLost, Retry, Disconnected, Wait, RetryUnderway
<1>8. CASE RetryDropped
  BY <1>8 DEF RetryDropped, RetryUnderway, service
<1> QED
  BY <1>2, <1>3, <1>4, <1>5, <1>6, <1>7, <1>8 DEF Task

\* Unless a message has been lost, a service that waits for its next attempt has a timer, a
\* callback or a message that will bring it about, or it has dropped that message because
\* WiFi is away (process_client_event, reconnect_timer_callback, process_retry).
THEOREM RetryIsUnderway == Spec => []RetryUnderway
<1>1. Init => RetryUnderway
  BY DEF Init, RetryUnderway
<1>2. IInv /\ RetryUnderway /\ [Next]_vars => RetryUnderway'
  <2> SUFFICES ASSUME IInv, RetryUnderway, [Next]_vars PROVE RetryUnderway'
    OBVIOUS
  <2>1. CASE Next
    BY <2>1, ProducersUnderway, TaskUnderway DEF Next, IInv
  <2>2. CASE UNCHANGED vars
    BY <2>2 DEF RetryUnderway, RetryQueued, vars, service, history
  <2> QED
    BY <2>1, <2>2
<1> QED
  BY <1>1, <1>2, Invariance, PTL DEF Spec
=============================================================================
