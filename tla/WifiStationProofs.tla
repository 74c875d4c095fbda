-------------------------- MODULE WifiStationProofs --------------------------
(***************************************************************************)
(* The WiFi service and its station agree once every message has been      *)
(* handled, unless one was lost: on the connection, and on what the MQTT   *)
(* service has been told of it.  What lies between them is the row of      *)
(* messages in the queue and in the event loop: it accounts for every      *)
(* difference there is, and it holds the events in the order they came in. *)
(***************************************************************************)
EXTENDS WifiServiceProofs

\* An event is on its way to the service.
Coming(e) == \/ \E i \in DOMAIN queue : queue[i].id = e
             \/ \E i \in DOMAIN pending : pending[i] = e

\* No event a comes behind an event b.
Before(a, b) ==
  /\ \A i, j \in DOMAIN queue : queue[i].id = b /\ queue[j].id = a => j < i
  /\ \A i, j \in DOMAIN pending : pending[i] = b /\ pending[j] = a => j < i
  /\ \A i \in DOMAIN queue, j \in DOMAIN pending : ~(queue[i].id = b /\ pending[j] = a)

\* A connection is announced before its address is, and both before its end.
Ordered == /\ Before("CONNECTED", "GOT_IP")
           /\ Before("CONNECTED", "DISCONNECTED") /\ Before("GOT_IP", "DISCONNECTED")

\* An attempt is announced only when it has succeeded, and to a service that makes one.
NoFalseAnnouncement ==
  /\ ~Engaged \/ link = "connecting" => ~Coming("CONNECTED") /\ ~Coming("GOT_IP")
  /\ link = "connecting" => state = "CONNECTING"
  /\ leased => link = "up"

\* Every difference between the two is on its way to the service.
Accounted ==
  ~lost => /\ Engaged /\ link = "down" => Coming("DISCONNECTED")
           /\ state = "CONNECTING" /\ link = "up" => Coming("CONNECTED")
           /\ leased => told \/ Coming("GOT_IP")
           /\ told \/ Coming("GOT_IP") => leased \/ Coming("DISCONNECTED")

SInv == Ordered /\ NoFalseAnnouncement /\ Accounted

\* In the terms of the service's own proofs.
LEMMA ReportedComes == /\ Reported <=> Coming("DISCONNECTED")
                       /\ Reported' <=> Coming("DISCONNECTED")'
  BY DEF Reported, Coming

\* The connection's end is on its way only while there is none.
LEMMA ReportMeansDown ==
  ASSUME IInv
  PROVE  /\ Coming("DISCONNECTED") => link = "down" /\ Engaged
         /\ ~Engaged => link = "down"
         /\ TypeOK /\ (told => state = "CONNECTED")
  BY ReportedComes DEF IInv, OneReport, ToldOnlyConnected

-----------------------------------------------------------------------------
(* The row of messages.                                                    *)

LEMMA OfferKeeps ==
  ASSUME TypeOK, NEW m \in Item, Offer(m)
  PROVE  /\ \A i \in DOMAIN queue : i \in DOMAIN queue' /\ queue'[i] = queue[i]
         /\ ~lost' => ~lost /\ Len(queue) + 1 \in DOMAIN queue' /\ queue'[Len(queue) + 1] = m
<1>1. CASE Len(queue) < QueueLength
  <2>1. queue' = Append(queue, m) /\ queue \in Seq(Item)
    BY <1>1 DEF TypeOK, Offer
  <2>2. /\ DOMAIN queue = 1..Len(queue) /\ Len(queue) \in Nat
        /\ DOMAIN queue' = 1..(Len(queue) + 1)
        /\ queue'[Len(queue) + 1] = m
        /\ \A i \in 1..Len(queue) : queue'[i] = queue[i]
    BY <2>1
  <2>3. ~lost' => ~lost
    BY DEF Offer, TypeOK
  <2> QED
    BY <2>2, <2>3
<1>2. CASE ~(Len(queue) < QueueLength)
  <2>1. queue' = queue
    BY <1>2 DEF Offer
  <2>2. lost'
    <3>1. Len(queue) >= QueueLength
      BY <1>2, WifiAssumption DEF TypeOK
    <3>2. lost' = (lost \/ Len(queue) >= QueueLength)
      BY DEF Offer
    <3> QED
      BY <3>1, <3>2, Zenon
  <2> QED
    BY <2>1, <2>2
<1> QED
  BY <1>1, <1>2

LEMMA TakeKeeps ==
  ASSUME TypeOK, NEW id, Take(id)
  PROVE  \A i \in DOMAIN queue : i # 1 => i - 1 \in DOMAIN queue' /\ queue'[i - 1] = queue[i]
  BY DEF TypeOK, Take

\* A message that is no event changes nothing about the events.
LEMMA OfferRow ==
  ASSUME TypeOK, NEW m \in Item, Offer(m), UNCHANGED pending, NEW a, NEW b, m.id \notin {a, b}
  PROVE  /\ Before(a, b) => Before(a, b)'
         /\ Coming(a)' <=> Coming(a)
         /\ ~lost' => ~lost
<1>1. \A i \in DOMAIN queue' : \/ i \in DOMAIN queue /\ queue'[i] = queue[i]
                               \/ queue'[i] = m
  BY Offered
<1>2. /\ \A i \in DOMAIN queue : i \in DOMAIN queue' /\ queue'[i] = queue[i]
      /\ ~lost' => ~lost
  BY OfferKeeps
<1>3. Before(a, b) => Before(a, b)'
  BY <1>1 DEF Before
<1>4. Coming(a)' <=> Coming(a)
  BY <1>1, <1>2 DEF Coming
<1> QED
  BY <1>2, <1>3, <1>4

\* What taking a message leaves.
LEMMA TakeRow ==
  ASSUME TypeOK, NEW id, Take(id), UNCHANGED pending, NEW a
  PROVE  /\ Coming(a)' => Coming(a)
         /\ id = a => Coming(a)
         /\ id # a => (Coming(a) => Coming(a)')
<1>1. /\ 1 \in DOMAIN queue /\ queue[1].id = id
      /\ \A i \in DOMAIN queue' : i + 1 \in DOMAIN queue /\ queue'[i] = queue[i + 1]
  BY Taken
<1>2. \A i \in DOMAIN queue : i # 1 => i - 1 \in DOMAIN queue' /\ queue'[i - 1] = queue[i]
  BY TakeKeeps
<1> QED
  BY <1>1, <1>2 DEF Coming

LEMMA TakeOrder ==
  ASSUME TypeOK, NEW id, Take(id), UNCHANGED pending, NEW a, NEW b, Before(a, b)
  PROVE  /\ Before(a, b)'
         /\ id = b => ~Coming(a)'
<1>1. /\ 1 \in DOMAIN queue /\ queue[1].id = id
      /\ \A i \in DOMAIN queue' : /\ i \in Nat /\ i >= 1
                                  /\ i + 1 \in DOMAIN queue /\ queue'[i] = queue[i + 1]
  BY Taken
<1>2. Before(a, b)'
  <2>1. ASSUME NEW i \in DOMAIN queue', NEW j \in DOMAIN queue',
               queue'[i].id = b, queue'[j].id = a
        PROVE  j < i
    <3>1. j + 1 < i + 1
      BY <1>1, <2>1 DEF Before
    <3> QED
      BY <1>1, <3>1
  <2>2. \A i \in DOMAIN queue', j \in DOMAIN pending' : ~(queue'[i].id = b /\ pending'[j] = a)
    BY <1>1 DEF Before
  <2> QED
    BY <2>1, <2>2 DEF Before
<1>3. ASSUME id = b, Coming(a)' PROVE FALSE
  <2>1. CASE \E i \in DOMAIN queue' : queue'[i].id = a
    <3>1. PICK i \in DOMAIN queue' : queue'[i].id = a
      BY <2>1
    <3>2. i + 1 < 1 /\ i \in Nat
      BY <1>1, <1>3, <3>1 DEF Before
    <3> QED
      BY <3>2
  <2>2. CASE \E i \in DOMAIN pending' : pending'[i] = a
    BY <1>1, <1>3, <2>2 DEF Before
  <2> QED
    BY <1>3, <2>1, <2>2 DEF Coming
<1> QED
  BY <1>2, <1>3

\* The event loop hands an event over.
LEMMA DeliverRow ==
  ASSUME TypeOK, Deliver, NEW a
  PROVE  /\ Coming(a)' => Coming(a)
         /\ ~lost' => ~lost /\ (Coming(a) => Coming(a)')
         /\ \A b : Before(a, b) => Before(a, b)'
<1> DEFINE m == Message(Head(pending))
<1>1. /\ pending \in Seq(DriverEvent) /\ pending # << >>
      /\ pending' = Tail(pending)
      /\ Offer(m)
  BY DEF Deliver, TypeOK
<1>2. /\ Head(pending) \in DriverEvent
      /\ 1 \in DOMAIN pending /\ Head(pending) = pending[1]
      /\ \A i \in DOMAIN pending' : /\ i \in Nat /\ i >= 1
                                    /\ i + 1 \in DOMAIN pending
                                    /\ pending'[i] = pending[i + 1]
      /\ \A i \in DOMAIN pending : /\ i \in Nat
                                   /\ i # 1 => /\ i - 1 \in DOMAIN pending'
                                               /\ pending'[i - 1] = pending[i]
  BY <1>1
<1>3. m \in Item /\ m.id = pending[1]
  BY <1>2 DEF Item, Message
<1> HIDE DEF m
<1>4. \A i \in DOMAIN queue' : \/ i \in DOMAIN queue /\ queue'[i] = queue[i]
                               \/ i = Len(queue) + 1 /\ queue'[i].id = pending[1]
  BY <1>1, <1>3, Offered
<1>5. /\ \A i \in DOMAIN queue : i \in DOMAIN queue' /\ queue'[i] = queue[i]
      /\ ~lost' => ~lost /\ Len(queue) + 1 \in DOMAIN queue'
                         /\ queue'[Len(queue) + 1].id = pending[1]
  BY <1>1, <1>3, OfferKeeps
<1>6. Len(queue) \in Nat /\ \A i \in DOMAIN queue : i \in Nat /\ i < Len(queue) + 1
  BY DEF TypeOK
<1>7. Coming(a)' => Coming(a)
  BY <1>2, <1>4 DEF Coming
<1>8. ASSUME ~lost' PROVE ~lost /\ (Coming(a) => Coming(a)')
  BY <1>2, <1>5, <1>8 DEF Coming
<1>9. ASSUME NEW b, Before(a, b) PROVE Before(a, b)'
  <2>1. ASSUME NEW i \in DOMAIN queue', NEW j \in DOMAIN queue',
               queue'[i].id = b, queue'[j].id = a
        PROVE  j < i
    <3>1. CASE i \in DOMAIN queue /\ queue[i].id = b
      BY <1>2, <1>4, <1>9, <2>1, <3>1 DEF Before
    <3>2. CASE i = Len(queue) + 1 /\ pending[1] = b
      <4>1. CASE j \in DOMAIN queue
        BY <1>6, <3>2, <4>1
      <4>2. CASE j = Len(queue) + 1 /\ pending[1] = a
        BY <1>2, <1>9, <3>2, <4>2 DEF Before
      <4> QED
        BY <1>4, <2>1, <4>1, <4>2
    <3> QED
      BY <1>4, <2>1, <3>1, <3>2
  <2>2. ASSUME NEW i \in DOMAIN pending', NEW j \in DOMAIN pending',
               pending'[i] = b, pending'[j] = a
        PROVE  j < i
    <3>1. j + 1 < i + 1
      BY <1>2, <1>9, <2>2 DEF Before
    <3> QED
      BY <1>2, <3>1
  <2>3. ASSUME NEW i \in DOMAIN queue', NEW j \in DOMAIN pending',
               queue'[i].id = b, pending'[j] = a
        PROVE  FALSE
    <3>1. j + 1 \in DOMAIN pending /\ pending[j + 1] = a /\ j \in Nat /\ j >= 1
      BY <1>2, <2>3
    <3>2. CASE i \in DOMAIN queue /\ queue[i].id = b
      BY <1>9, <3>1, <3>2 DEF Before
    <3>3. CASE pending[1] = b
      <4>1. j + 1 < 1
        BY <1>2, <1>9, <3>1, <3>3 DEF Before
      <4> QED
        BY <3>1, <4>1
    <3> QED
      BY <1>4, <2>3, <3>2, <3>3
  <2> QED
    BY <2>1, <2>2, <2>3 DEF Before
<1> QED
  BY <1>7, <1>8, <1>9

\* The station raises an event, and the row of messages may lose another.
LEMMA RaiseRow ==
  ASSUME TypeOK, NEW e \in DriverEvent, pending' = Append(pending, e),
         UNCHANGED queue \/ Take("DISCONNECT"),
         NEW a, a \in DriverEvent
  PROVE  /\ Coming(a)' <=> Coming(a) \/ a = e
         /\ \A b \in DriverEvent : Before(a, b) /\ (e = a => ~Coming(b)) /\ a # b => Before(a, b)'
<1>1. /\ \A i \in DOMAIN pending' : \/ i \in DOMAIN pending /\ pending'[i] = pending[i]
                                    \/ i = Len(pending) + 1 /\ pending'[i] = e
      /\ \A i \in DOMAIN pending : i \in DOMAIN pending' /\ pending'[i] = pending[i]
      /\ Len(pending) + 1 \in DOMAIN pending' /\ pending'[Len(pending) + 1] = e
      /\ \A i \in DOMAIN pending : i \in Nat /\ i < Len(pending) + 1
  BY DEF TypeOK
<1>2. \/ UNCHANGED queue
      \/ /\ \A i \in DOMAIN queue' : /\ i \in Nat /\ i + 1 \in DOMAIN queue
                                     /\ queue'[i] = queue[i + 1]
         /\ \A i \in DOMAIN queue : /\ i \in Nat
                                    /\ \/ i = 1 /\ queue[i].id = "DISCONNECT"
                                       \/ i - 1 \in DOMAIN queue' /\ queue'[i - 1] = queue[i]
  <2>1. CASE Take("DISCONNECT")
    BY <2>1, Taken, TakeKeeps DEF TypeOK
  <2> QED
    BY <2>1
<1>3. Coming(a)' <=> Coming(a) \/ a = e
  <2>1. (\E i \in DOMAIN queue' : queue'[i].id = a) <=> \E i \in DOMAIN queue : queue[i].id = a
    BY <1>2 DEF DriverEvent
  <2>2. (\E i \in DOMAIN pending' : pending'[i] = a)
          <=> a = e \/ \E i \in DOMAIN pending : pending[i] = a
    BY <1>1
  <2> QED
    BY <2>1, <2>2 DEF Coming
<1>4. ASSUME NEW b \in DriverEvent, Before(a, b), e = a => ~Coming(b), a # b
      PROVE  Before(a, b)'
  <2>1. ASSUME NEW i \in DOMAIN queue', NEW j \in DOMAIN queue',
               queue'[i].id = b, queue'[j].id = a
        PROVE  j < i
    <3>1. CASE UNCHANGED queue
      BY <1>4, <2>1, <3>1 DEF Before
    <3>2. CASE ~UNCHANGED queue
      <4>1. j + 1 < i + 1 /\ i \in Nat /\ j \in Nat
        BY <1>2, <1>4, <2>1, <3>2 DEF Before
      <4> QED
        BY <4>1
    <3> QED
      BY <3>1, <3>2
  <2>2. ASSUME NEW i \in DOMAIN pending', NEW j \in DOMAIN pending',
               pending'[i] = b, pending'[j] = a
        PROVE  j < i
    BY <1>1, <1>4, <2>2 DEF Before, Coming
  <2>3. \A i \in DOMAIN queue', j \in DOMAIN pending' : ~(queue'[i].id = b /\ pending'[j] = a)
    BY <1>1, <1>2, <1>4 DEF Before, Coming
  <2> QED
    BY <2>1, <2>2, <2>3 DEF Before
<1> QED
  BY <1>3, <1>4

-----------------------------------------------------------------------------
(* The steps.                                                              *)

\* A step that leaves the row of events as it is, but may lose one.
LEMMA SameRow ==
  ASSUME SInv, UNCHANGED <<state, link, leased, told>>, ~lost' => ~lost,
         \A a \in DriverEvent : /\ Coming(a)' => Coming(a)
                                /\ ~lost' => (Coming(a) => Coming(a)'),
         \A a, b \in DriverEvent : a # b /\ Before(a, b) => Before(a, b)'
  PROVE  SInv'
  BY DEF SInv, Ordered, NoFalseAnnouncement, Accounted, Engaged, DriverEvent

LEMMA OfferOther ==
  ASSUME TypeOK, SInv, NEW m \in Item, m.id \notin DriverEvent, Offer(m),
         UNCHANGED <<service, driver>>
  PROVE  SInv'
<1>1. UNCHANGED <<state, told, link, leased, pending>>
  BY DEF service, driver
<1>2. \A a, b \in DriverEvent : m.id \notin {a, b}
  OBVIOUS
<1>3. \A a, b \in DriverEvent : /\ Before(a, b) => Before(a, b)'
                                /\ Coming(a)' <=> Coming(a)
                                /\ ~lost' => ~lost
  BY <1>1, <1>2, OfferRow
<1>4. "CONNECTED" \in DriverEvent
  BY DEF DriverEvent
<1> QED
  BY <1>1, <1>3, <1>4, SameRow

\* A message of another kind is taken, and nothing of what is accounted for changes.
LEMMA TakeOther ==
  ASSUME TypeOK, SInv, NEW id, id \notin DriverEvent, Take(id),
         UNCHANGED <<state, told, link, leased, pending, lost>>
  PROVE  SInv'
<1>1. \A a \in DriverEvent : Coming(a)' <=> Coming(a)
  BY TakeRow
<1>2. \A a, b \in DriverEvent : Before(a, b) => Before(a, b)'
  BY TakeOrder
<1> QED
  BY <1>1, <1>2, SameRow

LEMMA DeliverStation == IInv /\ SInv /\ Deliver => SInv'
<1> SUFFICES ASSUME IInv, SInv, Deliver PROVE SInv'
  OBVIOUS
<1>1. TypeOK /\ UNCHANGED <<state, told, link, leased>>
  BY DEF IInv, Deliver, service
<1>2. \A a \in DriverEvent : /\ Coming(a)' => Coming(a)
                             /\ ~lost' => ~lost /\ (Coming(a) => Coming(a)')
                             /\ \A b : Before(a, b) => Before(a, b)'
  BY <1>1, DeliverRow
<1>3. "CONNECTED" \in DriverEvent
  BY DEF DriverEvent
<1> QED
  BY <1>1, <1>2, <1>3, SameRow

LEMMA Events == /\ "CONNECTED" \in DriverEvent /\ "GOT_IP" \in DriverEvent
                /\ "DISCONNECTED" \in DriverEvent
  BY DEF DriverEvent

LEMMA AssociateStation == IInv /\ SInv /\ Associate => SInv'
<1> SUFFICES ASSUME IInv, SInv, Associate PROVE SInv'
  OBVIOUS
<1>1. /\ link = "connecting" /\ link' = "up" /\ pending' = Append(pending, "CONNECTED")
      /\ UNCHANGED <<queue, state, told, leased, lost>> /\ TypeOK
  BY DEF Associate, Raise, service, history, IInv
<1>2. /\ ~Coming("CONNECTED") /\ ~Coming("GOT_IP") /\ ~Coming("DISCONNECTED")
      /\ state = "CONNECTING" /\ ~leased /\ ~told
  BY <1>1, ReportMeansDown DEF SInv, NoFalseAnnouncement
<1>3. /\ Coming("CONNECTED")' /\ ~Coming("GOT_IP")' /\ ~Coming("DISCONNECTED")'
      /\ Ordered'
  BY <1>1, <1>2, Events, RaiseRow DEF SInv, Ordered
<1> QED
  BY <1>1, <1>2, <1>3 DEF SInv, NoFalseAnnouncement, Accounted, Engaged

LEMMA LeaseStation == IInv /\ SInv /\ Lease => SInv'
<1> SUFFICES ASSUME IInv, SInv, Lease PROVE SInv'
  OBVIOUS
<1>1. /\ link = "up" /\ link' = link /\ leased' = TRUE /\ pending' = Append(pending, "GOT_IP")
      /\ UNCHANGED <<queue, state, told, lost>> /\ TypeOK
  BY DEF Lease, Raise, service, history, IInv
<1>2. ~Coming("DISCONNECTED") /\ Engaged
  BY <1>1, ReportMeansDown
<1>3. /\ Coming("GOT_IP")' /\ ~Coming("DISCONNECTED")'
      /\ Coming("CONNECTED")' <=> Coming("CONNECTED")
      /\ Ordered'
  BY <1>1, <1>2, Events, RaiseRow DEF SInv, Ordered
<1> QED
  BY <1>1, <1>2, <1>3 DEF SInv, NoFalseAnnouncement, Accounted, Engaged

\* The link goes down, and the report of it is on its way.
LEMMA DownStation ==
  ASSUME IInv, SInv, link # "down", link' = "down", leased' = FALSE,
         pending' = Append(pending, "DISCONNECTED"),
         UNCHANGED <<state, told, lost>>,
         UNCHANGED queue \/ Take("DISCONNECT")
  PROVE  SInv'
<1>1. TypeOK /\ Engaged
  BY ReportMeansDown
<1>2. /\ Coming("DISCONNECTED")'
      /\ Coming("CONNECTED")' <=> Coming("CONNECTED")
      /\ Coming("GOT_IP")' <=> Coming("GOT_IP")
      /\ Ordered'
  BY <1>1, Events, RaiseRow DEF SInv, Ordered
<1> QED
  BY <1>1, <1>2 DEF SInv, NoFalseAnnouncement, Accounted, Engaged

LEMMA LoseStation == IInv /\ SInv /\ Lose => SInv'
  BY DownStation DEF Lose, Raise, service, history

\* An attempt is begun by a service that has nothing on its way to it.
LEMMA BegunStation ==
  ASSUME IInv, SInv, NEW id, id \notin DriverEvent, Take(id), ~Engaged, told' = FALSE,
         \/ state' = "CONNECTING" /\ DriverConnects
         \/ state' \notin {"CONNECTING", "CONNECTED"} /\ UNCHANGED driver,
         UNCHANGED lost
  PROVE  SInv'
<1>1. /\ TypeOK /\ link = "down" /\ ~leased /\ UNCHANGED <<leased, pending>>
      /\ ~Coming("CONNECTED") /\ ~Coming("GOT_IP") /\ ~Coming("DISCONNECTED")
  BY ReportMeansDown DEF SInv, NoFalseAnnouncement, DriverConnects, driver
<1>2. /\ Ordered' /\ ~Coming("CONNECTED")' /\ ~Coming("GOT_IP")'
  BY <1>1, TakeRow, TakeOrder DEF SInv, Ordered
<1>3. \/ state' = "CONNECTING" /\ link' = "connecting"
      \/ ~Engaged' /\ link' = "down"
  BY <1>1 DEF DriverConnects, Engaged, driver
<1> QED
  BY <1>1, <1>2, <1>3 DEF SInv, NoFalseAnnouncement, Accounted, Engaged

LEMMA DisconnectStation == IInv /\ SInv /\ Disconnect => SInv'
<1> SUFFICES ASSUME IInv, SInv, Disconnect PROVE SInv'
  OBVIOUS
<1>1. /\ TypeOK /\ Take("DISCONNECT") /\ "DISCONNECT" \notin DriverEvent
      /\ UNCHANGED <<told, lost>>
  BY DEF IInv, Disconnect, DriverEvent
<1>2. CASE Engaged /\ link # "down"
  <2>1. /\ link' = "down" /\ leased' = FALSE /\ pending' = Append(pending, "DISCONNECTED")
        /\ state' = state
    BY <1>2 DEF Disconnect, DriverDisconnects, AfterDisconnect, Engaged
  <2> QED
    BY <1>1, <1>2, <2>1, DownStation
<1>3. CASE ~(Engaged /\ link # "down")
  <2>1. UNCHANGED driver
    BY <1>3 DEF Disconnect, DriverDisconnects, Engaged
  <2>2. CASE Engaged
    <3>1. UNCHANGED state
      BY <2>2 DEF Disconnect, AfterDisconnect, Engaged
    <3> QED
      BY <1>1, <2>1, <3>1, TakeOther DEF driver
  <2>3. CASE ~Engaged
    <3>1. state' \notin {"CONNECTING", "CONNECTED"} /\ told' = FALSE
      BY <1>1, <2>3, ReportMeansDown DEF Disconnect, AfterDisconnect, Engaged, TypeOK
    <3> QED
      BY <1>1, <2>1, <2>3, <3>1, BegunStation
  <2> QED
    BY <2>2, <2>3
<1> QED
  BY <1>2, <1>3

LEMMA ConnectedStation == IInv /\ SInv /\ Connected => SInv'
<1> SUFFICES ASSUME IInv, SInv, Connected PROVE SInv'
  OBVIOUS
<1>1. /\ TypeOK /\ Take("CONNECTED")
      /\ UNCHANGED <<told, link, leased, pending, lost>>
      /\ \/ state = "CONNECTING" /\ state' = "CONNECTED"
         \/ state # "CONNECTING" /\ state' = state
  BY DEF IInv, Connected, driver
<1>2. /\ Ordered' /\ Coming("CONNECTED")
      /\ Coming("GOT_IP")' <=> Coming("GOT_IP")
      /\ Coming("DISCONNECTED")' <=> Coming("DISCONNECTED")
  BY <1>1, TakeRow, TakeOrder DEF SInv, Ordered
<1>3. Engaged /\ link # "connecting"
  BY <1>2 DEF SInv, NoFalseAnnouncement
<1> QED
  BY <1>1, <1>2, <1>3 DEF SInv, NoFalseAnnouncement, Accounted, Engaged

\* An address comes to a connected service, unless the announcement of the connection
\* was lost.
LEMMA GotIpStation == IInv /\ SInv /\ GotIp => SInv'
<1> SUFFICES ASSUME IInv, SInv, GotIp PROVE SInv'
  OBVIOUS
<1>1. /\ TypeOK /\ Take("GOT_IP") /\ told' = (told \/ state = "CONNECTED")
      /\ UNCHANGED <<state, link, leased, pending, lost>>
  BY DEF IInv, GotIp, driver, history
<1>2. /\ Ordered' /\ Coming("GOT_IP") /\ ~Coming("CONNECTED")'
      /\ Coming("CONNECTED")' <=> Coming("CONNECTED")
      /\ Coming("GOT_IP")' => Coming("GOT_IP")
      /\ Coming("DISCONNECTED")' <=> Coming("DISCONNECTED")
  BY <1>1, TakeRow, TakeOrder DEF SInv, Ordered
<1>3. Engaged /\ link # "connecting"
  BY <1>2 DEF SInv, NoFalseAnnouncement
<1>4. ASSUME ~lost PROVE leased => told'
  <2>1. leased => state = "CONNECTED"
    BY <1>2, <1>3, <1>4 DEF SInv, NoFalseAnnouncement, Accounted, Engaged
  <2> QED
    BY <1>1, <2>1
<1> QED
  BY <1>1, <1>2, <1>3, <1>4 DEF SInv, NoFalseAnnouncement, Accounted, Engaged

\* Processing a disconnection ends what the service was engaged in.
LEMMA DisconnectedEnds ==
  ASSUME NEW from, NEW attempts, Disconnected(from, attempts)
  PROVE  /\ state' \notin {"CONNECTING", "CONNECTED"} /\ told' = FALSE
         /\ UNCHANGED <<driver, lost>>
  BY DEF Disconnected

LEMMA LinkLostStation == IInv /\ SInv /\ LinkLost => SInv'
<1> SUFFICES ASSUME IInv, SInv, LinkLost PROVE SInv'
  OBVIOUS
<1>1. TypeOK /\ Take("DISCONNECTED")
  BY DEF IInv, LinkLost
<1>2. /\ state' \notin {"CONNECTING", "CONNECTED"} /\ told' = FALSE
      /\ UNCHANGED <<link, leased, pending, lost>>
  BY DisconnectedEnds DEF LinkLost, driver
<1>3. Ordered' /\ ~Coming("CONNECTED")' /\ ~Coming("GOT_IP")' /\ Coming("DISCONNECTED")
  BY <1>1, <1>2, TakeRow, TakeOrder DEF SInv, Ordered
<1>4. link = "down" /\ ~leased
  BY <1>3, ReportMeansDown DEF SInv, NoFalseAnnouncement
<1> QED
  BY <1>2, <1>3, <1>4 DEF SInv, NoFalseAnnouncement, Accounted, Engaged

LEMMA RetryStation == IInv /\ SInv /\ Retry => SInv'
<1> SUFFICES ASSUME IInv, SInv, Retry PROVE SInv'
  OBVIOUS
<1>1. Take("RETRY") /\ ~Engaged /\ "RETRY" \notin DriverEvent
  BY DEF Retry, Engaged, DriverEvent
<1>2. CASE state' = "CONNECTING" /\ DriverConnects /\ UNCHANGED <<told, lost>>
  <2>1. told' = FALSE
    BY <1>1, <1>2, ReportMeansDown DEF Engaged, TypeOK
  <2> QED
    BY <1>1, <1>2, <2>1, BegunStation
<1>3. CASE Disconnected("CONNECTING", Increment(tries))
  BY <1>1, <1>3, DisconnectedEnds, BegunStation
<1> QED
  BY <1>2, <1>3 DEF Retry

-----------------------------------------------------------------------------
(* The theorem.                                                            *)

LEMMA StationInductive == IInv /\ SInv /\ [Next]_vars => SInv'
<1> SUFFICES ASSUME IInv, SInv, [Next]_vars PROVE SInv'
  OBVIOUS
<1>1. TypeOK
  BY DEF IInv
<1>2. CASE \E m \in Request : Command(m)
  <2>1. PICK m \in Request : Command(m)
    BY <1>2
  <2>2. m \in Item /\ m.id \notin DriverEvent
    BY DEF Item, Request, Message, DriverEvent
  <2> QED
    BY <1>1, <2>1, <2>2, OfferOther DEF Command
<1>3. CASE PostRetry
  <2>1. Message("RETRY") \in Item /\ Message("RETRY").id \notin DriverEvent
    BY DEF Item, Message, DriverEvent
  <2> QED
    BY <1>1, <1>3, <2>1, OfferOther DEF PostRetry
<1>4. CASE Deliver \/ Associate \/ Lease \/ Lose
  BY <1>4, DeliverStation, AssociateStation, LeaseStation, LoseStation
<1>5. CASE Expire \/ UNCHANGED vars
  <2>1. UNCHANGED <<queue, state, told, link, leased, pending, lost>>
    BY <1>5 DEF Expire, vars, service, driver, history
  <2> QED
    BY <2>1 DEF SInv, Ordered, NoFalseAnnouncement, Accounted, Coming, Before, Engaged
<1>6. CASE ConnectIgnored \/ SetConfig \/ Query \/ RetryIgnored
  BY <1>1, <1>6, TakeOther
     DEF ConnectIgnored, SetConfig, Query, RetryIgnored, service, driver, history, DriverEvent
<1>7. CASE Connect
  <2>1. ~Engaged /\ told' = FALSE /\ "CONNECT" \notin DriverEvent
    BY <1>7, ReportMeansDown DEF Connect, Engaged, DriverEvent, TypeOK
  <2> QED
    BY <1>7, <2>1, BegunStation DEF Connect
<1>8. CASE Disconnect \/ Connected \/ GotIp \/ LinkLost \/ Retry
  BY <1>8, DisconnectStation, ConnectedStation, GotIpStation, LinkLostStation, RetryStation
<1> QED
  BY <1>2, <1>3, <1>4, <1>5, <1>6, <1>7, <1>8 DEF Next, Task

LEMMA StationInitially == Init => SInv
  BY DEF Init, SInv, Ordered, NoFalseAnnouncement, Accounted, Coming, Before, Engaged

LEMMA Agreement == IInv /\ SInv => AgreesWithStation
<1> SUFFICES ASSUME IInv, SInv, queue = << >>, pending = << >>, ~lost
             PROVE  /\ state = "CONNECTED"  <=> link = "up"
                    /\ state = "CONNECTING" <=> link = "connecting"
                    /\ told <=> leased
  BY DEF AgreesWithStation
<1>1. \A e : ~Coming(e)
  BY DEF Coming
<1>2. link \in {"down", "connecting", "up"} /\ (~Engaged => link = "down")
  BY ReportMeansDown DEF TypeOK
<1> QED
  BY <1>1, <1>2 DEF SInv, NoFalseAnnouncement, Accounted, Engaged

\* When the queue and the event loop are empty, the service's state is that of the station
\* and the MQTT service has been told of the address it has, unless a message has been lost
\* (process_driver_event, driver_event_callback).
THEOREM ServiceAgrees == Spec => []AgreesWithStation
  BY StationInitially, StationInductive, Agreement, Initially, Inductive, PTL DEF Spec
-----------------------------------------------------------------------------
(* What keeps the service moving.  That it does move is a matter of the    *)
(* fairness of its tasks; that there is something to move it is not.       *)

\* A service that waits has a retry under way: the timer, its callback or the message.
RetryUnderway ==
  ~lost /\ state = "RECONNECT_WAIT" => timer \/ firing \/ Coming("RETRY")

\* A service that makes an attempt has its answer under way.
AnswerUnderway ==
  ~lost /\ state = "CONNECTING" =>
    link = "connecting" \/ Coming("CONNECTED") \/ Coming("DISCONNECTED")

LEMMA ProducersUnderway ==
  ASSUME TypeOK, RetryUnderway,
         (\E m \in Request : Command(m)) \/ Deliver \/ Expire \/ PostRetry
  PROVE  RetryUnderway'
<1>1. ASSUME NEW m \in Request, Command(m) PROVE RetryUnderway'
  <2>1. m \in Item /\ m.id \notin {"RETRY", "RETRY"}
    BY DEF Item, Request, Message
  <2> QED
    BY <1>1, <2>1, OfferRow DEF Command, RetryUnderway, service, backoff, driver
<1>2. CASE Deliver
  BY <1>2, DeliverRow DEF Deliver, RetryUnderway, service, backoff
<1>3. CASE Expire
  BY <1>3 DEF Expire, RetryUnderway
<1>4. CASE PostRetry
  <2>1. Message("RETRY") \in Item /\ Offer(Message("RETRY")) /\ Message("RETRY").id = "RETRY"
    BY <1>4 DEF PostRetry, Item, Message
  <2>2. ~lost' => Coming("RETRY")'
    BY <2>1, OfferKeeps DEF Coming
  <2> QED
    BY <2>2 DEF RetryUnderway
<1> QED
  BY <1>1, <1>2, <1>3, <1>4

LEMMA StationUnderway ==
  ASSUME TypeOK, RetryUnderway, Associate \/ Lease \/ Lose
  PROVE  RetryUnderway'
<1>1. /\ UNCHANGED <<queue, service, firing, history>>
      /\ \E e : pending' = Append(pending, e)
  BY DEF Associate, Lease, Lose, Raise
<1>2. \A i \in DOMAIN pending : i \in DOMAIN pending' /\ pending'[i] = pending[i]
  BY <1>1 DEF TypeOK
<1> QED
  BY <1>1, <1>2 DEF RetryUnderway, Coming, service, backoff, history

\* Only a disconnection makes the service wait, and it starts the timer.
LEMMA TaskUnderway ==
  ASSUME TypeOK, RetryUnderway, Task
  PROVE  RetryUnderway'
<1>1. CASE \/ ConnectIgnored \/ SetConfig \/ Query \/ Connected \/ GotIp
  <2>1. /\ \E id \in {"CONNECT", "SET_CONFIG", "QUERY", "CONNECTED", "GOT_IP"} : Take(id)
        /\ state' = "RECONNECT_WAIT" => state = "RECONNECT_WAIT"
        /\ UNCHANGED <<timer, firing, pending, lost>>
    BY <1>1 DEF ConnectIgnored, SetConfig, Query, Connected, GotIp, Take,
                service, backoff, driver, history
  <2>2. Coming("RETRY") => Coming("RETRY")'
    BY <2>1, TakeRow
  <2> QED
    BY <2>1, <2>2 DEF RetryUnderway
<1>2. CASE Connect \/ Disconnect \/ RetryIgnored
  BY <1>2 DEF Connect, Disconnect, AfterDisconnect, RetryIgnored, RetryUnderway, service
<1>3. CASE LinkLost \/ Retry
  BY <1>3 DEF LinkLost, Retry, Disconnected, StartTimer, RetryUnderway
<1> QED
  BY <1>1, <1>2, <1>3 DEF Task

LEMMA UnderwayInductive == IInv /\ RetryUnderway /\ [Next]_vars => RetryUnderway'
<1> SUFFICES ASSUME IInv, RetryUnderway, [Next]_vars PROVE RetryUnderway'
  OBVIOUS
<1>1. CASE Next
  BY <1>1, ProducersUnderway, StationUnderway, TaskUnderway DEF Next, IInv
<1>2. CASE UNCHANGED vars
  BY <1>2 DEF RetryUnderway, Coming, vars, service, backoff, driver, history
<1> QED
  BY <1>1, <1>2

\* Unless a message has been lost, a service that waits for its next attempt has a timer, a
\* callback or a message that will bring it about, whatever retries crossed with commands
\* (process_driver_event, reconnect_timer_callback, process_retry).
THEOREM RetryIsUnderway == Spec => []RetryUnderway
<1>1. Init => RetryUnderway
  BY DEF Init, RetryUnderway
<1> QED
  BY <1>1, UnderwayInductive, Initially, Inductive, PTL DEF Spec

\* Unless a message has been lost, a service that is CONNECTING has a station that tries to
\* connect, or its answer in the queue or in the event loop (process_driver_event).
THEOREM AnswerIsUnderway == Spec => []AnswerUnderway
<1>1. IInv /\ SInv => AnswerUnderway
  BY ReportMeansDown DEF SInv, Accounted, Engaged, AnswerUnderway, TypeOK
<1> QED
  BY <1>1, StationInitially, StationInductive, Initially, Inductive, PTL DEF Spec
=============================================================================
