-------------------------- MODULE WifiServiceProofs --------------------------
(***************************************************************************)
(* Theorems about the WiFi service, for every length of its queue and every *)
(* set of retry limits, with messages lost or not.                         *)
(*                                                                         *)
(* Three of its invariants rest on one fact, OneReport: every attempt and  *)
(* every connection ends in one DISCONNECTED event, so that the service    *)
(* never processes one in a state in which it has nothing to lose.         *)
(***************************************************************************)
EXTENDS WifiService, TLAPS

Engaged == state \in {"CONNECTING", "CONNECTED"}

Reported == \/ \E i \in DOMAIN queue : queue[i].id = "DISCONNECTED"
            \/ \E i \in DOMAIN pending : pending[i] = "DISCONNECTED"

Single ==
  /\ \A i, j \in DOMAIN queue :
       queue[i].id = "DISCONNECTED" /\ queue[j].id = "DISCONNECTED" => i = j
  /\ \A i, j \in DOMAIN pending :
       pending[i] = "DISCONNECTED" /\ pending[j] = "DISCONNECTED" => i = j
  /\ \A i \in DOMAIN queue, j \in DOMAIN pending :
       ~(queue[i].id = "DISCONNECTED" /\ pending[j] = "DISCONNECTED")

\* There is at most one report of a disconnection on its way to the service, and it
\* is about the attempt or the connection the service is engaged in.
OneReport ==
  /\ Single
  /\ link # "down" => ~Reported
  /\ ~Engaged => ~Reported /\ link = "down"

\* A user's disconnect is carried out, or the flag is there to carry it out.
DisconnectPending == wanted = "disconnect" => /\ state # "RECONNECT_WAIT"
                                              /\ Engaged => user

Limits == {c.limit : c \in Configs}

LEMMA LimitsAreSmall == /\ Limits \subseteq Nat
                        /\ \A l \in Limits : l + 1 < CountCap
                        /\ DefaultConfig.limit \in Limits
                        /\ Limits # {}
                        /\ \A c \in Configs : c.limit \in Limits /\ c.low \in Nat /\ c.high \in Nat
  BY WifiAssumption DEF Limits

LEMMA LongerType == ASSUME config \in Configs, delay \in Nat
                    PROVE  Longer(delay) \in Nat
<1>1. (2 * delay) % Word \in Nat
  BY WifiAssumption
<1> QED
  BY <1>1, LimitsAreSmall DEF Longer

\* n failures are within some limit that may have been in force.
Within(n) == \E l \in Limits : n <= l

\* The attempts of one outage are counted by the failures they ended in.
AttemptsCounted ==
  ~unlimited =>
    /\ config.limit # 0
    /\ state \in {"IDLE", "FAILED"} => \E l \in Limits : tries <= 1 + l
    /\ state = "CONNECTING"         => Within(count) /\ tries <= count + 1
    /\ state = "CONNECTED"          => count = 0 /\ tries = 0
    /\ state = "RECONNECT_WAIT"     => Within(count) /\ tries <= count

IInv == TypeOK /\ ToldOnlyConnected /\ OneReport /\ DisconnectPending /\ AttemptsCounted

LEMMA Initially == Init => IInv
<1> SUFFICES ASSUME Init PROVE IInv
  OBVIOUS
<1> USE WifiAssumption, LimitsAreSmall DEF Init
<1>1. TypeOK
  <2>1. queue \in Seq(Item) /\ Len(queue) <= QueueLength /\ pending \in Seq(DriverEvent)
    OBVIOUS
  <2>2. config \in Configs /\ 0 \in 0..CountCap
    OBVIOUS
  <2>3. unlimited \in BOOLEAN
    OBVIOUS
  <2> QED
    BY <2>1, <2>2, <2>3 DEF TypeOK, State
<1>2. OneReport
  BY DEF OneReport, Single, Reported, Engaged
<1>3. ToldOnlyConnected /\ DisconnectPending
  BY DEF ToldOnlyConnected, DisconnectPending, Engaged
<1>4. AttemptsCounted
  <2>1. PICK l \in Limits : TRUE
    OBVIOUS
  <2>2. l \in Nat /\ 0 <= 1 + l
    OBVIOUS
  <2> QED
    BY <2>2 DEF AttemptsCounted
<1> QED
  BY <1>1, <1>2, <1>3, <1>4 DEF IInv

-----------------------------------------------------------------------------
(* The queue and the reports in it.                                        *)

\* A message is put behind the others, or lost.
LEMMA Offered ==
  ASSUME TypeOK, NEW m \in Item, Offer(m)
  PROVE  /\ queue' \in Seq(Item)
         /\ Len(queue') <= QueueLength
         /\ lost' \in BOOLEAN
         /\ \A i \in DOMAIN queue' : \/ i \in DOMAIN queue /\ queue'[i] = queue[i]
                                     \/ i = Len(queue) + 1 /\ queue'[i] = m
  BY WifiAssumption DEF TypeOK, Offer

\* The first message is taken.
LEMMA Taken ==
  ASSUME TypeOK, NEW id, Take(id)
  PROVE  /\ queue' \in Seq(Item)
         /\ Len(queue') <= QueueLength
         /\ firing' = firing
         /\ Head(queue) \in Item
         /\ 1 \in DOMAIN queue /\ queue[1].id = id
         /\ \A i \in DOMAIN queue' : i + 1 \in DOMAIN queue /\ queue'[i] = queue[i + 1]
  BY WifiAssumption DEF TypeOK, Take

\* A message that is no report leaves the reports as they are.
LEMMA OfferedReports ==
  ASSUME TypeOK, Single, NEW m \in Item, m.id # "DISCONNECTED", Offer(m),
         UNCHANGED pending
  PROVE  Single' /\ (Reported' => Reported)
  BY Offered DEF Single, Reported

\* Taking a message adds no report, and taking a report leaves none.
LEMMA TakenReports ==
  ASSUME TypeOK, Single, NEW id, Take(id), UNCHANGED pending
  PROVE  /\ Single'
         /\ Reported' => Reported
         /\ id = "DISCONNECTED" => Reported /\ ~Reported'
<1>1. \A i \in DOMAIN queue' : /\ i \in Nat
                               /\ i + 1 # 1
                               /\ i + 1 \in DOMAIN queue
                               /\ queue'[i] = queue[i + 1]
  BY Taken
<1>2. Single'
  BY <1>1 DEF Single
<1>3. Reported' => Reported
  BY <1>1 DEF Reported
<1>4. 1 \in DOMAIN queue /\ queue[1].id = id
  BY Taken
<1>5. ASSUME id = "DISCONNECTED" PROVE Reported /\ ~Reported'
  BY <1>1, <1>4, <1>5 DEF Single, Reported
<1> QED
  BY <1>2, <1>3, <1>5

-----------------------------------------------------------------------------
(* The producers and the station.                                          *)

\* What the producers and the station leave alone.
Aside == UNCHANGED <<state, config, count, user, told, wanted, tries, unlimited>>

LEMMA AsideInv ==
  ASSUME IInv, Aside
  PROVE  ToldOnlyConnected' /\ DisconnectPending' /\ AttemptsCounted'
  BY DEF IInv, Aside, ToldOnlyConnected, DisconnectPending, Engaged, AttemptsCounted, Within

LEMMA CommandInv == ASSUME IInv, NEW m \in Request, Command(m)
                    PROVE  IInv'
<1>1. m \in Item /\ m.id # "DISCONNECTED"
  BY DEF Item, Request, Message
<1>2. /\ Offer(m)
      /\ UNCHANGED <<state, config, count, user, delay, timer, told, firing, link, leased, pending,
                     wanted, tries, unlimited>>
  BY DEF Command, Offer, service, backoff, driver
<1>3. TypeOK'
  BY <1>1, <1>2, Offered DEF IInv, TypeOK
<1>4. OneReport'
  BY <1>1, <1>2, OfferedReports DEF IInv, OneReport, Engaged
<1> QED
  BY <1>2, <1>3, <1>4, AsideInv DEF IInv, Aside

LEMMA ExpireInv == IInv /\ Expire => IInv'
<1> SUFFICES ASSUME IInv, Expire PROVE IInv'
  OBVIOUS
<1>1. /\ UNCHANGED <<queue, state, config, count, user, delay, told, link, leased, pending, wanted,
                     tries, unlimited, lost>>
      /\ timer' = FALSE /\ firing' = TRUE
  BY DEF Expire, driver, history
<1>2. TypeOK'
  BY <1>1 DEF IInv, TypeOK
<1>3. OneReport'
  BY <1>1 DEF IInv, OneReport, Single, Reported, Engaged
<1> QED
  BY <1>1, <1>2, <1>3, AsideInv DEF IInv, Aside

LEMMA PostRetryInv == IInv /\ PostRetry => IInv'
<1> SUFFICES ASSUME IInv, PostRetry PROVE IInv'
  OBVIOUS
<1> DEFINE m == Message("RETRY")
<1>1. m \in Item /\ m.id # "DISCONNECTED"
  BY DEF Item, Message
<1>2. /\ Offer(m) /\ firing' = FALSE
      /\ UNCHANGED <<state, config, count, user, delay, timer, told, link, leased, pending,
                     wanted, tries, unlimited>>
  BY DEF PostRetry, Offer, service, backoff, driver
<1> HIDE DEF m
<1>3. TypeOK'
  BY <1>1, <1>2, Offered DEF IInv, TypeOK
<1>4. OneReport'
  BY <1>1, <1>2, OfferedReports DEF IInv, OneReport, Engaged
<1> QED
  BY <1>2, <1>3, <1>4, AsideInv DEF IInv, Aside

\* A delivered report moves from the event loop to the queue, or is lost.
LEMMA DeliverInv == IInv /\ Deliver => IInv'
<1> SUFFICES ASSUME IInv, Deliver PROVE IInv'
  OBVIOUS
<1> DEFINE m == Message(Head(pending))
<1>1. /\ pending \in Seq(DriverEvent) /\ pending # << >>
      /\ pending' = Tail(pending)
      /\ Offer(m)
      /\ UNCHANGED <<state, config, count, user, delay, timer, told, firing, link, leased, wanted, tries,
                     unlimited>>
  BY DEF Deliver, Offer, service, backoff, IInv, TypeOK
<1>2. /\ Head(pending) \in DriverEvent
      /\ 1 \in DOMAIN pending /\ Head(pending) = pending[1]
      /\ pending' \in Seq(DriverEvent)
      /\ \A i \in DOMAIN pending' : /\ i \in Nat /\ i + 1 # 1
                                    /\ i + 1 \in DOMAIN pending
                                    /\ pending'[i] = pending[i + 1]
  BY <1>1
<1>3. m \in Item /\ m.id = pending[1]
  BY <1>2 DEF Item, Message
<1> HIDE DEF m
<1>4. TypeOK /\ Single
  BY DEF IInv, OneReport
<1>5. TypeOK'
  BY <1>1, <1>2, <1>3, <1>4, Offered DEF TypeOK
<1>6. \A i \in DOMAIN queue' : \/ i \in DOMAIN queue /\ queue'[i] = queue[i]
                               \/ i = Len(queue) + 1 /\ queue'[i].id = pending[1]
  BY <1>1, <1>3, <1>4, Offered
<1>7. Single'
  <2>1. ASSUME NEW i \in DOMAIN queue', NEW j \in DOMAIN queue',
               queue'[i].id = "DISCONNECTED", queue'[j].id = "DISCONNECTED"
        PROVE  i = j
    BY <1>2, <1>4, <1>6, <2>1 DEF Single
  <2>2. ASSUME NEW i \in DOMAIN pending', NEW j \in DOMAIN pending',
               pending'[i] = "DISCONNECTED", pending'[j] = "DISCONNECTED"
        PROVE  i = j
    BY <1>2, <1>4, <2>2 DEF Single
  <2>3. ASSUME NEW i \in DOMAIN queue', NEW j \in DOMAIN pending',
               queue'[i].id = "DISCONNECTED", pending'[j] = "DISCONNECTED"
        PROVE  FALSE
    BY <1>2, <1>4, <1>6, <2>3 DEF Single
  <2> QED
    BY <2>1, <2>2, <2>3 DEF Single
<1>8. Reported' => Reported
  BY <1>2, <1>6 DEF Reported
<1>9. OneReport'
  BY <1>1, <1>7, <1>8 DEF IInv, OneReport, Engaged
<1> QED
  BY <1>1, <1>5, <1>9, AsideInv DEF IInv, Aside

\* An event other than a report changes nothing about the reports.
LEMMA RaisedOther ==
  ASSUME TypeOK, Single, NEW e \in DriverEvent, e # "DISCONNECTED",
         pending' = Append(pending, e), UNCHANGED queue
  PROVE  pending' \in Seq(DriverEvent) /\ Single' /\ (Reported' => Reported)
<1>1. /\ pending' \in Seq(DriverEvent)
      /\ \A i \in DOMAIN pending' : \/ i \in DOMAIN pending /\ pending'[i] = pending[i]
                                    \/ pending'[i] = e
  BY DEF TypeOK
<1> QED
  BY <1>1 DEF Single, Reported

\* The first report is a single one.
LEMMA RaisedReport ==
  ASSUME TypeOK, \A i \in DOMAIN queue' : queue'[i].id # "DISCONNECTED", ~Reported,
         pending' = Append(pending, "DISCONNECTED")
  PROVE  pending' \in Seq(DriverEvent) /\ Single'
<1>1. /\ pending' \in Seq(DriverEvent)
      /\ \A i \in DOMAIN pending' : \/ i \in DOMAIN pending /\ pending'[i] = pending[i]
                                    \/ i = Len(pending) + 1
  BY DEF TypeOK, DriverEvent
<1>2. \A i \in DOMAIN pending' : pending'[i] = "DISCONNECTED" => i = Len(pending) + 1
  BY <1>1 DEF Reported
<1> QED
  BY <1>1, <1>2 DEF Single

LEMMA AssociateInv == IInv /\ Associate => IInv'
<1> SUFFICES ASSUME IInv, Associate PROVE IInv'
  OBVIOUS
<1>1. /\ link = "connecting" /\ link' = "up" /\ pending' = Append(pending, "CONNECTED")
      /\ UNCHANGED <<queue, state, config, count, user, delay, timer, told, firing, leased, wanted, tries, unlimited, lost>>
  BY DEF Associate, Raise, service, backoff, history
<1>2. "CONNECTED" \in DriverEvent /\ "CONNECTED" # "DISCONNECTED"
  BY DEF DriverEvent
<1>3. pending' \in Seq(DriverEvent) /\ Single' /\ (Reported' => Reported)
  BY <1>1, <1>2, RaisedOther DEF IInv, OneReport
<1>4. TypeOK'
  BY <1>1, <1>3 DEF IInv, TypeOK
<1>5. OneReport'
  BY <1>1, <1>3 DEF IInv, OneReport, Engaged
<1> QED
  BY <1>1, <1>4, <1>5, AsideInv DEF IInv, Aside

LEMMA LeaseInv == IInv /\ Lease => IInv'
<1> SUFFICES ASSUME IInv, Lease PROVE IInv'
  OBVIOUS
<1>1. /\ link = "up" /\ link' = link /\ leased' = TRUE /\ pending' = Append(pending, "GOT_IP")
      /\ UNCHANGED <<queue, state, config, count, user, delay, timer, told, firing, wanted, tries, unlimited, lost>>
  BY DEF Lease, Raise, service, backoff, history
<1>2. "GOT_IP" \in DriverEvent /\ "GOT_IP" # "DISCONNECTED"
  BY DEF DriverEvent
<1>3. pending' \in Seq(DriverEvent) /\ Single' /\ (Reported' => Reported)
  BY <1>1, <1>2, RaisedOther DEF IInv, OneReport
<1>4. TypeOK'
  BY <1>1, <1>3 DEF IInv, TypeOK
<1>5. OneReport'
  BY <1>1, <1>3 DEF IInv, OneReport, Engaged
<1> QED
  BY <1>1, <1>4, <1>5, AsideInv DEF IInv, Aside

\* What is lost had not been reported, and the service is engaged in it.
LEMMA LoseInv == IInv /\ Lose => IInv'
<1> SUFFICES ASSUME IInv, Lose PROVE IInv'
  OBVIOUS
<1>1. /\ link # "down" /\ link' = "down" /\ leased' = FALSE
      /\ pending' = Append(pending, "DISCONNECTED")
      /\ UNCHANGED <<queue, state, config, count, user, delay, timer, told, firing, wanted, tries, unlimited, lost>>
  BY DEF Lose, Raise, service, backoff, history
<1>2. ~Reported /\ Engaged
  BY <1>1 DEF IInv, OneReport
<1>3. \A i \in DOMAIN queue' : queue'[i].id # "DISCONNECTED"
  BY <1>1, <1>2 DEF Reported
<1>4. pending' \in Seq(DriverEvent) /\ Single'
  BY <1>1, <1>2, <1>3, RaisedReport DEF IInv
<1>5. TypeOK'
  BY <1>1, <1>4 DEF IInv, TypeOK
<1>6. OneReport'
  BY <1>1, <1>2, <1>4 DEF OneReport, Engaged
<1> QED
  BY <1>1, <1>5, <1>6, AsideInv DEF IInv, Aside

-----------------------------------------------------------------------------
(* The service task.                                                       *)

\* A message that is handled without touching the service changes nothing else.
LEMMA IgnoredInv == ASSUME IInv, NEW id, Take(id), UNCHANGED <<service, driver, history>>
                    PROVE  IInv'
<1>1. UNCHANGED <<state, config, count, user, delay, timer, told, link, leased, pending, wanted, tries, unlimited, lost>>
  BY DEF service, backoff, driver, history
<1>2. TypeOK'
  BY <1>1, Taken DEF IInv, TypeOK
<1>3. OneReport'
  BY <1>1, TakenReports DEF IInv, OneReport, Engaged
<1> QED
  BY <1>1, <1>2, <1>3, AsideInv DEF IInv, Aside

LEMMA ConnectInv == IInv /\ Connect => IInv'
<1> SUFFICES ASSUME IInv, Connect PROVE IInv'
  OBVIOUS
<1> USE WifiAssumption, LimitsAreSmall
<1>1. /\ Take("CONNECT") /\ state \in {"IDLE", "FAILED"}
      /\ wanted' = "connect" /\ tries' = 1
      /\ delay' = config.low
      /\ UNCHANGED <<config, user, timer, told, leased, pending, unlimited, lost>>
  BY DEF Connect, DriverConnects, driver, backoff
<1>2. \/ state' = "CONNECTING" /\ count' = 0 /\ link' \in {link, "connecting"}
      \/ state' = "FAILED" /\ count' = 1 /\ link' = link
  BY DEF Connect, DriverConnects, driver, backoff
<1>3. ~Reported /\ link = "down" /\ ~told
  BY <1>1 DEF IInv, OneReport, Engaged, ToldOnlyConnected
<1>4. Single' /\ ~Reported'
  BY <1>1, <1>3, TakenReports DEF IInv, OneReport
<1>5. TypeOK'
  <2>1. 1 \in 0..CountCap /\ 0 \in 0..CountCap /\ config.low \in Nat
    BY DEF IInv, TypeOK
  <2> QED
    BY <1>1, <1>2, <2>1, Taken DEF IInv, TypeOK, State
<1>6. OneReport'
  BY <1>2, <1>3, <1>4 DEF OneReport, Engaged
<1>7. ToldOnlyConnected' /\ DisconnectPending'
  BY <1>1, <1>3 DEF ToldOnlyConnected, DisconnectPending
<1>8. AttemptsCounted'
  <2>1. PICK l \in Limits : TRUE
    OBVIOUS
  <2>2. l \in Nat /\ 0 <= l /\ 1 <= 1 + l
    OBVIOUS
  <2>3. ~unlimited => config.limit # 0
    BY DEF IInv, AttemptsCounted
  <2> QED
    BY <1>1, <1>2, <2>2, <2>3 DEF AttemptsCounted, Within
<1> QED
  BY <1>5, <1>6, <1>7, <1>8 DEF IInv

LEMMA DisconnectInv == IInv /\ Disconnect => IInv'
<1> SUFFICES ASSUME IInv, Disconnect PROVE IInv'
  OBVIOUS
<1> USE WifiAssumption, LimitsAreSmall
<1>1. /\ Take("DISCONNECT") /\ user' = TRUE /\ wanted' = "disconnect"
      /\ state' = AfterDisconnect(state)
      /\ timer' = (timer /\ state # "RECONNECT_WAIT")
      /\ UNCHANGED <<config, count, delay, told, tries, unlimited, lost>>
  BY DEF Disconnect
<1>2. /\ state' \in State /\ state' # "RECONNECT_WAIT"
      /\ Engaged' <=> Engaged
      /\ Engaged => state' = state
      /\ ~Engaged => state' = "IDLE"
  BY <1>1 DEF IInv, TypeOK, State, AfterDisconnect, Engaged
<1>3. \/ UNCHANGED driver
      \/ /\ Engaged /\ link # "down"
         /\ link' = "down" /\ leased' = FALSE
         /\ pending' = Append(pending, "DISCONNECTED")
  BY DEF Disconnect, DriverDisconnects, Engaged
<1>4. ToldOnlyConnected' /\ DisconnectPending'
  BY <1>1, <1>2 DEF IInv, ToldOnlyConnected, DisconnectPending, Engaged
<1>5. AttemptsCounted'
  <2>1. ASSUME ~unlimited, state = "RECONNECT_WAIT"
        PROVE  \E l \in Limits : tries <= 1 + l
    <3>1. PICK l \in Limits : count <= l
      BY <2>1 DEF IInv, AttemptsCounted, Within
    <3>2. tries <= count /\ tries \in Nat /\ count \in Nat /\ l \in Nat
      BY <2>1 DEF IInv, TypeOK, AttemptsCounted
    <3> QED
      BY <3>1, <3>2
  <2> QED
    BY <1>1, <1>2, <2>1 DEF IInv, TypeOK, State, AttemptsCounted, Engaged, Within
<1>6. CASE UNCHANGED driver
  <2>1. UNCHANGED <<link, leased, pending>>
    BY <1>6 DEF driver
  <2>2. TypeOK'
    BY <1>1, <1>2, <2>1, Taken DEF IInv, TypeOK
  <2>3. OneReport'
    BY <1>1, <1>2, <2>1, TakenReports DEF IInv, OneReport
  <2> QED
    BY <1>4, <1>5, <2>2, <2>3 DEF IInv
<1>7. CASE /\ Engaged /\ link # "down"
           /\ link' = "down" /\ leased' = FALSE
           /\ pending' = Append(pending, "DISCONNECTED")
  <2>1. ~Reported
    BY <1>7 DEF IInv, OneReport
  <2>2. \A i \in DOMAIN queue' : queue'[i].id # "DISCONNECTED"
    BY <1>1, <2>1, Taken DEF IInv, Reported
  <2>3. pending' \in Seq(DriverEvent) /\ Single'
    BY <1>7, <2>1, <2>2, RaisedReport DEF IInv
  <2>4. TypeOK'
    BY <1>1, <1>2, <1>7, <2>3, Taken DEF IInv, TypeOK
  <2>5. OneReport'
    BY <1>2, <1>7, <2>3 DEF OneReport
  <2> QED
    BY <1>4, <1>5, <2>4, <2>5 DEF IInv
<1> QED
  BY <1>3, <1>6, <1>7

LEMMA SetConfigInv == IInv /\ SetConfig => IInv'
<1> SUFFICES ASSUME IInv, SetConfig PROVE IInv'
  OBVIOUS
<1>1. /\ Take("SET_CONFIG") /\ config' = Head(queue).config
      /\ unlimited' = (unlimited \/ config'.limit = 0)
      /\ UNCHANGED <<state, count, user, delay, timer, told, link, leased, pending, wanted, tries,
                     lost>>
  BY DEF SetConfig, backoff, driver
<1>2. config' \in Configs
  <2>1. Head(queue) \in Item /\ Head(queue).id = "SET_CONFIG"
    BY <1>1, Taken DEF IInv, Take
  <2> QED
    BY <1>1, <2>1 DEF Item, Request, Message, DriverEvent
<1>3. TypeOK'
  BY <1>1, <1>2, Taken DEF IInv, TypeOK
<1>4. OneReport'
  BY <1>1, TakenReports DEF IInv, OneReport, Engaged
<1>5. ToldOnlyConnected' /\ DisconnectPending' /\ AttemptsCounted'
  BY <1>1 DEF IInv, ToldOnlyConnected, DisconnectPending, Engaged, AttemptsCounted, Within
<1> QED
  BY <1>3, <1>4, <1>5 DEF IInv

LEMMA ConnectedInv == IInv /\ Connected => IInv'
<1> SUFFICES ASSUME IInv, Connected PROVE IInv'
  OBVIOUS
<1> USE WifiAssumption, LimitsAreSmall
<1>1. /\ Take("CONNECTED")
      /\ UNCHANGED <<config, user, timer, told, link, leased, pending, wanted, unlimited, lost>>
      /\ \/ /\ state = "CONNECTING" /\ state' = "CONNECTED"
            /\ count' = 0 /\ delay' = config.low /\ tries' = 0
         \/ UNCHANGED <<state, count, delay, tries>>
  BY DEF Connected, driver
<1>2. Engaged' <=> Engaged
  BY <1>1 DEF Engaged
<1>3. TypeOK'
  <2>1. 0 \in 0..CountCap /\ config.low \in Nat
    BY DEF IInv, TypeOK
  <2>2. state' \in State /\ count' \in 0..CountCap /\ delay' \in Nat /\ tries' \in 0..CountCap
    BY <1>1, <2>1 DEF IInv, TypeOK, State
  <2> QED
    BY <1>1, <2>2, Taken DEF IInv, TypeOK
<1>4. OneReport'
  BY <1>1, <1>2, TakenReports DEF IInv, OneReport
<1>5. ToldOnlyConnected' /\ DisconnectPending'
  BY <1>1, <1>2 DEF IInv, ToldOnlyConnected, DisconnectPending
<1>6. AttemptsCounted'
  BY <1>1 DEF IInv, AttemptsCounted, Within
<1> QED
  BY <1>3, <1>4, <1>5, <1>6 DEF IInv

LEMMA GotIpInv == IInv /\ GotIp => IInv'
<1> SUFFICES ASSUME IInv, GotIp PROVE IInv'
  OBVIOUS
<1>1. /\ Take("GOT_IP")
      /\ told' = (told \/ state = "CONNECTED")
      /\ UNCHANGED <<state, config, count, user, delay, timer, link, leased, pending, wanted, tries, unlimited, lost>>
  BY DEF GotIp, backoff, driver, history
<1>2. TypeOK'
  BY <1>1, Taken DEF IInv, TypeOK
<1>3. OneReport'
  BY <1>1, TakenReports DEF IInv, OneReport, Engaged
<1>4. ToldOnlyConnected' /\ DisconnectPending' /\ AttemptsCounted'
  BY <1>1 DEF IInv, ToldOnlyConnected, DisconnectPending, Engaged, AttemptsCounted, Within
<1> QED
  BY <1>2, <1>3, <1>4 DEF IInv

\* A disconnection ends an attempt or a connection: the failure is counted, and the
\* service waits only when the count is within the limit in force.
LEMMA DisconnectedInv ==
  ASSUME IInv, NEW from \in {"CONNECTING", "CONNECTED"}, NEW attempts \in 0..CountCap,
         Disconnected(from, attempts),
         queue' \in Seq(Item), Len(queue') <= QueueLength, UNCHANGED firing,
         Single', ~Reported', link = "down",
         wanted = "disconnect" => user,
         ~unlimited => /\ Within(count)
                       /\ from = "CONNECTING" => attempts <= count + 1
                       /\ from = "CONNECTED" => count = 0 /\ attempts = 0
  PROVE  IInv'
<1> USE WifiAssumption, LimitsAreSmall
<1>1. /\ told' = FALSE /\ tries' = attempts /\ user' = FALSE
      /\ UNCHANGED <<config, link, leased, pending, wanted, unlimited, lost>>
      /\ \/ user /\ state' = "IDLE" /\ UNCHANGED <<count, delay, timer>>
         \/ /\ ~user /\ count' = Increment(count)
            /\ \/ state' = "FAILED" /\ UNCHANGED <<delay, timer>>
               \/ /\ ~Exhausted(count')
                  /\ state' = "RECONNECT_WAIT" /\ timer' = TRUE /\ delay' = Longer(delay)
  BY DEF Disconnected, Failures, StartTimer, backoff, driver
<1>2. Increment(count) \in 0..CountCap /\ Longer(delay) \in Nat
  BY LongerType DEF IInv, TypeOK, Increment
<1>3. TypeOK'
  BY <1>1, <1>2 DEF IInv, TypeOK, State
<1>4. OneReport' /\ ToldOnlyConnected' /\ DisconnectPending'
  BY <1>1 DEF OneReport, Engaged, ToldOnlyConnected, DisconnectPending
<1>5. ASSUME ~unlimited PROVE AttemptsCounted'
  <2>1. PICK l \in Limits : count <= l
    BY <1>5 DEF Within
  <2>2. l \in Nat /\ l + 1 < CountCap /\ count \in Nat
    BY DEF IInv, TypeOK
  <2>3. Increment(count) = count + 1
    BY <2>1, <2>2 DEF Increment
  <2>4. attempts <= count + 1 /\ attempts <= 1 + l
    BY <1>5, <2>1, <2>2
  <2>5. config.limit \in Limits /\ config.limit \in Nat /\ config.limit # 0
    BY <1>5 DEF IInv, TypeOK, AttemptsCounted
  <2>6. ~Exhausted(count') /\ count' = count + 1 => count' <= config.limit
    BY <2>2, <2>5 DEF Exhausted
  <2> QED
    BY <1>1, <2>3, <2>4, <2>5, <2>6 DEF AttemptsCounted, Within
<1>6. AttemptsCounted'
  BY <1>1, <1>5 DEF AttemptsCounted
<1> QED
  BY <1>3, <1>4, <1>6 DEF IInv

LEMMA LinkLostInv == IInv /\ LinkLost => IInv'
<1> SUFFICES ASSUME IInv, LinkLost PROVE IInv'
  OBVIOUS
<1>1. Take("DISCONNECTED") /\ Disconnected(state, tries)
  BY DEF LinkLost
<1>2. UNCHANGED pending
  BY <1>1 DEF Disconnected, driver
<1>3. Single' /\ Reported /\ ~Reported'
  BY <1>1, <1>2, TakenReports DEF IInv, OneReport
<1>4. Engaged /\ link = "down"
  BY <1>3 DEF IInv, OneReport
<1>5. state \in {"CONNECTING", "CONNECTED"} /\ tries \in 0..CountCap
  BY <1>4 DEF Engaged, IInv, TypeOK
<1>6. wanted = "disconnect" => user
  BY <1>4 DEF IInv, DisconnectPending
<1>7. ~unlimited => /\ Within(count)
                    /\ state = "CONNECTING" => tries <= count + 1
                    /\ state = "CONNECTED" => count = 0 /\ tries = 0
  <2>1. DefaultConfig.limit \in Limits /\ DefaultConfig.limit \in Nat
    BY LimitsAreSmall
  <2> QED
    BY <1>5, <2>1 DEF IInv, AttemptsCounted, Within
<1>8. queue' \in Seq(Item) /\ Len(queue') <= QueueLength /\ UNCHANGED firing
  BY <1>1, Taken DEF IInv
<1> QED
  BY <1>1, <1>3, <1>4, <1>5, <1>6, <1>7, <1>8, DisconnectedInv

LEMMA RetryInv == IInv /\ Retry => IInv'
<1> SUFFICES ASSUME IInv, Retry PROVE IInv'
  OBVIOUS
<1> USE WifiAssumption, LimitsAreSmall
<1>1. Take("RETRY") /\ state = "RECONNECT_WAIT" /\ UNCHANGED pending
  BY DEF Retry, DriverConnects, Disconnected, driver
<1>2. ~Reported /\ link = "down" /\ wanted # "disconnect"
  BY <1>1 DEF IInv, OneReport, Engaged, DisconnectPending
<1>3. Single' /\ ~Reported'
  BY <1>1, <1>2, TakenReports DEF IInv, OneReport
<1>4. Increment(tries) \in 0..CountCap /\ Increment(tries) <= tries + 1
  BY DEF IInv, TypeOK, Increment
<1>5. ~unlimited => config.limit # 0 /\ Within(count) /\ Increment(tries) <= count + 1
  BY <1>1, <1>4 DEF IInv, TypeOK, AttemptsCounted
<1>6. queue' \in Seq(Item) /\ Len(queue') <= QueueLength /\ UNCHANGED firing
  BY <1>1, Taken DEF IInv
<1>7. CASE /\ state' = "CONNECTING"
           /\ DriverConnects
           /\ tries' = Increment(tries)
           /\ UNCHANGED <<config, count, user, delay, timer, told, wanted, unlimited, lost>>
  <2>1. link' \in {"connecting", "down", "up"} /\ UNCHANGED leased
    BY <1>2, <1>7 DEF DriverConnects
  <2>2. TypeOK'
    BY <1>1, <1>4, <1>6, <1>7, <2>1 DEF IInv, TypeOK, State
  <2>3. OneReport'
    BY <1>3, <1>7 DEF OneReport, Engaged
  <2>4. ToldOnlyConnected' /\ DisconnectPending'
    BY <1>1, <1>2, <1>7 DEF IInv, ToldOnlyConnected, DisconnectPending
  <2>5. AttemptsCounted'
    BY <1>5, <1>7 DEF AttemptsCounted, Within
  <2> QED
    BY <2>2, <2>3, <2>4, <2>5 DEF IInv
<1>8. CASE Disconnected("CONNECTING", Increment(tries))
  BY <1>2, <1>3, <1>4, <1>5, <1>6, <1>8, DisconnectedInv
<1> QED
  BY <1>7, <1>8 DEF Retry, backoff

LEMMA TaskInv == IInv /\ Task => IInv'
<1> SUFFICES ASSUME IInv, Task PROVE IInv'
  OBVIOUS
<1>1. CASE ConnectIgnored \/ Query \/ RetryIgnored
  BY <1>1, IgnoredInv DEF ConnectIgnored, Query, RetryIgnored
<1>2. CASE Connect \/ Disconnect \/ SetConfig
  BY <1>2, ConnectInv, DisconnectInv, SetConfigInv
<1>3. CASE Connected \/ GotIp \/ LinkLost \/ Retry
  BY <1>3, ConnectedInv, GotIpInv, LinkLostInv, RetryInv
<1> QED
  BY <1>1, <1>2, <1>3 DEF Task

-----------------------------------------------------------------------------
(* The theorems.                                                           *)

LEMMA Inductive == IInv /\ [Next]_vars => IInv'
<1> SUFFICES ASSUME IInv, [Next]_vars PROVE IInv'
  OBVIOUS
<1>1. CASE \E m \in Request : Command(m)
  BY <1>1, CommandInv
<1>2. CASE Deliver \/ Expire \/ PostRetry
  BY <1>2, DeliverInv, ExpireInv, PostRetryInv
<1>3. CASE Associate \/ Lease \/ Lose
  BY <1>3, AssociateInv, LeaseInv, LoseInv
<1>4. CASE Task
  BY <1>4, TaskInv
<1>5. CASE UNCHANGED vars
  <2>1. UNCHANGED <<queue, state, config, count, user, delay, timer, told, firing, link, leased, pending,
                    wanted, tries, unlimited, lost>>
    BY <1>5 DEF vars, service, backoff, driver, history
  <2>2. TypeOK' /\ OneReport'
    BY <2>1 DEF IInv, TypeOK, OneReport, Single, Reported, Engaged
  <2> QED
    BY <2>1, <2>2, AsideInv DEF IInv, Aside
<1> QED
  BY <1>1, <1>2, <1>3, <1>4, <1>5 DEF Next

LEMMA Invariance == Spec => []IInv
  BY Initially, Inductive, PTL DEF Spec

-----------------------------------------------------------------------------
(* The backoff.                                                            *)

AllFit == \A c \in Configs : Fits(c)

\* Neither less nor more than the configurations ask for.
Between(d) == /\ \E c \in Configs : d >= c.low \/ d >= c.high
              /\ \E c \in Configs : d <= c.low \/ d <= c.high

Retrying == state \in {"CONNECTING", "CONNECTED", "RECONNECT_WAIT"}

\* A delay that may come to be used.
DelayKept == AllFit /\ Retrying => Between(delay)

\* Scaling keeps the order.
LEMMA Ordering == ASSUME NEW a \in Nat, NEW b \in Nat, NEW s \in Nat, a <= b
                  PROVE  a * s <= b * s /\ a * s \in Nat
<1>1. PICK k \in Nat : b = a + k
  <2>1. b - a \in Nat /\ b = a + (b - a)
    OBVIOUS
  <2> QED
    BY <2>1
<1>2. b * s = a * s + k * s /\ k * s \in Nat /\ a * s \in Nat
  BY <1>1
<1> QED
  BY <1>2

LEMMA LowIsBetween == \A c \in Configs : Between(c.low) /\ Between(c.high)
<1> SUFFICES ASSUME NEW c \in Configs PROVE Between(c.low) /\ Between(c.high)
  OBVIOUS
<1>1. c.low \in Nat /\ c.high \in Nat
  BY LimitsAreSmall
<1> QED
  BY <1>1 DEF Between

LEMMA LongerIsBetween == ASSUME AllFit, config \in Configs, delay \in Nat, Between(delay)
                         PROVE  Between(Longer(delay))
<1>1. PICK c \in Configs : delay <= c.low \/ delay <= c.high
  BY DEF Between
<1>2. /\ c.low \in Nat /\ c.high \in Nat /\ 2 * c.low < Word /\ 2 * c.high < Word
      /\ Word \in Nat /\ Word > 0
  BY LimitsAreSmall, WifiAssumption DEF AllFit, Fits
<1>3. 2 * delay \in Nat /\ 2 * delay < Word
  BY <1>1, <1>2
<1>4. (2 * delay) % Word = 2 * delay
  BY <1>2, <1>3
<1>5. CASE 2 * delay > config.high
  BY <1>4, <1>5, LowIsBetween DEF Longer
<1>6. CASE ~(2 * delay > config.high)
  <2>1. Longer(delay) = 2 * delay /\ config.high \in Nat /\ 2 * delay <= config.high
    BY <1>3, <1>4, <1>6, LimitsAreSmall DEF Longer
  <2>2. PICK b \in Configs : delay >= b.low \/ delay >= b.high
    BY DEF Between
  <2>3. b.low \in Nat /\ b.high \in Nat
    BY LimitsAreSmall
  <2>4. 2 * delay >= b.low \/ 2 * delay >= b.high
    BY <2>2, <2>3
  <2> QED
    BY <2>1, <2>4 DEF Between
<1> QED
  BY <1>5, <1>6

\* A disconnection is processed only by a service that has an outage to count.
LEMMA LosersRetry == IInv /\ (LinkLost \/ Retry) => Retrying
<1> SUFFICES ASSUME IInv, LinkLost \/ Retry PROVE Retrying
  OBVIOUS
<1>1. CASE LinkLost
  <2>1. Take("DISCONNECTED")
    BY <1>1 DEF LinkLost
  <2>2. 1 \in DOMAIN queue /\ queue[1].id = "DISCONNECTED"
    BY <2>1, Taken DEF IInv
  <2>3. Reported
    BY <2>2 DEF Reported
  <2> QED
    BY <2>3 DEF IInv, OneReport, Engaged, Retrying
<1>2. CASE Retry
  BY <1>2 DEF Retry, Retrying
<1> QED
  BY <1>1, <1>2

\* What becomes of the delay when a disconnection is processed.
LEMMA DisconnectedDelay ==
  ASSUME NEW from, NEW attempts, Disconnected(from, attempts)
  PROVE  delay' \in {delay, Longer(delay)}
  BY DEF Disconnected, StartTimer, backoff

LEMMA DelayInductive == IInv /\ DelayKept /\ [Next]_vars => DelayKept'
<1> SUFFICES ASSUME IInv, DelayKept, [Next]_vars, AllFit, Retrying' PROVE Between(delay)'
  BY DEF DelayKept, AllFit, Fits
<1>1. config \in Configs /\ delay \in Nat
  BY DEF IInv, TypeOK
<1>2. CASE UNCHANGED delay /\ Retrying
  BY <1>2 DEF DelayKept, Between
<1>3. CASE Connect \/ Connected
  <2>1. delay' = config.low \/ UNCHANGED <<delay, state>>
    BY <1>3 DEF Connect, Connected
  <2>2. CASE delay' = config.low
    BY <1>1, <2>2, LowIsBetween DEF Between
  <2>3. CASE UNCHANGED <<delay, state>>
    BY <1>2, <2>3 DEF Retrying
  <2> QED
    BY <2>1, <2>2, <2>3
<1>4. CASE LinkLost \/ Retry
  <2>1. Retrying
    BY <1>4, LosersRetry
  <2>2. delay' \in {delay, Longer(delay)}
    BY <1>4, DisconnectedDelay DEF LinkLost, Retry, backoff
  <2>3. Between(delay) /\ Between(Longer(delay))
    BY <1>1, <2>1, LongerIsBetween DEF DelayKept
  <2> QED
    BY <2>2, <2>3 DEF Between
<1>5. CASE Disconnect
  BY <1>2, <1>5 DEF Disconnect, AfterDisconnect, Retrying
<1>6. [Next]_vars => \/ UNCHANGED <<delay, state>>
                     \/ Connect \/ Connected \/ LinkLost \/ Retry \/ Disconnect
  BY DEF Next, Task, Command, Deliver, Expire, PostRetry, Associate, Lease, Lose, vars,
         ConnectIgnored, SetConfig, Query, GotIp, RetryIgnored, service, backoff
<1> QED
  BY <1>2, <1>3, <1>4, <1>5, <1>6 DEF Retrying

LEMMA DelayInvariance == Spec => []DelayKept
<1>1. Init => DelayKept
  BY DEF Init, DelayKept, Retrying
<1> QED
  BY <1>1, DelayInductive, Invariance, PTL DEF Spec

\* Types, the bound of the queue included.
THEOREM TypeCorrect == Spec => []TypeOK
<1>1. IInv => TypeOK
  BY DEF IInv
<1> QED
  BY <1>1, Invariance, PTL

\* The MQTT service is told that WiFi is there only while the WiFi service is CONNECTED
\* (process_driver_event, GOT_IP and DISCONNECTED).
THEOREM ReportsAreTakenBack == Spec => []ToldOnlyConnected
<1>1. IInv => ToldOnlyConnected
  BY DEF IInv
<1> QED
  BY <1>1, Invariance, PTL

\* An outage costs at most one attempt more than some limit that has been in force
\* (max_retry_attempts), whatever the queue loses.
THEOREM AttemptsAreBounded == Spec => []TriesWithinLimit
<1>1. IInv => TriesWithinLimit
  <2> SUFFICES ASSUME IInv, ~unlimited PROVE \E l \in Limits : tries <= 1 + l
    BY DEF TriesWithinLimit, Limits
  <2>1. /\ Limits \subseteq Nat /\ DefaultConfig.limit \in Limits
        /\ count \in Nat /\ tries \in Nat /\ state \in State
    BY WifiAssumption, LimitsAreSmall DEF IInv, TypeOK
  <2>2. CASE state \in {"IDLE", "FAILED"}
    BY <2>2 DEF IInv, AttemptsCounted
  <2>3. CASE state = "CONNECTED"
    <3>1. PICK l \in Limits : TRUE
      BY LimitsAreSmall
    <3>2. tries = 0
      BY <2>3 DEF IInv, AttemptsCounted
    <3> QED
      BY <2>1, <3>1, <3>2
  <2>4. CASE state \in {"CONNECTING", "RECONNECT_WAIT"}
    <3>1. PICK l \in Limits : count <= l
      BY <2>4 DEF IInv, AttemptsCounted, Within
    <3>2. tries <= count + 1
      BY <2>1, <2>4 DEF IInv, AttemptsCounted
    <3> QED
      BY <2>1, <3>1, <3>2
  <2> QED
    BY <2>1, <2>2, <2>3, <2>4 DEF State
<1> QED
  BY <1>1, Invariance, PTL

\* After a user's disconnect the service attempts nothing until the next connect
\* command: a retry that comes late finds it out of RECONNECT_WAIT.
THEOREM DisconnectIsObeyed == Spec => NoAttemptAfterDisconnect
<1> DEFINE Quiet == wanted = "disconnect" /\ wanted' = "disconnect" => tries' <= tries
<1>1. IInv /\ [Next]_vars => [Quiet]_vars
  <2> SUFFICES ASSUME IInv, Next, wanted = "disconnect", wanted' = "disconnect"
               PROVE  tries' <= tries
    OBVIOUS
  <2>1. tries \in Nat /\ state # "RECONNECT_WAIT"
    BY DEF IInv, TypeOK, DisconnectPending
  <2>2. CASE UNCHANGED <<wanted, tries>>
    BY <2>1, <2>2
  <2>3. CASE Connect \/ Retry
    BY <2>1, <2>3 DEF Connect, Retry
  <2>4. CASE Disconnect
    BY <2>1, <2>4 DEF Disconnect
  <2>5. CASE Connected
    BY <2>1, <2>5 DEF Connected
  <2>6. CASE LinkLost
    BY <2>1, <2>6 DEF LinkLost, Disconnected
  <2>7. Next => \/ UNCHANGED <<wanted, tries>>
                \/ Connect \/ Retry \/ Disconnect \/ Connected \/ LinkLost
    BY DEF Next, Task, Command, Deliver, Expire, PostRetry, Associate, Lease, Lose,
           ConnectIgnored, SetConfig, Query, GotIp, RetryIgnored, Offer, history
  <2> QED
    BY <2>2, <2>3, <2>4, <2>5, <2>6, <2>7
<1> QED
  BY <1>1, Invariance, PTL DEF Spec, NoAttemptAfterDisconnect

\* The reconnect timer (start_reconnect_timer) is never started with less or with more than
\* the configurations ask for, whichever were set on the way, if 32 bits hold their delays.
THEOREM BackoffIsBounded == Spec => BackoffWithinBounds
<1> DEFINE Bounded == /\ \E c \in Configs : Period >= c.low * Scale \/ Period >= c.high * Scale
                      /\ \E c \in Configs : Period <= c.low * Scale \/ Period <= c.high * Scale
<1>1. IInv /\ DelayKept /\ [Next]_vars
        => [(\A c \in Configs : Fits(c)) /\ ~timer /\ timer' => Bounded]_vars
  <2> SUFFICES ASSUME IInv, DelayKept, Next, AllFit, ~timer, timer' PROVE Bounded
    BY DEF AllFit
  <2>1. LinkLost \/ Retry
    BY DEF Next, Task, Command, Deliver, Expire, PostRetry, Associate, Lease, Lose, Connect,
           Disconnect, ConnectIgnored, SetConfig, Query, Connected, GotIp, RetryIgnored,
           service, backoff
  <2>2. Retrying
    BY <2>1, LosersRetry
  <2>3. Between(delay) /\ delay \in Nat /\ Scale \in Nat /\ Word \in Nat /\ Word > 0
    BY <2>2, WifiAssumption DEF DelayKept, IInv, TypeOK
  <2>4. PICK c \in Configs : delay <= c.low \/ delay <= c.high
    BY <2>3 DEF Between
  <2>5. PICK d \in {c.low, c.high} : delay <= d
    BY <2>4
  <2>6. d \in Nat /\ d * Scale < Word
    BY <2>5, LimitsAreSmall DEF AllFit, Fits
  <2>7. delay * Scale <= d * Scale /\ delay * Scale \in Nat
    BY <2>3, <2>5, <2>6, Ordering
  <2>8. Period = delay * Scale
    <3> DEFINE n == delay * Scale
    <3>1. n \in Nat /\ n < Word
      BY <2>6, <2>7, <2>3
    <3> HIDE DEF n
    <3>2. n % Word = n
      BY <3>1, <2>3
    <3> QED
      BY <3>2 DEF Period, n
  <2>9. Period <= c.low * Scale \/ Period <= c.high * Scale
    BY <2>5, <2>7, <2>8
  <2>10. PICK b \in Configs : delay >= b.low \/ delay >= b.high
    BY <2>3 DEF Between
  <2>11. b.low \in Nat /\ b.high \in Nat
    BY LimitsAreSmall
  <2>12. Period >= b.low * Scale \/ Period >= b.high * Scale
    BY <2>3, <2>8, <2>10, <2>11, Ordering
  <2> QED
    BY <2>9, <2>12
<1> QED
  BY <1>1, Invariance, DelayInvariance, PTL DEF Spec, BackoffWithinBounds
=============================================================================
