----------------------------- MODULE MqttService -----------------------------
(***************************************************************************)
(* The MQTT service (services/connectivity/mqtt/mqtt_service.c) with its   *)
(* client abstraction (drivers/comm/mqtt/mqtt_client_abstraction.c): one   *)
(* task serves a bounded queue into which command handlers, the client's   *)
(* event callback and the retry timer put messages without waiting.        *)
(*                                                                         *)
(* The client below (esp-mqtt) is modelled from how the abstraction uses   *)
(* it: once started it tries to connect, reports success and failure, and  *)
(* goes on trying by itself, until it is stopped and destroyed.  Whether   *)
(* stopping a connected client reports a disconnection is left open.  Its  *)
(* sessions are clean, as mqtt_service_init configures them: the broker    *)
(* forgets the subscription with the connection.                           *)
(*                                                                         *)
(* Time, topics (there is one to subscribe to), payloads and credentials   *)
(* are left out; so are the events emitted to the core.                    *)
(***************************************************************************)
EXTENDS Integers, Sequences, FiniteSets

CONSTANTS QueueLength,    \* length given to xQueueCreate
          Limits,         \* values max_retry_attempts is given (0: no limit)
          DefaultLimit,   \* MQTT_DEFAULT_MAX_ATTEMPTS
          CountCap,       \* bound of the counters, above every limit
          MaxRequests,    \* bound: commands that wait in the queue at a time
          MaxEvents       \* bound: client events that wait in the queue at a time

ASSUME MqttAssumption == /\ QueueLength \in Nat \ {0}
                         /\ Limits \subseteq Nat /\ DefaultLimit \in Limits
                         /\ CountCap \in Nat /\ \A l \in Limits : l + 1 < CountCap
                         /\ MaxRequests \in Nat /\ MaxEvents \in Nat

VARIABLES queue,        \* s_ctx.queue
          state,        \* s_ctx.state
          wifi,         \* s_ctx.wifi_connected
          limit,        \* s_ctx.config.max_retry_attempts
          count,        \* s_ctx.retry_count, saturating at CountCap
          user,         \* s_ctx.user_disconnect
          timer,        \* s_ctx.retry_timer is running
          firing,       \* its callback is under way in the timer task
          initialized,  \* the abstraction holds a configuration
          started,      \* the abstraction holds a running client
          link,         \* the client: "off", "trying" or "up"
          subscribed,   \* the broker holds a subscription of the client's session
          paused,       \* a retry was dropped for want of WiFi since the timer last ran
          retries,      \* retries since the first attempt of this connection
          lost          \* some message has found the queue full

service == <<state, wifi, limit, count, user, timer>>
client  == <<initialized, started, link, subscribed>>
history == <<paused, retries>>
vars == <<queue, lost, service, firing, client, history>>

State == {"IDLE", "CONNECTING", "CONNECTED", "RECONNECT_WAIT", "FAILED"}

\* COMMAND_MQTT_SET_WIFI_STATE is WIFI_UP or WIFI_DOWN.  Publishing changes nothing here,
\* nor do the client's data and acknowledgement events ("OTHER").
Message(id) == [id |-> id, limit |-> 0]
Request == {Message(id) : id \in {"WIFI_UP", "WIFI_DOWN", "DISCONNECT",
                                  "PUBLISH", "SUBSCRIBE", "UNSUBSCRIBE"}}
             \union [id : {"CONNECT", "SET_CONFIG"}, limit : Limits]
ClientEvent == {Message(id) : id \in {"CONNECTED", "DISCONNECTED", "OTHER"}}
Item == Request \union ClientEvent \union {Message("RETRY")}

\* mqtt_service_init configures the client and does not start it.
Init == /\ queue = << >>
        /\ state = "IDLE" /\ wifi = FALSE /\ limit = DefaultLimit /\ count = 0
        /\ user = FALSE /\ timer = FALSE /\ firing = FALSE
        /\ initialized = TRUE /\ started = FALSE /\ link = "off" /\ subscribed = FALSE
        /\ paused = FALSE /\ retries = 0 /\ lost = FALSE

-----------------------------------------------------------------------------
(* Putting messages into the queue.                                        *)

\* Slip: the queue grows.
Put_Unbounded(q, m) == Append(q, m)

Put(q, m) == IF Len(q) < QueueLength THEN Append(q, m) ELSE q

\* xQueueSend with a zero timeout.
Enqueue(m) == queue' = Put(queue, m) /\ lost' = (lost \/ Len(queue) >= QueueLength)

Waiting(kind) == Cardinality({i \in DOMAIN queue : queue[i] \in kind})

Command(m) == /\ Waiting(Request) < MaxRequests
              /\ Enqueue(m)
              /\ UNCHANGED <<service, firing, client, history>>

\* The timer task takes the timer that is due; stopping it does not recall the callback.
Expire == /\ timer
          /\ ~firing
          /\ timer' = FALSE
          /\ firing' = TRUE
          /\ UNCHANGED <<queue, lost, state, wifi, limit, count, user, client, history>>

PostRetry == /\ firing
             /\ firing' = FALSE
             /\ Enqueue(Message("RETRY"))
             /\ UNCHANGED <<service, client, history>>

-----------------------------------------------------------------------------
(* The client, in a task of its own, which also runs client_event_callback. *)

Report(id) == /\ Waiting(ClientEvent) < MaxEvents
              /\ Enqueue(Message(id))
              /\ UNCHANGED <<service, firing, initialized, started, history>>

ClientConnects == link = "trying" /\ link' = "up" /\ Report("CONNECTED") /\ UNCHANGED subscribed

ClientFails == Report("DISCONNECTED") /\ link = "trying" /\ UNCHANGED <<link, subscribed>>

ClientLoses == link = "up" /\ link' = "trying" /\ Report("DISCONNECTED") /\ subscribed' = FALSE

ClientReceives == Report("OTHER") /\ link = "up" /\ UNCHANGED <<link, subscribed>>

-----------------------------------------------------------------------------
(* The service task.                                                       *)

Take(id) == queue # << >> /\ Head(queue).id = id /\ UNCHANGED lost
Rest == Tail(queue)

Increment(n) == IF n < CountCap THEN n + 1 ELSE n

\* Slip: the client is destroyed and still counts as started.
Stopped_FlagKept == UNCHANGED started /\ link' = "off" /\ subscribed' = FALSE

\* mqtt_client_stop does what it should; Leave is what stopping adds to the queue.
Stopped == started' = FALSE /\ link' = "off" /\ subscribed' = FALSE
Leave == \/ queue' = Rest
         \/ link = "up" /\ queue' = Put(Rest, Message("DISCONNECTED"))

\* The client is stopped, configured anew and started.  A client that does not stop
\* keeps its configuration, so that mqtt_client_init refuses the new one.
Begin ==
  /\ count' = 0
  /\ retries' = 0
  /\ \/ /\ started
        /\ state' = "FAILED"
        /\ queue' = Rest
        /\ UNCHANGED client
     \/ /\ Leave
        /\ Stopped
        /\ state' = "FAILED"
        /\ initialized' \in BOOLEAN
     \/ /\ Leave
        /\ state' = "CONNECTING"
        /\ initialized' = TRUE /\ started' = TRUE /\ link' = "trying" /\ subscribed' = FALSE
  /\ UNCHANGED <<user, timer, firing, paused>>

\* Slip: WiFi is noted only where an attempt can begin.
WifiUp_FromIdle ==
  /\ Take("WIFI_UP")
  /\ UNCHANGED limit
  /\ IF state = "IDLE"
     THEN wifi' = TRUE /\ Begin
     ELSE queue' = Rest /\ UNCHANGED <<service, firing, client, history>>

WifiUp ==
  /\ Take("WIFI_UP")
  /\ wifi' = TRUE
  /\ UNCHANGED limit
  /\ IF state = "IDLE"
     THEN Begin
     ELSE queue' = Rest /\ UNCHANGED <<state, count, user, timer, firing, client, history>>

WifiDown ==
  /\ Take("WIFI_DOWN")
  /\ wifi' = FALSE
  /\ queue' = Rest
  /\ UNCHANGED <<state, limit, count, user, timer, firing, client, history>>

Connect ==
  /\ Take("CONNECT")
  /\ limit' = Head(queue).limit
  /\ UNCHANGED wifi
  /\ IF wifi /\ state = "IDLE"
     THEN Begin
     ELSE queue' = Rest /\ UNCHANGED <<state, count, user, timer, firing, client, history>>

\* In CONNECTING and CONNECTED the state is left to the event the client may report.
Disconnect ==
  /\ Take("DISCONNECT")
  /\ user' = TRUE
  /\ state' = IF state \in {"RECONNECT_WAIT", "FAILED"} THEN "IDLE" ELSE state
  /\ timer' = (timer /\ state # "RECONNECT_WAIT")
  /\ \/ state \in {"CONNECTING", "CONNECTED"} /\ Leave /\ Stopped /\ initialized' = FALSE
     \/ /\ state \in {"CONNECTING", "CONNECTED"} => started
        /\ queue' = Rest
        /\ UNCHANGED client
  /\ UNCHANGED <<wifi, limit, count, firing, history>>

SetConfig ==
  /\ Take("SET_CONFIG")
  /\ limit' = Head(queue).limit
  /\ queue' = Rest
  /\ UNCHANGED <<state, wifi, count, user, timer, firing, client, history>>

Ignore ==
  /\ Take("PUBLISH") \/ Take("OTHER")
  /\ queue' = Rest
  /\ UNCHANGED <<service, firing, client, history>>

\* Slip: the service's state is not asked for.
Subscribe_AnyState ==
  /\ Take("SUBSCRIBE")
  /\ queue' = Rest
  /\ subscribed' = (subscribed \/ (started /\ link = "up"))
  /\ UNCHANGED <<service, firing, initialized, started, link, history>>

\* The subscription and its end are dropped unless the service is CONNECTED, and refused
\* by a client that is not connected.
Subscribe ==
  /\ Take("SUBSCRIBE")
  /\ queue' = Rest
  /\ subscribed' = (subscribed \/ (state = "CONNECTED" /\ started /\ link = "up"))
  /\ UNCHANGED <<service, firing, initialized, started, link, history>>

Unsubscribe ==
  /\ Take("UNSUBSCRIBE")
  /\ queue' = Rest
  /\ subscribed' = (subscribed /\ state # "CONNECTED")
  /\ UNCHANGED <<service, firing, initialized, started, link, history>>

Connected ==
  /\ Take("CONNECTED")
  /\ queue' = Rest
  /\ IF state = "CONNECTING"
     THEN state' = "CONNECTED" /\ count' = 0 /\ retries' = 0
     ELSE UNCHANGED <<state, count, retries>>
  /\ UNCHANGED <<wifi, limit, user, timer, firing, client, paused>>

\* Slip: one retry too many.
Exhausted_OneMore(n) == limit > 0 /\ n > limit + 1

Exhausted(n) == limit > 0 /\ n > limit

\* Slip: a service that waits already is taken to have its timer running.
Wait_TimerAssumed == /\ state' = "RECONNECT_WAIT"
                     /\ timer' = (timer \/ state # "RECONNECT_WAIT")
                     /\ paused' = FALSE

Wait == state' = "RECONNECT_WAIT" /\ timer' = TRUE /\ paused' = FALSE

\* process_client_event for DISCONNECTED, in whatever state.
Disconnected ==
  /\ queue' = Rest
  /\ user' = FALSE
  /\ \/ /\ user \/ ~wifi
        /\ state' = "IDLE"
        /\ UNCHANGED <<count, timer, paused>>
     \/ /\ ~user /\ wifi
        /\ count' = Increment(count)
        /\ IF Exhausted(count')
           THEN state' = "FAILED" /\ UNCHANGED <<timer, paused>>
           ELSE Wait
  /\ UNCHANGED <<wifi, limit, firing, client>>

\* Slip: a failure counts only when there was a connection.
LinkLost_OnlyConnected ==
  /\ Take("DISCONNECTED")
  /\ IF state = "CONNECTED"
     THEN Disconnected
     ELSE queue' = Rest /\ UNCHANGED <<service, firing, client, paused>>
  /\ UNCHANGED retries

\* Slip: the client is not listened to while WiFi is away.
LinkLost_WithWifi ==
  /\ Take("DISCONNECTED")
  /\ IF wifi
     THEN Disconnected
     ELSE queue' = Rest /\ UNCHANGED <<service, firing, client, paused>>
  /\ UNCHANGED retries

LinkLost == Take("DISCONNECTED") /\ Disconnected /\ UNCHANGED retries

\* Slip: WiFi is not asked for.
Due_AnyWifi == state = "RECONNECT_WAIT"

\* The test at the head of process_retry.
Due == state = "RECONNECT_WAIT" /\ wifi

\* Slip: what mqtt_client_start returns is not looked at.
Retry_Unchecked ==
  /\ Take("RETRY")
  /\ Due
  /\ retries' = Increment(retries)
  /\ state' = "CONNECTING"
  /\ IF initialized
     THEN started' = TRUE /\ link' = IF started THEN link ELSE "trying"
     ELSE UNCHANGED <<started, link>>
  /\ queue' = Rest
  /\ UNCHANGED <<wifi, limit, count, user, timer, firing, initialized, subscribed, paused>>

\* process_retry.  mqtt_client_start leaves a running client alone; what it refuses is
\* processed as a disconnection.
Retry ==
  /\ Take("RETRY")
  /\ Due
  /\ retries' = Increment(retries)
  /\ \/ /\ initialized
        /\ state' = "CONNECTING"
        /\ started' = TRUE
        /\ link' = IF started THEN link ELSE "trying"
        /\ queue' = Rest
        /\ UNCHANGED <<wifi, limit, count, user, timer, firing, initialized, subscribed,
                       paused>>
     \/ ~started /\ Disconnected

\* The retry of a service that waits is dropped while WiFi is away.
RetryDropped ==
  /\ Take("RETRY")
  /\ ~Due
  /\ queue' = Rest
  /\ paused' = (paused \/ state = "RECONNECT_WAIT")
  /\ UNCHANGED <<service, firing, client, retries>>

Task == \/ WifiUp \/ WifiDown \/ Connect \/ Disconnect \/ SetConfig
        \/ Subscribe \/ Unsubscribe \/ Ignore
        \/ Connected \/ LinkLost \/ Retry \/ RetryDropped

-----------------------------------------------------------------------------

Next == \/ \E m \in Request : Command(m)
        \/ Expire \/ PostRetry
        \/ ClientConnects \/ ClientFails \/ ClientLoses \/ ClientReceives
        \/ Task

Spec == Init /\ [][Next]_vars

\* The tasks are scheduled, an armed timer expires, and a client that tries to
\* connect comes to an answer.
FairSpec == /\ Spec
            /\ WF_vars(Task) /\ WF_vars(Expire) /\ WF_vars(PostRetry)
            /\ WF_vars(ClientConnects \/ ClientFails)

-----------------------------------------------------------------------------
(* Invariants.                                                             *)

TypeOK == /\ queue \in Seq(Item)
          /\ Len(queue) <= QueueLength
          /\ state \in State /\ limit \in Limits /\ count \in 0..CountCap
          /\ wifi \in BOOLEAN /\ user \in BOOLEAN
          /\ timer \in BOOLEAN /\ firing \in BOOLEAN /\ paused \in BOOLEAN
          /\ initialized \in BOOLEAN /\ started \in BOOLEAN
          /\ link \in {"off", "trying", "up"} /\ subscribed \in BOOLEAN
          /\ retries \in 0..CountCap /\ lost \in BOOLEAN

\* The service believes in an attempt or a connection only while the abstraction holds a
\* running client, unless a user's disconnect has stopped it and is not accounted for.
BackedByClient == state \in {"CONNECTING", "CONNECTED"} => started \/ user

\* At most one client exists, and none is left running when its configuration is dropped:
\* every way through stop, init and start, the refused ones included.
OneClient == /\ started => initialized
             /\ link # "off" <=> started

\* A connection costs at most max_retry_attempts retries "after initial failure",
\* whatever limits were set on the way.
RetriesWithinLimit == 0 \in Limits \/ \E l \in Limits : retries <= l

-----------------------------------------------------------------------------
(* Action properties.                                                      *)

\* The service begins no attempt while it has been told that WiFi is away.
NoAttemptWithoutWifi ==
  [][state # "CONNECTING" /\ state' = "CONNECTING" => wifi']_vars

-----------------------------------------------------------------------------
(* Liveness.                                                               *)

\* An attempt that the client is making is answered, and the service takes notice, unless
\* a message is lost.
AttemptsEnd ==
  []~lost => (state = "CONNECTING" /\ link = "trying" ~> state # "CONNECTING" \/ user)

\* A service that waits for its next attempt is never left for good without a timer,
\* unless WiFi was away when its retry came, or a message is lost.
NeverStranded == []~lost => []<>(state = "RECONNECT_WAIT" => timer \/ paused)

\* "Track WiFi state to pause/resume reconnection" (mqtt_private.h).  The code does not
\* keep this: a report that WiFi is back acts only from IDLE, so that a service whose
\* retry was dropped stays in RECONNECT_WAIT, and so does one whose RETRY message found
\* the queue full.
Resumes == <>[]wifi => []<>(state # "RECONNECT_WAIT")

\* "Connection attempt in progress" (mqtt_private.h, MQTT_STATE_CONNECTING).  The code does
\* not keep this: a client that connects by itself while the service waits is not listened
\* to, and the retry that follows starts no attempt, so that the service stays in
\* CONNECTING although the client is connected.
AttemptInProgress == []<>(state = "CONNECTING" => link # "up")
=============================================================================
