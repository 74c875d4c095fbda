----------------------------- MODULE WifiService -----------------------------
(***************************************************************************)
(* The WiFi service (services/connectivity/wifi/wifi_service.c): one task  *)
(* serves a bounded queue into which the command handlers, the driver's    *)
(* event callback and the retry timer put messages, each from a task of    *)
(* its own and each without waiting, so that a message that finds the      *)
(* queue full is lost.                                                     *)
(*                                                                         *)
(* The station below (esp_wifi and its event loop, behind                  *)
(* drivers/comm/wifi/wifi_driver_abstraction.c) is modelled from how the   *)
(* service uses it: a connection attempt ends in CONNECTED or              *)
(* DISCONNECTED, a lost or a given-up connection in DISCONNECTED.          *)
(*                                                                         *)
(* The backoff is computed, but time does not pass: an armed timer may     *)
(* expire at any moment.  Credentials are left out: a call the driver      *)
(* refuses for any reason returns an error.                                *)
(***************************************************************************)
EXTENDS Integers, Sequences, FiniteSets

CONSTANTS QueueLength,    \* length given to xQueueCreate
          Configs,        \* records [limit, low, high] the service is configured with:
                          \* max_retry_attempts (0: no limit), min_ and max_retry_delay_ms
          DefaultConfig,  \* the WIFI_DEFAULT_ values
          Word,           \* 2^32, the values of a uint32_t
          Scale,          \* microseconds in a millisecond
          CountCap,       \* bound of the counters, above every limit
          MaxRequests,    \* bound: commands that wait in the queue at a time
          MaxPending      \* bound: driver events not yet delivered

ASSUME WifiAssumption == /\ QueueLength \in Nat \ {0}
                         /\ Word \in Nat \ {0} /\ Scale \in Nat \ {0}
                         /\ Configs \subseteq [limit : Nat, low : Nat, high : Nat]
                         /\ DefaultConfig \in Configs
                         /\ CountCap \in Nat /\ \A c \in Configs : c.limit + 1 < CountCap
                         /\ MaxRequests \in Nat
                         /\ MaxPending \in Nat \ {0}

VARIABLES queue,        \* s_ctx.queue
          state,        \* s_ctx.state
          config,       \* s_ctx.config
          count,        \* s_ctx.retry_count, saturating at CountCap
          user,         \* s_ctx.user_disconnect
          delay,        \* s_ctx.retry_delay_ms
          timer,        \* s_ctx.retry_timer is running
          firing,       \* its callback is under way in the timer task
          told,         \* status last given to COMMAND_MQTT_SET_WIFI_STATE
          link,         \* the station: "down", "connecting" or "up"
          leased,       \* the station holds an IP address
          pending,      \* driver events in the event loop
          wanted,       \* the last connect or disconnect command acted upon
          tries,        \* driver connects since that command or since CONNECTED
          unlimited,    \* the limit has been 0 at some time
          lost          \* some message has found the queue full

backoff == <<delay, timer>>
service == <<state, config, count, user, backoff, told>>   \* written by the service task
driver  == <<link, leased, pending>>
history == <<wanted, tries, unlimited, lost>>
vars == <<queue, service, firing, driver, history>>

State == {"IDLE", "CONNECTING", "CONNECTED", "RECONNECT_WAIT", "FAILED"}

\* COMMAND_GET_STATUS_WIFI and COMMAND_SCAN_WIFI change nothing: "QUERY".
Message(id) == [id |-> id, config |-> DefaultConfig]
Request == {Message("CONNECT"), Message("DISCONNECT"), Message("QUERY")}
             \union [id : {"SET_CONFIG"}, config : Configs]
DriverEvent == {"CONNECTED", "GOT_IP", "DISCONNECTED"}
Item == Request \union {Message(id) : id \in DriverEvent \union {"RETRY"}}

Init == /\ queue = << >>
        /\ state = "IDLE" /\ config = DefaultConfig /\ count = 0
        /\ delay = 0 /\ timer = FALSE
        /\ user = FALSE /\ firing = FALSE /\ told = FALSE
        /\ link = "down" /\ leased = FALSE /\ pending = << >>
        /\ wanted = "disconnect" /\ tries = 0
        /\ unlimited = (DefaultConfig.limit = 0) /\ lost = FALSE

-----------------------------------------------------------------------------
(* Putting messages into the queue.                                        *)

\* Slip: the queue has no length.
Offer_Unbounded(m) == /\ queue' = Append(queue, m)
                      /\ UNCHANGED history

\* xQueueSend with a zero timeout.
Offer(m) == /\ queue' = IF Len(queue) < QueueLength THEN Append(queue, m) ELSE queue
            /\ lost' = (lost \/ Len(queue) >= QueueLength)
            /\ UNCHANGED <<wanted, tries, unlimited>>

\* The command handlers; the router may run them in any task.
Command(m) == /\ Cardinality({i \in DOMAIN queue : queue[i] \in Request}) < MaxRequests
              /\ Offer(m)
              /\ UNCHANGED <<service, firing, driver>>

\* driver_event_callback, in the event loop's task.
Deliver == /\ pending # << >>
           /\ Offer(Message(Head(pending)))
           /\ pending' = Tail(pending)
           /\ UNCHANGED <<service, firing, link, leased>>

\* The timer task takes the timer that is due; stopping it does not recall the callback.
Expire == /\ timer
          /\ ~firing
          /\ timer' = FALSE
          /\ firing' = TRUE
          /\ UNCHANGED <<queue, state, config, count, user, delay, told, driver, history>>

\* reconnect_timer_callback.
PostRetry == /\ firing
             /\ firing' = FALSE
             /\ Offer(Message("RETRY"))
             /\ UNCHANGED <<service, driver>>

-----------------------------------------------------------------------------
(* The station.                                                            *)

Raise(event) == /\ Len(pending) < MaxPending
                /\ pending' = Append(pending, event)

Associate == /\ link = "connecting"
             /\ link' = "up"
             /\ Raise("CONNECTED")
             /\ UNCHANGED <<queue, service, firing, leased, history>>

Lease == /\ link = "up"
         /\ ~leased
         /\ leased' = TRUE
         /\ Raise("GOT_IP")
         /\ UNCHANGED <<queue, service, firing, link, history>>

\* The attempt fails, or the access point is lost.
Lose == /\ link # "down"
        /\ link' = "down"
        /\ leased' = FALSE
        /\ Raise("DISCONNECTED")
        /\ UNCHANGED <<queue, service, firing, history>>

\* wifi_driver_connect returned ESP_OK.
DriverConnects == /\ link' = IF link = "down" THEN "connecting" ELSE link
                  /\ UNCHANGED <<leased, pending>>

\* wifi_driver_disconnect: "The driver will generate DISCONNECTED event".
DriverDisconnects == IF link = "down"
                     THEN UNCHANGED driver
                     ELSE /\ link' = "down"
                          /\ leased' = FALSE
                          /\ pending' = Append(pending, "DISCONNECTED")

-----------------------------------------------------------------------------
(* The service task.                                                       *)

Take(id) == /\ queue # << >>
            /\ Head(queue).id = id
            /\ queue' = Tail(queue)
            /\ UNCHANGED firing

Increment(n) == IF n < CountCap THEN n + 1 ELSE n

\* A refused first attempt goes to FAILED at once, without a retry.
Connect ==
  /\ Take("CONNECT")
  /\ state \in {"IDLE", "FAILED"}
  /\ \/ state' = "CONNECTING" /\ count' = 0 /\ DriverConnects
     \/ state' = "FAILED" /\ count' = 1 /\ UNCHANGED driver
  /\ delay' = config.low
  /\ wanted' = "connect"
  /\ tries' = 1
  /\ UNCHANGED <<config, user, timer, told, unlimited, lost>>

ConnectIgnored ==
  /\ Take("CONNECT")
  /\ state \notin {"IDLE", "FAILED"}
  /\ UNCHANGED <<service, driver, history>>

\* Slips: a waiting service goes on waiting; the service does not wait for the driver.
AfterDisconnect_Waiting(s) == IF s = "FAILED" THEN "IDLE" ELSE s
AfterDisconnect_AtOnce(s) == "IDLE"

AfterDisconnect(s) == IF s \in {"RECONNECT_WAIT", "FAILED"} THEN "IDLE" ELSE s

Disconnect ==
  /\ Take("DISCONNECT")
  /\ user' = TRUE
  /\ state' = AfterDisconnect(state)
  /\ timer' = (timer /\ state # "RECONNECT_WAIT")
  /\ IF state \in {"CONNECTING", "CONNECTED"} THEN DriverDisconnects ELSE UNCHANGED driver
  /\ wanted' = "disconnect"
  /\ UNCHANGED <<config, count, delay, told, tries, unlimited, lost>>

SetConfig ==
  /\ Take("SET_CONFIG")
  /\ config' = Head(queue).config
  /\ unlimited' = (unlimited \/ config'.limit = 0)
  /\ UNCHANGED <<state, count, user, backoff, told, driver, wanted, tries, lost>>

Query ==
  /\ Take("QUERY")
  /\ UNCHANGED <<service, driver, history>>

Connected ==
  /\ Take("CONNECTED")
  /\ IF state = "CONNECTING"
     THEN state' = "CONNECTED" /\ count' = 0 /\ delay' = config.low /\ tries' = 0
     ELSE UNCHANGED <<state, count, delay, tries>>
  /\ UNCHANGED <<config, user, timer, told, driver, wanted, unlimited, lost>>

\* Slip: the address is reported whatever the state.
GotIp_AnyState ==
  /\ Take("GOT_IP")
  /\ told' = TRUE
  /\ UNCHANGED <<state, config, count, user, backoff, driver, history>>

GotIp ==
  /\ Take("GOT_IP")
  /\ told' = (told \/ state = "CONNECTED")
  /\ UNCHANGED <<state, config, count, user, backoff, driver, history>>

\* Slips: only a lost connection counts as a failure; one attempt too many.
Failures_OnlyLosses(from) == IF from = "CONNECTED" THEN Increment(count) ELSE count
Exhausted_OneMore(n) == config.limit > 0 /\ n > config.limit + 1

Failures(from) == IF from \in {"CONNECTING", "CONNECTED", "RECONNECT_WAIT"}
                  THEN Increment(count)
                  ELSE count

\* "Check max attempts (0 = infinite)"
Exhausted(n) == config.limit > 0 /\ n > config.limit

\* Slip: the delay doubles without end.
Longer_Uncapped(d) == (2 * d) % Word

\* The delay after d, in 32 bits.
Longer(d) == IF (2 * d) % Word > config.high THEN config.high ELSE (2 * d) % Word

\* The timer is started with a product of 32 bits too.
Period == (delay * Scale) % Word

\* start_reconnect_timer.
StartTimer == timer' = TRUE /\ delay' = Longer(delay)

\* process_driver_event for DISCONNECTED, the state being `from`; attempts is the
\* number of driver connects made by then.
Disconnected(from, attempts) ==
  /\ told' = FALSE
  /\ tries' = attempts
  /\ user' = FALSE
  /\ IF user
     THEN state' = "IDLE" /\ UNCHANGED <<count, backoff>>
     ELSE /\ count' = Failures(from)
          /\ IF Exhausted(count')
             THEN state' = "FAILED" /\ UNCHANGED backoff
             ELSE state' = "RECONNECT_WAIT" /\ StartTimer
  /\ UNCHANGED <<config, driver, wanted, unlimited, lost>>

LinkLost == Take("DISCONNECTED") /\ Disconnected(state, tries)

\* process_retry; a refused connect is processed as a disconnection, in CONNECTING.
Retry ==
  /\ Take("RETRY")
  /\ state = "RECONNECT_WAIT"
  /\ \/ /\ state' = "CONNECTING"
        /\ DriverConnects
        /\ tries' = Increment(tries)
        /\ UNCHANGED <<config, count, user, backoff, told, wanted, unlimited, lost>>
     \/ Disconnected("CONNECTING", Increment(tries))

RetryIgnored ==
  /\ Take("RETRY")
  /\ state # "RECONNECT_WAIT"
  /\ UNCHANGED <<service, driver, history>>

Task == \/ Connect \/ ConnectIgnored \/ Disconnect \/ SetConfig \/ Query
        \/ Connected \/ GotIp \/ LinkLost \/ Retry \/ RetryIgnored

-----------------------------------------------------------------------------

Next == \/ \E m \in Request : Command(m)
        \/ Deliver \/ Expire \/ PostRetry
        \/ Associate \/ Lease \/ Lose
        \/ Task

Spec == Init /\ [][Next]_vars

\* The tasks are scheduled, an armed timer expires, an attempt gets an answer.
FairSpec == /\ Spec
            /\ WF_vars(Task) /\ WF_vars(Deliver) /\ WF_vars(Expire) /\ WF_vars(PostRetry)
            /\ WF_vars(link = "connecting" /\ (Associate \/ Lose))

-----------------------------------------------------------------------------
(* Invariants.                                                             *)

TypeOK == /\ queue \in Seq(Item)
          /\ Len(queue) <= QueueLength
          /\ state \in State /\ config \in Configs /\ count \in 0..CountCap
          /\ delay \in Nat /\ timer \in BOOLEAN
          /\ user \in BOOLEAN /\ firing \in BOOLEAN /\ told \in BOOLEAN
          /\ link \in {"down", "connecting", "up"} /\ leased \in BOOLEAN
          /\ pending \in Seq(DriverEvent)
          /\ wanted \in {"connect", "disconnect"} /\ tries \in 0..CountCap
          /\ unlimited \in BOOLEAN /\ lost \in BOOLEAN

\* The MQTT service is told that WiFi is there only while this service is CONNECTED:
\* every way out of CONNECTED takes the report back, a user's disconnect included.
ToldOnlyConnected == told => state = "CONNECTED"

\* One outage costs the first attempt and at most max_retry_attempts further ones,
\* "after initial failure", whatever limits were set on the way and whatever got lost,
\* as long as it is never told to go on without limit.
TriesWithinLimit == unlimited \/ \E c \in Configs : tries <= 1 + c.limit

\* Once every message has been handled and none was lost, the service's state is that of
\* the station, and what the MQTT service has been told is whether there is an address.
AgreesWithStation ==
  queue = << >> /\ pending = << >> /\ ~lost =>
    /\ state = "CONNECTED"  <=> link = "up"
    /\ state = "CONNECTING" <=> link = "connecting"
    /\ told <=> leased

\* "True if disconnect was commanded by user" (wifi_private.h).  The code does not keep
\* this: a disconnect command that no driver event follows leaves the flag set, and a
\* later connect command does not clear it.
FlagMeansDisconnect == user => wanted = "disconnect"

-----------------------------------------------------------------------------
(* Action properties.                                                      *)

\* After a user's disconnect the service makes no attempt of its own until the next
\* connect command, whatever retries and driver events were under way.
NoAttemptAfterDisconnect ==
  [][wanted = "disconnect" /\ wanted' = "disconnect" => tries' <= tries]_vars

\* 32 bits hold the delays, in microseconds and doubled.
Fits(c) == \A d \in {c.low, c.high} : d * Scale < Word /\ 2 * d < Word

\* The timer is never started with less or with more than the configurations ask for, also
\* when a new one comes in the middle of an outage or has its bounds the wrong way round,
\* as long as 32 bits hold the delays.
BackoffWithinBounds ==
  [][(\A c \in Configs : Fits(c)) /\ ~timer /\ timer' =>
       /\ \E c \in Configs : Period >= c.low * Scale \/ Period >= c.high * Scale
       /\ \E c \in Configs : Period <= c.low * Scale \/ Period <= c.high * Scale]_vars

-----------------------------------------------------------------------------
(* Liveness.                                                               *)

\* With a limit on the retries every attempt comes to an end, unless a message is lost.
Settles == []~lost /\ []~unlimited =>
             (state \in {"CONNECTING", "RECONNECT_WAIT"}
                ~> state \in {"CONNECTED", "IDLE", "FAILED"})

\* A service that waits for its next attempt is never left for good without a timer
\* that will bring it about, unless a message is lost.
NeverStranded == []~lost => []<>(state = "RECONNECT_WAIT" => timer)
=============================================================================
