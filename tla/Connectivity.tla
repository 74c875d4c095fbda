---------------------------- MODULE Connectivity ----------------------------
(***************************************************************************)
(* The WiFi service and the MQTT service together, as the firmware uses    *)
(* them.  The WiFi task reports the link to the MQTT service through the   *)
(* command router, whose handler puts a message into the MQTT service's    *)
(* queue: a step of both.  The other commands are those production issues: *)
(* one connect when the WiFi service is started, one subscription when the *)
(* rocket command service is, and publications at any time.                *)
(*                                                                         *)
(* The broker is reached through the station: the client connects only     *)
(* while the station has an address.  How soon it notices that it has lost *)
(* the broker is left open.                                                *)
(***************************************************************************)
EXTENDS MqttService

CONSTANTS WifiQueueLength, Configs, DefaultConfig, Word, Scale, WifiCountCap, MaxPending,
          MaxPublications   \* bound: publications that wait in the queue at a time

VARIABLES wifiQueue, wifiState, config, wifiCount, wifiUser, delay, wifiTimer, wifiFiring,
          told, wifiLink, leased, pending, wanted, tries, unlimited, wifiLost,
          boot,         \* the service whose start function is next: "wifi", "commands", "none"
          stale         \* the last report to the MQTT service was lost

W == INSTANCE WifiService
       WITH QueueLength <- WifiQueueLength, CountCap <- WifiCountCap, MaxRequests <- 1,
            queue <- wifiQueue, state <- wifiState, count <- wifiCount, user <- wifiUser,
            timer <- wifiTimer, firing <- wifiFiring, link <- wifiLink, lost <- wifiLost

\* The messages the MQTT service may be sent are not bounded apart from its queue.
ASSUME ConnectivityAssumption == /\ W!WifiAssumption
                                 /\ MaxRequests > QueueLength
                                 /\ MaxPublications \in Nat

mqttVars == vars
wifiVars == <<wifiQueue, wifiState, config, wifiCount, wifiUser, delay, wifiTimer, wifiFiring,
              told, wifiLink, leased, pending, wanted, tries, unlimited, wifiLost>>
allVars == <<mqttVars, wifiVars, boot, stale>>

AllInit == Init /\ W!Init /\ boot = "wifi" /\ stale = FALSE

-----------------------------------------------------------------------------
(* The start functions, and whoever publishes.                             *)

\* wifi_service_start; its wait for the connection has an end and leaves no trace.
StartWifi == /\ boot = "wifi"
             /\ W!Command(W!Message("CONNECT"))
             /\ boot' = "commands"
             /\ UNCHANGED <<mqttVars, stale>>

\* rocket_command_service_start.
StartCommands == /\ boot = "commands"
                 /\ Command(Message("SUBSCRIBE"))
                 /\ boot' = "none"
                 /\ UNCHANGED <<wifiVars, stale>>

Publish == /\ Waiting({Message("PUBLISH")}) < MaxPublications
           /\ Command(Message("PUBLISH"))
           /\ UNCHANGED <<wifiVars, boot, stale>>

-----------------------------------------------------------------------------
(* The WiFi service.                                                       *)

\* COMMAND_MQTT_SET_WIFI_STATE, executed in the WiFi task.
TellMqtt(id) == /\ Command(Message(id))
                /\ stale' = (Len(queue) >= QueueLength)
                /\ UNCHANGED boot

Unreported(A) == A /\ UNCHANGED <<mqttVars, boot, stale>>

GotIp == /\ W!GotIp
         /\ IF wifiState = "CONNECTED"
            THEN TellMqtt("WIFI_UP")
            ELSE UNCHANGED <<mqttVars, boot, stale>>

LinkDown == W!LinkLost /\ TellMqtt("WIFI_DOWN")

\* A refused attempt is processed as a disconnection.
WifiRetry == /\ W!Retry
             /\ IF wifiState' = "CONNECTING"
                THEN UNCHANGED <<mqttVars, boot, stale>>
                ELSE TellMqtt("WIFI_DOWN")

WifiTask == \/ Unreported(W!Connect \/ W!Connected \/ W!RetryIgnored)
            \/ GotIp \/ LinkDown \/ WifiRetry

WifiDeliver == Unreported(W!Deliver)
WifiExpire == Unreported(W!Expire)
WifiPostRetry == Unreported(W!PostRetry)
StationAnswers == Unreported(wifiLink = "connecting" /\ (W!Associate \/ W!Lose))
StationMoves == Unreported(W!Lease) \/ Unreported(wifiLink = "up" /\ W!Lose)

-----------------------------------------------------------------------------
(* The MQTT service and its client.                                        *)

Alone(A) == A /\ UNCHANGED <<wifiVars, boot, stale>>

MqttTask == Alone(Task)
MqttExpire == Alone(Expire)
MqttPostRetry == Alone(PostRetry)
BrokerAnswers == Alone(leased /\ ClientConnects) \/ Alone(ClientFails)
BrokerGone == Alone(~leased /\ ClientLoses)
BrokerMoves == Alone(leased /\ ClientLoses) \/ Alone(leased /\ ClientReceives)

-----------------------------------------------------------------------------

AllNext == \/ StartWifi \/ StartCommands \/ Publish
           \/ WifiTask \/ WifiDeliver \/ WifiExpire \/ WifiPostRetry
           \/ StationAnswers \/ StationMoves
           \/ MqttTask \/ MqttExpire \/ MqttPostRetry
           \/ BrokerAnswers \/ BrokerGone \/ BrokerMoves

AllSpec == AllInit /\ [][AllNext]_allVars

\* The MQTT task is scheduled, a client that tries to connect gets an answer, and one that
\* has lost its network notices (keepalive).
MqttFairSpec == /\ AllSpec
                /\ WF_allVars(MqttTask) /\ WF_allVars(BrokerAnswers) /\ WF_allVars(BrokerGone)

\* Besides, the start functions and every other task are scheduled, armed timers expire,
\* and the station's attempts get an answer.
AllFairSpec == /\ MqttFairSpec
               /\ WF_allVars(StartWifi) /\ WF_allVars(StartCommands)
               /\ WF_allVars(WifiTask) /\ WF_allVars(WifiDeliver)
               /\ WF_allVars(WifiExpire) /\ WF_allVars(WifiPostRetry)
               /\ WF_allVars(StationAnswers)
               /\ WF_allVars(MqttExpire) /\ WF_allVars(MqttPostRetry)

-----------------------------------------------------------------------------
(* What the rest of the firmware sees of it.                               *)

Queued(q, id) == \E i \in DOMAIN q : q[i].id = id

\* WiFi is online once that has been reported, and on the way from the command on.
WifiProgress == IF told THEN "online"
                ELSE IF wifiState \notin {"IDLE", "FAILED"} \/ Queued(wifiQueue, "CONNECT")
                     THEN "connecting"
                     ELSE "idle"

News == {up \in BOOLEAN : Queued(queue, IF up THEN "WIFI_UP" ELSE "WIFI_DOWN")}

BrokerProgress == IF state = "CONNECTING" THEN "trying"
                  ELSE IF state = "CONNECTED" THEN "connected" ELSE "idle"

Subscription == IF boot # "none" THEN "none"
                ELSE IF Queued(queue, "SUBSCRIBE") THEN "queued"
                     ELSE IF subscribed THEN "made" ELSE "over"

U == INSTANCE Uplink
       WITH wifi <- WifiProgress, news <- News, told <- wifi,
            mqtt <- BrokerProgress, subscription <- Subscription

\* The two services implement the abstract uplink, which the boot sequence is built upon:
\* no step of either, or of both, does more to it than one of its actions.
UplinkSpec == U!Spec

-----------------------------------------------------------------------------
(* Properties.                                                             *)

AllTypeOK == TypeOK /\ W!TypeOK /\ boot \in {"wifi", "commands", "none"} /\ stale \in BOOLEAN

\* What the MQTT service takes the WiFi state to be once it has handled the messages q,
\* knowing now what `known` says.
KnownAfter(q, known) ==
  \/ \E i \in DOMAIN q : /\ q[i].id = "WIFI_UP"
                         /\ \A j \in DOMAIN q : q[j].id = "WIFI_DOWN" => j < i
  \/ known /\ \A j \in DOMAIN q : q[j].id # "WIFI_DOWN"

\* The MQTT service comes to know what the WiFi service last told it, unless that very
\* report was lost; what was lost before does not matter.
ReportsArrive == ~stale => (KnownAfter(queue, wifi) <=> told)

\* An attempt on the broker begins only while WiFi is there, or while the news of its loss
\* is in the queue, or was lost.
NoBlindAttempt ==
  [][state # "CONNECTING" /\ state' = "CONNECTING" =>
       \/ wifiState = "CONNECTED"
       \/ stale
       \/ \E i \in DOMAIN queue : queue[i].id = "WIFI_DOWN"]_allVars

\* A service whose station has lost its address for good does not go on believing that it
\* is connected to the broker, unless a message is lost.
NoGhostConnection == <>[]~leased /\ []~lost => []<>(state # "CONNECTED")

\* "This service subscribes to rocket/<mac>/cmd/+ MQTT topics" (rocket_command_service.h).
\* The code does not keep this: the one subscription is dropped if the broker is not
\* connected by then, and forgotten with the session.
OrdersArrive == []~lost /\ <>[](state = "CONNECTED" /\ link = "up") => <>[]subscribed
=============================================================================
