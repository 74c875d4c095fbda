-------------------------------- MODULE Uplink --------------------------------
(***************************************************************************)
(* What the WiFi service (wifi_service.c) and the MQTT service             *)
(* (mqtt_service.c) together promise the rest of the firmware: how far     *)
(* WiFi is up, what the MQTT service has been told of it, how far the      *)
(* broker is reached, and what has become of the one subscription to       *)
(* ground commands.                                                        *)
(*                                                                         *)
(* The services' queues, timers, retries and clients are left out: an      *)
(* attempt may end in any way at any time, and any message may be lost.    *)
(* Connectivity is shown to implement this module, and Boot uses it.       *)
(***************************************************************************)

VARIABLES wifi,         \* the WiFi service: "idle", "connecting" or "online"
          news,         \* reports of WiFi (up or not) on their way to the MQTT service
          told,         \* the MQTT service has been told that WiFi is there
          mqtt,         \* the MQTT service: "idle", "trying" or "connected" to the broker
          subscription  \* to ground commands: "none", "queued", "made", or "over": dropped,
                        \* or gone with the session that it was made in

broker == <<mqtt, subscription>>
vars == <<wifi, news, told, broker>>

Init == /\ wifi = "idle" /\ news = {} /\ told = FALSE
        /\ mqtt = "idle" /\ subscription = "none"

-----------------------------------------------------------------------------
(* The WiFi service.                                                       *)

Connect == wifi = "idle" /\ wifi' = "connecting" /\ UNCHANGED <<news, told, broker>>

\* The report finds room in the MQTT service's queue, or is lost.
Report(up) == news' \in {news, news \union {up}} /\ UNCHANGED <<told, broker>>

Online == wifi # "idle" /\ wifi' = "online" /\ Report(TRUE)

\* A lost link, or an attempt that failed, is tried again or given up.
Offline == wifi # "idle" /\ wifi' \in {"idle", "connecting"} /\ Report(FALSE)

\* The driver refuses the first attempt, which is given up without a report.
Refused == wifi = "connecting" /\ wifi' = "idle" /\ UNCHANGED <<news, told, broker>>

-----------------------------------------------------------------------------
(* The MQTT service.                                                       *)

\* The broker forgets the subscription with the session.
SessionKept == subscription' = subscription
SessionOver == subscription = "made" /\ subscription' = "over"

\* The news that WiFi is there begins an attempt, or fails to.
Hear == \E up \in news :
          /\ told' = up
          /\ news' \in {news, news \ {up}}
          /\ mqtt' = mqtt \/ (up /\ mqtt = "idle" /\ mqtt' = "trying")
          /\ SessionKept \/ SessionOver
          /\ UNCHANGED wifi

\* A retry begins only while WiFi is known to be there, though it may have gone.
Try == /\ told /\ mqtt = "idle" /\ mqtt' = "trying"
       /\ SessionKept \/ SessionOver
       /\ UNCHANGED <<wifi, news, told>>

Reach == mqtt = "trying" /\ mqtt' = "connected" /\ UNCHANGED <<wifi, news, told, subscription>>

\* The service waits, or gives up.
Leave == mqtt # "idle" /\ mqtt' = "idle" /\ UNCHANGED <<wifi, news, told, subscription>>

\* The one subscription finds room in the queue, or is lost.
Queue == /\ subscription = "none"
         /\ subscription' \in {"queued", "over"}
         /\ UNCHANGED <<wifi, news, told, mqtt>>

\* A subscription that finds no connection is dropped, and nobody repeats it.
Subscribe == /\ subscription = "queued"
             /\ subscription' \in {"over"} \union (IF mqtt = "connected" THEN {"made"} ELSE {})
             /\ UNCHANGED <<wifi, news, told, mqtt>>

\* The client loses the broker, which the service may learn of later.
Forget == SessionOver /\ UNCHANGED <<wifi, news, told, mqtt>>

-----------------------------------------------------------------------------

Next == \/ Connect \/ Online \/ Offline \/ Refused
        \/ Hear \/ Try \/ Reach \/ Leave
        \/ Queue \/ Subscribe \/ Forget

Spec == Init /\ [][Next]_vars

TypeOK == /\ wifi \in {"idle", "connecting", "online"}
          /\ news \subseteq BOOLEAN /\ told \in BOOLEAN
          /\ mqtt \in {"idle", "trying", "connected"}
          /\ subscription \in {"none", "queued", "made", "over"}
=============================================================================
