# A TLA+ model of the rocket avionics firmware

This directory holds TLA+ models of the firmware in `src/` (C for ESP-IDF, FreeRTOS, two
cores), the TLC configurations that check them, and theorems about them checked by TLAPS.
Paths below are relative to `src/components/`, unless they begin with `main/` or `tests/`.

## 1. The system

The firmware is a set of *services* around a small *core*. Services own hardware and
connections; they tell the core what happened by posting **events**, and the core tells
services what to do by executing **commands** through a router. No service changes the
system state; no part of the core touches hardware.

```
   services, ISRs ──post──▶ event queue ──▶ dispatcher task ──▶ state manager
        ▲                                                        │  context, table, state
        └────────── command handlers ◀── command router ◀────────┘
```

### Inventory

| component | source | state it keeps | operations | hard behaviour | what makes it correct |
|---|---|---|---|---|---|
| event dispatcher | `core/src/event_dispatcher.c` | queue, `s_started` | init, start, post, post from ISR, task | bounded queue, many producers, the task posts to itself | order kept; only overflow loses an event |
| state manager | `core/src/state_manager.c` | transition table (constant) | process_event, batch execution | batch runs before the state is stored; failing commands | phases in order; parachute once; abort final |
| system context, conditions, state | `core/src/system_context.c`, `conditions.c`, `system_state.c` | latest readings, fault word, state | update, three conditions in use, set | conditions read the context and not the event | a decision rests on valid, current readings |
| command router | `core/src/command_router.c` | handler table, lock | register, lock, execute | re-entrant execution; no handler | locked before use; missing handler is harmless |
| rocket command service | `services/communication/rocket_command_services/` | topic | handle a ground message, subscribe | executes a command inside a command | a message causes the command it names |
| ignition relay service | `services/actuation/ignition_relay_service/` | pin, `s_relay_active`, timer | enable, disable, timer callback | handler and callback on two cores, no lock | an energised relay is always switched off |
| WiFi service and driver | `services/connectivity/wifi/`, `drivers/comm/wifi/` | queue, state machine, retry count, `user_disconnect`, timer | five commands, driver events, retry | three producers, lost messages, stale retries | follows the station, bounded attempts, nobody stranded |
| MQTT service and client | `services/connectivity/mqtt/`, `drivers/comm/mqtt/` | queue, state machine, WiFi flag, subscriptions at the broker | seven commands, client events, retry | depends on WiFi reports, client reconnects by itself | comes back after WiFi comes back |
| service manager, boot | `services/common/service_manager.c`, `main/main.c` | phase | init, register, start of every service | order of services, failure in a phase, posts before the dispatcher starts | never runs half wired |
| load cell service and driver | `services/sensing/loadcell_service/`, `drivers/sensors/loadcell_driver/` | task handle, filter, offset, scale | start, stop, tare, calibrate, sampling task | command and task clock the same chip | one reader at a time |
| discovery, logging | `services/communication/rocket_discovery_service/`, `services/logging/` | periodic timer; none | publish | publishes while MQTT may be away | - |
| MPU, camera, timer, telemetry services, relay driver | `services/...`, `drivers/...` | own tasks | sampling | not in the service table, or no rule reads their events | - |
| placeholders | parachute, gimbal, control, estimation, fault, power, barometer, GPS, ... | - | empty files at this commit | their commands have no handler | - |

Interaction. Ground messages arrive as `EVENT_NETWORK_MESSAGE_RECEIVED`, which no rule of
the table matches; the state manager hands them to `COMMAND_PROCESS_ROCKET_COMMAND`, whose
handler executes the command the message names, all in the dispatcher task. The ignition
handler posts `EVENT_ENGINE_IGNITED` back into the queue of the task it runs in. The WiFi
service executes `COMMAND_MQTT_SET_WIFI_STATE`, which puts a message in the MQTT service's
queue. At boot, `app_main` initialises the router and the dispatcher, runs the three phases
over the service table, locks the router after registration, and starts the dispatcher last.

At this commit nothing in production posts the events the flight rules wait for (tick,
altitude, velocity, acceleration, sensor failure); only the on-target tests in `tests/` do.
The core is modelled for the producers its interface allows.

## 2. Modules

| module | models | kind |
|---|---|---|
| `FlightTable` | commands, events, context update, the conditions, the transition table, ground messages | constant operators |
| `FlightCore` | dispatcher queue and task, transition engine, router | state machine |
| `Mission` | what the core promises of a flight | abstract specification |
| `MCFlightCore` | a small instance of `FlightCore` | model |
| `FlightCoreProofs` | theorems about `FlightCore` | proofs |
| `IgnitionRelay` | handler and timer callback, access by access | state machine |
| `IgnitionRelayProofs` | theorems about `IgnitionRelay` | proofs |
| `WifiService` | WiFi service, with the station behind it | state machine |
| `MCWifiService` | a small instance of `WifiService` | model |
| `WifiServiceProofs` | theorems about the service: its types, reports, attempts and backoff | proofs |
| `WifiStationProofs` | that service and station agree, and that a waiting service has something to wait for | proofs |
| `MqttService` | MQTT service and client abstraction, with the client behind them | state machine |
| `MqttServiceProofs` | theorems about `MqttService` | proofs |
| `Uplink` | what the two connectivity services promise the rest of the firmware | abstract specification |
| `Connectivity` | both of them together, with the commands production gives them | composition |
| `MCConnectivity` | a small instance of `Connectivity` | model |
| `ConnectivityProofs` | theorems about `Connectivity` | proofs |
| `Loadcell` | load cell service on the HX711 driver, edge by edge | state machine |
| `LoadcellProofs` | theorems about `Loadcell` | proofs |
| `Boot` | service manager, registration and lock of the router, `app_main`, and the tasks that already run | state machine |
| `BootProofs` | theorems about `Boot` | proofs |

### FlightTable and FlightCore

A float is represented by the class it falls in with respect to the thresholds
of `conditions.c`, together with its validity flag; the context is the last reading of each
kind and whether a fault bit is set. `Table` is `g_transition_table`, rule by rule, and
`FirstMatch` the scan of it. `Absorb` is `system_context_update`.

`FlightCore` splits the handling of one event where a post can come in between. `Receive` is
the queue's receive, the context update, the state read and the scan (no other task touches
context or state, so nobody can tell these apart); `Execute`, `Forward` and `Ignite` each run
one command of the batch; `Finish` stores the next state. `hand`, `todo` and `next` are the
local variables of `state_manager_process_event` and `execute_command_batch`. A handler that
fails and one that is missing are treated alike by the code (a warning), so they are the same
step. Two variables record history for the properties: `commanded` (what the executed
commands have told the vehicle to run), `deploys` (how often a *rule* executed
`COMMAND_DEPLOY_PARACHUTE`). A ground message may also name that command, in any
state; the code allows it, and the model does, without counting it as the flight logic's.

### Mission

Phases in order and never back, the parachute fired once, in ascent and before descent is
entered, an accepted sensor failure ends the mission in ERROR. `FlightCore!M` maps the system
state to the phase, `deploys` to the parachute, and "a failure is in the queue or in hand" to
`failing`.

### IgnitionRelay

Every access of the two tasks to the pin, to `s_relay_active` and to the timer is a step of its
own, since the tasks are on different cores and hold no lock. An `esp_timer` that the timer
task has taken for dispatch is disarmed, and `esp_timer_stop` does not recall its callback.

### WifiService

One action for each command, driver event and retry message that the service task processes, one
for each producer (`Command`, `Deliver`, `Expire` and `PostRetry`), and the station (`Associate`, `Lease`,
`Lose`) as far as the service relies on it: an attempt is answered by CONNECTED or
DISCONNECTED, a given-up or lost connection by one DISCONNECTED. This part is external
(`esp_wifi`), modelled from the driver abstraction's calls and the comment at
`wifi_service.c:335`. Producers put messages in the queue with a zero timeout, so a message
that finds the queue full is lost, and so it is in the model. `wanted` and `tries` record
history: the last command acted upon and the driver connects since; `lost` says that some
message has found the queue full. `Period` is the timer's period as the code computes it: clamped,
the delay doubled for the next time (`Longer`), the product with 1000 in 32 bits. The word and
the factor are constants (`Word`, `Scale`), so that a run can use small ones. Time does not pass:
an armed timer may expire at any moment. Left out: credentials, IP data, and the events emitted to
the core (the core has no rule for them).

### MqttService

Built like `WifiService`: one action for each message the task processes, one for each producer
(`Command`, `Expire`, `PostRetry`, and the client's four reports, which go straight into the
queue), and the abstraction's `initialized` and `started`. `Begin` is what a connect command and
a WiFi report have in common: `mqtt_client_stop`, `mqtt_client_init`, `mqtt_client_start`, each of
which may refuse. A retry only starts the client, and `mqtt_client_start` leaves a started
one alone. The client (`esp_mqtt`) is external and modelled from how the abstraction uses it: once
started it tries by itself, again after each failure (the abstraction does not disable that);
what `esp_mqtt_client_stop` reports about a connection it closes is left open, since the code does
not depend on one answer in every state. `subscribed` is the broker's side of a clean session: a
subscription is made if the service is CONNECTED when it handles the request and the client is
connected, and goes with the connection. `paused`, `retries` and `lost` record history. Left out:
the delay's length, topics (there is one), payloads, credentials, the events emitted to the core.
Publishing goes to the client and changes nothing here.

### Connectivity

`EXTENDS MqttService` and instantiates `WifiService` as `W`, each with its own queue. The only step of both
is the report: where the WiFi task executes `COMMAND_MQTT_SET_WIFI_STATE` (a lease, a
disconnection, a refused retry) `TellMqtt` puts a message in the MQTT service's queue, in the same
step, since the router calls the handler. What else may put commands there is what production
does: `StartWifi` (one connect), then `StartCommands` (one subscription), and `Publish` at any time.
`wifi_service_start` waits for the connection with a timeout, so `StartCommands` may come before
or after it. The broker is reached only with a lease (`leased`); how long the client takes to
notice that it has lost the broker is left open. `stale` says that the last report found the
queue full.

### Uplink

How far WiFi is up (`wifi`), what the MQTT service has been and will be told of it (`told`,
`news`), how far the broker is reached (`mqtt`) and what has become of the one subscription. Queues,
timers, retries and clients are gone: an attempt may end in any way, any report may be lost. It is used
twice. `Connectivity!U` instantiates it with a refinement mapping (`WifiProgress`, `News`,
`BrokerProgress`, `Subscription`) and is shown to implement it, by TLC on the small instance and by TLAPS for
all of them. `Boot!U` instantiates it as it is: WiFi and MQTT during the start sequence *are* the
uplink's actions, so that what is proved of `Boot` rests on what the services have been shown to do.
What this needs is that the abstraction leaves out no step the services can make: that news is kept
apart from knowledge (the MQTT task handles a report later than the WiFi task sends it), that a
subscription may be over while the service is still connected, and that an attempt may begin on old news.

### Loadcell

Two tasks clock one chip: the sampling task, and whoever executes commands (`app_main` until
`loadcell_service_start` returns, then the dispatcher), here the `Commander`. `Read` is
`read_hx711_raw` in either of them, a step for each edge of the clock line; `attempt` and `pulse` are its
local variables, and the data line shows any level whenever it is looked at. `Store`,
`Advance`, `Count`, `Average` are the statements of `update_filter`; `StopFlag` and
`Delete` are the two writes of the stop command, between which the task may see the flag and
leave by itself. The stop then deletes a task that is gone: undefined, and here either
without effect (`DeleteFreed`) or a panic (`Reboot`). Handles come from a set (`Tasks`), so that
two sampling tasks could exist. `written` and `cut` record history: the slots that have been given a
sample, and that a deletion has left a pulse unfinished. At this commit nothing in production
executes START and STOP again after the service's start; they are modelled as the interface offers them.

### Boot

The service table is `Order`, the commands its services register are `Handles`. `InitService`,
`RegisterService` and the four start actions are one call of `execute_phase` each, for the
service the phase has come to (`next`); `Lock` and `StartDispatcher` are the two steps of
`app_main` that follow the second and the third phase. Any call that depends on hardware or
memory may fail, and then `Fail` ends the sequence where it is. Between any two of these steps
the tasks and timers created so far run: the WiFi task gets a lease or loses the link and tells
the MQTT service (`WifiReports`), the MQTT task connects, which it posts to the event queue (`MqttConnects`),
and handles the queued subscription, timers and sampling tasks publish, a ground message is posted, the
dispatcher takes an event. Whatever executes commands does it through `ExecuteAll`, which records those the
router refuses (`unserved`). The dispatcher executes, for a ground message, PROCESS_ROCKET_COMMAND and from inside its
handler what `FlightTable!Translate` makes of the request (`DispatchOrder`; an ignition may be
announced to the queue), and for the other two events that this firmware posts and a rule is about, MQTT_CONNECTED
and ENGINE_IGNITED, the rule's batch (`DispatchNotice`). All commands of one event are one step: handlers and
lock no longer change once the dispatcher runs. WiFi, MQTT and the broker are the actions of `Uplink`: `WifiReports`,
`WifiRefused`, `MqttConnects` and `Mqtt` let them happen in the tasks that run them, and a report that the router
refuses brings no news.
A ground message may come while the subscription is made, and late, after it is over.

## 3. Runs

| run | question | bounds, and why they are enough |
|---|---|---|
| `flight_core` | Does the core keep its promises under every interleaving of posts with the steps of a rule? | Queue of two: order, a full queue, and a self-post into a full queue occur. Inputs: each kind of event, each class a condition looks for, an invalid reading as zero and as a sinking rate. All flight phases and the abort from each are reached. |
| `ignition_relay` | Is a relay that is on always going to be switched off? | None: the state space is finite. |
| `ignition_disable` | Does a disable request turn the relay off, as the file's header says? | None. Violated, see below. |
| `wifi` | Does the service follow the station, end every attempt, and keep its backoff within bounds? | Queue of three, with two commands and two driver events waiting at a time: it fills and loses commands, driver events and retries, and in other behaviours nothing is lost. Two configurations, changed at any moment: no limit with the bounds the wrong way round, and a limit of two with a delay that doubles and is capped. A word of 16 and a factor of 4 hold these delays, as 32 bits hold the firmware's. |
| `wifi_stale_flag` | Does `user_disconnect` mean what its comment says? | As `wifi`, with a queue of seven, which never fills: the loss of a message is not needed for the counterexample. Violated, see below. |
| `mqtt` | Does the service take notice of every attempt, keep a timer for the next one, and one client? | Queue of three, with one command and two client events waiting at a time, so that reports, retries and commands are lost in some behaviours and none in others. A limit of two: a first failure, a retry, and the last one. The client refuses to stop, be configured or start at any time. |
| `mqtt_resume` | Is reconnection resumed when WiFi comes back, as the header says? | Queue of seven, which never fills, and one limit. Violated, see below. |
| `mqtt_in_progress` | Is an attempt in progress in CONNECTING, as the header says? | As `mqtt_resume`. Violated, see below. |
| `connectivity` | Does the MQTT service act on what WiFi last reported, through a queue that others fill? | Two queues of two, one publication waiting at a time beside subscription, reports and client events: reports are delayed and lost. MQTT without a limit, so that it never gives up and every report meets a service that still acts; WiFi with a limit of one, so that it does give up. |
| `orders_lost` | Does the rocket command service stay subscribed, as its header says? | As `connectivity`. Violated, see below. |
| `loadcell` | What do a second task on the same lines and a deletion at any point leave behind? | Window of three (the first sample, a partly filled and a full buffer, the index wrapping), reads of two pulses (one inside, and the last), two attempts, two handles. |
| `boot` | What may whoever runs during and after the start sequence rely on, wherever it fails? | None: the state space is finite. The table is the firmware's own, with its eight services. |

What the passing runs check:

- `ParachuteOnce`, `CommandsMatchState`, `FaultMeansError`, `DecisionOnCurrentData`,
  `AbortIsFinal`: see the comments in `FlightCore`. `MissionSpec` is the refinement, with
  liveness: a sensor failure that got into the queue reaches ERROR.
- `EnableIsTimed`: after an enable, a relay that is on has a running timer or a callback on the
  way. `NoTimerAfterDisable`, and `AutoShutOff`: the relay goes off and stays off when requests
  stop coming after an enable.
- `ToldOnlyConnected`: the MQTT service is told "WiFi is there" only while the WiFi service is
  CONNECTED. `TriesWithinLimit`: an outage costs at most one attempt more than the limit.
  `NoAttemptAfterDisconnect`: no attempt of the service's own after a user's disconnect.
- `AgreesWithStation`, `Settles`, `NeverStranded`: as long as no message is lost, the
  service's state agrees with the station's whenever all messages are handled, and the MQTT service
  has then been told of an address exactly if there is one; with a retry
  limit every attempt ends; a waiting service has a timer again and again.
  They do not survive the loss of a DISCONNECTED or a RETRY message in a full queue:
  nothing repeats them. In production the queue holds ten and one connect command is issued.
- `BackoffWithinBounds`: the timer is started with a period between the smallest and the largest delay of
  the configurations, doubling, clamping and a change of configuration in the middle of an outage
  included, as long as 32 bits hold the delays in microseconds (up to 4294967 ms; the code does
  not check this).
- `OneClient`: through every stop, configuration and start, refused or not, at most one client
  runs and none without its configuration. `BackedByClient`: CONNECTING and CONNECTED have a
  running client, or a user's disconnect that no event has accounted for. `RetriesWithinLimit`:
  a connection costs at most `max_retry_attempts` retries, although the client's own failures
  count too. `NoAttemptWithoutWifi`: no attempt begins while WiFi is known to be away.
- `AttemptsEnd`: an attempt the client is making ends and the service takes notice.
  `MqttService!NeverStranded`: a waiting service has a timer again and again, unless its retry
  was dropped for want of WiFi. Both as long as no message is lost.
- `ReportsArrive`: once the MQTT service has handled its queue, it takes WiFi for what it was last
  told, unless that very report found the queue full; earlier losses do not matter.
  `NoBlindAttempt`: it begins an attempt only with WiFi there, or while the news of its loss is in
  the queue or lost. `NoGhostConnection`: a service whose station has lost its address for good does not
  go on believing that it is connected. This is not obvious: a CONNECTED event of a client that has
  been stopped meanwhile is accepted as the answer to the next attempt.
- `UplinkSpec`: whatever the two services do, alone or together, is a step of the abstract `Uplink` or
  a stutter.
- `AverageOverSamples`: the average is over at least one slot and over none without a sample.
  `OneSampler`: no two tasks sample, and none after a stop. `ClockRests`: the clock line is left
  high, which switches the chip off, only by a deletion in the middle of a pulse; the run reaches
  this, and nothing lowers the line before a read finds the chip ready. `ReadsEnd`: such a chip costs
  the dispatcher task its five attempts and not more.
- `ReadyMeansWired`: a running dispatcher finds every handler, the lock, every task and timer.
  `NothingUnserved`: a command that some service of the table handles is never refused, whoever executes
  it: start functions, tasks and timers that run during the start sequence, the dispatcher, and the rocket command
  handler from inside the dispatcher's step. Only commands that no service handles are. The reason is not in the router but in the order of the table and in what
  each service does when: the WiFi task exists before any handler does, but reports
  nothing before its start function has executed the connect command.
  `NoStaleOrder`: an order from the ground that arrived before the vehicle was ready is not
  carried out later.

Deadlock is checked in every run but those of `Boot` and `Loadcell`: after a failure `app_main` has
returned, and a system in which no task has been created yet stands still.

### Fairness

`FlightCore!FairSpec`: the dispatcher task alone, weakly fair. Its handlers return without
waiting, it has the highest priority of the application's tasks on its core, and posts are
*not* assumed to come. `IgnitionRelay!FairSpec`: both tasks run, and
an armed timer expires. `WifiService!FairSpec`: the service task, the event loop and the timer
task run, and an attempt under way is answered by the station (CONNECTED or DISCONNECTED, no
matter which). `MqttService!FairSpec`: the service task and the timer task run, and a client that
tries to connect comes to an answer. `Connectivity!MqttFairSpec`, for `NoGhostConnection`: the MQTT task runs,
a connecting client gets an answer, and one without a network notices (MQTT's keepalive).
`Connectivity!AllFairSpec`, for `orders_lost`: besides, the start functions, the other tasks and timers run and
the station answers, so that the counterexample is no matter of a task that does not run.
`Loadcell!FairSpec`: both tasks run. Commands, leases and losses are never assumed.

### Divergences the runs show

- `ignition_disable`: `ignition_relay_service.c:11` says a disable request turns the relay
  off. The handler looks at `s_relay_active` first (line 75), and a callback dispatched for an
  earlier ignition can clear that flag after a later enable has driven the pin. The disable
  request then cancels the timer and leaves the relay on.
- `wifi_stale_flag`: `wifi_private.h:124` says `user_disconnect` is true if a disconnect was
  commanded by the user. It outlives a disconnect that no driver event follows, and the next
  connect command does not clear it: the next outage is taken for the user's.
- `mqtt_resume`: `mqtt_private.h:135` says the WiFi flag serves to pause and resume reconnection.
  A retry that comes while WiFi is away is dropped and starts no timer
  (`mqtt_service.c:525`), and the report that WiFi is back acts only from IDLE (line 406): the
  service stays in RECONNECT_WAIT.
- `mqtt_in_progress`: `mqtt_private.h:96` says of CONNECTING that an attempt is in progress. A
  client that has reconnected by itself while the service was waiting is not listened to
  (`mqtt_service.c:457`); the retry then sets CONNECTING and starts nothing, and
  no event ends it. The service drops all traffic while the client is connected.
- `orders_lost`: `rocket_command_service.h:8` says the service subscribes to the ground's commands. It
  asks once (`rocket_command_service.c:200`), and the MQTT service drops the request unless it is CONNECTED
  (`mqtt_service.c:382`); the session is clean and nothing asks again. If the broker is not
  connected by then, or a connection is made again later, the vehicle is connected for good, no
  message was lost, and no order reaches it.

### What the code leaves open

The models contain the following, and the properties above except it where they would not hold otherwise:

- A ground message executes its command from inside the handler of another, although `command_router.h:70` tells
  handlers not to: a deployment of the parachute among them, in whatever state the vehicle is. The flight logic's
  properties are about the rules' commands.
- Commands that no service handles are executed all the same: DEPLOY_PARACHUTE, EXPLODE, UPDATE_CONFIG and
  SET_TELEMETRY_RATE for the ground, and NOTIFY_MQTT_CONNECTED, with which the table wants to "notify discovery
  service on MQTT connect" (`state_manager.c:360`). The router refuses them with a warning.
- A RETRY message that finds the queue full is gone (`wifi_service.c:482`, `mqtt_service.c:520`), the timer has run
  out, and the service stays in RECONNECT_WAIT.
- A user's disconnect in CONNECTED stops the client and leaves the state to an event (`mqtt_service.c:345`) that the
  stopped client need not report. Nobody commands one in production, and without one `ClientBehindState` holds.
- Between the two writes of a stop the sampling task may leave by itself, and freed memory is deleted
  (`loadcell_service.c:174-177`). A deletion may leave the clock high; the source does not say what it should leave.
- A calibration clocks the chip between two bits of the sampling task's read, and each gets some of the bits. The
  values read are not modelled.

## 4. Proofs

TLAPS checks the theorems for every value of the constants: every queue length,
every set of registered handlers and of posted events, every set of retry limits.

**`FlightCoreProofs`.** From `CoreAssumption` (the queue holds at least one event, handlers are
commands, inputs are events). The invariants speak of the state between rules; what makes them
inductive is what holds in the middle of a rule. `IInv` says, besides types: between events
nothing is pending (`Settled`); only a network message is forwarded (`GroundOnly`); the rule
under way was selected in the state it starts from and for its event (`RuleUnderWay`);
DEPLOY_PARACHUTE is pending only as the first command towards DESCENT, with the parachute not
yet fired (`DeployPending`); how often it has been fired, by phase (`DeployCount`); a fault bit
is set from the absorption of a failure on (`FaultRecorded`); a decision was taken on a context
that holds the event it was taken on (`DecisionTaken`). Lemma `RuleFacts` gives the table's
rules one by one, `Received` what a scan selects, and there is one lemma per action. From
`IInv`: `TypeCorrect`, `ParachuteDeployedOnce`, `FaultsReachError`, `DecisionsAreCurrent`,
`AbortsAreFinal`, and `ImplementsMission`, the safety part of the refinement.
`CommandsFollowState` needs a second invariant `CInv`: while a rule's batch is being executed,
the commands done and those pending add up to what the rule's target requires.

**`IgnitionRelayProofs`** (no assumption: the module has no constants). `EnableIsTimed`
is inductive given types: every step that leaves the handler idle after an enable has just started
the timer. `NoTimerAfterDisable` speaks of an idle handler only; `NoTimerPastCancel` extends it to
the handler on its way there: once a disable has cancelled the timer, it stays cancelled. From them: `TypeCorrect`, `EnabledRelayIsTimed`,
`DisableCancelsTimer`.

**`WifiServiceProofs`.** From `WifiAssumption` (a queue of at least one, limits below the cap of
the counters). The heart is `OneReport`: each attempt and each connection ends in one
DISCONNECTED, so there is at most one on its way, and only while the service is CONNECTING or
CONNECTED. Hence a lost link is always one the service was engaged in, which gives
`AttemptsCounted` (attempts against counted failures, state by state) and `DisconnectPending`
(after a user's disconnect the service does not wait for a retry). From it: `TypeCorrect`,
`ReportsAreTakenBack`, `AttemptsAreBounded`, `DisconnectIsObeyed`. `BackoffIsBounded` needs a second
invariant, `DelayKept`: the delay that is kept lies between the configurations' bounds whenever it may
still be used, and scaling keeps the order.

**`WifiStationProofs`.** `ServiceAgrees` says that an empty queue means agreement. To get there the
invariant must say what the messages on their way mean, which is `SInv`: `Ordered` (a connection is
announced before its address, and both before its end, in the queue and the event loop taken as one
row), `NoFalseAnnouncement` (no announcement without a connection and an engaged service), and
`Accounted`: unless a message was lost, every difference between service and station, and between the
address and the report of it, has its message in the row. The proof has a lemma for each thing that can
happen to the row (`OfferRow`, `TakeRow` and `TakeOrder`, `DeliverRow`, `RaiseRow`), stated for any two
events, and then one for each action.
`RetryIsUnderway` and `AnswerIsUnderway` are what the liveness properties rest on and the prover can
reach: unless a message was lost, a service in RECONNECT_WAIT has a timer, a callback or a RETRY message,
and one in CONNECTING has a station that tries or its answer in the row. The first is inductive, the
second follows from `Accounted`.

**`MqttServiceProofs`.** From `MqttAssumption`, of the same kind. `OneClient` and `BackedByClient`
are inductive given types; `RetriesCounted` says that each retry follows a failure already counted
and that the service waits only while the count is within a limit that was in force. It is needed
because DISCONNECTED is processed in every state, and limits change at any time. From it:
`TypeCorrect`, `NoClientIsLost`, `StateIsBacked`, `RetriesAreBounded`; `WifiComesFirst` needs no
invariant. `RetryIsUnderway` is the WiFi service's theorem for this one, with the exception the code makes:
the retry may have been dropped for want of WiFi (`mqtt_resume` shows what follows).

**`BootProofs`.** From `OneHandlerEach` (no two services handle one command; TLC evaluates it on the
table). `IInv` adds to the properties what each phase has completed by the service it has come
to (`Progress`: tasks created, handlers registered, lock set) and `ActiveIsWired`: WiFi leaves
"idle", and a sampling task or the discovery timer exists, only when handlers and lock are in
place. `Executed` says that a wired system refuses no command that is handled; `Orders` and `Batches` say that
what the dispatcher executes are commands. One lemma for each action of `app_main`; the tasks beside it, and the
dispatcher (`DispatcherInv`), disturb neither `Progress` nor `ActiveIsWired`, which `BesideInv` says once for all of
them. From it: `TypeCorrect`, `DispatcherComesLast`, `EveryCommandIsServed`, `OldOrdersAreVoid`.

**`ConnectivityProofs`.** From `ConnectivityAssumption` (that of both services; the queue alone bounds the MQTT
service's messages). `KnownAppended` and `KnownTaken` say what a message changes at the end and
at the head of a row; with them `ReportsArrive` is inductive given types (`CInv`), the WiFi
service's steps and the MQTT service's each in a lemma. From it `ReportsReachMqtt` and
`AttemptsAreInformed`. `ImplementsWifi` and `ImplementsMqtt` say that the composition is an implementation of each
service's own specification. The proofs about the WiFi service are instantiated too (`P`): `WifiSteps`
carries a step of the composition over to them, and `AllInv` puts the services' own invariants, those
of the station and `CInv` together. Hence `AllTypeCorrect`, and `MqttKnowsStation`: two queues and an event loop
lie between the station and the MQTT service, and once they are empty the service takes WiFi to be there
exactly if the station holds an address, unless a message to the WiFi service or the last report was lost.
`ImplementsUplink` needs one more invariant, `UInv`: the subscription is asked for once
(`Once`: one SUBSCRIBE in the queue at most, and nothing subscribed while it is there or not yet sent) and WiFi rests
until it is told to connect (`Unstarted`: before the start function there is neither attempt nor report). Its
steps are then taken one kind at a time: what a step does to the news (`News`), to the subscription, to
the progress of WiFi and of the broker.
`ClientBehindState` is what `NoGhostConnection` rests on: a service that is CONNECTING or CONNECTED has a client
that runs and is trying or up. It follows from `BackedByClient` and `OneClient` once no user's disconnect is in the
queue or in force (`Undisturbed`), and nothing in production commands one.

**`LoadcellProofs`.** From `LoadcellAssumption` (positive window, pulses and attempts; handles are neither null nor
the commander's). `Tracked` ties flag, handle and task together: whoever samples is the task the
handle names, and either the flag is set or the stop is under way. `Filled` describes a filter that may have
been left anywhere: the buffer is full, or filled as far as the index, and the count never runs
ahead of it. `Counted` keeps the reads' counters in range. From them: `TypeCorrect`, `AveragesAreOfSamples`,
`OneTaskSamples`, `ClockIsReleased`. `ReadsAreBounded` is the part of `ReadsEnd` that needs no fairness: a read
has at most `Attempts + 2 * Pulses` steps to go (`StepsLeft`, from `Counted`), and no step of either task makes
them more; one that moves the read makes them fewer.

What only TLC checks: liveness (`MissionSpec`'s fairness part, `AutoShutOff`, `Settles`,
both `NeverStranded`, `AttemptsEnd`, `NoGhostConnection`, `ReadsEnd`), which is out of the prover's
reach, and the refutations. Every invariant and every safety action property of a passing run has its theorem.

## 5. Not modelled

Most of the repository's lines are vendored drivers (`managed_components/`: camera sensors, USB
video, the ESP video stack). They are not the program's own, and are left out. Of the
program's own code these parts are left out:

- Formatting and parsing: `mqtt_topic.c`, JSON payloads, logging. They keep no state.
- Register-level I/O of the MPU and camera drivers, and the MPU's sampling task, which owns its state and
  posts events no rule of the table reads. Numbers that no decision reads (orientation, GPS, battery,
  timestamps, the measured force with its offset and scale) are left out of the states.
- Services that are not in the service table or are not compiled: timer, camera, telemetry, the relay
  driver. The placeholders are empty files: commands for them have no handler, which is modelled.
- Functions nothing calls in this build: the services' stop functions, `loadcell_driver_delete`.
- Time. Timers may expire at any moment after they are armed; the rates of sampling and
  publishing, the HX711's reset after a long pulse, and how long a command may hold the
  dispatcher task (a calibration: five times 60 ms) are not properties here.
- The age of the readings a flight decision rests on besides the one just absorbed. They are valid;
  the source does not say how old they may be.
- The age of a published force: while reads fail the last one is published again
  (`loadcell_service.c:135`). Nothing in the source says how old it may be.

What is left to do, should the code grow: the handlers of the placeholder services as actions of
`FlightCore` in place of commands without effect, once they exist.
