# Verification of wyzesense2mqtt-rs

TLA+ models of the daemon in `src/`, checked with TLC on small instances, and
proofs checked with TLAPS of the properties that matter most. The models are
translated from the Rust source; documentation is quoted only where the code
does something else.

## 1. The system

The daemon connects Wyze Sense sensors to MQTT. Sensors talk by radio to
*dongles* (also called gateways); dongles are plugged in by USB or come in over
a WebSocket bridge. All of it is one tokio process.

| Component (source) | State | Operations | Talks to |
|---|---|---|---|
| **Engine** (`engine/mod.rs`), one per dongle | `cmd_lock`, `pending_requests` by response command, resend memory, `sensor_list_tx`, scan flag | `do_command_with_timeout` and the commands built on it; the reader task (`handle_packet`); auto-verify worker | transport below; raw events up; callers from every other component |
| **Local dongles** (`local_dongle.rs`) | `attached`, `failed`, `reset_tried` (supervisor); `sessions`, `reserved` | `supervise`, `run_session`, `reserve` / drop of a `Reservation` | engines map, sensor manager, roaming, firmware jobs |
| **Bridge connections** (`web/server.rs`) | one task per WebSocket | `handle_bridge_connection`, `heartbeat`, `close_bridge` | as local dongles |
| **Roaming** (`roaming/mod.rs`) | `gateways` with a copy of each table, `busy`, `owners`, the `Tracker` (links, counters, evidence) | `gateway_connected`, `gateway_disconnected`, `process`, `tick`, `handover`, `refresh_table`, `remove_sensor`, `prepare_pairing` | engines (delete/add/read table/flags), sensor manager, event stream |
| **Sensor manager** (`protocol/sensor.rs`, `config/state.rs`) | sensors, their dongle, what is on disk | `dispatch_event`, `assign_dongle`, `register_…`, `delete_and_persist_sensor`, `check_timeouts` | everybody, under one mutex |
| **Firmware jobs** (`firmware/*.rs`) | one job slot, one sensor-update slot, the downloaded release | `start_install`, `confirm`, `cancel`, `start_restore`, `start_sensor_update`, `start_relay_update` | `reserve`, engines |
| **Scanning and pairing** (`web/server.rs`, `gateway/mqtt.rs`, `roaming`) | each engine's scan flag | `toggle_scan`, the MQTT scan command, its 60 s timer, `prepare_pairing`, auto-verify | engines |
| **Keypad controller** (`gateway/keypad.rs`) | pending actions, alarm state, rejection signals | `handle`, `on_alarm_state`, `on_pin_result` | MQTT, engines |
| **MQTT gateway** (`gateway/mqtt.rs`) | connection, command queue | event loop, `handle_gateway_command`, announcements | broker, sensor manager |
| **Codecs, transports, configuration, simulators** | none over time | parsing, byte I/O | |

Interaction is by three means: the shared `EnginesMap` (a clone of an `Engine`
shares its lock and its pending requests), mutexes over plain state (never held
across an `await`), and bounded channels (raw events, events, status, commands).

What is hard about it:

* *Replies name a kind of command, not a request.* Timeouts, cancelled callers
  and resends leave replies behind that the next call may take for its own.
* *Check, await, act.* Nearly every operation reads shared state, talks to a
  dongle for up to seconds, and then writes what it concluded.
* *Two sessions of one dongle overlap* whenever it is replugged or reconnects.
* *A sensor's owner is decided by the host but kept in NVRAM of devices* that
  fail, restart and disappear between the steps of a handover.

What makes each component correct (the properties aimed at):

* Engine: callers take turns; a waiting call keeps its slot; every call ends;
  what a read returns is what the gateway held.
* Roaming: one owner per sensor, no sensor lost between two owners, the copies
  of the tables true, no two handovers of one sensor, a handover always ends.
* Local dongles: one task per node, no engine without its session, cleaning up
  leaves the successor alone, maintenance has the node to itself, a plugged-in
  dongle is served in the end.
* Report merging: an event is delivered once, replays never, new events always.
* Bridges: a dead connection is found out, the live one is served, and MQTT, the
  sensor manager and roaming agree on it.
* Firmware jobs: at most one job, on its own dongle. Scanning: at most one dongle
  scans, a scan ends, one dongle keeps the sensor. Keypad: a request gets the
  answer to itself, for the action selected.
* Sensor manager: a user's names, what was reported and what was deleted outlive
  failed saves and restarts. Availability: the broker says what the manager
  knows, a sensor that falls silent is reported, and full queues never stop it.

## 2. Plan

In order of importance. Done: 1–11, 13 and 14. Left: 12 and 15.

1. `EngineCommands` implementing `CommandService`.
2. `RoamingHandover` implementing `SensorOwnership`.
3. `LocalDongles`.
4. `ReportMerging`: counters modulo 2^w, copies, evidence.
5. `FirmwareJobs` and `SensorUpdates`, composed by `Maintenance`.
6. `SensorRegistry`: names, types and deletion against two files and restarts.
7. `Availability`: from a report to what the broker retains, over bounded queues.
8. `Scanning`: exclusivity, timers, `prepare_pairing`, auto-verify.
9. `KeypadController`, with Home Assistant as an environment.
10. `Bridges`: heartbeat, close, background `gateway_connected`.
11. `GatewayReads`: lists and tables entry by entry; `PacketFraming` below it.
12. `decide` as a pure operator on signal strengths; the owners file and a
    restart of the host in the middle of a handover.
13. Proofs of every safety invariant of 1–10 and of the safety part of both
    refinements.
14. Proofs of `ReadsTrue` and of the framing below it, for any bytes.
15. The update protocol with sensors, if `ows-host` becomes part of the source.

## 3. The modules

### EngineCommands, CommandService

`EngineCommands` has the calling tasks, the reader task, the line and the
dongle. A call (`Calls`) passes through `phase`: queued on `cmd_lock`
(`waiters`; tokio's mutex is fair), `writing`, `awaiting`, and one of five ends.
`pending` is `pending_requests`. `taken[c]` is the reply that consumed the
oneshot sender of `c`. A packet from the dongle is the call it answers; the code
can see only its key, and the model uses only `key` where the code decides.

* `Acquire` … `TimedOut` follow `do_command_with_timeout` statement by
  statement; the timer and the removal of the slot are two steps (`Expire`,
  `TimedOut`), since the reader may run in between.
* `CancelWaiting`/`CancelHolding`: the caller's future is dropped (the outer
  timeout of the handshake, an HTTP request that goes away).
* `Inspect` is `is_resend`, `HandlePacket` the first half of `handle_packet`
  (complete the pending request, then ACK); routing of events is left out.
* The dongle (`Answer`, `Resend`, `TakeAck`) is external: it re-sends async
  replies until ACKed and takes an ACK for the oldest reply of that command, as
  the comment on `is_resend` says.

`recent` is the reader's list of that name. The 300 ms of `RESEND_WINDOW` are not
timed: before each packet the reader may forget any number of the oldest replies.
Copies come every 160 ms, any of them may be lost or delayed, and the time counts
from the first one handled, so each copy after it may be late; only that *every*
copy may be late, the next one after 160 ms too, is more than the code does if
nothing is delayed. `handled` and `outlived` (a copy came when its reply was
forgotten and nobody waited) are history. A write that fails may have left the
request with the dongle or not (`WriteFailed`).

`CommandService` is the promise to callers: first come first served, one at a
time, four ways to end. `EngineCommands` refines it with liveness
(`ImplementsService`).

### RoamingHandover, SensorOwnership

The truth is `nv` (each gateway's NVRAM); the coordinator acts on `table`, its
copies. Each task takes the state lock for one step and lets it go before it
talks to a gateway, so the actions are the code between two awaits:

* `Consider` – `Start` – `Delete` – `Add` – (`Restore`) – `Finish` – `Record`,
  or `GiveUp`: `State::consider`, `do_handover`, the rest of `handover` and
  `set_owner`. `decide`'s evidence and cooldown are left open: any sensor may be
  moved to any eligible gateway at any time, with any reason (`blind` is
  `Reason::NotAcked`).
* `Connect` – `JoinRead` – `JoinStore` – (`Drop` – `DropListed` –
  `DropRecorded`)* – `Joined`, or `JoinFails`, `JoinForgets`:
  `gateway_connected`. `Disconnect`: a session's clean-up (its removal from the
  engines map and `gateway_disconnected` in one step).
* `Restarted`/`Pair` – `ReloadRead` – `ReloadStore` or `ReloadFails`:
  `check_flags`, `process` on a Paired event, `refresh_table`.
* `Unpair` – `UnpairAt`* – `Unpaired`: `unpair_sensor` and `remove_sensor`.

`move[m].back` says that the delete was confirmed: only then is the sensor in
transit and put back by `Restore`. `Command` is a command to a gateway:
acknowledged, or reported as failed and possibly carried out all the same.

The code cannot keep its promise against everything, so a history variable
`doubt` records the *first* thing that happened to a sensor that the code does
not put right (`Causes`: a delete skipped by design, a failed command that was
carried out, an undo that failed, a copy overwritten with what no longer holds,
…). The properties say that these are the *only* ways: for a sensor without
doubt, everything holds, whatever else interleaves. Each cause is set by the
action in which it happens and never consulted by a guard.

Abstractions: all gateways share one network and can roam; flags and
`auto_roam` are left out; a table is read at one instant (the code reads it
entry by entry, which `GatewayReads` has); one
`gateway_connected` and one reload per gateway at a time; duplicates are settled
in any order; the owners file and a restart of the host are not modelled.

`SensorOwnership`: a trusted sensor is held by at most one gateway, is released
before it is taken, and is taken again (a release may find it unpaired already).
`RoamingHandover` refines it.

### ReportMerging

A sensor sends `reports`, alarms (which count up) and heartbeats (which repeat
the last alarm's number), each in several copies; `Transmit` puts one more copy
on the `link` of every gateway that hears it. A link keeps its order but may
stall for as long as it likes, so the host sees any merging of the links.
`Receive` is `process` on a report: judge what is due (`settle`), count the copy
(`note_copy`), decide whether it is one (`is_duplicate`), pass it on or drop it.
`Tick` judges without a report. `seen`, `last`, `pending` and `evidence` are
`Tracker`'s; clocks are abstracted to what they order: any pending reports, the
oldest first, may be due (`settle`), and entries of `seen` expire in the order
they were made. `bursts` is a count over `recent`, hence no variable.

The sensor stops repeating a report its owner has heard after at most
`HealthyCopies` copies, one nobody answers after `AllCopies` (the comment on
`burst_copies`); nothing is assumed of how these compare with `BurstCopies`. A
key that is taken for another's (a heartbeat repeats its number) merges the two
in `pending`; `of` remembers which reports it stands for. `Turn` is what happens
a bounded number of times (`MaxTurns`): a pairing, a handover, a lapse of the
counter. `history` records when an event was repeated or dropped or the owner
blamed without reason; it is never consulted by a guard.

Left out: signal strengths and with them `decide` (a `Handover` may come any
time), several event types (their counters are apart), reports named by their
short address, and conflicts of addresses. Whether the owner is online is open.

### LocalDongles

`task[t]` is a spawned session task: `opening`, `handshake`, `loading` (sensor
list), `registering`, `joining` (`gateway_connected`), `running`, `leaving`,
`unassigning`, `reporting`, `ended`; or `unanswered` and `resetting` when the
handshake failed. The supervisor's sets are variables of the same names;
`maint[n]` is a call of `reserve` and the reservation it returns. `Unplug` fails
the transport of whoever has the node open (`lost`), which a session notices
only while `running`, as in the code. `late` is a history variable: dongles a
session registered after its transport had failed, or announced when it was no
longer registered (section 5); `SessionsTidy` and `Served` leave those out. `listed` and
`crossed` are history too: the sessions that got their sensor list (one without
has no sensors to keep), and those that were past it when an older session of
their dongle, having taken its own engine out of the map, was still to unassign
the sensors or to report the dongle offline. `SessionsTidy` asks of every other
running session that its engine, its sensors and its status are as it left them.

Left out: the MQTT status channel, which may drop a status (in `Bridges`), the
`seen` set and what it has `load_sensors` read (in `Availability`), and roaming's
reaction (in `RoamingHandover`).

### FirmwareJobs, SensorUpdates, Maintenance

`slot` is `Firmware::job`, `task[j]` where the spawned task of job `j` is
(`StepAt` gives the step its job then shows), `asking` the requests that have
passed `begin`'s checks but not yet looked into the slot: the two are separate
lock scopes, with an await before them. `update` and `fail` change whatever job
the slot holds (`Step`), as in the code; that it is always the caller's own is
`TaskOwnsSlot`, not an assumption. `cancel` drops the release under a second
lock (`CancelDrops`).

Dongles stand on nodes (`at`) and move between them; `engine[d]` is the node of
the session registered for `d`. `Attach` and `Detach` stand for the sessions of
`LocalDongles`: a session ends when its dongle is gone or its node reserved, and
none begins on a reserved node. The races inside a session are that module's.
What a job does to the dongle on its node is one step at the end of its stay
(`BackUp`, `Write`); `traced` notes whether it was the job's own dongle.

A sensor update (`update`, `worker`, `permit` of `sensor_cancel`) goes through
`run_sensor_update`: read the flags, turn the update flag on, loop, then withdraw
the offers, read the flags again and put the update flag back. Any command may
fail, and may have been carried out all the same. `flagged` is history: the flags
as they were, where commands failed, who was cancelled, and which updates met
the worker of a cancelled one.

`Maintenance` lets both run; each is started only if it does not see the other
active. `raced` notes that requests for both were past their checks at once.

Left out: downloads, images and backups (a job fails or goes on), the saved
stock backup a restore needs, the update mode a failed write leaves a dongle in,
the exchange with the sensors, and which gateway is chosen for them.

### SensorRegistry

`SensorManager`'s sensors (`kind`, `name`), `state.yaml` (`state`) and
`sensors.yaml` (`file`, `readable`), and the one operation that holds the
manager's lock (`op`, with the files it has yet to save in `op.todo`). Each save
is a step (`SaveConfig`, `SaveState`, `SaveFails`), so that a restart, an edit by
the user or a failure falls between any two; `SaveConfig` writes what the
operation read, as the code does, over whatever the user saved meanwhile. A
delete request holds the lock only for its second half (`Unpair`, then `Erase`).
`Dispatch` is the part of `dispatch_event` that registers a sensor and saves;
`ConnectLocal` is `load_sensors`, `ConnectBridge` is `assign_dongle`, which reads
no file. A name is one of the user's, one the daemon makes up without the type
(`stub`) or with it (`auto`); the prefixes `dispatch_event` looks for are
`Lookalikes`.

### Availability

The path from a dongle to the broker: the bounded `events`, `check_timeouts`
(`Sweep`) and the two channels behind it (`notices`), the event worker
(`Dispatch`, then `announce_sensor` step by step in `job[Worker]`), an announcer
task for each connect, birth or reload, `published_discovery` and its lock, the
MQTT client's bounded queue (`wire`), and the event loop, which polls that queue
and, while it passes a command on (`sending`), does not. The broker keeps the
last word of each topic and may lose all of it with its connection. The clock is
wall-clock time in steps of one timeout; a report bears the time its dongle gave
it, whose clock may be behind or ahead (`Signal`).

`Assign` and `Load` are `LocalDongles::load_sensors`, a sensor at a time: one
nobody knew is created as online; one the manager knows is loaded from
`state.yaml` once more when its dongle connects for the first time, with the
`last_seen` that was saved (an older one than the manager's if a save failed), and
is offline if that is past the timeout. No offline event is made of that;
`Mention` is the event that is only tried. The type saved is taken to be the
manager's: a save that failed at registration is `SensorRegistry`'s.

### Scanning

`task[t]` is a request (dashboard, MQTT or a pairing by hand), a request's timer
or an engine's worker; `Steps` are the code between two awaits. The check for
another scanning dongle, the command and the flag are separate steps, as they
are in `toggle_scan`; `prepare_pairing` and the dashboard's stop of the other
dongles are `Ask`, `Stop`, `Stopped`. A sensor joins once; each dongle in scan
mode may hear it, or report it without scanning. `Outcomes` of a command:
carried out and answered, carried out without an answer, not carried out.

### KeypadController

An event of a keypad is handled in a task of its own (`Send` … `Reply`):
remember the action, decide, ask Home Assistant, wait for the state, a rejection
or the time-out. `asks` and `news` are the MQTT topics in both directions; the
panel (`ha`) carries out, refuses or ignores, and changes for reasons of its own.
Which action is selected (`chosen`, what the keypad shows) and which the daemon
remembers (`pending`) are two variables; the code has only the second. `trail`
is history: which states the panel was in since the keypad asked.

### Bridges

`session[s]` is the task of the client's `s`-th connection, `link[s]` the
WebSocket (open, stuck, closed), `join[s]` the spawned `gateway_connected`. The
engines map (`engine`), the sensors' assignment (`home`), roaming's flag
(`online`) and the status (`status`, behind a queue that drops when full) are
what the sessions share. A session that is stuck finds out by `heartbeat` only;
the client has found out before and connected again.

### GatewayReads, PacketFraming

`call[t]` is one of the host's multi-step calls (handshake, sensor list, sensor
table, build information, add, delete), `lock` the engine's command lock, which
is released between their commands. `recent` is the reader's memory of resends,
`stream` is `sensor_list_tx`. A reply carries only a key; `GatewayReads` puts in
the gateway's answer as `src/`'s emulation gives it.

`PacketFraming` is the level below: `ToBytes`, `Parse` and the reader's loop over
its buffer, on real bytes, whatever bytes `Lines` has a line carry. `Turn` is one
turn of the loop, `Drained` what the whole loop makes of a buffer. `CutsTrue`: how
the line is cut into reads is immaterial. `IntactTrue`: packets that came undamaged are handed on,
each once and in order. `MCGatewayReads` composes it with the reads and gives it
lines: a packet, a damaged one (one byte changed), and two more; `FramingTrue`
adds that those behind the damage are recovered, but for the cases it names.

## 4. The runs

| Run | Instance | Shows |
|---|---|---|
| `Engine` | 3 calls, 2 keys (one call's reply is re-sent), 2 copies of a reply, a memory of any length | `WaiterKeepsSlot`, `MisdeliveryExplained`, `SilencedExplained`; `EngineCommands` implements `CommandService` with its liveness |
| `RoamingOutage` | 2 lossy gateways, one of which comes and goes, 1 mover | `TablesTrue`; under fairness `BusyEnds`; it implements `SensorOwnership`, whose fairness says that what is released is taken again |
| `RoamingUpsets` | 2 lossy gateways, 2 movers, any 2 of: restarts, pairings, unpairings | `TablesTrue`, `OneHandover` |
| `Merging` | 2 gateways, 2 reports of at most 2 copies, counters modulo 8 from 6 on, a window of 1, one pairing, handover or lapse of the counter | `InOrder`, `NoneDropped`, `EvidenceTrue` |
| `Dongles` | 1 dongle, 2 nodes, 2 tasks, maintenance on one node | `OneTaskPerNode`, `EnginesAlive`, `SessionsTidy`; `Served` |
| `Maintenance` | 2 dongles on 2 nodes, moved 3 times, 1 relay; 2 jobs or updates | `TaskOwnsSlot`, `JobAlone`, `WorkerOwnsSlot`, `FlagPutBack`, `NotBoth` |
| `Registry` | 2 sensors, 2 names (one looks generated), room for 1 event, any 4 of: connections, pairings, renames, edits, deletes, failed saves, restarts | `NamesTrue`, `ReportedKept`, `DeletedStaysGone` |
| `Availability` | 1 sensor and 1 stray, every queue of length 1, 1 tick past a timeout of 0, 1 signal, any 2 of: outages, births, commands, loads from file | `RetainedTrue`, `OfflineMeansSilent`; `SilenceReported`, `ReadersGoOn` |
| `Scans` | 2 dongles, shared or not, 2 requests, 1 lost command or reset | `FlagTrue`, `OneScanner`, `PairingTrue`; `ScanEnds` |
| `Keypad` | 2 keypads, 2 events at a time, 3 inputs | `OutcomeTrue`, `PinForSelected` |
| `Bridges` | 3 connections, dropped after 2 missed pings, 2 failures | `WatchedServed`, `ViewsTrue`; `Recovers` |
| `Reads` | the opener and 2 readers, 2 sensors, a list channel of 1, 2 attempts, 1 loss or resend; 3 packets and a damaged one of 6 noise values | `ReadsTrue`, `FramingTrue`; `CallsEnd` |

Bounds. Calls are only compared for equality and the lock lets one through at a
time: three give a holder, a predecessor that gave up and a successor in the
queue. Two copies of a reply are enough for a resend, and for one that comes too
late, since the reader may forget at any time. `MCSpec` leaves out what is the same
as something it has: of two calls that differ in nothing the first is made first;
what is on the line is left there once the reader has stopped or every call is
over; and only one call's write may fail, since to the other calls that is what a
cancel of a call whose packet was written is: the slot and the request stay. A
handover concerns two
gateways, and two movers are needed to race for the busy mark. `MaxUpsets` bounds
what starts a reload or an unpairing: two are a pairing and an unpairing, in
either order, beside a running handover; a third only repeats the first. One
sensor suffices for the roaming runs, because no action relates two sensors
except through the tables read and written as a whole, and those are compared
sensor by sensor. For the order of the stream an older and a newer report are
enough, and for the evidence the owner and one other gateway; the counter wraps
around between the two (7, 0), and `MergingAssumption` bounds the reports of a
behaviour by half the counter's range (32767 of them in the code): copies may be
delayed for as long as that, so more would make old and new ones look alike. Two nodes never have more than two
session tasks (`OneTaskPerNode`): an old session that cleans up, and its
successor. Two starts in `Maintenance` are a job and what meets it; three moves
take a dongle off its node, put the other there and the first elsewhere. Four
upsets of the registry are the longest chain its properties speak of: a
connection, a change, the failure of its save and a restart; the second sensor is
there for what one operation writes over another's file. Queues of length one
fill at once, which is the case that matters: a longer queue only delays it; the
ring of waits `ReadersGoOn` is about needs each of its queues full. Three
connections are a session that is stuck, its successor, and one more that
overtakes both; two pings are the least that distinguish missing one from being
dropped. For the reads, one loss or resend suffices to make a reply meet the wrong
command, and two sensors for an entry that moves; the noise values are those the
parser treats differently. Where a property is proved (section 6) the bounds only
limit TLC: that is every invariant of these runs but the recovery in
`FramingTrue`, for any number of everything (of reports, any below half the
counter's range), and the safety of both refinements.

`CHECK_DEADLOCK FALSE` everywhere: calls, moves and requests are finitely many,
users stop plugging, and then the system rests.

The type invariants are no run's invariant but `THEOREM`s of section 6.

Fairness. `EngineCommands`: the runtime hands the lock on, writes return, timers
fire; nothing of the dongle, line or reader. `RoamingHandover`: a task that
awaits a command goes on, since every command ends (`ImplementsService`); nothing
obliges gateways to connect or evidence to arise. `LocalDongles`: the polling
loop, the session tasks and `reserve`'s wait go on; strong fairness only for
opening a node and for a handshake of a dongle that answers, which is the
environment's part: a dongle that works does not fail each time it is tried.
`Availability`: every task goes on, tokio's mutex and channels are fair, a command
ends at its timeout, a broker that went away comes back; nothing makes sensors
report or the clock advance. `Scanning`: a command ends at its timeout and a
timer fires; nobody is obliged to turn a scan off. `Bridges`: each task goes on,
and the client, which relays the sensors' traffic, notices a dead connection
sooner or later; a session has only its pings. `GatewayReads`: the reader runs,
the lock is fair, and every wait of the code has a timeout; the gateway may never
answer. `Maintenance`, `ReportMerging`, `SensorRegistry` and `KeypadController`
state no liveness: a job waits for a user, who may never come, a report for a
gateway, and a keypad's request ends by a timer.

Conditional properties. In most modules something can happen that the code does
not put right by itself: a lost reply, two requests at the same instant, a file
the user garbled. A history variable (`doubt`, `causes`, `wrong`, `trail`, …)
records it at the action in which it happens, and is never read by a guard. The
properties say that these are the *only* ways: whatever else interleaves, what
was not touched by a cause is right. Section 5 says
where they are in the code.

## 5. What the models show of the code

Where the code does not do what its own comments or documents say:

* **A reply reaches the wrong call** (`engine/mod.rs:495`). A call that timed out,
  was cancelled or failed to write leaves its request with the dongle; the late
  reply, or a resend of an earlier one, completes the next call for the same
  response command. Lines 44-47 say that holding the lock for the full round trip
  "makes that impossible". `MisdeliveryExplained` lists the ways.
* **A stale reload revives an owner** (`roaming/mod.rs:1040`). `refresh_table`
  stores a table it read before a handover's delete, after that handover updated
  the copies. The next handover deletes the revived entry (a no-op the gateway
  confirms) and adds the sensor at a third gateway, while the real owner keeps
  it. Lines 17-19 say the delete comes first, "so two gateways never own a sensor
  at once". Cause of `doubt`.
* **A late copy silences a newer reply** (`engine/mod.rs:303-310`). The comment of
  `is_resend` (lines 281-286) says that an ACKed copy would make the dongle drop a
  newer pending reply, and that the host therefore drops copies. It does so for
  300 ms from the first copy, which a further copy does not renew: the second
  resend comes after 320 ms. If nobody waits for the key then, that copy is
  handled and ACKed, and should a new call of the same command have its reply
  pending at the dongle by the time the ACK arrives, the dongle stops sending it,
  although no call was given up. `SilencedExplained` names this (`outlived`) beside
  calls given up or misserved, and holds for nothing less.
* **A clean-up takes from the next session** (`local_dongle.rs:206-215`). Lines
  200-201: if the dongle "already reappeared", "leave its new session alone". The
  engine is looked at once, under its lock; then the sensors are unassigned and
  the offline status sent. A session that registers after that look has its
  sensors taken away and its "online" followed by an "offline", and both stay
  so until the dongle connects again (the sensors, until they report). History
  `crossed`; without it both halves of `LiveRegistered` fail.
* **A dead engine is registered** (`local_dongle.rs:183`). A session whose
  transport failed while it read the list still inserts its engine over that of
  its successor, finds it to be its own, removes it and reports the dongle
  offline, while the live session runs on unregistered. Lines 200-201: "leave its
  new session alone". History `late`.
* **A job stays in `replug`** (`firmware/mod.rs:679`). `await_replug` gives up
  after its timeout and only logs it: the job counts as active for ever, cannot be
  cancelled, and every later job and sensor update is refused until the daemon
  restarts. Lines 15-16: the job "finishes when it is back".
* **The update flag is left on** (`firmware/sensors.rs:285`). A cancelled update
  counts as over while its worker still puts the flag back; one begun in between
  takes the flag its predecessor turned on for the gateway's own. Line 4: "and
  back as it was after". `FlagPutBack` leaves updates out that met such a worker.
* **Two dongles scan** (`web/server.rs:721`): two requests that start at once both
  find no other scanning. `docs/multi_dongle_design.md:372`: "Only one dongle may
  be in scan mode at any given time". Cause "raced" of `OneScanner`.

`docs/roaming.md:69-72` says that a duplicate is removed from the newcomer; the
code lets the recorded owner keep it, as the policy section (lines 149-155) says
too. `docs/roaming.md:81-83` can be read as reloading tables every 45 s; the
code reloads only when flags were lost.

Known limits that the models contain and the properties allow for:

* An add whose reply is lost is undone only at the old owner
  (`roaming/mod.rs:1107-1113`): two gateways then hold the sensor. Cause "lost".
* `gateway_connected` marks its gateway online after several awaits (line 746)
  without looking whether it is still connected; the bridge runs it in a task of
  its own, so a gateway that has gone meanwhile stays marked online ("late join").
* Copies that arrive after their report was judged make a new `Pending`, which
  the owner has not delivered, so it is counted as missed although it was not
  (`roaming/mod.rs:228`, `262`). Verdict "late", which `EvidenceTrue` leaves out.
* `forget_counters` (line 307) leaves `seen` alone: an alarm that gets the number
  of one from before the pairing within `dedup_window` is dropped ("collided");
  and an alarm from before the pairing that arrives after it sets the counter,
  so that new alarms may be dropped until it is passed (`haunted`).
* Heartbeats that repeat one number and arrive together count as copies of one
  report, which looks like a burst ("merged").
* `reserve` waits for sessions that are listed; a task that is still opening the
  node, or resetting the dongle, goes on beside the maintenance job
  (`local_dongle.rs:129`, `151`, `280`). `SessionsTidy` says what does hold.
* A firmware job and a sensor update requested at the same moment may both start
  (`firmware/mod.rs:412`, `sensors.rs:192`; `raced`).
* When an update meets the worker of a cancelled one (`flagged.shared`), that
  worker also ends the packet subscription of the new one and may mark it done.
* A cancel that comes as the update ends leaves its permit to the next update,
  which is then cancelled at once (`sensors.rs:243`).
* `cancel` drops the release late (`mod.rs:538`): a job started and confirmed
  meanwhile loses its own and fails with "the downloaded firmware is gone".
* A dongle that is unplugged while its job is in review has no session, so the
  job writes to the node it had (`mod.rs:573`), whoever stands there now.
  `JobAlone` says that a dongle that stays where it is looked up is safe.
* A sensor paired at a second gateway before the unpairing from the first is
  through may be moved by what the first one's copy still says. Cause "paired".

Sensor manager: an unparsable `sensors.yaml` is taken for empty and written over
by the next registration or first connection of a dongle ("broken"); a rename
with such a file is refused after the memory was renamed; `assign_dongle` (a
bridge's sensors) does not look into `sensors.yaml`, so a name there is not used
until a reload ("unread"); a delete is answered with success whatever became of
the saves, and comes back if they failed ("lost"), if a report was queued ("late")
or if the dongle kept the sensor ("paired"); a name that begins like a generated
one is replaced at the next registration.

Availability: an announcement may carry an older word than one sent before it
("crossed"); an offline event may be dispatched after a newer report
("overtaken", `main.rs:348`); the event that is to announce a listed sensor is
dropped if there is no room ("dropped"), which leaves its state untold, but never
its discovery: `DiscoveryTold` excuses nothing. The first connection of a dongle
may take a sensor offline that the manager had online, because its time has come
and `check_timeouts` has not, or because the file is older (`local_dongle.rs:229`,
`sensor.rs:294`). `check_timeouts` then passes over it (`sensor.rs:1250`), so that
only the event that is tried (`local_dongle.rs:245`) can tell; if that is dropped,
nobody is told that the sensor is offline ("unsaid", the one way beside a crossed
announcement in which `SilenceReported` lets a silence go unreported).

Scanning: the 60 s timer of an earlier MQTT scan ends a later one
(`gateway/mqtt.rs:122`); a scan whose page was closed never ends ("closed"); a
join that a dongle reported before it was said to scan is still paired there if
that is said before the engine's worker looks, whoever else has the sensor
("elsewhere"). Each property excuses
its own: a flag is wrong after a lost reply, a reset or crossed commands; two
dongles scan after one of these or a race; two keep the sensor only after a race,
a join elsewhere or a pairing by hand; a pairing is not told only if a reply was
lost.

Keypad: a request that times out puts its action back over one selected later;
a remembered action survives a later press that was confirmed ("stale"); a
rejection without a keypad reaches all keypads, one with a keypad all its
requests ("others"); a PIN carried out late is rejected after the timeout;
"arming" confirms either way of arming.

Bridges: a slower older session registers after a newer one and takes the entry
away with it when it ends ("overtaken"; the connection that lives is then not
served, but the views agree on that all the same); an old session's `unassign` may fall
between the new one's `assign` and registration ("crossed"); a single failed read
leaves a gateway out of roaming until it reconnects ("no join"); a report queued
when the bridge went assigns its sensor to a dongle that is gone ("late report");
the status queue drops what does not fit ("dropped").

Reads: list items that come within 300 ms of an equal one of an earlier list are
taken for resends (`engine/mod.rs:308`), so that the list ends short and is still
returned; two list reads share `sensor_list_tx` (line 692); a table is read
entry by entry (line 815), so a delete meanwhile shifts the entries and one may be
missed; a full channel of 32 drops items; a late reply of an earlier call with the
same key misleads the next (NV reads and adds share one key); a build-information
page that is lost cuts the version short. Framing: a stray 0x55 before a magic
hides that packet; a damaged length holds back the packets behind it until enough
bytes have come; a length byte of 1 or 2 with a matching checksum would make the
parser's slice panic (`packet.rs:172`), which needs a command the protocol does
not use.

## 6. The proofs

For all values of the constants (under the named assumptions of each module).

* `EngineProofs`, on `EngineCommands`: `TypeCorrect`, `SlotSafety`.
  `WaiterKeepsSlot` alone is not inductive: another call could overwrite the slot.
  `SlotIInv` adds that a call is past `cmd_lock` exactly while it holds it
  (`LockInv`) and that a sender sits in the slot of its own key (`SlotInv`).
  `MisdeliveriesExplained`: a misdelivery is excused by what happened to *other*
  calls, so `DeliveryIInv` follows each reply from the dongle to the call it
  completes: the replies that can still meet a waiting call of their kind
  (`SentInv`), that a call waits in the queue once (`QueueInv`), that what
  completed a call was handled and of its kind (`ReplyInv`). `SilencesExplained`:
  as long as nothing went wrong with calls of a kind and no copy outlived the
  reader's memory, what the dongle has to be ACKed and what the host has handled
  are in step, the oldest first (`AckInv`); once something did, there is nothing to
  show, because the property excuses that kind. Nothing is assumed of how long the
  reader remembers. `ImplementsServiceSafely`: each action is a step of the
  first-come-first-served `CommandService` or none; `Acquire` needs that a call
  leaves the queue at its head.
* `EngineProofs`, on `Scanning`: `ScanTypeCorrect` puts each task where the
  program can have one of its kind, each request before its timer. `FlagsTrue`:
  a flag is set after its command, outside the lock, so `FlagInv` speaks of the
  flag and of what a task still has to say of it. `ScannersExclusive`: between the
  check and the flag a request only *aims* to scan; of two dongles that aim, one
  was raced (`RaceInv`). `PairingsTrue`: the sensor goes to who has a join or a
  pairing under way, hence of two dongles *after* the sensor one is excused
  (`PairInv`); that a join finds no other dongle said to scan is `RaceInv` again.
* `RoamingProofs`, on `RoamingHandover`: `RoamingTypeCorrect`,
  `HandoversExclusive`. The strengthening says that a trusted sensor that a task
  works on is marked busy; the one step that unmarks it under a running task
  (`Unpaired`) takes the trust away in the same step. `TablesStayTrue`: the copies
  disagree with the gateways throughout a handover, so `TablesIInv` says for each
  step which gateways hold the sensor (`Place`, `OnItsWay`) and, when none works on
  it, that it is held where it is listed (`AtRest`), while an unpairing or a
  reload may be half-way. `OwnershipKept` is the refinement of `SensorOwnership`:
  what is released is what `Delete` took away, and only a sensor in transit is
  taken.
* `RoamingProofs`, on `ReportMerging`: `StreamInOrder`, `StreamComplete`,
  `EvidenceStaysTrue`, for any delays. The host compares counters modulo 2^w, the
  properties compare reports. `CountsInv` ties them: a later report's counter is
  ahead by at most the reports between, an alarm's by at least one (with fewer than
  half the range of reports, by `MergingAssumption`, ahead is then never behind:
  `AheadNewer`); `LastInv` says that the last counter is that of the newest alarm
  passed on since the sensor started over, or was forgotten. For the evidence, one
  key has one pending report (`KeysInv`), what the owner delivered and nobody
  judged is pending as delivered (`HeldInv`), and copies counted and copies under
  way are together no more than were sent (`CopiesInv`). `MergeTypeCorrect`
  needs what `FoldLeft` makes of the reports judged: by `WeighingKeeps` the evidence
  stays within its window, however many there are.
* `LocalDonglesProofs`: `DonglesTypeCorrect`, `NodeExclusive`,
  `EnginesStayAlive`, `SessionsStayTidy`. `NodeIInv` ties `attached` to the running
  tasks and `sessions` to the task of its node; the engines' part needs that a
  session that is over has given its engine up or was replaced. `TidyIInv` adds
  that whatever is said of a dongle, a session is left that takes it back
  (`OnlineKept`, `AssignedKept`), and that a session whose transport works has its
  dongle on its node, so that there is one such session of a dongle. What it has
  said of its dongle stands (`InformedKept`) because an older session that still
  cleans up has made it `crossed`.
* `MaintenanceProofs`: `TypeCorrect`, `JobsExclusive`, `UpdatesExclusive`,
  `JobsAndUpdatesApart`, `JobsWorkAlone`, `FlagsRestored`. `FirmwareIInv` adds to
  `TaskOwnsSlot` that ids not yet given have no task and that only jobs on USB
  dongles come to review and writing. `UpdatesIInv` adds that a worker that met no
  other is alone, and that a cancelled one only tidies up. `Apart` extends
  `NotBoth` to requests past their checks, which is what makes the race between the
  two checks visible. `AloneIInv` adds that the one reservation is that of the task
  which works on the node, and that no session is on it from when the task goes on
  (`Holding`). `FlagKnown` says what a worker remembers of the gateway's flag, and
  what the flag is meanwhile.
* `SensorRegistryProofs`: `RegistryTypeCorrect` and all three properties of the
  registry, `NamesAreKept`, `ReportsAreKept`, `DeletedAreGone`. They say nothing
  of an operation that is under way, and nothing of the files, so none is
  inductive. `RegistryIInv` adds that what an operation is about to write agrees
  with what the user gave (`ToWrite`, `Renaming`), that what is in memory is in
  `state.yaml`, about to be, or marked as unsaved (`Recorded`, `Remembered`), and
  that a sensor being erased is out of memory, dongle and queue (`Erased`,
  `Buried`). It needs that names and made-up names differ and that sensors are
  finitely many (`RegistryAssumption`).
* `AvailabilityProofs`: `AvailabilityTypeCorrect`, `OfflineIsSilent`,
  `RetainedStaysTrue`. The strengthening for the second (`OfflineTyped`) is what an
  offline event may carry: a type the manager knows already. Otherwise dispatching
  it would register the sensor anew and reset `last_seen` of a sensor it puts
  offline. For the third the broker's last word need not be right, but the last
  one on its way must be, or a task must be about to say it, or an event to come
  (`ToldInv`); a sensor that is assigned or loaded is such news, unless its event is
  lost (`MentionNews`); and a discovery is at the broker, on the wire, or in the hands of a
  task that will not skip it (`DiscoveryInv`).
* `ConnectionProofs`, on `Bridges`: `BridgesTypeCorrect`, `WatchedAreServed`, `ViewsStayTrue`.
  `BridgesIInv` adds that a session that is not leaving has missed fewer pings than
  the limit (`Counting`) and that a connection not made has no session (`Begun`), so
  that the newest engine is the one registered last. `ViewsIInv` says of each view
  what it may be between registration and clean-up, and that a registration during
  a clean-up is a cause (`CleaningAlone`).
* `ConnectionProofs`, on `GatewayReads`: `ReadsTypeCorrect`, `ReadsStayTrue`.
  `StepIInv` says where each call can be: the lock is held only for a command of
  a call that runs, the stream is a list read's, the gateway's table has no sensor
  twice. `History` follows a call from its beginning: what the gateway kept all
  the while is in its table, and what is there was met. Each read then has its own
  invariant of what it has so far. A table (`TableInv`): exactly its first `step`
  entries, unless an entry moved or a reply misled it. The build information
  (`InfoInv`): exactly the pages before `step`, with the awaited one alone under
  way. A list (`ListInv`): what it has or has queued was met, each sensor once; and
  what the gateway kept is there or on its way, unless a cause that `ReadsTrue`
  names befell it.
* `ConnectionProofs`, on `PacketFraming`: `CutsDoNotMatter`, `IntactAreHandedOn`,
  for any bytes. A turn that need not wait is unchanged by bytes behind it
  (`TurnIs`, on `ParseMore` and what a search for the magic finds); so draining
  what was left with the new bytes is draining all at once (`DrainedMore`); and
  `Parse` undoes `ToBytes` (`RoundTrip`). The functions recurse over the bytes.
  The library's induction theorems cannot be used here (they take an operator),
  so lemma `Least`, from well-founded induction on a *set*, gives a shortest
  counterexample, and `Recursion` shows with it that a function defined by
  recursion is what its definition says (`RoamingProofs` has both for its fold).
* `KeypadControllerProofs`: `KeypadTypeCorrect`, `OutcomesTrue`,
  `PinsGoWithSelection`. `KeypadIInv` carries the truth along the topics: every
  state the daemon knows or is about to hear was the panel's since the keypad
  asked, or the request is marked "behind"; every refusal under way is noted with
  the task it refuses (`Linked`, `Explained`, `Seen`). `PinIInv`: what is
  remembered is what was selected, or a task is at work on the selection
  (`Remembering`), and two tasks of one keypad know of each other (`Overlapping`).

Only model-checked: the recovery behind a damaged packet in `FramingTrue`, which
depends on which bytes are damaged (section 5 has ids for which it fails, so it
cannot be a theorem about all of them), and everything under fairness with the
liveness halves of the two refinements (`ImplementsService`,
`ImplementsOwnership`). Liveness and ENABLED are beyond the provers.

## 7. Not modelled

* `auto_roam`, the feature flags and the signal strengths of `decide`: any sensor
  may be handed over to any eligible gateway at any time, which covers them.
* The owners file, which two tasks may write out of order
  (`roaming/mod.rs:1125`), and a stop of the daemon between a handover's delete
  and add (line 1107), after which the sensor is on no gateway: `RoamingHandover`
  has no restart of the host.
* Downloads, images, backups, the exchange with a relay over HTTP and with the
  sensors over the air (the last is the `ows-host` crate's): a job or an update
  goes on or fails.
* Values: the decoding of sensor data, MQTT payloads, discovery documents, the
  dashboard, the reading of configuration files at start-up. They have no
  behaviour over time.
* The dongles' own state topics, the task that drains events when MQTT is
  disabled, the extraction of packets from HID frames, and the capture, replay
  and simulation tools.
