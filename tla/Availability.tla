----------------------------- MODULE Availability -----------------------------
(***************************************************************************)
(* What Home Assistant is told of a sensor, from the report to the topics  *)
(* the broker retains: the bounded event channel, the availability monitor *)
(* (src/src/config/monitor.rs, src/src/main.rs), dispatch_event            *)
(* (src/src/protocol/sensor.rs), and the tasks of the MQTT gateway         *)
(* (src/src/gateway/mqtt.rs): the event worker, the announcers spawned on  *)
(* a connect, an HA birth or a reload, and the event loop that both moves  *)
(* what is published and takes in commands.                                *)
(***************************************************************************)
EXTENDS Naturals, Sequences, FiniteSets, SequencesExt

CONSTANTS
    Sensors,      \* the sensors' MACs
    Stray,        \* what names no sensor (is_valid_mac), such as the zero MAC
    Nobody,       \* no task holds the lock, no sensor is announced
    Timeout,      \* timeout_sec, in steps of the clock
    EventCap,     \* capacity of the event channel
    WireCap,      \* capacity of the MQTT client's request channel
    CommandCap,   \* capacity of the gateway command channel
    MaxTime,      \* bound: the clock
    MaxSignals,   \* bound: events the dongles send
    MaxUpsets     \* bound: connections lost, births, commands, loads from file

ASSUME AvailabilityAssumption ==
    /\ IsFiniteSet(Sensors) /\ Nobody \notin Nat \cup Sensors /\ Stray \notin Sensors
    /\ EventCap \in Nat \ {0} /\ WireCap \in Nat \ {0} /\ CommandCap \in Nat \ {0}
    /\ Timeout \in Nat /\ MaxTime \in Nat /\ MaxUpsets \in Nat

VARIABLES
    now,        \* the wall clock
    kind,       \* kind[m]: whether the manager knows sensor m, and its type
    online,     \* online[m]: is_online
    seen,       \* seen[m]: last_seen
    events,     \* the event channel
    notices,    \* sensors found silent, on their way to the event channel
    job,        \* job[t]: what an announcing task is doing
    lock,       \* the task that holds published_discovery
    published,  \* published_discovery: sensors whose discovery was sent
    wire,       \* requests queued in the MQTT client
    connected,  \* the connection to the broker is up
    config,     \* discovery configs the broker retains
    retained,   \* retained[m]: the availability the broker retains for m
    sending,    \* the event loop waits for room in the command channel
    commands,   \* commands in that channel
    spent,      \* how much of each bound is used up
    causes      \* history: what went wrong for a sensor (Causes)

managerVars == <<kind, online, seen>>
brokerVars == <<connected, config, retained>>
loopVars == <<sending, commands>>
taskVars == <<job, lock, published, wire>>
vars == <<now, managerVars, events, notices, taskVars, brokerVars, loopVars, spent, causes>>

\* The task that takes events off the channel, and those that announce every
\* sensor, at most one for each upset.
Worker == 0
Announcers == 1 .. MaxUpsets
Tasks == Announcers \cup {Worker}
Known == {m \in Sensors : kind[m] # "absent"}
Idle == [at |-> "idle", todo |-> {}, mac |-> Nobody, told |-> "none", force |-> FALSE]
Words == {"online", "offline"}
Say(up) == IF up THEN "online" ELSE "offline"
Announcing == {"locking", "discovering", "telling"}

\* An announcement crossed by a newer one; an offline event that came after a
\* newer report; the event of a listed sensor dropped at a full channel, and
\* that of one loaded as offline.
Causes == {"crossed", "overtaken", "dropped", "unsaid"}
Bounds == {"signals", "upsets"}
Times == 0 .. MaxTime

\* What a dongle passes on: telemetry, something it cannot read, a join.
Signals == [what : {"report", "scan"}, typed : {TRUE}] \cup [what : {"odd"}, typed : BOOLEAN]
Events == [mac : Sensors \cup {Stray}, what : {"report", "odd", "scan", "offline"}, typed : BOOLEAN, at : Nat]

TypeOK ==
    /\ now \in Nat
    /\ kind \in [Sensors -> {"absent", "untyped", "typed"}]
    /\ online \in [Sensors -> BOOLEAN]
    /\ seen \in [Sensors -> Nat]
    /\ events \in Seq(Events)
    /\ notices \in Seq(Sensors)
    /\ job \in [Tasks -> [at : {"idle", "listing", "next"} \cup Announcing, todo : SUBSET Sensors,
                          mac : Sensors \cup {Nobody}, told : Words \cup {"none"}, force : BOOLEAN]]
    /\ lock \in Tasks \cup {Nobody}
    /\ published \in SUBSET Sensors
    /\ wire \in Seq([mac : Sensors, what : Words \cup {"config"}])
    /\ connected \in BOOLEAN
    /\ config \in SUBSET Sensors
    /\ retained \in [Sensors -> Words \cup {"none"}]
    /\ sending \in {"no", "command", "reload"}
    /\ commands \in Nat
    /\ spent \in [Bounds -> Nat]
    /\ causes \in [Sensors -> SUBSET Causes]

\* The gateway has connected and announced what it knew.
Init ==
    /\ now = 0
    /\ kind \in [Sensors -> {"absent", "untyped", "typed"}]
    /\ online = [m \in Sensors |-> kind[m] # "absent"]
    /\ seen = [m \in Sensors |-> 0]
    /\ events = <<>>
    /\ notices = <<>>
    /\ job = [t \in Tasks |-> Idle]
    /\ lock = Nobody
    /\ config = {m \in Sensors : kind[m] = "typed"}
    /\ published = config
    /\ wire = <<>>
    /\ connected = TRUE
    /\ retained = [m \in Sensors |-> IF online[m] THEN "online" ELSE "none"]
    /\ sending = "no"
    /\ commands = 0
    /\ spent = [b \in Bounds |-> 0]
    /\ causes = [m \in Sensors |-> {}]

Spend(bound, max) == spent[bound] < max /\ spent' = [spent EXCEPT ![bound] = @ + 1]

-------------------------------------------------------------------------------
(* Reports, the clock and the availability monitor. *)

Tick ==
    /\ now < MaxTime
    /\ now' = now + 1
    /\ UNCHANGED <<managerVars, events, notices, taskVars, brokerVars, loopVars, spent, causes>>

Event(m, what, typed, at) == [mac |-> m, what |-> what, typed |-> typed, at |-> at]
RoomForEvent == Len(events) < EventCap

\* A dongle's reader passes an event on, waiting while the channel is full.  It
\* bears the time the dongle gave it, whose clock may be off either way
\* (of what cannot be read, the time is not used).
Signal(m, s, at) ==
    /\ s.what = "odd" => at = now
    /\ Spend("signals", MaxSignals)
    /\ RoomForEvent
    /\ events' = Append(events, Event(m, s.what, s.typed, at))
    /\ UNCHANGED <<now, managerVars, notices, taskVars, brokerVars, loopVars, causes>>

\* The event that is to announce a sensor a dongle lists is sent only if there
\* is room (try_send); `lost` is what its loss leaves untold.
Mention(m, lost) ==
    IF RoomForEvent
       THEN events' = Append(events, Event(m, "odd", kind'[m] = "typed", now)) /\ UNCHANGED causes
       ELSE causes' = [causes EXCEPT ![m] = @ \cup lost] /\ UNCHANGED events

\* A dongle that connects lists a sensor nobody knew.
Assign(m) ==
    /\ kind[m] = "absent"
    /\ kind' = [kind EXCEPT ![m] = "untyped"]
    /\ online' = [online EXCEPT ![m] = TRUE]
    /\ seen' = [seen EXCEPT ![m] = now]
    /\ Mention(m, {"dropped"})
    /\ UNCHANGED <<now, notices, taskVars, brokerVars, loopVars, spent>>

\* The first time a dongle connects, what it lists is loaded from state.yaml
\* although the manager knows it: as it was last saved, which is older than
\* what the manager had if a save failed (its type is taken to be the same, as
\* it was saved on its registration).  It may go offline by that, unannounced.
Load(m, saved) ==
    /\ m \in Known /\ saved <= seen[m]
    /\ Spend("upsets", MaxUpsets)
    /\ seen' = [seen EXCEPT ![m] = saved]
    /\ online' = [online EXCEPT ![m] = now <= saved + Timeout]
    /\ UNCHANGED kind
    /\ Mention(m, IF online'[m] = online[m] THEN {} ELSE IF online[m] THEN {"unsaid"} ELSE {"dropped"})
    /\ UNCHANGED <<now, notices, taskVars, brokerVars, loopVars>>

Silent(m) == m \in Known /\ now > seen[m] + Timeout

\* Mutation of Overdue: a sensor is overdue at its timeout, not after it.
OverdueEarly(m) == m \in Known /\ online[m] /\ now >= seen[m] + Timeout

Overdue(m) == online[m] /\ Silent(m)

\* check_timeouts: sensors silent for too long go offline, and each is passed
\* on (monitor, offline channel and forwarding task are one queue, `notices`).
Sweep ==
    LET gone == {m \in Sensors : Overdue(m)}
    IN /\ gone # {}
       /\ online' = [m \in Sensors |-> online[m] /\ m \notin gone]
       /\ \E q \in SetToSeqs(gone) : notices' = notices \o q
       /\ UNCHANGED <<now, kind, seen, events, taskVars, brokerVars, loopVars, spent, causes>>

Notice(m) == Event(m, "offline", kind[m] = "typed", now)

\* Mutation of Forward: an offline event is dropped at a full channel.
ForwardTry ==
    /\ notices # <<>>
    /\ events' = IF RoomForEvent THEN Append(events, Notice(Head(notices))) ELSE events
    /\ notices' = Tail(notices)
    /\ UNCHANGED <<now, managerVars, taskVars, brokerVars, loopVars, spent, causes>>

Forward ==
    /\ notices # <<>>
    /\ RoomForEvent
    /\ events' = Append(events, Notice(Head(notices)))
    /\ notices' = Tail(notices)
    /\ UNCHANGED <<now, managerVars, taskVars, brokerVars, loopVars, spent, causes>>

-------------------------------------------------------------------------------
(* The event worker. *)

\* dispatch_event ignores joins and timeouts of a sensor it does not know.
Ignored(e) == e.mac \notin Known /\ e.what \in {"scan", "offline"}

\* register_and_persist_sensor, for a sensor that is new or gets its type.
Registers(e) == \/ e.mac \notin Known /\ ~Ignored(e)
                \/ kind[e.mac] = "untyped" /\ e.typed

\* is_online once the event was dispatched.
OnlineAfter(e) ==
    CASE Ignored(e) -> online[e.mac]
      [] e.what = "offline" /\ ~Ignored(e) -> FALSE
      [] e.what = "odd" -> Registers(e) \/ online[e.mac]
      [] OTHER -> TRUE

SeenAfter(e) ==
    IF e.what \in {"report", "scan"} /\ ~Ignored(e) THEN e.at
    ELSE IF Registers(e) THEN now
    ELSE seen[e.mac]

\* Mutation of Word: the worker tells what the event says, not the manager.
WordOfEvent(e) == Say(e.what # "offline")

\* What the worker announces: the manager's word, or its own if that is none.
Word(e) == Say(IF Ignored(e) THEN e.what # "offline" ELSE OnlineAfter(e))

\* Somebody else is about to announce the opposite.
Crossed(m, word) ==
    \E t \in Announcers : job[t].at \in Announcing /\ job[t].mac = m /\ job[t].told # word

\* An event that names no sensor is dropped.
Skip ==
    /\ job[Worker].at = "idle"
    /\ events # <<>> /\ Head(events).mac = Stray
    /\ events' = Tail(events)
    /\ UNCHANGED <<now, managerVars, notices, taskVars, brokerVars, loopVars, spent, causes>>

Dispatch ==
    /\ job[Worker].at = "idle"
    /\ events # <<>> /\ Head(events).mac # Stray
    /\ LET e == Head(events)
           m == e.mac
       IN /\ kind' = IF Registers(e)
                        THEN [kind EXCEPT ![m] = IF e.typed THEN "typed" ELSE "untyped"]
                        ELSE kind
          /\ online' = [online EXCEPT ![m] = OnlineAfter(e)]
          /\ seen' = [seen EXCEPT ![m] = SeenAfter(e)]
          /\ job' = [job EXCEPT ![Worker] =
                        [Idle EXCEPT !.at = "locking", !.mac = m, !.told = Word(e)]]
          /\ causes' = [causes EXCEPT ![m] =
                           @ \cup (IF Crossed(m, Word(e)) THEN {"crossed"} ELSE {})
                             \cup (IF e.what = "offline" /\ online[m] THEN {"overtaken"} ELSE {})]
    /\ events' = Tail(events)
    /\ UNCHANGED <<now, notices, lock, published, wire, brokerVars, loopVars, spent>>

-------------------------------------------------------------------------------
(* announce_sensor, in the worker and in the announcers. *)

RoomOnWire == Len(wire) < WireCap
Put(m, what) == wire' = Append(wire, [mac |-> m, what |-> what])
Move(t, at) == job' = [job EXCEPT ![t].at = at]

\* The next sensor, or the end; the worker waits for the next event.
Onward(t, left) ==
    job' = [job EXCEPT ![t] = IF left = {} THEN Idle ELSE [@ EXCEPT !.at = "next", !.todo = left]]

\* An announcer copies the list of sensors ...
List(t) ==
    /\ job[t].at = "listing"
    /\ Onward(t, Known)
    /\ UNCHANGED <<now, managerVars, events, notices, lock, published, wire,
                   brokerVars, loopVars, spent, causes>>

\* ... and looks each up before it announces it.
LookUp(t) ==
    /\ job[t].at = "next"
    /\ \E m \in job[t].todo :
          job' = [job EXCEPT ![t].at = "locking", ![t].todo = @ \ {m}, ![t].mac = m,
                             ![t].told = Say(m \in Known /\ online[m])]
    /\ UNCHANGED <<now, managerVars, events, notices, lock, published, wire,
                   brokerVars, loopVars, spent, causes>>

\* It takes the lock on the set; a sensor is discovered first, if its type is
\* known (get_discovery_payloads yields nothing before).
Lock(t) ==
    LET m == job[t].mac
        sent == IF job[t].force THEN published \ {m} ELSE published
    IN /\ job[t].at = "locking"
       /\ lock = Nobody
       /\ IF m \notin sent /\ kind[m] = "typed"
             THEN lock' = t /\ Move(t, "discovering")
             ELSE UNCHANGED lock /\ Move(t, "telling")
       /\ published' = sent
       /\ UNCHANGED <<now, managerVars, events, notices, wire, brokerVars, loopVars, spent, causes>>

\* The discovery is queued with the lock held, which is released half a second
\* later.
Discover(t) ==
    /\ job[t].at = "discovering"
    /\ RoomOnWire
    /\ Put(job[t].mac, "config")
    /\ published' = published \cup {job[t].mac}
    /\ lock' = Nobody
    /\ Move(t, "telling")
    /\ UNCHANGED <<now, managerVars, events, notices, brokerVars, loopVars, spent, causes>>

\* The availability looked up before is queued (and the state, read now).
Tell(t) ==
    /\ job[t].at = "telling"
    /\ RoomOnWire
    /\ Put(job[t].mac, job[t].told)
    /\ Onward(t, job[t].todo)
    /\ UNCHANGED <<now, managerVars, events, notices, lock, published,
                   brokerVars, loopVars, spent, causes>>

-------------------------------------------------------------------------------
(* The event loop, the broker, Home Assistant and the command task. *)

Polling == sending = "no"

Deliver ==
    /\ connected /\ Polling
    /\ wire # <<>>
    /\ LET p == Head(wire)
       IN IF p.what = "config"
             THEN config' = config \cup {p.mac} /\ UNCHANGED retained
             ELSE retained' = [retained EXCEPT ![p.mac] = p.what] /\ UNCHANGED config
    /\ wire' = Tail(wire)
    /\ UNCHANGED <<now, managerVars, events, notices, job, lock, published, connected,
                   loopVars, spent, causes>>

\* The connection drops; a broker that restarts may have lost what it retained.
Outage(forgets) ==
    /\ connected
    /\ Spend("upsets", MaxUpsets)
    /\ connected' = FALSE
    /\ config' = IF forgets THEN {} ELSE config
    /\ retained' = IF forgets THEN [m \in Sensors |-> "none"] ELSE retained
    /\ UNCHANGED <<now, managerVars, events, notices, taskVars, loopVars, causes>>

Spawn(forced) ==
    LET idle == {t \in Announcers : job[t] = Idle}
    IN \E t \in idle :
          /\ \A u \in idle : t <= u
          /\ job' = [job EXCEPT ![t] = [Idle EXCEPT !.at = "listing", !.force = forced]]

\* ConnAck: everything is announced anew.
Connect ==
    /\ ~connected /\ Polling
    /\ connected' = TRUE
    /\ Spawn(TRUE)
    /\ UNCHANGED <<now, managerVars, events, notices, lock, published, wire, config, retained,
                   loopVars, spent, causes>>

\* Home Assistant's birth message.
Birth ==
    /\ connected /\ Polling
    /\ Spend("upsets", MaxUpsets)
    /\ Spawn(FALSE)
    /\ UNCHANGED <<now, managerVars, events, notices, lock, published, wire, brokerVars,
                   loopVars, causes>>

\* A command arrives and is passed on, the event loop waiting for room; after a
\* reload everything is announced again.
Command(what) ==
    /\ connected /\ Polling
    /\ Spend("upsets", MaxUpsets)
    /\ sending' = what
    /\ UNCHANGED <<now, managerVars, events, notices, taskVars, brokerVars, commands, causes>>

PassOn ==
    /\ ~Polling
    /\ commands < CommandCap
    /\ commands' = commands + 1
    /\ IF sending = "reload" THEN Spawn(TRUE) ELSE UNCHANGED job
    /\ sending' = "no"
    /\ UNCHANGED <<now, managerVars, events, notices, lock, published, wire, brokerVars, spent, causes>>

EndCommand ==
    /\ commands > 0
    /\ commands' = commands - 1
    /\ UNCHANGED <<now, managerVars, events, notices, taskVars, brokerVars, sending, spent, causes>>

\* Mutation of Carry: a dongle's reply is awaited without a timeout, and its
\* reader is held up by the full event channel.
CarryAnswered == RoomForEvent /\ EndCommand

\* The command task has carried out a command, or it timed out.
Carry == EndCommand

-------------------------------------------------------------------------------
Announce(t) == List(t) \/ LookUp(t) \/ Lock(t) \/ Discover(t) \/ Tell(t)

Next ==
    \/ Tick
    \/ \E m \in Sensors \cup {Stray}, s \in Signals, at \in Times : Signal(m, s, at)
    \/ \E m \in Sensors : Assign(m)
    \/ \E m \in Sensors, saved \in Times : Load(m, saved)
    \/ Sweep
    \/ Forward
    \/ Skip
    \/ Dispatch
    \/ \E t \in Tasks : Announce(t)
    \/ Deliver
    \/ \E forgets \in BOOLEAN : Outage(forgets)
    \/ Connect
    \/ Birth
    \/ \E what \in {"command", "reload"} : Command(what)
    \/ PassOn
    \/ Carry

Spec == Init /\ [][Next]_vars

\* Every task goes on, tokio's mutex and channels are fair, a command ends (at
\* its timeout), and a broker that went away comes back.
Fairness ==
    /\ WF_vars(Sweep) /\ WF_vars(Forward) /\ WF_vars(Skip \/ Dispatch)
    /\ \A t \in Tasks : WF_vars(Announce(t))
    /\ WF_vars(Deliver) /\ WF_vars(PassOn) /\ WF_vars(Carry)
    /\ WF_vars(Connect)

FairSpec == Spec /\ Fairness

-------------------------------------------------------------------------------
(* Properties. *)

\* Nothing is under way between the manager and the broker.
AtRest ==
    /\ events = <<>> /\ notices = <<>> /\ wire = <<>>
    /\ connected
    /\ \A t \in Tasks : job[t] = Idle

\* What the broker retains is what the manager knows, once all is delivered,
\* across reconnects, restarts of the broker and of Home Assistant: unless an
\* announcement was crossed by a newer one, or the event of a sensor that was
\* listed first, or whose load from file changed it, was dropped.
AvailabilityTold ==
    AtRest => \A m \in Known :
        causes[m] \cap {"crossed", "dropped", "unsaid"} = {} => retained[m] = Say(online[m])

\* A sensor whose type is known can be discovered, whatever the broker forgot
\* and whoever announced it while its type was not known yet.
DiscoveryTold ==
    AtRest => \A m \in Known : kind[m] = "typed" => m \in config

\* What the broker retains of a sensor is right: its state and its discovery.
RetainedTrue == AvailabilityTold /\ DiscoveryTold

\* Only a sensor whose last_seen is past its timeout is offline, unless the event
\* that says so was dispatched after a report it had not seen (main.rs:348).
OfflineMeansSilent ==
    \A m \in Known : ~online[m] => Silent(m) \/ "overtaken" \in causes[m]

\* A sensor that falls silent for good is reported offline, whatever the
\* broker, Home Assistant and the other tasks do meanwhile: unless it was loaded
\* from file as offline and the event that would say so was dropped, for
\* check_timeouts passes over a sensor that is offline (sensor.rs:1250).
SilenceReported ==
    \A m \in Sensors :
        Silent(m) ~> \/ retained[m] = "offline"
                     \/ ~Silent(m)
                     \/ causes[m] \cap {"crossed", "unsaid"} # {}

\* The dongles' readers, which wait while the event channel is full, go on: the
\* ring of waits (reader, channel, worker, client, event loop, command task,
\* reader) is broken by the command's timeout.
ReadersGoOn == ~RoomForEvent ~> RoomForEvent
===============================================================================
