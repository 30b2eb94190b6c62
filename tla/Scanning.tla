-------------------------------- MODULE Scanning --------------------------------
(***************************************************************************)
(* Pairing a sensor.  A scan is turned on and off by dashboard requests    *)
(* (src/src/web/server.rs), by MQTT commands and their 60 s timer          *)
(* (src/src/gateway/mqtt.rs), by a roaming gateway that is about to pair   *)
(* (prepare_pairing, src/src/roaming/mod.rs), and by each engine's worker  *)
(* that pairs a sensor that joins (src/src/engine/mod.rs).  None holds a   *)
(* lock from its check to its command, or from the command to the flag     *)
(* is_scanning.                                                            *)
(***************************************************************************)
EXTENDS Naturals

CONSTANTS
    Dongles,       \* the dongles' MACs
    Nobody,        \* no dongle
    MaxRequests,   \* bound: requests of the dashboard and over MQTT
    MaxUpsets      \* bound: commands without a reply, dongles that reset

ASSUME ScanningAssumption ==
    /\ Nobody \notin Dongles
    /\ Dongles \cap Nat = {}
    /\ MaxRequests \in Nat /\ MaxUpsets \in Nat

VARIABLES
    shared,    \* the dongles are roaming gateways of one network
    mode,      \* mode[d]: dongle d is in scan mode
    flag,      \* flag[d]: the engine's is_scanning
    task,      \* task[t]: what a task is doing
    joins,     \* the dongles whose worker is to be told that the sensor joined
    joined,    \* the sensor has joined (once)
    bound,     \* the dongles that keep the sensor
    told,      \* the dongles a Paired event was sent for
    requested,     \* requests so far
    upsets,    \* upsets so far
    causes     \* history: what went wrong at a dongle (Causes)

sensorVars == <<joins, joined, bound, told>>
boundVars == <<requested, upsets>>
scanVars == <<shared, mode, flag, task, sensorVars, boundVars, causes>>

Requests == 1 .. MaxRequests
\* The timer that a request's scan starts; a worker has its dongle's name.
Timer(r) == MaxRequests + r
Timers == {Timer(r) : r \in Requests}
Tasks == Requests \cup Timers \cup Dongles

Origins == {"web", "mqtt", "verify", "timer", "page", "worker"}
\* What a task does next: check the other dongles; ask them whether to stop
\* them ("asking"), stop one and say so; set the addresses; turn the scan on or
\* off and say so; exchange the token, verify.
Steps == {"idle", "check", "asking", "stop", "stopped", "range", "on", "saying on",
          "wait", "r1", "off", "saying off", "verify"}
Doing == [at : Steps, from : Origins, dongle : Dongles \cup {Nobody},
          other : Dongles \cup {Nobody}, todo : SUBSET Dongles]
Idle == [at |-> "idle", from |-> "web", dongle |-> Nobody, other |-> Nobody, todo |-> {}]

\* A command without a reply, a dongle that reset; two commands whose flags are
\* said in the other order; two requests that start at once; a join reported to
\* a dongle before it was said to scan; a pairing asked for by hand; a page
\* that was closed.
Causes == {"lost", "reset", "crossed", "raced", "elsewhere", "manual", "closed"}

ScanTypeOK ==
    /\ shared \in BOOLEAN
    /\ mode \in [Dongles -> BOOLEAN]
    /\ flag \in [Dongles -> BOOLEAN]
    /\ task \in [Tasks -> Doing]
    /\ joins \in SUBSET Dongles
    /\ joined \in BOOLEAN
    /\ bound \in SUBSET Dongles
    /\ told \in SUBSET Dongles
    /\ requested \in Nat /\ upsets \in Nat
    /\ causes \in [Dongles -> SUBSET Causes]

ScanInit ==
    /\ shared \in BOOLEAN
    /\ mode = [d \in Dongles |-> FALSE]
    /\ flag = mode
    /\ task = [t \in Tasks |-> IF t \in Dongles THEN [Idle EXCEPT !.from = "worker", !.dongle = t] ELSE Idle]
    /\ joins = {} /\ joined = FALSE /\ bound = {} /\ told = {}
    /\ requested = 0 /\ upsets = 0
    /\ causes = [d \in Dongles |-> {}]

Move(t, at) == task' = [task EXCEPT ![t].at = at]
End(t) == task' = [task EXCEPT ![t] = IF t \in Dongles THEN [@ EXCEPT !.at = "idle"] ELSE Idle]
Blame(d, c) == causes' = [causes EXCEPT ![d] = @ \cup {c}]

-------------------------------------------------------------------------------
(* A command: the dongle executes it, and its reply arrives; or it does not.  *)

Outcomes == {"ok", "no reply", "not executed"}

Mishap(d, outcome) ==
    IF outcome = "ok" THEN UNCHANGED <<upsets, causes>>
    ELSE upsets < MaxUpsets /\ upsets' = upsets + 1 /\ Blame(d, "lost")

\* Flags of the opposite value still to be said for d.
Unsaid(d, value) ==
    \E t \in Tasks :
        \/ task[t].at = "saying on" /\ ~value /\ task[t].dongle = d
        \/ task[t].at = "saying off" /\ value /\ task[t].dongle = d
        \/ task[t].at = "stopped" /\ value /\ task[t].other = d

SetMode(d, value, outcome) ==
    /\ mode' = IF outcome = "not executed" THEN mode ELSE [mode EXCEPT ![d] = value]
    /\ IF outcome = "ok"
          THEN /\ UNCHANGED upsets
               /\ IF Unsaid(d, value) THEN Blame(d, "crossed") ELSE UNCHANGED causes
          ELSE Mishap(d, outcome)

Say(d, value) == flag' = [flag EXCEPT ![d] = value]

-------------------------------------------------------------------------------
(* Requests. *)

\* The MQTT command task takes one command at a time.
MayTake(from) == from = "mqtt" => \A r \in Requests : task[r].from = "mqtt" => task[r].at = "idle"

Issue(d, from, at) ==
    /\ requested < MaxRequests
    /\ MayTake(from)
    /\ requested' = requested + 1
    /\ task' = [task EXCEPT ![requested + 1] = [Idle EXCEPT !.at = at, !.from = from, !.dongle = d]]
    /\ UNCHANGED <<shared, mode, flag, sensorVars, upsets>>

\* POST /api/scan, the MQTT scan command.
AskOn(d, from) == Issue(d, from, "check") /\ UNCHANGED causes
AskOff(d, from) == Issue(d, from, "off") /\ UNCHANGED causes

\* POST /api/verify: the pairing by hand of a sensor that joined.
AskVerify(d) == joined /\ Issue(d, "verify", "r1") /\ Blame(d, "manual")

\* Other requests that have checked, and not yet said that they scan.
Starting(t) == {u \in Requests \ {t} : task[u].at \in {"asking", "stop", "stopped", "range", "on", "saying on"}}

Checked(t, scanning) ==
    LET d == task[t].dongle
    IN /\ task[t].at = "check"
       /\ IF scanning THEN End(t)
          ELSE task' = [task EXCEPT ![t].at = IF shared THEN "asking" ELSE "on",
                                    ![t].todo = Dongles \ {d}]
       /\ IF ~scanning /\ \E u \in Starting(t) : task[u].dongle # d
             THEN Blame(d, "raced") ELSE UNCHANGED causes
       /\ UNCHANGED <<shared, mode, flag, sensorVars, boundVars>>

\* Mutation of Check: a dongle that scans already does not refuse the request.
CheckNone(t) == Checked(t, FALSE)

\* Under the lock on the engines: no other dongle says that it scans.
Check(t) == Checked(t, \E d \in Dongles \ {task[t].dongle} : flag[d])

\* prepare_pairing: each other gateway of the network is stopped if it scans,
\* and the addresses for new sensors are set.
Ask(t) ==
    /\ task[t].at = "asking"
    /\ IF task[t].todo = {} THEN Move(t, "range")
       ELSE \E o \in task[t].todo :
               task' = [task EXCEPT ![t].todo = @ \ {o}, ![t].other = IF flag[o] THEN o ELSE Nobody,
                                    ![t].at = IF flag[o] THEN "stop" ELSE "asking"]
    /\ UNCHANGED <<shared, mode, flag, sensorVars, boundVars, causes>>

Stop(t, outcome) ==
    /\ task[t].at = "stop"
    /\ SetMode(task[t].other, FALSE, outcome)
    /\ IF outcome = "ok" THEN Move(t, "stopped") ELSE End(t)
    /\ UNCHANGED <<shared, flag, sensorVars, requested>>

\* Mutation of Stopped: the flag is left to the next request.
StoppedSilent(t) ==
    /\ task[t].at = "stopped"
    /\ task' = [task EXCEPT ![t].at = "asking", ![t].other = Nobody]
    /\ UNCHANGED <<shared, mode, flag, sensorVars, boundVars, causes>>

Stopped(t) ==
    /\ task[t].at = "stopped"
    /\ Say(task[t].other, FALSE)
    /\ task' = [task EXCEPT ![t].at = "asking", ![t].other = Nobody]
    /\ UNCHANGED <<shared, mode, sensorVars, boundVars, causes>>

SetRange(t, outcome) ==
    /\ task[t].at = "range"
    /\ Mishap(task[t].dongle, outcome)
    /\ IF outcome = "ok" THEN Move(t, "on") ELSE End(t)
    /\ UNCHANGED <<shared, mode, flag, sensorVars, requested>>

TurnOn(t, outcome) ==
    /\ task[t].at = "on"
    /\ SetMode(task[t].dongle, TRUE, outcome)
    /\ IF outcome = "ok" THEN Move(t, "saying on") ELSE End(t)
    /\ UNCHANGED <<shared, flag, sensorVars, requested>>

\* The request is answered; a timer of 60 s is started, by the MQTT command or
\* by the page that asked.
SayOn(t) ==
    LET d == task[t].dongle
    IN /\ task[t].at = "saying on"
       /\ Say(d, TRUE)
       /\ task' = [task EXCEPT ![t] = Idle,
                     ![Timer(t)] = [Idle EXCEPT !.at = "wait", !.dongle = d,
                                    !.from = IF task[t].from = "mqtt" THEN "timer" ELSE "page"]]
       /\ causes' = [causes EXCEPT ![d] = @ \cup IF d \in joins THEN {"elsewhere"} ELSE {}]
       /\ UNCHANGED <<shared, mode, sensorVars, boundVars>>

-------------------------------------------------------------------------------
(* Scans that end: a request, a timer, a pairing. *)

\* Mutation of Fire: only the page of a scan is told to end it.
FirePage(t) ==
    /\ task[t].at = "wait"
    /\ IF task[t].from = "timer" THEN End(t) ELSE Move(t, "off")
    /\ UNCHANGED <<shared, mode, flag, sensorVars, boundVars, causes>>

\* The MQTT timer looks at the flag; the page's asks the server to stop.
Fire(t) ==
    /\ task[t].at = "wait"
    /\ IF task[t].from = "timer" /\ ~flag[task[t].dongle] THEN End(t) ELSE Move(t, "off")
    /\ UNCHANGED <<shared, mode, flag, sensorVars, boundVars, causes>>

\* The page is closed, or sees that the scan is over, and drops its timer.
ClosePage(t) ==
    LET d == task[t].dongle
    IN /\ task[t].at = "wait" /\ task[t].from = "page"
       /\ End(t)
       /\ IF flag[d] THEN upsets < MaxUpsets /\ upsets' = upsets + 1 /\ Blame(d, "closed")
                     ELSE UNCHANGED <<upsets, causes>>
       /\ UNCHANGED <<shared, mode, flag, sensorVars, requested>>

\* A pairing goes on whatever became of the command.
TurnOff(t, outcome) ==
    LET d == task[t].dongle
        pairing == task[t].from \in {"worker", "verify"}
    IN /\ task[t].at = "off"
       /\ SetMode(d, FALSE, outcome)
       /\ CASE outcome = "ok" -> Move(t, "saying off")
            [] outcome # "ok" /\ pairing -> Move(t, "verify")
            [] OTHER -> End(t)
       /\ UNCHANGED <<shared, flag, sensorVars, requested>>

SayOff(t) ==
    /\ task[t].at = "saying off"
    /\ Say(task[t].dongle, FALSE)
    /\ IF task[t].from \in {"worker", "verify"} THEN Move(t, "verify") ELSE End(t)
    /\ UNCHANGED <<shared, mode, sensorVars, boundVars, causes>>

-------------------------------------------------------------------------------
(* A pairing, by an engine's worker or by hand. *)

\* The sensor joins at dongles that scan; gateways sharing a network may report
\* it as well.
Join(S) ==
    /\ ~joined
    /\ S # {} /\ \E d \in S : mode[d]
    /\ ~shared => \A d \in S : mode[d]
    /\ joined' = TRUE
    /\ joins' = S
    /\ UNCHANGED <<shared, mode, flag, task, bound, told, boundVars, causes>>

Picked(d, pairs) ==
    /\ task[d].at = "idle"
    /\ d \in joins
    /\ joins' = joins \ {d}
    /\ IF pairs THEN Move(d, "r1") ELSE UNCHANGED task
    /\ UNCHANGED <<shared, mode, flag, joined, bound, told, boundVars, causes>>

\* Mutation of PickUp: a join is paired wherever it is reported.
PickUpAll(d) == Picked(d, TRUE)

\* The worker pairs only what joins while its dongle says that it scans.
PickUp(d) == Picked(d, flag[d])

Exchange(t, outcome) ==
    /\ task[t].at = "r1"
    /\ Mishap(task[t].dongle, outcome)
    /\ IF outcome = "ok" THEN Move(t, "off") ELSE End(t)
    /\ UNCHANGED <<shared, mode, flag, sensorVars, requested>>

\* The dongle keeps the sensor; the Paired event makes the daemon know it.
Verify(t, outcome) ==
    LET d == task[t].dongle
    IN /\ task[t].at = "verify"
       /\ Mishap(d, outcome)
       /\ bound' = IF outcome = "not executed" THEN bound ELSE bound \cup {d}
       /\ told' = IF outcome = "ok" THEN told \cup {d} ELSE told
       /\ End(t)
       /\ UNCHANGED <<shared, mode, flag, joins, joined, requested>>

\* A dongle resets without its connection being lost.
Reset(d) ==
    /\ mode[d]
    /\ upsets < MaxUpsets
    /\ upsets' = upsets + 1
    /\ mode' = [mode EXCEPT ![d] = FALSE]
    /\ Blame(d, "reset")
    /\ UNCHANGED <<shared, flag, task, sensorVars, requested>>

-------------------------------------------------------------------------------
Step(t) ==
    \/ Check(t) \/ Ask(t) \/ Stopped(t) \/ SayOn(t) \/ SayOff(t)
    \/ \E outcome \in Outcomes :
          \/ Stop(t, outcome) \/ SetRange(t, outcome) \/ TurnOn(t, outcome)
          \/ TurnOff(t, outcome) \/ Exchange(t, outcome) \/ Verify(t, outcome)

ScanNext ==
    \/ \E d \in Dongles, from \in {"web", "mqtt"} : AskOn(d, from)
    \/ \E d \in Dongles, from \in {"web", "mqtt"} : AskOff(d, from)
    \/ \E d \in Dongles : AskVerify(d)
    \/ \E t \in Tasks : Step(t)
    \/ \E t \in Timers : Fire(t)
    \/ \E t \in Timers : ClosePage(t)
    \/ \E S \in SUBSET Dongles : Join(S)
    \/ \E d \in Dongles : PickUp(d)
    \/ \E d \in Dongles : Reset(d)

ScanSpec == ScanInit /\ [][ScanNext]_scanVars

\* Every task goes on: a command ends (at its timeout), and a timer fires.
ScanFairness ==
    /\ \A t \in Tasks : WF_scanVars(Step(t))
    /\ \A t \in Timers : WF_scanVars(Fire(t))

ScanFairSpec == ScanSpec /\ ScanFairness

-------------------------------------------------------------------------------
(* Properties. *)

Without(d, cs) == causes[d] \cap cs = {}

\* What a command left to say of a dongle is not said yet.
Unsettled(d) == Unsaid(d, TRUE) \/ Unsaid(d, FALSE)

\* What the daemon says of a dongle is so, whoever turned its scan on and off:
\* unless a reply was lost, it reset, or two commands' flags crossed.
FlagTrue ==
    \A d \in Dongles :
        \/ Unsettled(d)
        \/ flag[d] = mode[d]
        \/ ~Without(d, {"lost", "reset", "crossed"})

\* Two dongles scan at once only if two requests started at once, or the flag
\* of one was wrong.
OneScanner ==
    \A d, e \in Dongles :
        d # e /\ mode[d] /\ mode[e] =>
            \/ ~Without(d, {"lost", "reset", "crossed", "raced"})
            \/ ~Without(e, {"lost", "reset", "crossed", "raced"})

\* A sensor that joined once is kept by one dongle, whichever commands were
\* lost and whichever dongles reset.
BoundOnce ==
    \A d, e \in bound :
        d # e =>
            \/ ~Without(d, {"raced", "elsewhere", "manual"})
            \/ ~Without(e, {"raced", "elsewhere", "manual"})

\* The daemon is told of a sensor exactly when its dongle keeps it, unless the
\* reply to that was lost.
PairedTold ==
    /\ told \subseteq bound
    /\ \A d \in bound \ told : ~Without(d, {"lost"})

\* A pairing leaves the sensor with one dongle, and the daemon knows which.
PairingTrue == BoundOnce /\ PairedTold

\* Every scan ends, unless the page that started it was closed or the command
\* to stop it was lost.
ScanEnds ==
    \A d \in Dongles : mode[d] ~> ~mode[d] \/ ~Without(d, {"closed", "lost", "crossed"})
===============================================================================
