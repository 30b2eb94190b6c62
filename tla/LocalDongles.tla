------------------------------ MODULE LocalDongles ------------------------------
(***************************************************************************)
(* The supervisor of the USB dongles (src/src/local_dongle.rs).  It polls  *)
(* for device nodes and spawns a task for each new one: open the node,     *)
(* shake hands, read the dongle's sensor list, register the engine, wait   *)
(* for the transport to fail or for the order to stop, clean up.           *)
(*                                                                         *)
(* Maintenance (a firmware job) takes a node away from its session with    *)
(* `reserve`, which orders the session to stop and waits until it is gone. *)
(*                                                                         *)
(* A dongle may be unplugged at any time and turn up at another node, so   *)
(* the session that cleans up for it and the one that takes over overlap.  *)
(* What they share is keyed by the dongle: the engines map, the sensors    *)
(* assigned to it, the status published for it.                            *)
(***************************************************************************)
CONSTANTS
    Nodes,      \* device nodes
    NoNode,     \* unplugged
    Dongles,    \* dongles, by their MAC
    Tasks,      \* session tasks; bounds how many run at once
    NoTask,     \* no session, no engine
    Idle,       \* a task that is not running
    Serviced    \* nodes that firmware jobs are run on

VARIABLES
    plugged,    \* plugged[d]: the node dongle d is plugged in at
    updating,   \* dongles in their update mode
    task,       \* task[t]: the session task t runs
    attached,   \* nodes with a task
    failed,     \* nodes left alone since their handshake failed
    resetTried, \* nodes reset out of update mode since they appeared
    sessions,   \* sessions[n]: the task whose session can be told to stop
    reserved,   \* nodes taken for maintenance
    maint,      \* maint[n]: the call of reserve for n, then the reservation
    engines,    \* engines[d]: the task whose engine is registered for d
    assigned,   \* dongles whose sensors are assigned to them
    online,     \* dongles whose last published status is online
    late,       \* history: dongles a session registered after its transport
                \* failed, or announced when it was registered no more
    listed,     \* history: tasks whose session got its dongle's sensor list
    crossed     \* history: tasks whose session had read the list when an older
                \* session of the dongle, its engine removed, still cleaned up

supervisorVars == <<attached, failed, resetTried>>
reserveVars == <<reserved, maint>>
historyVars == <<late, listed, crossed>>
sharedVars == <<engines, assigned, online, historyVars>>
worldVars == <<plugged, updating>>
vars == <<worldVars, task, supervisorVars, sessions, reserveVars, sharedVars>>

Sessions == [
    node : Nodes,
    dongle : Dongles,
    step : {"opening", "handshake", "loading", "registering", "joining",
            "running", "leaving", "unassigning", "reporting", "ended",
            "unanswered", "resetting"},
    lost : BOOLEAN,     \* its transport failed (disconnect_notify)
    stop : BOOLEAN]     \* it was told to stop (the permit in its Notify)

ASSUME DonglesAssumption ==
    /\ NoNode \notin Nodes
    /\ NoTask \notin Tasks
    /\ Idle \notin Sessions
    /\ Serviced \subseteq Nodes

\* Steps at which the task works with the dongle over the device node.
InSession == {"handshake", "loading", "registering", "joining", "running"}

\* Those at which the sensor list is read, and those at which the engine is
\* removed and the rest is cleaned up.
Informed == {"registering", "joining", "running"}
CleaningUp == {"unassigning", "reporting"}

TypeOK ==
    /\ plugged \in [Dongles -> Nodes \cup {NoNode}]
    /\ updating \subseteq Dongles
    /\ task \in [Tasks -> Sessions \cup {Idle}]
    /\ attached \subseteq Nodes
    /\ failed \subseteq Nodes
    /\ resetTried \subseteq Nodes
    /\ sessions \in [Nodes -> Tasks \cup {NoTask}]
    /\ reserved \subseteq Nodes
    /\ maint \in [Nodes -> {"none", "waiting", "held"}]
    /\ \A n \in Nodes : n \in reserved <=> maint[n] # "none"
    /\ \A n \in Nodes : sessions[n] # NoTask => n \in attached
    /\ engines \in [Dongles -> Tasks \cup {NoTask}]
    /\ assigned \subseteq Dongles
    /\ online \subseteq Dongles
    /\ late \subseteq Dongles
    /\ listed \subseteq Tasks
    /\ crossed \subseteq Tasks

At(n) == {d \in Dongles : plugged[d] = n}
Running(t) == task[t] # Idle
Is(t, step) == Running(t) /\ task[t].step = step
GoTo(t, step) == task' = [task EXCEPT ![t].step = step]

\* The other tasks with dongle d that stand at one of the steps.
Others(t, d, steps) ==
    {u \in Tasks \ {t} : Running(u) /\ task[u].dongle = d /\ task[u].step \in steps}

Init ==
    /\ plugged = [d \in Dongles |-> NoNode]
    /\ updating = {}
    /\ task = [t \in Tasks |-> Idle]
    /\ attached = {}
    /\ failed = {}
    /\ resetTried = {}
    /\ sessions = [n \in Nodes |-> NoTask]
    /\ reserved = {}
    /\ maint = [n \in Nodes |-> "none"]
    /\ engines = [d \in Dongles |-> NoTask]
    /\ assigned = {}
    /\ online = {}
    /\ late = {} /\ listed = {} /\ crossed = {}

-------------------------------------------------------------------------------
(* The user. *)

Plug(d, n) ==
    /\ plugged[d] = NoNode
    /\ At(n) = {}
    /\ plugged' = [plugged EXCEPT ![d] = n]
    /\ UNCHANGED <<updating, task, supervisorVars, sessions, reserveVars, sharedVars>>

\* Whoever has the node open gets errors from now on.
Unplug(d) ==
    LET n == plugged[d]
    IN /\ n # NoNode
       /\ plugged' = [plugged EXCEPT ![d] = NoNode]
       /\ updating' = updating \ {d}
       /\ task' = [t \in Tasks |->
                     IF Running(t) /\ task[t].node = n /\ task[t].step \in InSession
                     THEN [task[t] EXCEPT !.lost = TRUE]
                     ELSE task[t]]
       /\ UNCHANGED <<supervisorVars, sessions, reserveVars, sharedVars>>

-------------------------------------------------------------------------------
(* The supervisor's loop (supervise). *)

\* A poll: nodes that are gone are forgotten, and those left alone for long
\* enough (retry_after) get another try.
Poll ==
    LET present == {n \in Nodes : At(n) # {}}
    IN /\ \E still \in SUBSET (failed \cap present) : failed' = still
       /\ resetTried' = resetTried \cap present
       /\ <<failed', resetTried'>> # <<failed, resetTried>>
       /\ UNCHANGED <<worldVars, task, attached, sessions, reserveVars, sharedVars>>

\* A task for node n, where the poll saw dongle d.
Spawn(t, n) ==
    /\ ~Running(t)
    /\ \E d \in At(n) :
          task' = [task EXCEPT ![t] =
                     [node |-> n, dongle |-> d, step |-> "opening",
                      lost |-> FALSE, stop |-> FALSE]]
    /\ attached' = attached \cup {n}
    /\ UNCHANGED <<worldVars, failed, resetTried, sessions, reserveVars, sharedVars>>

\* Mutation of Attach: a node that has a task gets another.
AttachAgain(t, n) ==
    n \notin reserved \cup failed /\ Spawn(t, n)

Attach(t, n) ==
    n \notin reserved \cup failed \cup attached /\ Spawn(t, n)

\* The end of a task, which makes room for the next one on its node.
Detach(t) ==
    /\ task' = [task EXCEPT ![t] = Idle]
    /\ attached' = attached \ {task[t].node}

\* The node is gone, or does not let itself be opened.
OpenFails(t) ==
    /\ Is(t, "opening")
    /\ Detach(t)
    /\ failed' = failed \cup {task[t].node}
    /\ UNCHANGED <<worldVars, resetTried, sessions, reserveVars, sharedVars>>

\* run_session: from here on the session can be told to stop.
Open(t) ==
    LET n == task[t].node
    IN /\ Is(t, "opening")
       /\ \E d \in At(n) :
             task' = [task EXCEPT ![t].dongle = d, ![t].step = "handshake"]
       /\ sessions' = [sessions EXCEPT ![n] = t]
       /\ UNCHANGED <<worldVars, supervisorVars, reserveVars, sharedVars>>

\* run_session returns: the session is taken off the list.  One that had run
\* entitles its node to another reset ...
EndSession(t) ==
    LET n == task[t].node
    IN /\ Is(t, "ended")
       /\ sessions' = [sessions EXCEPT ![n] = NoTask]
       /\ Detach(t)
       /\ resetTried' = resetTried \ {n}
       /\ UNCHANGED <<worldVars, failed, reserveVars, sharedVars>>

\* ... one that did not get through the handshake may have met the update mode:
\* unless that was tried, or maintenance has the node, the dongle is reset.
HandshakeFails(t) ==
    /\ Is(t, "handshake")
    /\ GoTo(t, "unanswered")
    /\ sessions' = [sessions EXCEPT ![task[t].node] = NoTask]
    /\ UNCHANGED <<worldVars, supervisorVars, reserveVars, sharedVars>>

TryReset(t) ==
    LET n == task[t].node
    IN /\ Is(t, "unanswered")
       /\ n \notin reserved \cup resetTried
       /\ resetTried' = resetTried \cup {n}
       /\ GoTo(t, "resetting")
       /\ UNCHANGED <<worldVars, attached, failed, sessions, reserveVars, sharedVars>>

\* Mutation of GiveUp: the node stays on the list of those with a task.
GiveUpAttached(t) ==
    LET n == task[t].node
    IN /\ Is(t, "unanswered")
       /\ n \in reserved \cup resetTried
       /\ failed' = failed \cup {n}
       /\ task' = [task EXCEPT ![t] = Idle]
       /\ UNCHANGED <<worldVars, attached, resetTried, sessions, reserveVars, sharedVars>>

GiveUp(t) ==
    LET n == task[t].node
    IN /\ Is(t, "unanswered")
       /\ n \in reserved \cup resetTried
       /\ failed' = failed \cup {n}
       /\ Detach(t)
       /\ UNCHANGED <<worldVars, resetTried, sessions, reserveVars, sharedVars>>

\* leave_update_mode, through the bootloader.
Reset(t) ==
    LET n == task[t].node
    IN /\ Is(t, "resetting")
       /\ At(n) # {}
       /\ updating' = updating \ At(n)
       /\ Detach(t)
       /\ UNCHANGED <<plugged, failed, resetTried, sessions, reserveVars, sharedVars>>

ResetFails(t) ==
    LET n == task[t].node
    IN /\ Is(t, "resetting")
       /\ failed' = failed \cup {n}
       /\ Detach(t)
       /\ UNCHANGED <<worldVars, resetTried, sessions, reserveVars, sharedVars>>

-------------------------------------------------------------------------------
(* A session. *)

Answers(t) == ~task[t].lost /\ task[t].dongle \notin updating

Handshake(t) ==
    /\ Is(t, "handshake")
    /\ Answers(t)
    /\ GoTo(t, "loading")
    /\ UNCHANGED <<worldVars, supervisorVars, sessions, reserveVars, sharedVars>>

\* The sensor list is read and its sensors are assigned to the dongle; failing
\* that, the session goes on without.
Load(t) ==
    /\ Is(t, "loading")
    /\ GoTo(t, "registering")
    /\ \/ /\ Answers(t)
          /\ assigned' = assigned \cup {task[t].dongle}
          /\ listed' = listed \cup {t}
       \/ /\ UNCHANGED assigned
          /\ listed' = listed \ {t}
    /\ crossed' = IF Others(t, task[t].dongle, CleaningUp) = {} THEN crossed
                  ELSE crossed \cup {t}
    /\ UNCHANGED <<worldVars, supervisorVars, sessions, reserveVars, engines,
                   online, late>>

\* The engine is registered, whatever became of its transport meanwhile.
Register(t) ==
    LET d == task[t].dongle
    IN /\ Is(t, "registering")
       /\ engines' = [engines EXCEPT ![d] = t]
       /\ late' = late \cup {e \in {d} : task[t].lost}
       /\ GoTo(t, "joining")
       /\ UNCHANGED <<worldVars, supervisorVars, sessions, reserveVars, assigned,
                      online, listed, crossed>>

\* gateway_connected returned (see RoamingHandover); the dongle is announced.
GoOnline(t) ==
    /\ Is(t, "joining")
    /\ online' = online \cup {task[t].dongle}
    /\ late' = late \cup {d \in {task[t].dongle} : engines[d] # t}
    /\ GoTo(t, "running")
    /\ UNCHANGED <<worldVars, supervisorVars, sessions, reserveVars, engines,
                   assigned, listed, crossed>>

Leave(t) ==
    /\ Is(t, "running")
    /\ task[t].lost \/ task[t].stop
    /\ GoTo(t, "leaving")
    /\ UNCHANGED <<worldVars, supervisorVars, sessions, reserveVars, sharedVars>>

\* The engine is removed, and the rest cleaned up, if it is this session's.
RemoveIf(t, ours) ==
    LET d == task[t].dongle
    IN /\ Is(t, "leaving")
       /\ engines' = IF ours THEN [engines EXCEPT ![d] = NoTask] ELSE engines
       /\ GoTo(t, IF ours THEN "unassigning" ELSE "ended")
       /\ listed' = listed \ {t}
       /\ crossed' = (crossed \ {t}) \cup IF ours THEN Others(t, d, Informed) ELSE {}
       /\ UNCHANGED <<worldVars, supervisorVars, sessions, reserveVars, assigned,
                      online, late>>

\* Mutations of Remove: whosever engine is registered is removed; none is.
RemoveAny(t) == RemoveIf(t, TRUE)
RemoveNone(t) == RemoveIf(t, FALSE)

Remove(t) == RemoveIf(t, engines[task[t].dongle] = t)

UnassignAnd(t, next) ==
    /\ Is(t, "unassigning")
    /\ assigned' = assigned \ {task[t].dongle}
    /\ GoTo(t, next)
    /\ UNCHANGED <<worldVars, supervisorVars, sessions, reserveVars, engines,
                   online, historyVars>>

Unassign(t) == UnassignAnd(t, "reporting")

GoOffline(t) ==
    /\ Is(t, "reporting")
    /\ online' = online \ {task[t].dongle}
    /\ GoTo(t, "ended")
    /\ UNCHANGED <<worldVars, supervisorVars, sessions, reserveVars, engines,
                   assigned, historyVars>>

-------------------------------------------------------------------------------
(* Maintenance (reserve and Reservation). *)

\* The node is marked and its session, if there is one, told to stop.
Reserve(n) ==
    /\ n \in Serviced \ reserved
    /\ reserved' = reserved \cup {n}
    /\ maint' = [maint EXCEPT ![n] = "waiting"]
    /\ task' = IF sessions[n] = NoTask THEN task
               ELSE [task EXCEPT ![sessions[n]].stop = TRUE]
    /\ UNCHANGED <<worldVars, supervisorVars, sessions, sharedVars>>

\* The wait is over.
HoldNode(n) ==
    /\ maint[n] = "waiting"
    /\ maint' = [maint EXCEPT ![n] = "held"]
    /\ UNCHANGED <<worldVars, task, supervisorVars, sessions, reserved, sharedVars>>

Hold(n) == sessions[n] = NoTask /\ HoldNode(n)

\* The session did not stop in time; the reservation is dropped.
HoldTimesOut(n) ==
    /\ maint[n] = "waiting"
    /\ sessions[n] # NoTask
    /\ maint' = [maint EXCEPT ![n] = "none"]
    /\ reserved' = reserved \ {n}
    /\ UNCHANGED <<worldVars, task, supervisorVars, sessions, sharedVars>>

\* The job is over and may have left the dongle in its update mode.
Release(n) ==
    /\ maint[n] = "held"
    /\ maint' = [maint EXCEPT ![n] = "none"]
    /\ reserved' = reserved \ {n}
    /\ updating' \in {updating \ At(n), updating \cup At(n)}
    /\ UNCHANGED <<plugged, task, supervisorVars, sessions, sharedVars>>

-------------------------------------------------------------------------------
SessionStep(t) ==
    \/ Open(t) \/ OpenFails(t)
    \/ Handshake(t) \/ HandshakeFails(t)
    \/ Load(t) \/ Register(t) \/ GoOnline(t)
    \/ Leave(t) \/ Remove(t) \/ Unassign(t) \/ GoOffline(t)
    \/ EndSession(t)
    \/ TryReset(t) \/ GiveUp(t) \/ Reset(t) \/ ResetFails(t)

Maintenance(n) == Reserve(n) \/ Hold(n) \/ HoldTimesOut(n) \/ Release(n)

Next ==
    \/ \E d \in Dongles : Unplug(d) \/ \E n \in Nodes : Plug(d, n)
    \/ Poll
    \/ \E t \in Tasks, n \in Nodes : Attach(t, n)
    \/ \E t \in Tasks : SessionStep(t)
    \/ \E n \in Serviced : Maintenance(n)

Spec == Init /\ [][Next]_vars

\* The loop goes on, a handshake or an open fails or succeeds in time, and a
\* node left alone gets its other try.  A dongle that answers is not missed
\* each time it is tried (SF).
Fairness ==
    /\ \A n \in Nodes :
          /\ WF_vars(Poll /\ n \notin failed')
          /\ WF_vars(\E t \in Tasks : Attach(t, n))
          /\ WF_vars(Hold(n) \/ HoldTimesOut(n))
    /\ \A t \in Tasks : WF_vars(SessionStep(t))
    /\ SF_vars(\E t \in Tasks : Open(t))
    /\ SF_vars(\E t \in Tasks : Handshake(t))

FairSpec == Spec /\ Fairness

-------------------------------------------------------------------------------
(* Properties. *)

\* A node is opened by one session task at a time, whatever fails and whenever
\* the next poll comes: two readers on one hidraw node would each get part of
\* the dongle's packets.
OneTaskPerNode ==
    \A t, u \in Tasks :
        Running(t) /\ Running(u) /\ task[t].node = task[u].node => t = u

\* No engine outlives its session: who takes one from the map gets one whose
\* session is there to notice that its transport failed.
EnginesAlive ==
    \A d \in Dongles :
        LET t == engines[d]
        IN t # NoTask => /\ Running(t)
                         /\ task[t].dongle = d
                         /\ task[t].step \in {"joining", "running", "leaving"}

\* Cleaning up after a session that lost its dongle leaves alone the one that has
\* it now.  Its engine stays registered, unless a session came late: with its
\* engine when the transport was gone already, or with its announcement when the
\* engine was replaced.  Its sensors stay assigned and its status stays online,
\* unless the clean-up crossed it: whose engine is registered is looked at once,
\* and a session that registers after that has its sensors unassigned, and its
\* dongle reported offline, all the same.
LiveRegistered ==
    \A t \in Tasks :
        LET d == task[t].dongle
        IN Is(t, "running") /\ ~task[t].lost =>
               /\ d \notin late => engines[d] = t
               /\ t \notin crossed => d \in online /\ (t \in listed => d \in assigned)

\* When the last session of a dongle is over, the dongle is offline, has no
\* sensors and no engine of it is left: somebody did clean up.
GoneIsOffline ==
    \A d \in Dongles \ late :
        (\A t \in Tasks : Running(t) => task[t].dongle # d) =>
            engines[d] = NoTask /\ d \notin online /\ d \notin assigned

\* What the end of a session leaves is right: for a newer session, and for none.
SessionsTidy == LiveRegistered /\ GoneIsOffline

\* A dongle that stays plugged in, on a node not taken for maintenance, gets a
\* session that stays, whatever failed before.  The exceptions are a session
\* that came late, and an update mode entered again after the one reset
\* that its node is granted.
Served ==
    \A d \in Dongles :
        <>[](plugged[d] # NoNode /\ plugged[d] \notin reserved) =>
            \/ <>(d \in late)
            \/ <>[](\E t \in Tasks : Is(t, "running") /\ engines[d] = t)
            \/ <>[](d \in updating /\ plugged[d] \in resetTried)
===============================================================================
