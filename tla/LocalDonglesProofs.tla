--------------------------- MODULE LocalDonglesProofs ---------------------------
(***************************************************************************)
(* Proofs about LocalDongles: a node has at most one task, and the engines *)
(* map holds no engine of a session that ended.                            *)
(***************************************************************************)
EXTENDS LocalDongles, TLAPS

\* Steps at which the task's session is on the list of sessions.
Listed == InSession \cup {"leaving", "unassigning", "reporting", "ended"}

\* Every task keeps its node on the list of attached ones.
AttachedInv == \A t \in Tasks : Running(t) => task[t].node \in attached

\* The list of sessions says which task has the node.
SessionsInv ==
    \A n \in Nodes :
        LET t == sessions[n]
        IN t # NoTask => Running(t) /\ task[t].node = n /\ task[t].step \in Listed

\* The inductive invariant: why nobody else detaches the node of a session, and
\* why only a task that is not running is given a node.
NodeIInv == TypeOK /\ AttachedInv /\ OneTaskPerNode /\ SessionsInv

\* A task takes another step on the same node.
LEMMA TaskGoesOn ==
    ASSUME NodeIInv, NEW t \in Tasks, Running(t), NEW r \in Sessions,
           task' = [task EXCEPT ![t] = r], r.node = task[t].node,
           UNCHANGED <<attached, sessions>>,
           task[t].step \in Listed => r.step \in Listed
    PROVE  /\ task' \in [Tasks -> Sessions \cup {Idle}]
           /\ AttachedInv' /\ OneTaskPerNode' /\ SessionsInv'
<1>1. /\ \A u \in Tasks : Running(u)' <=> Running(u)
      /\ \A u \in Tasks : Running(u) => task'[u].node = task[u].node
      /\ task' \in [Tasks -> Sessions \cup {Idle}]
      /\ \A u \in Tasks : u # t => task'[u] = task[u]
      /\ task'[t].step = r.step
  BY DonglesAssumption DEF NodeIInv, TypeOK, Running
<1>2. AttachedInv' /\ OneTaskPerNode'
  BY <1>1 DEF NodeIInv, AttachedInv, OneTaskPerNode
<1>3. SessionsInv'
  BY <1>1 DEF NodeIInv, SessionsInv, TypeOK
<1>4. QED
  BY <1>1, <1>2, <1>3

\* A task ends, its session off the list.
LEMMA TaskEnds ==
    ASSUME NodeIInv, NEW t \in Tasks, Running(t), Detach(t),
           \/ UNCHANGED sessions /\ task[t].step \notin Listed
           \/ sessions' = [sessions EXCEPT ![task[t].node] = NoTask]
    PROVE  /\ task' \in [Tasks -> Sessions \cup {Idle}]
           /\ attached' \subseteq Nodes
           /\ \A n \in Nodes : sessions'[n] # NoTask => n \in attached'
           /\ AttachedInv' /\ OneTaskPerNode' /\ SessionsInv'
<1> DEFINE n == task[t].node
<1>1. /\ \A u \in Tasks : Running(u)' <=> (Running(u) /\ u # t)
      /\ \A u \in Tasks : u # t => task'[u] = task[u]
      /\ task' \in [Tasks -> Sessions \cup {Idle}]
      /\ n \in Nodes
      /\ attached' = attached \ {n}
  BY DonglesAssumption DEF NodeIInv, TypeOK, Running, Detach, Sessions
<1>2. AttachedInv' /\ OneTaskPerNode'
  BY <1>1 DEF NodeIInv, AttachedInv, OneTaskPerNode
<1>3. sessions'[n] = NoTask /\ \A m \in Nodes \ {n} : sessions'[m] = sessions[m]
  <2>1. CASE UNCHANGED sessions /\ task[t].step \notin Listed
    <3>1. sessions[n] # t
      BY <1>1, <2>1, DonglesAssumption DEF NodeIInv, SessionsInv
    <3>2. sessions[n] = NoTask
      BY <1>1, <2>1, <3>1 DEF NodeIInv, SessionsInv, OneTaskPerNode, TypeOK
    <3>3. QED
      BY <2>1, <3>2
  <2>2. CASE sessions' = [sessions EXCEPT ![n] = NoTask]
    BY <1>1, <2>2 DEF NodeIInv, TypeOK
  <2>3. QED
    BY <2>1, <2>2
<1>4. SessionsInv'
  BY <1>1, <1>3 DEF NodeIInv, SessionsInv, TypeOK
<1>5. QED
  BY <1>1, <1>2, <1>3, <1>4 DEF NodeIInv, TypeOK

\* What the session steps leave alone.
LEMMA OutsideType ==
    ASSUME TypeOK, UNCHANGED <<plugged, reserveVars>>,
           updating' \subseteq Dongles, attached' \subseteq Nodes,
           failed' \subseteq Nodes, resetTried' \subseteq Nodes,
           task' \in [Tasks -> Sessions \cup {Idle}],
           sessions' \in [Nodes -> Tasks \cup {NoTask}],
           \A n \in Nodes : sessions'[n] # NoTask => n \in attached',
           engines' \in [Dongles -> Tasks \cup {NoTask}],
           assigned' \subseteq Dongles, online' \subseteq Dongles, late' \subseteq Dongles,
           listed' \subseteq Tasks, crossed' \subseteq Tasks
    PROVE  TypeOK'
BY DEF TypeOK, reserveVars

\* The steps of a session that is on the list and stays there.
LEMMA NodeListed ==
    ASSUME NodeIInv, NEW t \in Tasks,
           \/ Handshake(t) \/ Load(t) \/ Register(t) \/ GoOnline(t)
           \/ Leave(t) \/ Remove(t) \/ Unassign(t) \/ GoOffline(t)
    PROVE  NodeIInv'
<1>1. Running(t) /\ task[t] \in Sessions /\ task[t].step \in Listed
  BY DEF Handshake, Load, Register, GoOnline, Leave, Remove, RemoveIf, Unassign,
         UnassignAnd, GoOffline, Is, Running, NodeIInv, TypeOK, Listed, InSession
<1>2. PICK r \in Sessions :
        /\ task' = [task EXCEPT ![t] = r]
        /\ r.node = task[t].node
        /\ r.step \in Listed
  <2>1. ASSUME NEW step \in Listed, GoTo(t, step)
        PROVE  /\ task' = [task EXCEPT ![t] = [task[t] EXCEPT !.step = step]]
               /\ [task[t] EXCEPT !.step = step] \in Sessions
               /\ [task[t] EXCEPT !.step = step].node = task[t].node
               /\ [task[t] EXCEPT !.step = step].step \in Listed
    BY <1>1, <2>1 DEF GoTo, Sessions, Listed, InSession
  <2>3. CASE \/ Handshake(t) \/ Load(t) \/ Register(t) \/ GoOnline(t)
             \/ Leave(t) \/ Unassign(t) \/ GoOffline(t)
    <3>1. PICK step \in Listed : GoTo(t, step)
      BY <2>3 DEF Handshake, Load, Register, GoOnline, Leave, Unassign, UnassignAnd,
                  GoOffline, Listed, InSession
    <3>2. QED
      BY <2>1, <3>1
  <2>4. CASE Remove(t)
    <3>1. PICK step \in Listed : GoTo(t, step)
      BY <2>4 DEF Remove, RemoveIf, Listed, InSession
    <3>2. QED
      BY <2>1, <3>1
  <2>5. QED
    BY <2>3, <2>4
<1>3. UNCHANGED <<plugged, updating, supervisorVars, sessions, reserveVars>>
  BY DEF Handshake, Load, Register, GoOnline, Leave, Remove, RemoveIf, Unassign,
         UnassignAnd, GoOffline, worldVars
<1>4. /\ engines' \in [Dongles -> Tasks \cup {NoTask}]
      /\ assigned' \subseteq Dongles
      /\ online' \subseteq Dongles
      /\ late' \subseteq Dongles
      /\ listed' \subseteq Tasks
      /\ crossed' \subseteq Tasks
  <2>1. task[t].dongle \in Dongles
    BY <1>1 DEF Sessions
  <2>2. QED
    BY <2>1
    DEF Handshake, Load, Register, GoOnline, Leave, Remove, RemoveIf, Unassign,
        UnassignAnd, GoOffline, sharedVars, historyVars, Others, NodeIInv, TypeOK
<1>5. /\ task' \in [Tasks -> Sessions \cup {Idle}]
      /\ AttachedInv' /\ OneTaskPerNode' /\ SessionsInv'
  BY <1>1, <1>2, <1>3, TaskGoesOn DEF supervisorVars
<1>6. TypeOK'
  BY <1>3, <1>4, <1>5, OutsideType DEF NodeIInv, TypeOK, supervisorVars
<1>7. QED
  BY <1>5, <1>6 DEF NodeIInv

\* The steps that end a task.
LEMMA NodeEnds ==
    ASSUME NodeIInv, NEW t \in Tasks,
           OpenFails(t) \/ EndSession(t) \/ GiveUp(t) \/ Reset(t) \/ ResetFails(t)
    PROVE  NodeIInv'
<1>1. /\ Running(t) /\ task[t] \in Sessions /\ Detach(t)
      /\ \/ UNCHANGED sessions /\ task[t].step \notin Listed
         \/ sessions' = [sessions EXCEPT ![task[t].node] = NoTask]
  BY DEF OpenFails, EndSession, GiveUp, Reset, ResetFails, Is, Running, Listed,
         InSession, NodeIInv, TypeOK
<1>2. /\ UNCHANGED <<plugged, reserveVars, sharedVars>>
      /\ updating' \subseteq Dongles
      /\ failed' \subseteq Nodes
      /\ resetTried' \subseteq Nodes
      /\ sessions' \in [Nodes -> Tasks \cup {NoTask}]
  <2>1. task[t].node \in Nodes
    BY <1>1 DEF Sessions
  <2>2. QED
    BY <2>1 DEF OpenFails, EndSession, GiveUp, Reset, ResetFails, worldVars,
                NodeIInv, TypeOK
<1>3. /\ task' \in [Tasks -> Sessions \cup {Idle}]
      /\ attached' \subseteq Nodes
      /\ \A n \in Nodes : sessions'[n] # NoTask => n \in attached'
      /\ AttachedInv' /\ OneTaskPerNode' /\ SessionsInv'
  BY <1>1, TaskEnds
<1>4. TypeOK'
  BY <1>2, <1>3, OutsideType DEF NodeIInv, TypeOK, sharedVars, historyVars
<1>5. QED
  BY <1>3, <1>4 DEF NodeIInv

\* Getting on the list of sessions, getting off it, and the reset that follows.
LEMMA NodeOpen ==
    ASSUME NodeIInv, NEW t \in Tasks, Open(t)
    PROVE  NodeIInv'
<1> DEFINE n == task[t].node
<1>1. Running(t) /\ task[t] \in Sessions /\ n \in Nodes
  BY DEF Open, Is, Running, NodeIInv, TypeOK, Sessions
<1>2. PICK d \in Dongles :
        task' = [task EXCEPT ![t].dongle = d, ![t].step = "handshake"]
  BY DEF Open, At
<1> DEFINE r == [task[t] EXCEPT !.dongle = d, !.step = "handshake"]
<1>3. task' = [task EXCEPT ![t] = r]
  BY <1>1, <1>2 DEF NodeIInv, TypeOK
<1>4. r \in Sessions /\ r.node = n /\ r.step = "handshake"
  BY <1>1 DEF Sessions
<1>5. /\ \A u \in Tasks : Running(u)' <=> Running(u)
      /\ \A u \in Tasks : Running(u) => task'[u].node = task[u].node
      /\ task' \in [Tasks -> Sessions \cup {Idle}]
      /\ \A u \in Tasks : u # t => task'[u] = task[u]
      /\ task'[t].step = "handshake"
  BY <1>1, <1>3, <1>4, DonglesAssumption DEF NodeIInv, TypeOK, Running
<1>6. UNCHANGED <<worldVars, supervisorVars, reserveVars, sharedVars>>
      /\ sessions' = [sessions EXCEPT ![n] = t]
  BY DEF Open
<1>7. AttachedInv' /\ OneTaskPerNode'
  BY <1>5, <1>6 DEF NodeIInv, AttachedInv, OneTaskPerNode, supervisorVars
<1>8. SessionsInv'
  <2>1. sessions'[n] = t /\ \A m \in Nodes \ {n} : sessions'[m] = sessions[m]
    BY <1>1, <1>6 DEF NodeIInv, TypeOK
  <2>2. Running(t)' /\ task'[t].node = n /\ task'[t].step \in Listed
    BY <1>1, <1>5 DEF Listed, InSession
  <2>3. QED
    BY <1>1, <1>5, <2>1, <2>2 DEF NodeIInv, SessionsInv, TypeOK
<1>9. TypeOK'
  <2>1. n \in attached
    BY <1>1 DEF NodeIInv, AttachedInv
  <2>2. QED
    BY <1>1, <1>5, <1>6, <2>1, OutsideType
    DEF NodeIInv, TypeOK, supervisorVars, worldVars, sharedVars, historyVars
<1>10. QED
  BY <1>7, <1>8, <1>9 DEF NodeIInv

LEMMA NodeHandshakeFails ==
    ASSUME NodeIInv, NEW t \in Tasks, HandshakeFails(t)
    PROVE  NodeIInv'
<1> DEFINE n == task[t].node
           r == [task[t] EXCEPT !.step = "unanswered"]
<1>1. Running(t) /\ task[t] \in Sessions /\ n \in Nodes
  BY DEF HandshakeFails, Is, Running, NodeIInv, TypeOK, Sessions
<1>2. task' = [task EXCEPT ![t] = r] /\ r \in Sessions /\ r.node = n
  BY <1>1 DEF HandshakeFails, GoTo, Sessions
<1>3. /\ \A u \in Tasks : Running(u)' <=> Running(u)
      /\ \A u \in Tasks : Running(u) => task'[u].node = task[u].node
      /\ task' \in [Tasks -> Sessions \cup {Idle}]
      /\ \A u \in Tasks : u # t => task'[u] = task[u]
  BY <1>1, <1>2, DonglesAssumption DEF NodeIInv, TypeOK, Running
<1>4. /\ UNCHANGED <<worldVars, supervisorVars, reserveVars, sharedVars>>
      /\ sessions' = [sessions EXCEPT ![n] = NoTask]
  BY DEF HandshakeFails
<1>5. AttachedInv' /\ OneTaskPerNode'
  BY <1>3, <1>4 DEF NodeIInv, AttachedInv, OneTaskPerNode, supervisorVars
<1>6. sessions'[n] = NoTask /\ \A m \in Nodes \ {n} : sessions'[m] = sessions[m]
  BY <1>1, <1>4 DEF NodeIInv, TypeOK
<1>7. SessionsInv'
  BY <1>1, <1>3, <1>6 DEF NodeIInv, SessionsInv, TypeOK
<1>8. TypeOK'
  BY <1>1, <1>3, <1>4, <1>6, OutsideType
  DEF NodeIInv, TypeOK, supervisorVars, worldVars, sharedVars, historyVars
<1>9. QED
  BY <1>5, <1>7, <1>8 DEF NodeIInv

LEMMA NodeTryReset ==
    ASSUME NodeIInv, NEW t \in Tasks, TryReset(t)
    PROVE  NodeIInv'
<1> DEFINE r == [task[t] EXCEPT !.step = "resetting"]
<1>1. Running(t) /\ task[t] \in Sessions /\ task[t].node \in Nodes
  BY DEF TryReset, Is, Running, NodeIInv, TypeOK, Sessions
<1>2. task' = [task EXCEPT ![t] = r] /\ r \in Sessions /\ r.node = task[t].node
  BY <1>1 DEF TryReset, GoTo, Sessions
<1>3. task[t].step \notin Listed
  BY DEF TryReset, Is, Listed, InSession
<1>4. /\ UNCHANGED <<worldVars, attached, failed, sessions, reserveVars, sharedVars>>
      /\ resetTried' \subseteq Nodes
  BY <1>1 DEF TryReset, NodeIInv, TypeOK
<1>5. /\ task' \in [Tasks -> Sessions \cup {Idle}]
      /\ AttachedInv' /\ OneTaskPerNode' /\ SessionsInv'
  BY <1>1, <1>2, <1>3, <1>4, TaskGoesOn
<1>6. TypeOK'
  BY <1>4, <1>5, OutsideType DEF NodeIInv, TypeOK, worldVars, sharedVars, historyVars
<1>7. QED
  BY <1>5, <1>6 DEF NodeIInv

\* A node without a task gets one that was not running.
LEMMA NodeAttach ==
    ASSUME NodeIInv, NEW t \in Tasks, NEW n \in Nodes, Attach(t, n)
    PROVE  NodeIInv'
<1>1. PICK d \in Dongles :
        task' = [task EXCEPT ![t] =
                   [node |-> n, dongle |-> d, step |-> "opening",
                    lost |-> FALSE, stop |-> FALSE]]
  BY DEF Attach, Spawn, At
<1>2. /\ ~Running(t) /\ n \notin attached /\ attached' = attached \cup {n}
      /\ UNCHANGED <<worldVars, failed, resetTried, sessions, reserveVars, sharedVars>>
  BY DEF Attach, Spawn
<1>3. /\ \A u \in Tasks : Running(u)' <=> (Running(u) \/ u = t)
      /\ \A u \in Tasks : u # t => task'[u] = task[u]
      /\ task'[t].node = n
      /\ task' \in [Tasks -> Sessions \cup {Idle}]
  <2> DEFINE r == [node |-> n, dongle |-> d, step |-> "opening",
                   lost |-> FALSE, stop |-> FALSE]
  <2>1. r \in Sessions /\ r.node = n
    BY DEF Sessions
  <2> HIDE DEF r
  <2>2. task' = [task EXCEPT ![t] = r]
    BY <1>1 DEF r
  <2>3. QED
    BY <2>1, <2>2, DonglesAssumption DEF NodeIInv, TypeOK, Running
<1>4. AttachedInv' /\ OneTaskPerNode'
  BY <1>2, <1>3 DEF NodeIInv, AttachedInv, OneTaskPerNode
<1>5. SessionsInv'
  BY <1>2, <1>3 DEF NodeIInv, SessionsInv, TypeOK
<1>6. TypeOK'
  BY <1>2, <1>3, OutsideType DEF NodeIInv, TypeOK, worldVars, sharedVars, historyVars
<1>7. QED
  BY <1>4, <1>5, <1>6 DEF NodeIInv

\* Flags raised in the tasks do not move them.
LEMMA NodeFlags ==
    ASSUME NodeIInv, UNCHANGED <<attached, sessions>>,
           task' \in [Tasks -> Sessions \cup {Idle}],
           \A u \in Tasks : \/ task'[u] = task[u]
                            \/ /\ Running(u) /\ task'[u] \in Sessions
                               /\ task'[u].node = task[u].node
                               /\ task'[u].step = task[u].step
    PROVE  AttachedInv' /\ OneTaskPerNode' /\ SessionsInv'
<1>1. \A u \in Tasks : /\ Running(u)' <=> Running(u)
                       /\ Running(u) => /\ task'[u].node = task[u].node
                                        /\ task'[u].step = task[u].step
  BY DonglesAssumption DEF Running
<1>2. AttachedInv' /\ OneTaskPerNode'
  BY <1>1 DEF NodeIInv, AttachedInv, OneTaskPerNode
<1>3. SessionsInv'
  <2>1. \A n \in Nodes : sessions'[n] = sessions[n] /\ sessions[n] \in Tasks \cup {NoTask}
    BY DEF NodeIInv, TypeOK
  <2>2. QED
    BY <1>1, <2>1 DEF NodeIInv, SessionsInv
<1>4. QED
  BY <1>2, <1>3

LEMMA NodeUnplug ==
    ASSUME NodeIInv, NEW d \in Dongles, Unplug(d)
    PROVE  NodeIInv'
<1>1. ASSUME NEW u \in Tasks
      PROVE  \/ task'[u] = task[u]
             \/ /\ Running(u) /\ task'[u] \in Sessions
                /\ task'[u].node = task[u].node
                /\ task'[u].step = task[u].step
  <2>1. CASE Running(u) /\ task'[u] = [task[u] EXCEPT !.lost = TRUE]
    <3>1. task[u] \in Sessions
      BY <2>1 DEF NodeIInv, TypeOK, Running
    <3>2. QED
      BY <2>1, <3>1 DEF Sessions
  <2>2. QED
    BY <2>1 DEF Unplug
<1>2. task' \in [Tasks -> Sessions \cup {Idle}]
  <2>1. DOMAIN task' = Tasks /\ task' = [u \in Tasks |-> task'[u]]
    BY DEF Unplug
  <2>2. QED
    BY <1>1, <2>1 DEF NodeIInv, TypeOK
<1>3. /\ plugged' \in [Dongles -> Nodes \cup {NoNode}]
      /\ updating' \subseteq Dongles
      /\ UNCHANGED <<supervisorVars, sessions, reserveVars, sharedVars>>
  BY DEF Unplug, NodeIInv, TypeOK
<1>4. TypeOK'
  BY <1>2, <1>3 DEF NodeIInv, TypeOK, supervisorVars, reserveVars, sharedVars, historyVars
<1>5. QED
  BY <1>1, <1>2, <1>3, <1>4, NodeFlags DEF NodeIInv, supervisorVars

LEMMA NodeReserve ==
    ASSUME NodeIInv, NEW n \in Nodes, Maintenance(n)
    PROVE  NodeIInv'
<1>1. ASSUME NEW u \in Tasks
      PROVE  \/ task'[u] = task[u]
             \/ /\ Running(u) /\ task'[u] \in Sessions
                /\ task'[u].node = task[u].node
                /\ task'[u].step = task[u].step
  <2>1. CASE Reserve(n) /\ sessions[n] # NoTask /\ u = sessions[n]
    <3>1. Running(u) /\ task[u] \in Sessions
      BY <2>1 DEF NodeIInv, SessionsInv, TypeOK, Running
    <3>2. task'[u] = [task[u] EXCEPT !.stop = TRUE]
      BY <2>1 DEF Reserve, NodeIInv, TypeOK
    <3>3. QED
      BY <3>1, <3>2 DEF Sessions
  <2>2. CASE ~(Reserve(n) /\ sessions[n] # NoTask /\ u = sessions[n])
    BY <2>2 DEF Maintenance, Reserve, Hold, HoldNode, HoldTimesOut, Release,
                NodeIInv, TypeOK
  <2>3. QED
    BY <2>1, <2>2
<1>2. task' \in [Tasks -> Sessions \cup {Idle}]
  <2>1. task' = [u \in Tasks |-> task'[u]]
    BY DEF Maintenance, Reserve, Hold, HoldNode, HoldTimesOut, Release, NodeIInv, TypeOK
  <2>2. QED
    BY <1>1, <2>1 DEF NodeIInv, TypeOK
<1>3. /\ UNCHANGED <<plugged, supervisorVars, sessions, sharedVars>>
      /\ updating' \subseteq Dongles
      /\ reserved' \subseteq Nodes
      /\ maint' \in [Nodes -> {"none", "waiting", "held"}]
      /\ \A m \in Nodes : m \in reserved' <=> maint'[m] # "none"
  BY DEF Maintenance, Reserve, Hold, HoldNode, HoldTimesOut, Release, worldVars,
         At, NodeIInv, TypeOK
<1>4. TypeOK'
  BY <1>2, <1>3 DEF NodeIInv, TypeOK, supervisorVars, sharedVars, historyVars
<1>5. QED
  BY <1>1, <1>2, <1>3, <1>4, NodeFlags DEF NodeIInv, supervisorVars

\* The steps that have nothing to do with tasks.
LEMMA NodeFrame ==
    ASSUME NodeIInv, UNCHANGED <<updating, task, attached, sessions, reserveVars, sharedVars>>,
           plugged' \in [Dongles -> Nodes \cup {NoNode}],
           failed' \subseteq Nodes, resetTried' \subseteq Nodes
    PROVE  NodeIInv'
<1>1. AttachedInv' /\ OneTaskPerNode' /\ SessionsInv'
  BY DEF NodeIInv, AttachedInv, OneTaskPerNode, SessionsInv, Running
<1>2. TypeOK'
  BY DEF NodeIInv, TypeOK, reserveVars, sharedVars, historyVars
<1>3. QED
  BY <1>1, <1>2 DEF NodeIInv

LEMMA NodeInvariant == Spec => []NodeIInv
<1>1. Init => NodeIInv
  BY DonglesAssumption
  DEF Init, NodeIInv, TypeOK, AttachedInv, OneTaskPerNode, SessionsInv, Running
<1>2. NodeIInv /\ [Next]_vars => NodeIInv'
  <2> SUFFICES ASSUME NodeIInv, [Next]_vars PROVE NodeIInv'
    OBVIOUS
  <2>1. ASSUME NEW d \in Dongles, NEW n \in Nodes, Plug(d, n) PROVE NodeIInv'
    BY <2>1, NodeFrame DEF Plug, supervisorVars, NodeIInv, TypeOK
  <2>2. CASE Poll
    BY <2>2, NodeFrame DEF Poll, worldVars, NodeIInv, TypeOK
  <2>3. ASSUME NEW t \in Tasks, SessionStep(t) PROVE NodeIInv'
    BY <2>3, NodeListed, NodeEnds, NodeOpen, NodeHandshakeFails, NodeTryReset
    DEF SessionStep
  <2>4. CASE UNCHANGED vars
    BY <2>4, NodeFrame DEF vars, worldVars, supervisorVars, NodeIInv, TypeOK
  <2>5. QED
    BY <2>1, <2>2, <2>3, <2>4, NodeUnplug, NodeAttach, NodeReserve, DonglesAssumption
    DEF Next
<1>3. QED
  BY <1>1, <1>2, PTL DEF Spec

\* The state of the supervisor and of its sessions has its types, the marks of
\* reserved and attached nodes included.
THEOREM DonglesTypeCorrect == Spec => []TypeOK
BY NodeInvariant, PTL DEF NodeIInv

\* No node is ever opened by two session tasks at once, whatever is plugged,
\* unplugged, reserved, reset or failing meanwhile.
THEOREM NodeExclusive == Spec => []OneTaskPerNode
BY NodeInvariant, PTL DEF NodeIInv

-------------------------------------------------------------------------------
\* Steps at which a session's engine may be registered.
Registered == {"joining", "running", "leaving"}

\* A step after which the registered engines are the same, and their sessions
\* are still there.
LEMMA EnginesFrame ==
    ASSUME TypeOK, EnginesAlive, UNCHANGED engines,
           \A u \in Tasks :
               Running(u) /\ task[u].step \in Registered =>
                   /\ Running(u)'
                   /\ task'[u].dongle = task[u].dongle
                   /\ task'[u].step \in Registered
    PROVE  EnginesAlive'
BY DEF TypeOK, EnginesAlive, Registered

\* Only task t moves, and its engine is not registered before the step.
LEMMA EnginesOther ==
    ASSUME TypeOK, EnginesAlive, UNCHANGED engines, NEW t \in Tasks,
           \A u \in Tasks \ {t} : task'[u] = task[u],
           task[t] = Idle \/ task[t].step \notin Registered
    PROVE  EnginesAlive'
BY EnginesFrame DEF Running

LEMMA EnginesSession ==
    ASSUME TypeOK, EnginesAlive, NEW t \in Tasks, SessionStep(t)
    PROVE  EnginesAlive'
<1>1. Running(t) /\ task[t] \in Sessions /\ task[t].dongle \in Dongles
  <2>1. Running(t)
    BY DEF SessionStep, Open, OpenFails, Handshake, HandshakeFails, Load, Register,
           GoOnline, Leave, Remove, RemoveIf, Unassign, UnassignAnd, GoOffline,
           EndSession, TryReset, GiveUp, Reset, ResetFails, Is
  <2>2. QED
    BY <2>1 DEF TypeOK, Running, Sessions
<1>2. CASE \/ Open(t) \/ OpenFails(t) \/ Handshake(t) \/ HandshakeFails(t)
           \/ Load(t) \/ Unassign(t) \/ GoOffline(t) \/ EndSession(t)
           \/ TryReset(t) \/ GiveUp(t) \/ Reset(t) \/ ResetFails(t)
  <2>1. UNCHANGED engines
    BY <1>2
    DEF Open, OpenFails, Handshake, HandshakeFails, Load, Unassign, UnassignAnd,
        GoOffline, EndSession, TryReset, GiveUp, Reset, ResetFails, sharedVars
  <2>2. task[t].step \notin Registered
    BY <1>2
    DEF Open, OpenFails, Handshake, HandshakeFails, Load, Unassign, UnassignAnd,
        GoOffline, EndSession, TryReset, GiveUp, Reset, ResetFails, Is, Registered
  <2>3. \A u \in Tasks \ {t} : task'[u] = task[u]
    BY <1>2
    DEF Open, OpenFails, Handshake, HandshakeFails, Load, Unassign, UnassignAnd,
        GoOffline, EndSession, TryReset, GiveUp, Reset, ResetFails, GoTo, Detach,
        TypeOK
  <2>4. QED
    BY <2>1, <2>2, <2>3, EnginesOther
<1>3. ASSUME NEW step \in Registered, GoTo(t, step)
      PROVE  /\ Running(t)' /\ task'[t].dongle = task[t].dongle
             /\ task'[t].step = step
             /\ \A u \in Tasks \ {t} : task'[u] = task[u]
  <2> DEFINE r == [task[t] EXCEPT !.step = step]
  <2>1. task' = [task EXCEPT ![t] = r] /\ r \in Sessions
        /\ r.dongle = task[t].dongle /\ r.step = step
    BY <1>1, <1>3 DEF GoTo, Sessions, Registered
  <2> HIDE DEF r
  <2>2. QED
    BY <2>1, DonglesAssumption DEF TypeOK, Running
<1>4. CASE GoOnline(t) \/ Leave(t)
  <2>1. UNCHANGED engines
    BY <1>4 DEF GoOnline, Leave, sharedVars
  <2>2. PICK step \in Registered : GoTo(t, step)
    BY <1>4 DEF GoOnline, Leave, Registered
  <2>3. QED
    BY <1>3, <2>1, <2>2, EnginesFrame DEF Running
<1>5. CASE Register(t)
  <2>1. GoTo(t, "joining") /\ engines' = [engines EXCEPT ![task[t].dongle] = t]
    BY <1>5 DEF Register
  <2>2. task[t].step \notin Registered
    BY <1>5 DEF Register, Is, Registered
  <2>3. /\ Running(t)' /\ task'[t].dongle = task[t].dongle
        /\ task'[t].step = "joining"
        /\ \A u \in Tasks \ {t} : task'[u] = task[u]
    BY <1>3, <2>1 DEF Registered
  <2>4. QED
    BY <1>1, <2>1, <2>2, <2>3 DEF EnginesAlive, TypeOK, Running, Registered
<1>6. CASE Remove(t)
  <2> DEFINE d == task[t].dongle
  <2>1. \A u \in Tasks \ {t} : task'[u] = task[u]
    BY <1>6 DEF Remove, RemoveIf, GoTo, TypeOK
  <2>2. \A e \in Dongles : engines'[e] # t
    BY <1>1, <1>6, DonglesAssumption DEF Remove, RemoveIf, EnginesAlive, TypeOK
  <2>3. \A e \in Dongles : engines'[e] \in {engines[e], NoTask}
    BY <1>1, <1>6 DEF Remove, RemoveIf, TypeOK
  <2>4. QED
    BY <2>1, <2>2, <2>3 DEF EnginesAlive, TypeOK, Running
<1>7. QED
  BY <1>2, <1>4, <1>5, <1>6 DEF SessionStep

LEMMA EnginesElse ==
    ASSUME NodeIInv, EnginesAlive, UNCHANGED engines,
           \/ \E d \in Dongles : Unplug(d)
           \/ \E n \in Nodes : Maintenance(n)
           \/ UNCHANGED task
    PROVE  EnginesAlive'
<1>1. ASSUME NEW u \in Tasks, Running(u)
      PROVE  task'[u] \in {task[u], [task[u] EXCEPT !.lost = TRUE],
                           [task[u] EXCEPT !.stop = TRUE]}
  <2>1. ASSUME NEW d \in Dongles, Unplug(d)
        PROVE  task'[u] \in {task[u], [task[u] EXCEPT !.lost = TRUE]}
    BY <2>1 DEF Unplug
  <2>2. ASSUME NEW n \in Nodes, Maintenance(n)
        PROVE  task'[u] \in {task[u], [task[u] EXCEPT !.stop = TRUE]}
    BY <2>2 DEF Maintenance, Reserve, Hold, HoldNode, HoldTimesOut, Release,
                NodeIInv, TypeOK
  <2>3. QED
    BY <2>1, <2>2
<1>2. ASSUME NEW u \in Tasks, Running(u)
      PROVE  /\ Running(u)'
             /\ task'[u].dongle = task[u].dongle
             /\ task'[u].step = task[u].step
  <2>1. task[u] \in Sessions
    BY <1>2 DEF NodeIInv, TypeOK, Running
  <2>2. task'[u] \in Sessions
    BY <1>1, <1>2, <2>1 DEF Sessions
  <2>3. QED
    BY <1>1, <1>2, <2>1, <2>2, DonglesAssumption DEF Running, Sessions
<1>3. QED
  BY <1>2, EnginesFrame DEF NodeIInv

\* The engines map never holds an engine whose session is over: a session that
\* ends takes its engine along, and no other one.
THEOREM EnginesStayAlive == Spec => []EnginesAlive
<1>1. Init => EnginesAlive
  BY DEF Init, EnginesAlive
<1>2. NodeIInv /\ EnginesAlive /\ [Next]_vars => EnginesAlive'
  <2> SUFFICES ASSUME NodeIInv, EnginesAlive, [Next]_vars PROVE EnginesAlive'
    OBVIOUS
  <2>1. ASSUME NEW t \in Tasks, NEW n \in Nodes, Attach(t, n) PROVE EnginesAlive'
    <3>1. task[t] = Idle /\ UNCHANGED engines
      BY <2>1 DEF Attach, Spawn, Running, sharedVars
    <3>2. \A u \in Tasks \ {t} : task'[u] = task[u]
      BY <2>1 DEF Attach, Spawn, NodeIInv, TypeOK
    <3>3. QED
      BY <3>1, <3>2, EnginesOther DEF NodeIInv
  <2>2. ASSUME NEW t \in Tasks, SessionStep(t) PROVE EnginesAlive'
    BY <2>2, EnginesSession DEF NodeIInv
  <2>3. ASSUME NEW d \in Dongles, NEW n \in Nodes, Plug(d, n) PROVE EnginesAlive'
    BY <2>3, EnginesElse DEF Plug, sharedVars
  <2>4. ASSUME NEW d \in Dongles, Unplug(d) PROVE EnginesAlive'
    BY <2>4, EnginesElse DEF Unplug, sharedVars
  <2>5. ASSUME NEW n \in Nodes, Maintenance(n) PROVE EnginesAlive'
    <3>1. UNCHANGED engines
      BY <2>5 DEF Maintenance, Reserve, Hold, HoldNode, HoldTimesOut, Release, sharedVars
    <3>2. QED
      BY <2>5, <3>1, EnginesElse
  <2>6. CASE Poll \/ UNCHANGED vars
    BY <2>6, EnginesElse DEF Poll, vars, sharedVars
  <2>7. QED
    BY <2>1, <2>2, <2>3, <2>4, <2>5, <2>6, DonglesAssumption DEF Next
<1>3. QED
  BY <1>1, <1>2, NodeInvariant, PTL DEF Spec
-------------------------------------------------------------------------------
\* A session whose transport works has its dongle on its node.
LiveAtNode ==
    \A t \in Tasks :
        Running(t) /\ task[t].step \in InSession /\ ~task[t].lost =>
            plugged[task[t].dongle] = task[t].node

\* A session whose transport works keeps the engine it registered, hence no
\* two such sessions of one dongle.
LiveEngine ==
    \A t \in Tasks :
        /\ Running(t)
        /\ task[t].step \in {"joining", "running"}
        /\ ~task[t].lost
        /\ task[t].dongle \notin late
        => engines[task[t].dongle] = t

\* The session that will report dongle d offline, and the one that will take
\* its sensors away.
Reports(t, d) ==
    /\ Running(t)
    /\ task[t].dongle = d
    /\ engines[d] = t \/ task[t].step \in {"unassigning", "reporting"}

Unassigns(t, d) ==
    /\ Running(t)
    /\ task[t].dongle = d
    /\ engines[d] = t \/ task[t].step \in {"registering", "unassigning"}

\* Whatever is said of a dongle, a session is left that takes it back.
OnlineKept == \A d \in online \ late : \E t \in Tasks : Reports(t, d)
AssignedKept == \A d \in assigned : \E t \in Tasks : Unassigns(t, d)

\* No clean-up is on its way that could take the sensors or the status from a
\* session past its sensor list, unless it crossed it.
InformedKept ==
    \A t \in Tasks :
        LET d == task[t].dongle
        IN /\ Running(t) /\ task[t].step \in Informed
           /\ t \notin crossed
           => /\ Others(t, d, CleaningUp) = {}
              /\ task[t].step = "running" => d \in online
              /\ t \in listed => d \in assigned

\* With the invariants above, the inductive invariant behind SessionsTidy.
TidyInv == LiveAtNode /\ LiveEngine /\ OnlineKept /\ AssignedKept
TidyIInv == NodeIInv /\ EnginesAlive /\ TidyInv /\ InformedKept

\* A session step of t that ends at another step of the same session.
LEMMA SessionGoesTo ==
    ASSUME TypeOK, NEW t \in Tasks, Running(t),
           NEW step \in Listed \cup {"unanswered", "resetting"}, GoTo(t, step)
    PROVE  /\ task'[t] = [task[t] EXCEPT !.step = step]
           /\ Running(t)'
           /\ task'[t].step = step
           /\ task'[t].dongle = task[t].dongle
           /\ task'[t].node = task[t].node
           /\ task'[t].lost = task[t].lost
           /\ \A u \in Tasks \ {t} : task'[u] = task[u]
<1> DEFINE r == [task[t] EXCEPT !.step = step]
<1>1. task[t] \in Sessions
  BY DEF TypeOK, Running
<1>2. task' = [task EXCEPT ![t] = r]
  BY DEF GoTo
<1>3. /\ r.step = step /\ r.dongle = task[t].dongle
      /\ r.node = task[t].node /\ r.lost = task[t].lost
  BY <1>1 DEF Sessions
<1>4. task'[t] = r /\ \A u \in Tasks \ {t} : task'[u] = task[u]
  BY <1>2 DEF TypeOK
<1>5. r # Idle
  <2>1. r \in Sessions
    BY <1>1 DEF Sessions, Listed, InSession
  <2>2. QED
    BY <2>1, DonglesAssumption
<1>6. QED
  BY <1>3, <1>4, <1>5 DEF Running

\* Steps of which the four parts speak only as long as the task goes on: before
\* an engine is registered and after everything is cleaned up.
Quiet == {"opening", "handshake", "loading", "unanswered", "resetting", "ended"}

\* A step of t between quiet steps, or to its end, changes nothing they say.
LEMMA TidyQuiet ==
    ASSUME TypeOK, TidyInv, EnginesAlive, NEW t \in Tasks,
           \A u \in Tasks \ {t} : task'[u] = task[u],
           UNCHANGED <<plugged, engines, online, late, assigned>>,
           Running(t) => task[t].step \in Quiet,
           \/ ~Running(t)'
           \/ /\ task'[t].step \in Quiet \cup {"loading"}
              /\ task'[t].step \in InSession =>
                    task'[t].lost \/ plugged[task'[t].dongle] = task'[t].node
    PROVE  TidyInv'
<1>1. LiveAtNode'
  BY DEF TidyInv, LiveAtNode, Running
<1>2. LiveEngine'
  BY DEF TidyInv, LiveEngine, Running, Quiet
<1>3. \A d \in Dongles : engines[d] # t
  BY DonglesAssumption DEF EnginesAlive, Quiet
<1>4. OnlineKept'
  BY <1>3 DEF TidyInv, OnlineKept, Reports, Running, Quiet, TypeOK
<1>5. AssignedKept'
  BY <1>3 DEF TidyInv, AssignedKept, Unassigns, Running, Quiet, TypeOK
<1>6. QED
  BY <1>1, <1>2, <1>4, <1>5 DEF TidyInv

\* Opening a node, failing to, and everything about a dongle that did not
\* answer; a session that is over.
LEMMA TidyOutside ==
    ASSUME TypeOK, TidyInv, EnginesAlive, NEW t \in Tasks,
           \/ Open(t) \/ OpenFails(t) \/ Handshake(t) \/ HandshakeFails(t)
           \/ EndSession(t) \/ TryReset(t) \/ GiveUp(t) \/ Reset(t) \/ ResetFails(t)
    PROVE  TidyInv'
<1>1. Running(t) /\ task[t] \in Sessions /\ task[t].step \in Quiet
  BY DEF Open, OpenFails, Handshake, HandshakeFails, EndSession, TryReset, GiveUp,
         Reset, ResetFails, Is, Running, Quiet, TypeOK
<1>2. UNCHANGED <<plugged, engines, online, late, assigned>>
  BY DEF Open, OpenFails, Handshake, HandshakeFails, EndSession, TryReset, GiveUp,
         Reset, ResetFails, worldVars, sharedVars, historyVars
<1>3. CASE OpenFails(t) \/ EndSession(t) \/ GiveUp(t) \/ Reset(t) \/ ResetFails(t)
  <2>1. task' = [task EXCEPT ![t] = Idle]
    BY <1>3 DEF OpenFails, EndSession, GiveUp, Reset, ResetFails, Detach
  <2>2. (\A u \in Tasks \ {t} : task'[u] = task[u]) /\ ~Running(t)'
    BY <2>1 DEF TypeOK, Running
  <2>3. QED
    BY <1>1, <1>2, <2>2, TidyQuiet
<1>4. CASE Handshake(t) \/ HandshakeFails(t) \/ TryReset(t)
  <2>1. PICK step \in {"loading", "unanswered", "resetting"} :
          GoTo(t, step) /\ (step = "loading" => task[t].step = "handshake")
    BY <1>4 DEF Handshake, HandshakeFails, TryReset, Is
  <2>2. /\ task'[t].step = step
        /\ task'[t].dongle = task[t].dongle
        /\ task'[t].node = task[t].node
        /\ task'[t].lost = task[t].lost
        /\ \A u \in Tasks \ {t} : task'[u] = task[u]
    BY <1>1, <2>1, SessionGoesTo DEF Listed, InSession
  <2>3. step = "loading" =>
          task[t].lost \/ plugged[task[t].dongle] = task[t].node
    BY <1>1, <2>1 DEF TidyInv, LiveAtNode, InSession
  <2>4. QED
    BY <1>1, <1>2, <2>1, <2>2, <2>3, TidyQuiet DEF Quiet, InSession
<1>5. CASE Open(t)
  <2>1. PICK d \in At(task[t].node) :
          task' = [task EXCEPT ![t].dongle = d, ![t].step = "handshake"]
    BY <1>5 DEF Open
  <2>2. d \in Dongles /\ plugged[d] = task[t].node
    BY <2>1 DEF At
  <2>3. /\ task'[t].step = "handshake"
        /\ task'[t].dongle = d
        /\ task'[t].node = task[t].node
        /\ \A u \in Tasks \ {t} : task'[u] = task[u]
    BY <1>1, <2>1, <2>2 DEF TypeOK, Sessions
  <2>4. QED
    BY <1>1, <1>2, <2>2, <2>3, TidyQuiet DEF Quiet, InSession
<1>6. QED
  BY <1>3, <1>4, <1>5

\* What the steps of a session that is up, or cleans up, have in common.
LEMMA SessionMoves ==
    ASSUME TypeOK, NEW t \in Tasks, 
           \/ Load(t) \/ Register(t) \/ GoOnline(t) \/ Leave(t) \/ Remove(t)
           \/ Unassign(t) \/ GoOffline(t)
    PROVE  /\ Running(t) /\ task[t] \in Sessions /\ Running(t)'
           /\ task'[t].dongle = task[t].dongle
           /\ task'[t].node = task[t].node
           /\ task'[t].lost = task[t].lost
           /\ \A u \in Tasks \ {t} : task'[u] = task[u]
           /\ Load(t) => task'[t].step = "registering"
           /\ Register(t) => task'[t].step = "joining"
           /\ GoOnline(t) => task'[t].step = "running"
           /\ Leave(t) => task'[t].step = "leaving"
           /\ Remove(t) => task'[t].step = IF engines[task[t].dongle] = t
                                           THEN "unassigning" ELSE "ended"
           /\ Unassign(t) => task'[t].step = "reporting"
           /\ GoOffline(t) => task'[t].step = "ended"
           /\ UNCHANGED plugged
<1>1. Running(t) /\ task[t] \in Sessions /\ UNCHANGED plugged
  BY DEF Load, Register, GoOnline, Leave, Remove, RemoveIf, Unassign, UnassignAnd,
         GoOffline, Is, Running, TypeOK, worldVars
<1>2. ASSUME NEW step \in Listed, GoTo(t, step)
      PROVE  /\ Running(t)' /\ task'[t].step = step
             /\ task'[t].dongle = task[t].dongle
             /\ task'[t].node = task[t].node
             /\ task'[t].lost = task[t].lost
             /\ \A u \in Tasks \ {t} : task'[u] = task[u]
  BY <1>1, <1>2, SessionGoesTo
<1>3. /\ Load(t) => GoTo(t, "registering")
      /\ Register(t) => GoTo(t, "joining")
      /\ GoOnline(t) => GoTo(t, "running")
      /\ Leave(t) => GoTo(t, "leaving")
      /\ Remove(t) => GoTo(t, IF engines[task[t].dongle] = t
                              THEN "unassigning" ELSE "ended")
      /\ Unassign(t) => GoTo(t, "reporting")
      /\ GoOffline(t) => GoTo(t, "ended")
  BY DEF Load, Register, GoOnline, Leave, Remove, RemoveIf, Unassign, UnassignAnd,
         GoOffline
<1>4. {"registering", "joining", "running", "leaving", "unassigning", "reporting",
       "ended"} \subseteq Listed
  BY DEF Listed, InSession
<1>5. QED
  BY <1>1, <1>2, <1>3, <1>4

\* A live session's transport goes on working over a step of some session.
LEMMA LiveAtNodeMoves ==
    ASSUME TypeOK, LiveAtNode, NEW t \in Tasks,
           \/ Load(t) \/ Register(t) \/ GoOnline(t) \/ Leave(t) \/ Remove(t)
           \/ Unassign(t) \/ GoOffline(t)
    PROVE  LiveAtNode'
<1>1. Running(t) /\ task'[t].step \in InSession => task[t].step \in InSession
  BY SessionMoves
  DEF Load, Register, GoOnline, Leave, Remove, RemoveIf, Unassign, UnassignAnd,
      GoOffline, Is, InSession
<1>2. QED
  BY <1>1, SessionMoves DEF LiveAtNode, Running

\* A step of a session of d concerns d alone: that d is still taken care of is
\* shown for the step, for the others it follows.
LEMMA TidyKept ==
    ASSUME NEW d \in Dongles, NEW t \in Tasks,
           OnlineKept, AssignedKept, late \subseteq late',
           online \subseteq Dongles, assigned \subseteq Dongles,
           online' \subseteq online \cup {d}, assigned' \subseteq assigned \cup {d},
           \A e \in Dongles, u \in Tasks : e # d =>
               /\ Reports(u, e) => Reports(u, e)'
               /\ Unassigns(u, e) => Unassigns(u, e)',
           d \in online' \ late' => \E u \in Tasks : Reports(u, d)',
           d \in assigned' => \E u \in Tasks : Unassigns(u, d)'
    PROVE  OnlineKept' /\ AssignedKept'
<1>1. OnlineKept'
  <2> SUFFICES ASSUME NEW e \in online' \ late' PROVE \E u \in Tasks : Reports(u, e)'
    BY DEF OnlineKept
  <2>1. CASE e = d
    BY <2>1
  <2>2. CASE e # d
    <3>1. e \in online \ late /\ e \in Dongles
      BY <2>2
    <3>2. PICK u \in Tasks : Reports(u, e)
      BY <3>1 DEF OnlineKept
    <3>3. QED
      BY <2>2, <3>1, <3>2
  <2>3. QED
    BY <2>1, <2>2
<1>2. AssignedKept'
  <2> SUFFICES ASSUME NEW e \in assigned' PROVE \E u \in Tasks : Unassigns(u, e)'
    BY DEF AssignedKept
  <2>1. CASE e = d
    BY <2>1
  <2>2. CASE e # d
    <3>1. e \in assigned /\ e \in Dongles
      BY <2>2
    <3>2. PICK u \in Tasks : Unassigns(u, e)
      BY <3>1 DEF AssignedKept
    <3>3. QED
      BY <2>2, <3>1, <3>2
  <2>3. QED
    BY <2>1, <2>2
<1>3. QED
  BY <1>1, <1>2

\* The engine registered may replace that of an older session, which is lost or
\* the dongle's: then this session is the one that came late.
LEMMA TidyRegister ==
    ASSUME NodeIInv, TidyInv, NEW t \in Tasks, Register(t)
    PROVE  TidyInv'
<1>0. PICK d \in Dongles : d = task[t].dongle
  BY SessionMoves DEF NodeIInv, Sessions
<1>1. /\ Running(t) /\ task[t].dongle = d
      /\ engines' = [engines EXCEPT ![d] = t]
      /\ late' = late \cup {e \in {d} : task[t].lost}
      /\ UNCHANGED <<assigned, online, plugged>>
      /\ task[t].step = "registering"
  BY <1>0, SessionMoves DEF Register, NodeIInv, TypeOK, Sessions, Is, worldVars
<1>2. LiveAtNode'
  BY LiveAtNodeMoves DEF NodeIInv, TidyInv
<1>3. LiveEngine'
  <2> SUFFICES ASSUME NEW u \in Tasks, Running(u)',
                      task'[u].step \in {"joining", "running"}, ~task'[u].lost,
                      task'[u].dongle \notin late'
               PROVE  engines'[task'[u].dongle] = u
    BY DEF LiveEngine
  <2>1. CASE u = t
    BY <1>1, <2>1, SessionMoves DEF NodeIInv, TypeOK
  <2>2. CASE u # t
    <3>1. Running(u) /\ task'[u] = task[u]
      BY <2>2, SessionMoves DEF Running, NodeIInv
    <3>2. engines[task[u].dongle] = u /\ task[u].dongle \in Dongles
      BY <1>1, <3>1 DEF TidyInv, LiveEngine, NodeIInv, TypeOK, Running, Sessions
    <3>3. task[u].dongle # d
      <4> SUFFICES ASSUME task[u].dongle = d PROVE FALSE
        OBVIOUS
      <4>1. ~task[t].lost
        BY <1>1, <3>1
      <4>2. task[u].node = plugged[d] /\ task[t].node = plugged[d]
        BY <1>1, <3>1, <4>1 DEF TidyInv, LiveAtNode, InSession
      <4>3. QED
        BY <1>1, <2>2, <3>1, <4>2 DEF NodeIInv, OneTaskPerNode
    <3>4. QED
      BY <1>1, <3>1, <3>2, <3>3 DEF NodeIInv, TypeOK
  <2>3. QED
    BY <2>1, <2>2
<1>4. Reports(t, d)' /\ Unassigns(t, d)'
  BY <1>1, SessionMoves DEF Reports, Unassigns, NodeIInv, TypeOK
<1>5. ASSUME NEW e \in Dongles, e # d, NEW u \in Tasks
      PROVE  /\ Reports(u, e) => Reports(u, e)'
             /\ Unassigns(u, e) => Unassigns(u, e)'
  BY <1>1, <1>5, SessionMoves DEF Reports, Unassigns, NodeIInv, TypeOK, Running
<1>6. OnlineKept' /\ AssignedKept'
  BY <1>1, <1>4, <1>5, TidyKept DEF TidyInv, NodeIInv, TypeOK
<1>7. QED
  BY <1>2, <1>3, <1>6 DEF TidyInv

\* The other steps of a session that is up, or cleans up.
LEMMA TidySession ==
    ASSUME NodeIInv, EnginesAlive, TidyInv, NEW t \in Tasks,
           \/ Load(t) \/ GoOnline(t) \/ Leave(t) \/ Remove(t)
           \/ Unassign(t) \/ GoOffline(t)
    PROVE  TidyInv'
<1>0. TypeOK
  BY DEF NodeIInv
<1> PICK d \in Dongles : d = task[t].dongle
  BY <1>0, SessionMoves DEF Sessions
<1>1. /\ Running(t) /\ Running(t)' /\ task[t].dongle = d
      /\ task'[t].dongle = d /\ task'[t].lost = task[t].lost
      /\ \A u \in Tasks \ {t} : task'[u] = task[u]
  BY <1>0, SessionMoves DEF Sessions
<1>2. LiveAtNode'
  BY <1>0, LiveAtNodeMoves DEF TidyInv
<1>3. /\ online' \subseteq online \cup {d} /\ late \subseteq late'
      /\ assigned' \subseteq assigned \cup {d}
      /\ \A e \in Dongles : e # d => engines'[e] = engines[e]
      /\ engines'[d] # engines[d] => engines[d] = t /\ engines'[d] = NoTask
  BY <1>0, <1>1
  DEF Load, GoOnline, Leave, Remove, RemoveIf, Unassign, UnassignAnd, GoOffline,
      sharedVars, historyVars, TypeOK
<1>4. ASSUME NEW e \in Dongles, NEW u \in Tasks, u # t \/ e # d
      PROVE  /\ Reports(u, e) => Reports(u, e)'
             /\ Unassigns(u, e) => Unassigns(u, e)'
  BY <1>0, <1>1, <1>3, <1>4 DEF Reports, Unassigns, Running
<1> DEFINE Kept ==
             /\ LiveEngine'
             /\ d \in online' \ late' => \E u \in Tasks : Reports(u, d)'
             /\ d \in assigned' => \E u \in Tasks : Unassigns(u, d)'
<1>5. Kept
  <2> DEFINE Enough ==
               /\ task'[t].step = "running" => d \in late' \/ engines'[d] = t
               /\ task'[t].step # "joining"
               /\ d \in online' \ late' => Reports(t, d)' \/ (d \in online /\ ~Reports(t, d))
               /\ d \in assigned' => Unassigns(t, d)' \/ (d \in assigned /\ ~Unassigns(t, d))
  <2>1. ASSUME Enough PROVE Kept
    <3>1. LiveEngine'
      BY <1>0, <1>1, <1>3, <2>1, DonglesAssumption
      DEF TidyInv, LiveEngine, TypeOK, Running, Sessions
    <3>2. ASSUME d \in online' \ late' PROVE \E u \in Tasks : Reports(u, d)'
      <4>1. CASE Reports(t, d)'
        BY <4>1
      <4>2. CASE d \in online /\ ~Reports(t, d)
        <5>1. PICK u \in Tasks : Reports(u, d)
          BY <1>3, <3>2, <4>2 DEF TidyInv, OnlineKept
        <5>2. u # t
          BY <4>2, <5>1
        <5>3. QED
          BY <1>1, <1>4, <5>1, <5>2
      <4>3. QED
        BY <2>1, <3>2, <4>1, <4>2
    <3>3. ASSUME d \in assigned' PROVE \E u \in Tasks : Unassigns(u, d)'
      <4>1. CASE Unassigns(t, d)'
        BY <4>1
      <4>2. CASE d \in assigned /\ ~Unassigns(t, d)
        <5>1. PICK u \in Tasks : Unassigns(u, d)
          BY <4>2 DEF TidyInv, AssignedKept
        <5>2. u # t
          BY <4>2, <5>1
        <5>3. QED
          BY <1>1, <1>4, <5>1, <5>2
      <4>3. QED
        BY <2>1, <3>3, <4>1, <4>2
    <3>4. QED
      BY <3>1, <3>2, <3>3
  <2> HIDE DEF Kept
  <2>2. CASE Load(t)
    <3>1. task'[t].step = "registering" /\ UNCHANGED <<engines, online, late>>
      BY <1>0, <2>2, SessionMoves DEF Load
    <3>2. task[t].step = "loading"
      BY <2>2 DEF Load, Is
    <3>3. ~Reports(t, d)
      BY <1>1, <3>2, DonglesAssumption DEF Reports, EnginesAlive
    <3>4. Unassigns(t, d)'
      BY <1>1, <3>1 DEF Unassigns
    <3>5. QED
      BY <2>1, <3>1, <3>3, <3>4
  <2>3. CASE GoOnline(t)
    <3>1. /\ task'[t].step = "running" /\ task[t].step = "joining"
          /\ UNCHANGED <<engines, assigned>>
          /\ engines[d] # t => d \in late'
      BY <1>0, <2>3, SessionMoves DEF GoOnline, Is
    <3>2. d \notin late' => Reports(t, d)'
      BY <1>1, <3>1 DEF Reports
    <3>3. Unassigns(t, d) => Unassigns(t, d)'
      BY <1>1, <3>1 DEF Unassigns
    <3>4. QED
      BY <2>1, <3>1, <3>2, <3>3
  <2>4. CASE Leave(t)
    <3>1. /\ task'[t].step = "leaving" /\ task[t].step = "running"
          /\ UNCHANGED <<engines, assigned, online, late>>
      BY <1>0, <2>4, SessionMoves DEF Leave, Is, sharedVars, historyVars
    <3>2. (Reports(t, d) => Reports(t, d)') /\ (Unassigns(t, d) => Unassigns(t, d)')
      BY <1>1, <3>1 DEF Reports, Unassigns
    <3>3. QED
      BY <2>1, <3>1, <3>2
  <2>5. CASE Remove(t)
    <3>1. /\ task'[t].step = IF engines[d] = t THEN "unassigning" ELSE "ended"
          /\ task[t].step = "leaving"
          /\ UNCHANGED <<assigned, online, late>>
      BY <1>0, <2>5, SessionMoves DEF Remove, RemoveIf, Is
    <3>2. (Reports(t, d) => Reports(t, d)') /\ (Unassigns(t, d) => Unassigns(t, d)')
      BY <1>1, <3>1 DEF Reports, Unassigns
    <3>3. task'[t].step \notin {"running", "joining"}
      BY <3>1
    <3>4. QED
      BY <2>1, <3>1, <3>2, <3>3
  <2>6. CASE Unassign(t)
    <3>1. /\ task'[t].step = "reporting" /\ task[t].step = "unassigning"
          /\ UNCHANGED <<engines, online, late>> /\ d \notin assigned'
      BY <1>0, <2>6, SessionMoves DEF Unassign, UnassignAnd, Is, historyVars
    <3>2. Reports(t, d)'
      BY <1>1, <3>1 DEF Reports
    <3>3. QED
      BY <2>1, <3>1, <3>2
  <2>7. CASE GoOffline(t)
    <3>1. /\ task'[t].step = "ended" /\ task[t].step = "reporting"
          /\ UNCHANGED <<engines, assigned, late>> /\ d \notin online'
      BY <1>0, <2>7, SessionMoves DEF GoOffline, Is, historyVars
    <3>2. ~Unassigns(t, d)
      BY <1>1, <3>1, DonglesAssumption DEF Unassigns, EnginesAlive
    <3>3. QED
      BY <2>1, <3>1, <3>2
  <2>8. QED
    BY <2>2, <2>3, <2>4, <2>5, <2>6, <2>7
<1>6. OnlineKept' /\ AssignedKept'
  BY <1>0, <1>1, <1>3, <1>4, <1>5, TidyKept DEF TidyInv, TypeOK
<1>7. QED
  BY <1>2, <1>5, <1>6 DEF TidyInv

\* What is plugged, unplugged, reserved or polled: no task takes a step, but a
\* transport may fail or a session be told to stop.
LEMMA TidyFrame ==
    ASSUME TypeOK, TidyInv, UNCHANGED <<engines, online, late, assigned>>,
           \A u \in Tasks :
               /\ Running(u)' <=> Running(u)
               /\ Running(u) =>
                   /\ task'[u].dongle = task[u].dongle
                   /\ task'[u].node = task[u].node
                   /\ task'[u].step = task[u].step
                   /\ task[u].lost => task'[u].lost,
           LiveAtNode'
    PROVE  TidyInv'
BY DEF TidyInv, LiveEngine, OnlineKept, AssignedKept, Reports, Unassigns

\* What is plugged, unplugged, reserved or polled: no task takes a step, but a
\* transport may fail or a session be told to stop.
LEMMA WorldTasks ==
    ASSUME NodeIInv,
           \/ \E d \in Dongles : Unplug(d) \/ \E n \in Nodes : Plug(d, n)
           \/ Poll
           \/ \E n \in Nodes : Maintenance(n)
           \/ UNCHANGED vars
    PROVE  \A u \in Tasks :
               /\ Running(u)' <=> Running(u)
               /\ Running(u) =>
                   /\ task'[u] \in {task[u], [task[u] EXCEPT !.lost = TRUE],
                                   [task[u] EXCEPT !.stop = TRUE]}
                   /\ task'[u].dongle = task[u].dongle
                   /\ task'[u].node = task[u].node
                   /\ task'[u].step = task[u].step
                   /\ task[u].lost => task'[u].lost
<1>1. ASSUME NEW u \in Tasks, Running(u)
      PROVE  task'[u] \in {task[u], [task[u] EXCEPT !.lost = TRUE],
                           [task[u] EXCEPT !.stop = TRUE]}
  <2>1. ASSUME NEW d \in Dongles, Unplug(d)
        PROVE  task'[u] \in {task[u], [task[u] EXCEPT !.lost = TRUE]}
    BY <2>1 DEF Unplug
  <2>2. ASSUME NEW n \in Nodes, Maintenance(n)
        PROVE  task'[u] \in {task[u], [task[u] EXCEPT !.stop = TRUE]}
    BY <2>2 DEF Maintenance, Reserve, Hold, HoldNode, HoldTimesOut, Release,
                NodeIInv, TypeOK
  <2>3. QED
    BY <2>1, <2>2 DEF Plug, Poll, vars
<1>2. ASSUME NEW u \in Tasks, ~Running(u)
      PROVE  ~Running(u)'
  <2>1. ASSUME NEW d \in Dongles, Unplug(d) PROVE task'[u] = task[u]
    BY <1>2, <2>1 DEF Unplug
  <2>2. ASSUME NEW n \in Nodes, Maintenance(n) PROVE task'[u] = task[u]
    BY <1>2, <2>2 DEF Maintenance, Reserve, Hold, HoldNode, HoldTimesOut, Release,
                      NodeIInv, TypeOK, SessionsInv
  <2>3. QED
    BY <1>2, <2>1, <2>2 DEF Plug, Poll, vars, Running
<1>3. ASSUME NEW u \in Tasks, Running(u)
      PROVE  /\ Running(u)'
             /\ task'[u].dongle = task[u].dongle
             /\ task'[u].node = task[u].node
             /\ task'[u].step = task[u].step
             /\ task[u].lost => task'[u].lost
  <2>1. task[u] \in Sessions
    BY <1>3 DEF NodeIInv, TypeOK, Running
  <2>2. task'[u] \in Sessions
    BY <1>1, <1>3, <2>1 DEF Sessions
  <2>3. QED
    BY <1>1, <1>3, <2>1, <2>2, DonglesAssumption DEF Running, Sessions
<1>4. QED
  BY <1>1, <1>2, <1>3

LEMMA TidyWorld ==
    ASSUME NodeIInv, TidyInv,
           \/ \E d \in Dongles : Unplug(d) \/ \E n \in Nodes : Plug(d, n)
           \/ Poll
           \/ \E n \in Nodes : Maintenance(n)
           \/ UNCHANGED vars
    PROVE  TidyInv'
<1>1. UNCHANGED <<engines, online, late, assigned>>
  BY DEF Unplug, Plug, Poll, Maintenance, Reserve, Hold, HoldNode, HoldTimesOut,
         Release, vars, sharedVars, historyVars
<1>2. \A u \in Tasks :
          /\ Running(u)' <=> Running(u)
          /\ Running(u) =>
              /\ task'[u] \in {task[u], [task[u] EXCEPT !.lost = TRUE],
                              [task[u] EXCEPT !.stop = TRUE]}
              /\ task'[u].dongle = task[u].dongle
              /\ task'[u].node = task[u].node
              /\ task'[u].step = task[u].step
              /\ task[u].lost => task'[u].lost
  BY WorldTasks
<1>3. LiveAtNode'
  <2> SUFFICES ASSUME NEW u \in Tasks, Running(u), task[u].step \in InSession,
                      ~task'[u].lost
               PROVE  plugged'[task[u].dongle] = task[u].node
    BY <1>2 DEF LiveAtNode
  <2>1. /\ plugged[task[u].dongle] = task[u].node
        /\ task[u].dongle \in Dongles /\ task[u].node \in Nodes /\ task[u] \in Sessions
    BY <1>2 DEF TidyInv, LiveAtNode, NodeIInv, TypeOK, Running, Sessions
  <2>2. ASSUME NEW d \in Dongles, Unplug(d)
        PROVE  plugged'[task[u].dongle] = task[u].node
    <3>1. task[u].node # plugged[d]
      BY <2>1, <2>2 DEF Unplug, Sessions
    <3>2. QED
      BY <2>1, <2>2, <3>1 DEF Unplug, NodeIInv, TypeOK
  <2>3. ASSUME NEW d \in Dongles, NEW n \in Nodes, Plug(d, n)
        PROVE  plugged'[task[u].dongle] = task[u].node
    BY <2>1, <2>3, DonglesAssumption DEF Plug, NodeIInv, TypeOK
  <2>4. CASE Poll \/ (\E n \in Nodes : Maintenance(n)) \/ UNCHANGED vars
    BY <2>1, <2>4 DEF Poll, Maintenance, Reserve, Hold, HoldNode, HoldTimesOut,
                      Release, vars, worldVars
  <2>5. QED
    BY <2>2, <2>3, <2>4
<1>4. QED
  BY <1>1, <1>2, <1>3, TidyFrame DEF NodeIInv

\* No session has a dongle that was just seen at the node: the task only begins.
LEMMA TidyAttach ==
    ASSUME NodeIInv, TidyInv, EnginesAlive, NEW t \in Tasks, NEW n \in Nodes,
           Attach(t, n)
    PROVE  TidyInv'
<1>1. PICK d \in At(n) :
        task' = [task EXCEPT ![t] = [node |-> n, dongle |-> d, step |-> "opening",
                                     lost |-> FALSE, stop |-> FALSE]]
  BY DEF Attach, Spawn
<1>2. task'[t].step = "opening" /\ \A u \in Tasks \ {t} : task'[u] = task[u]
  BY <1>1 DEF NodeIInv, TypeOK
<1>3. ~Running(t) /\ UNCHANGED <<plugged, engines, online, late, assigned>>
  BY DEF Attach, Spawn, worldVars, sharedVars, historyVars
<1>4. QED
  BY <1>2, <1>3, TidyQuiet DEF NodeIInv, Quiet, InSession

-------------------------------------------------------------------------------
(* The sensors and the status of a session that is up. *)

\* A step that takes no session to one of the steps InformedKept speaks of.
LEMMA InformedFrame ==
    ASSUME InformedKept, UNCHANGED <<online, assigned, listed, crossed>>,
           \A u \in Tasks :
               Running(u)' /\ task'[u].step \in Informed \cup CleaningUp =>
                   /\ Running(u)
                   /\ task'[u].step = task[u].step
                   /\ task'[u].dongle = task[u].dongle
    PROVE  InformedKept'
<1> SUFFICES ASSUME NEW t \in Tasks, NEW d, d = task'[t].dongle,
                    Running(t)', task'[t].step \in Informed, t \notin crossed
             PROVE  /\ Others(t, d, CleaningUp)' = {}
                    /\ task'[t].step = "running" => d \in online
                    /\ t \in listed => d \in assigned
  BY DEF InformedKept
<1>1. Running(t) /\ task'[t].step = task[t].step /\ task[t].dongle = d
  OBVIOUS
<1>2. Others(t, d, CleaningUp) = {}
  BY <1>1 DEF InformedKept
<1>3. Others(t, d, CleaningUp)' = {}
  BY <1>2 DEF Others
<1>4. QED
  BY <1>1, <1>3 DEF InformedKept

\* Before the list is read and after everything is cleaned up.
LEMMA InformedOutside ==
    ASSUME TypeOK, InformedKept, NEW t \in Tasks,
           \/ Open(t) \/ OpenFails(t) \/ Handshake(t) \/ HandshakeFails(t)
           \/ EndSession(t) \/ TryReset(t) \/ GiveUp(t) \/ Reset(t) \/ ResetFails(t)
    PROVE  InformedKept'
<1>1. Running(t) /\ task[t] \in Sessions
  BY DEF Open, OpenFails, Handshake, HandshakeFails, EndSession, TryReset, GiveUp,
         Reset, ResetFails, Is, Running, TypeOK
<1>2. UNCHANGED <<online, assigned, listed, crossed>>
  BY DEF Open, OpenFails, Handshake, HandshakeFails, EndSession, TryReset, GiveUp,
         Reset, ResetFails, sharedVars, historyVars
<1>3. /\ \A u \in Tasks \ {t} : task'[u] = task[u]
      /\ Running(t)' => task'[t].step \in Quiet
  <2>1. CASE OpenFails(t) \/ EndSession(t) \/ GiveUp(t) \/ Reset(t) \/ ResetFails(t)
    <3>1. task' = [task EXCEPT ![t] = Idle]
      BY <2>1 DEF OpenFails, EndSession, GiveUp, Reset, ResetFails, Detach
    <3>2. QED
      BY <3>1 DEF TypeOK, Running
  <2>2. CASE Handshake(t) \/ HandshakeFails(t) \/ TryReset(t)
    <3>1. PICK step \in {"loading", "unanswered", "resetting"} : GoTo(t, step)
      BY <2>2 DEF Handshake, HandshakeFails, TryReset
    <3>2. QED
      BY <1>1, <3>1, SessionGoesTo DEF Listed, InSession, Quiet
  <2>3. CASE Open(t)
    <3>1. PICK d \in At(task[t].node) :
            task' = [task EXCEPT ![t].dongle = d, ![t].step = "handshake"]
      BY <2>3 DEF Open
    <3>2. QED
      BY <1>1, <3>1 DEF TypeOK, Sessions, Quiet
  <2>4. QED
    BY <2>1, <2>2, <2>3
<1>4. QED
  BY <1>2, <1>3, InformedFrame DEF Quiet, Informed, CleaningUp, Running

\* A session that is up, or cleans up: its clean-up finds either no newer session
\* past its list, or one that it crossed.
LEMMA InformedSession ==
    ASSUME TypeOK, InformedKept, NEW t \in Tasks,
           \/ Load(t) \/ Register(t) \/ GoOnline(t) \/ Leave(t) \/ Remove(t)
           \/ Unassign(t) \/ GoOffline(t)
    PROVE  InformedKept'
<1> PICK e \in Dongles : e = task[t].dongle
  BY SessionMoves DEF Sessions
<1>1. /\ Running(t) /\ Running(t)' /\ task'[t].dongle = e /\ task[t].dongle = e
      /\ \A u \in Tasks \ {t} : task'[u] = task[u]
  BY SessionMoves
<1>2. /\ task'[t].step \in CleaningUp =>
           \/ task[t].step \in CleaningUp
           \/ Others(t, e, Informed) \subseteq crossed'
      /\ task'[t].step \in Informed => task[t].step \in Informed \/ Load(t)
  BY <1>1, SessionMoves
  DEF Load, Register, GoOnline, Leave, Remove, RemoveIf, Unassign, UnassignAnd,
      GoOffline, Is, Informed, CleaningUp
<1>3. \A u \in Tasks \ {t} : /\ u \in crossed => u \in crossed'
                             /\ u \in listed' => u \in listed
  BY DEF Load, Register, GoOnline, Leave, Remove, RemoveIf, Unassign, UnassignAnd,
         GoOffline, sharedVars, historyVars
<1>4. /\ online \ {e} \subseteq online' /\ assigned \ {e} \subseteq assigned'
      /\ e \in online /\ e \notin online' => task[t].step \in CleaningUp
      /\ e \in assigned /\ e \notin assigned' => task[t].step \in CleaningUp
  BY <1>1
  DEF Load, Register, GoOnline, Leave, Remove, RemoveIf, Unassign, UnassignAnd,
      GoOffline, Is, CleaningUp, sharedVars
<1> SUFFICES ASSUME NEW u \in Tasks, NEW d, d = task'[u].dongle,
                    Running(u)', task'[u].step \in Informed, u \notin crossed'
             PROVE  /\ Others(u, d, CleaningUp)' = {}
                    /\ task'[u].step = "running" => d \in online'
                    /\ u \in listed' => d \in assigned'
  BY DEF InformedKept
<1>5. CASE u # t
  <2>1. /\ Running(u) /\ task[u].step = task'[u].step /\ task[u].dongle = d
        /\ u \notin crossed /\ task[u].step \in Informed
    BY <1>1, <1>3, <1>5 DEF Running
  <2>2. /\ Others(u, d, CleaningUp) = {}
        /\ task[u].step = "running" => d \in online
        /\ u \in listed => d \in assigned
    BY <2>1 DEF InformedKept
  <2>3. d = e => task[t].step \notin CleaningUp
    BY <1>1, <1>5, <2>2 DEF Others
  <2>4. d = e => task'[t].step \notin CleaningUp
    BY <1>2, <1>5, <2>1, <2>3 DEF Others
  <2>5. Others(u, d, CleaningUp)' = {}
    BY <1>1, <2>2, <2>4 DEF Others, Running
  <2>6. QED
    BY <1>3, <1>4, <1>5, <2>1, <2>2, <2>3, <2>5
<1>6. CASE u = t /\ Load(t)
  <2>1. /\ Others(t, e, CleaningUp) = {}
        /\ t \in listed' => e \in assigned'
        /\ task'[t].step = "registering"
    BY <1>6, SessionMoves DEF Load
  <2>2. Others(t, e, CleaningUp)' = {}
    BY <1>1, <2>1 DEF Others, Running
  <2>3. QED
    BY <1>1, <1>6, <2>1, <2>2
<1>7. CASE u = t /\ ~Load(t)
  <2>1. Register(t) \/ GoOnline(t)
    BY <1>7, SessionMoves DEF Informed
  <2>2. task[t].step \in Informed
    BY <1>2, <1>7
  <2>3. UNCHANGED <<assigned, listed, crossed>>
    BY <2>1 DEF Register, GoOnline
  <2>4. Others(t, e, CleaningUp) = {} /\ (t \in listed => e \in assigned)
    BY <1>1, <1>7, <2>2, <2>3 DEF InformedKept
  <2>5. Others(t, e, CleaningUp)' = {}
    BY <1>1, <2>4 DEF Others, Running
  <2>6. task'[t].step = "running" => e \in online'
    BY <1>1, <2>1, SessionMoves DEF GoOnline
  <2>7. QED
    BY <1>1, <1>7, <2>3, <2>4, <2>5, <2>6
<1>8. QED
  BY <1>5, <1>6, <1>7

LEMMA InformedStep ==
    ASSUME NodeIInv, InformedKept, [Next]_vars
    PROVE  InformedKept'
<1>1. ASSUME NEW t \in Tasks, NEW n \in Nodes, Attach(t, n) PROVE InformedKept'
  <2>1. PICK d \in Dongles :
          task' = [task EXCEPT ![t] = [node |-> n, dongle |-> d, step |-> "opening",
                                       lost |-> FALSE, stop |-> FALSE]]
    BY <1>1 DEF Attach, Spawn, At
  <2>2. task'[t].step = "opening" /\ \A u \in Tasks \ {t} : task'[u] = task[u]
    BY <2>1 DEF NodeIInv, TypeOK
  <2>3. UNCHANGED <<online, assigned, listed, crossed>>
    BY <1>1 DEF Attach, Spawn, sharedVars, historyVars
  <2>4. QED
    BY <2>2, <2>3, InformedFrame DEF Informed, CleaningUp, Running
<1>2. ASSUME NEW t \in Tasks, SessionStep(t) PROVE InformedKept'
  BY <1>2, InformedOutside, InformedSession DEF SessionStep, NodeIInv
<1>3. CASE \/ \E d \in Dongles : Unplug(d) \/ \E n \in Nodes : Plug(d, n)
           \/ Poll
           \/ \E n \in Nodes : Maintenance(n)
           \/ UNCHANGED vars
  <2>1. UNCHANGED <<online, assigned, listed, crossed>>
    BY <1>3
    DEF Unplug, Plug, Poll, Maintenance, Reserve, Hold, HoldNode, HoldTimesOut,
        Release, vars, sharedVars, historyVars
  <2>2. \A u \in Tasks : /\ Running(u)' <=> Running(u)
                         /\ Running(u) => /\ task'[u].dongle = task[u].dongle
                                          /\ task'[u].step = task[u].step
    BY <1>3, WorldTasks
  <2>3. QED
    BY <2>1, <2>2, InformedFrame
<1>4. QED
  BY <1>1, <1>2, <1>3, DonglesAssumption DEF Next

\* A session that ends cleans up after itself: the last one of a dongle leaves
\* nothing behind, and its newer session keeps its engine, unless one came late,
\* and its sensors and status, unless the clean-up crossed it, for any number of
\* nodes, dongles and sessions.
THEOREM SessionsStayTidy == Spec => []SessionsTidy
<1>1. Init => TidyInv /\ InformedKept
  BY DEF Init, TidyInv, LiveAtNode, LiveEngine, OnlineKept, AssignedKept, InformedKept,
         Running
<1>2. NodeIInv /\ EnginesAlive /\ TidyInv /\ [Next]_vars => TidyInv'
  <2> SUFFICES ASSUME NodeIInv, EnginesAlive, TidyInv, [Next]_vars PROVE TidyInv'
    OBVIOUS
  <2>1. ASSUME NEW t \in Tasks, NEW n \in Nodes, Attach(t, n) PROVE TidyInv'
    BY <2>1, TidyAttach
  <2>2. ASSUME NEW t \in Tasks, SessionStep(t) PROVE TidyInv'
    BY <2>2, TidyOutside, TidyRegister, TidySession DEF SessionStep, NodeIInv
  <2>3. QED
    BY <2>1, <2>2, TidyWorld, DonglesAssumption DEF Next
<1>3. NodeIInv /\ InformedKept /\ [Next]_vars => InformedKept'
  BY InformedStep
<1>4. TidyIInv => SessionsTidy
  <2> SUFFICES ASSUME TidyIInv PROVE SessionsTidy
    OBVIOUS
  <2> USE DEF TidyIInv, NodeIInv
  <2>1. LiveRegistered
    BY DEF LiveRegistered, TidyInv, LiveEngine, InformedKept, Informed, Is
  <2>2. GoneIsOffline
    BY DEF GoneIsOffline, EnginesAlive, TidyInv, OnlineKept, AssignedKept, Reports,
           Unassigns, TypeOK
  <2>3. QED
    BY <2>1, <2>2 DEF SessionsTidy
<1>5. QED
  BY <1>1, <1>2, <1>3, <1>4, NodeInvariant, EnginesStayAlive, PTL DEF Spec, TidyIInv
===============================================================================
