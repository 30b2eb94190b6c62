-------------------------------- MODULE Bridges --------------------------------
(***************************************************************************)
(* A dongle reached over the network: its bridge client relays it over a   *)
(* WebSocket (src/src/bin/dongle_bridge.rs) and connects again whenever    *)
(* that ends; the daemon runs a session for each connection                *)
(* (handle_bridge_connection, src/src/web/server.rs).                      *)
(*                                                                         *)
(* A connection may stop to carry anything without either end being told,  *)
(* so the session that finds out by its pings and the one of the client's  *)
(* next connection overlap.  They share the entry of the engines map, the  *)
(* sensors assigned to the dongle, roaming's view of it and the status     *)
(* published for it.                                                       *)
(***************************************************************************)
EXTENDS Naturals

CONSTANTS
    MaxSessions,   \* bound: connections
    MaxMissed,     \* max_missed_pongs
    MaxUpsets      \* bound: failures of the network, the client, the queue

ASSUME BridgesAssumption ==
    /\ MaxSessions \in Nat \ {0} /\ MaxMissed \in Nat \ {0}
    /\ MaxUpsets \in Nat

VARIABLES
    client,    \* the connection the bridge client relays over, or 0
    link,      \* link[s]: connection s
    session,   \* session[s]: the step of its session
    missed,    \* missed[s]: pings in a row without an answer
    lost,      \* the sessions whose transport failed (disconnect_notify)
    stalled,   \* the sessions whose reader waits for the event queue
    engine,    \* the session whose engine is registered, or 0
    join,      \* join[s]: gateway_connected, started by session s
    online,    \* the gateway is online to roaming
    home,      \* the dongle's sensors are assigned to it
    report,    \* a report from the dongle waits to be dispatched
    status,    \* the status published last
    upsets,    \* upsets so far
    causes     \* history: what went wrong (Causes)

linkVars == <<client, link, upsets>>
watchVars == <<missed, lost, stalled>>
vars == <<linkVars, session, watchVars, engine, join, online, home, report, status, causes>>

Sessions == 1 .. MaxSessions
Steps == {"none", "handshake", "failed", "loading", "registering", "watching", "leaving", "cleaning", "gone"}
Serving == {"handshake", "loading", "registering", "watching"}

\* A session registered its engine after a newer one; the sensors were not read;
\* an older session cleaned up while a newer one set up; a report was dispatched,
\* or the gateway marked online, when nothing was registered; roaming could not
\* read the gateway; a status did not fit.
Causes == {"overtaken", "unread", "crossed", "late report", "late join", "no join", "dropped"}

TypeOK ==
    /\ client \in Sessions \cup {0}
    /\ link \in [Sessions -> {"none", "open", "stuck", "closed"}]
    /\ session \in [Sessions -> Steps]
    /\ missed \in [Sessions -> 0 .. MaxMissed]
    /\ lost \subseteq Sessions /\ stalled \subseteq Sessions
    /\ engine \in Sessions \cup {0}
    /\ join \in [Sessions -> [at : {"none", "asked", "reading", "read"}, of : Sessions \cup {0}]]
    /\ online \in BOOLEAN /\ home \in BOOLEAN /\ report \in BOOLEAN
    /\ status \in {"none", "online", "offline"}
    /\ upsets \in Nat
    /\ causes \subseteq Causes

Init ==
    /\ client = 0
    /\ link = [s \in Sessions |-> "none"]
    /\ session = [s \in Sessions |-> "none"]
    /\ missed = [s \in Sessions |-> 0]
    /\ lost = {} /\ stalled = {}
    /\ engine = 0
    /\ join = [s \in Sessions |-> [at |-> "none", of |-> 0]]
    /\ online = FALSE /\ home = FALSE /\ report = FALSE
    /\ status = "none"
    /\ upsets = 0
    /\ causes = {}

GoTo(s, step) == session' = [session EXCEPT ![s] = step]
Blame(c, cause) == causes' = IF c THEN causes \cup {cause} ELSE causes
Upset == upsets < MaxUpsets /\ upsets' = upsets + 1

\* The dongle's status is published in order, after a queue; one that does not fit
\* is dropped (try_send).  `other` is what else went wrong.
TrySay(word, other) ==
    \/ /\ status' = word
       /\ causes' = causes \cup other
       /\ UNCHANGED upsets
    \/ /\ Upset
       /\ causes' = causes \cup other \cup {"dropped"}
       /\ UNCHANGED status

If(c, cause) == IF c THEN {cause} ELSE {}

-------------------------------------------------------------------------------
(* The bridge client and its connection. *)

\* run_bridge: it connects, and the daemon starts a session.
Connect(s) ==
    /\ client = 0 /\ link[s] = "none" /\ \A r \in 1 .. s - 1 : link[r] # "none"
    /\ client' = s
    /\ link' = [link EXCEPT ![s] = "open"]
    /\ GoTo(s, "handshake")
    /\ UNCHANGED <<upsets, watchVars, engine, join, online, home, report, status, causes>>

\* Nothing gets through any more, and nobody is told.
Cut(s) ==
    /\ link[s] = "open" /\ Upset
    /\ link' = [link EXCEPT ![s] = "stuck"]
    /\ UNCHANGED <<client, session, watchVars, engine, join, online, home, report, status, causes>>

\* The client is stopped or loses its dongle, and the daemon sees it.
Quit(s) ==
    /\ client = s /\ link[s] = "open" /\ Upset
    /\ client' = 0
    /\ link' = [link EXCEPT ![s] = "closed"]
    /\ lost' = lost \cup {s}
    /\ UNCHANGED <<session, missed, stalled, engine, join, online, home, report, status, causes>>

\* The client's next frame fails: the daemon has dropped the connection, or
\* TCP has given it up.
SendFails(s) ==
    /\ client = s /\ link[s] \in {"stuck", "closed"}
    /\ client' = 0
    /\ UNCHANGED <<link, upsets, session, watchVars, engine, join, online, home, report, status, causes>>

\* The daemon ends connection s, saying so in a close frame (close_bridge).
CloseBridge(s) ==
    /\ link' = [link EXCEPT ![s] = "closed"]
    /\ client' = IF link[s] = "open" /\ client = s THEN 0 ELSE client

-------------------------------------------------------------------------------
(* A session. *)

\* initialize_handshake, each of whose replies must get through in time.
Handshake(s) ==
    /\ session[s] = "handshake" /\ link[s] = "open"
    /\ GoTo(s, "loading")
    /\ UNCHANGED <<linkVars, watchVars, engine, join, online, home, report, status, causes>>

FailHandshake(s) ==
    /\ session[s] = "handshake"
    /\ IF link[s] = "open" THEN Upset ELSE UNCHANGED upsets
    /\ GoTo(s, "failed")
    /\ CloseBridge(s)
    /\ lost' = lost \ {s} /\ stalled' = stalled \ {s}
    /\ UNCHANGED <<missed, engine, join, online, home, report, status, causes>>

\* The sensor list is read: they are assigned.
Load(s) ==
    /\ session[s] = "loading" /\ link[s] = "open"
    /\ home' = TRUE
    /\ GoTo(s, "registering")
    /\ UNCHANGED <<linkVars, watchVars, engine, join, online, report, status, causes>>

\* It cannot be read: the session goes on.
FailLoad(s) ==
    /\ session[s] = "loading"
    /\ IF link[s] = "open" THEN Upset ELSE UNCHANGED upsets
    /\ GoTo(s, "registering")
    /\ causes' = causes \cup {"unread"}
    /\ UNCHANGED <<client, link, watchVars, engine, join, online, home, report, status>>

\* The engine takes the dongle's place in the map; the dongle is said to be online,
\* and roaming looks at it in a task of its own.
Register(s) ==
    /\ session[s] = "registering"
    /\ engine' = s
    /\ join' = [join EXCEPT ![s] = [at |-> "asked", of |-> 0]]
    /\ GoTo(s, "watching")
    /\ TrySay("online", If(engine > s, "overtaken")
                          \cup If(\E r \in Sessions : session[r] = "cleaning", "crossed"))
    /\ UNCHANGED <<client, link, watchVars, online, home, report>>

\* The reader found the connection closed.
Disconnected(s) ==
    /\ session[s] = "watching" /\ s \in lost \ stalled
    /\ GoTo(s, "leaving")
    /\ UNCHANGED <<linkVars, watchVars, engine, join, online, home, report, status, causes>>

\* Mutation of Missed: a ping that could be sent counts as answered.
MissedUnsent(s) == IF link[s] = "closed" THEN missed[s] + 1 ELSE 0

\* heartbeat: the reader counts the answers.
Missed(s) == IF link[s] = "open" /\ s \notin stalled THEN 0 ELSE missed[s] + 1

\* A ping, and the interval after it.
Ping(s) ==
    /\ session[s] = "watching" /\ Missed(s) # missed[s]
    /\ missed' = [missed EXCEPT ![s] = Missed(s)]
    /\ IF Missed(s) < MaxMissed
          THEN UNCHANGED <<session, client, link>>
          ELSE GoTo(s, "leaving") /\ CloseBridge(s)
    /\ UNCHANGED <<upsets, lost, stalled, engine, join, online, home, report, status, causes>>

\* Mutation of Ours: whatever is registered for the dongle is removed.
OursAlways(s) == engine # 0

Ours(s) == engine = s

Left(s, next) ==
    /\ session[s] = "leaving"
    /\ IF Ours(s) THEN engine' = 0 /\ GoTo(s, next)
                  ELSE UNCHANGED engine /\ GoTo(s, "gone")
    /\ link' = [link EXCEPT ![s] = "closed"]
    /\ missed' = [missed EXCEPT ![s] = 0] /\ lost' = lost \ {s} /\ stalled' = stalled \ {s}
    /\ UNCHANGED <<client, upsets, join, online, home, report, status, causes>>

\* Mutation of Leave: only the engine is removed.
LeaveOnly(s) == Left(s, "gone")

\* The engine's worker stops; the entry is removed unless a newer session's.
Leave(s) == Left(s, "cleaning")

\* gateway_disconnected, unassign_dongle and the status, without a wait between.
CleanUp(s) ==
    /\ session[s] = "cleaning"
    /\ online' = FALSE
    /\ home' = FALSE
    /\ GoTo(s, "gone")
    /\ TrySay("offline", If(\E r \in Sessions : session[r] = "registering", "crossed"))
    /\ UNCHANGED <<client, link, watchVars, engine, join, report>>

-------------------------------------------------------------------------------
(* What the session's engine feeds. *)

\* The event queue is full: the reader of s waits, and reads no answers meanwhile.
Stall(s) ==
    /\ session[s] = "watching" /\ s \notin stalled /\ Upset
    /\ stalled' = stalled \cup {s}
    /\ UNCHANGED <<client, link, session, missed, lost, engine, join, online, home, report, status, causes>>

Resume(s) ==
    /\ s \in stalled
    /\ stalled' = stalled \ {s}
    /\ UNCHANGED <<linkVars, session, missed, lost, engine, join, online, home, report, status, causes>>

\* A sensor reports.
Report(s) ==
    /\ session[s] = "watching" /\ link[s] = "open" /\ s \notin stalled
    /\ ~report
    /\ report' = TRUE
    /\ UNCHANGED <<linkVars, session, watchVars, engine, join, online, home, status, causes>>

\* dispatch_event gives the sensor to the dongle that passed its report on.
Dispatch ==
    /\ report
    /\ report' = FALSE
    /\ home' = TRUE
    /\ Blame(engine = 0, "late report")
    /\ UNCHANGED <<linkVars, session, watchVars, engine, join, online, status>>

-------------------------------------------------------------------------------
(* Roaming looks at the gateway (gateway_connected). *)

\* It takes the engine registered by then.
FindEngine(s) ==
    /\ join[s].at = "asked"
    /\ join' = [join EXCEPT ![s] = IF engine = 0 THEN [at |-> "none", of |-> 0]
                                   ELSE [at |-> "reading", of |-> engine]]
    /\ UNCHANGED <<linkVars, session, watchVars, engine, online, home, report, status, causes>>

CanRead(s) == link[s] = "open" /\ session[s] \in Serving

\* Flags, build, network and table are read, or one of them is not.
ReadGateway(s) ==
    /\ join[s].at = "reading" /\ CanRead(join[s].of)
    /\ join' = [join EXCEPT ![s].at = "read"]
    /\ UNCHANGED <<linkVars, session, watchVars, engine, online, home, report, status, causes>>

FailReadGateway(s) ==
    /\ join[s].at = "reading"
    /\ IF CanRead(join[s].of) THEN Upset ELSE UNCHANGED upsets
    /\ join' = [join EXCEPT ![s] = [at |-> "none", of |-> 0]]
    /\ causes' = causes \cup {"no join"}
    /\ UNCHANGED <<client, link, session, watchVars, engine, online, home, report, status>>

\* The gateway is online with what was read.
MarkOnline(s) ==
    /\ join[s].at = "read"
    /\ online' = TRUE
    /\ join' = [join EXCEPT ![s] = [at |-> "none", of |-> 0]]
    /\ Blame(engine = 0, "late join")
    /\ UNCHANGED <<linkVars, session, watchVars, engine, home, report, status>>

-------------------------------------------------------------------------------
SessionStep(s) ==
    \/ Handshake(s) \/ FailHandshake(s) \/ Load(s) \/ FailLoad(s)
    \/ Register(s) \/ Disconnected(s) \/ Ping(s) \/ Leave(s) \/ CleanUp(s)

JoinStep(s) == FindEngine(s) \/ ReadGateway(s) \/ FailReadGateway(s) \/ MarkOnline(s)

ClientStep(s) == Connect(s) \/ SendFails(s)

Next ==
    \/ \E s \in Sessions :
          \/ ClientStep(s) \/ Cut(s) \/ Quit(s)
          \/ SessionStep(s)
          \/ Stall(s) \/ Resume(s) \/ Report(s)
          \/ JoinStep(s)
    \/ Dispatch

Spec == Init /\ [][Next]_vars

\* Each task goes on while it can; the sensors' traffic shows the client a dead
\* connection sooner or later.
FairSpec ==
    /\ Spec
    /\ \A s \in Sessions :
          WF_vars(ClientStep(s)) /\ WF_vars(SessionStep(s)) /\ WF_vars(Resume(s)) /\ WF_vars(JoinStep(s))
    /\ WF_vars(Dispatch)

-------------------------------------------------------------------------------
(* Properties. *)

\* Nothing is under way: no session sets up or cleans up, and nobody has anything
\* to pass on.
Settled ==
    /\ \A s \in Sessions : /\ session[s] \in {"none", "failed", "gone"} \/ (session[s] = "watching" /\ link[s] = "open")
                           /\ join[s].at = "none"
    /\ ~report

Excused(cs) == causes \cap cs # {}

\* A session that watches its connection has its engine registered, unless a newer
\* one took its place, or an older one that was late did.
WatchedServed ==
    \A s \in Sessions :
        session[s] = "watching" =>
            \/ engine = s
            \/ \E r \in Sessions : r > s /\ session[r] \in {"watching", "leaving", "cleaning", "gone"}
            \/ Excused({"overtaken"})

\* At rest, what MQTT was told last of the dongle is whether it is served.
StatusTrue ==
    Settled => (status = "online" <=> engine # 0) \/ Excused({"crossed", "dropped"})

\* At rest, the sensors are assigned to the dongle if and only if it is served.
SensorsHome ==
    Settled => (home <=> engine # 0) \/ Excused({"crossed", "unread", "late report"})

\* At rest, the gateway is online to roaming if and only if it is served.
GatewayOnlineTrue ==
    Settled => (online <=> engine # 0) \/ Excused({"crossed", "no join", "late join"})

\* MQTT, the sensors and roaming agree on whether the dongle is served.
ViewsTrue == StatusTrue /\ SensorsHome /\ GatewayOnlineTrue

\* In the end no connection is left that carries nothing: its session finds out.
DeadDropped == <>[](\A s \in Sessions : link[s] # "stuck")

\* In the end the client is served over the connection it has: unless a session
\* registered its engine after a newer one.
ServedAgain == <>[]((client # 0 /\ engine = client) \/ Excused({"overtaken"}))

\* However connections fail, the daemon comes to have the live one, and no other.
Recovers == DeadDropped /\ ServedAgain
===============================================================================
