--------------------------- MODULE ConnectionProofs ---------------------------
(* Theorems about what comes over a connection: Bridges, for any number of     *)
(* connections, missed answers and upsets, GatewayReads, for any number of     *)
(* tasks, sensors and mishaps, and PacketFraming, for any line of bytes.       *)
EXTENDS Bridges, GatewayReads, PacketFraming, SequenceTheorems, FiniteSetTheorems,
        WellFoundedInduction, TLAPS

-------------------------------------------------------------------------------
(* The bridges' connections.                                                   *)

\* A status that is published, or dropped, is one of the two there are.
LEMMA TrySayType ==
    ASSUME NEW word \in {"online", "offline"}, NEW other \in SUBSET Causes,
           TypeOK, TrySay(word, other)
    PROVE  status' \in {"none", "online", "offline"} /\ upsets' \in Nat /\ causes' \subseteq Causes
<1>1. status' \in {"none", "online", "offline"} /\ upsets' \in Nat
  BY DEF TrySay, Upset, TypeOK
<1>2. "dropped" \in Causes
  BY DEF Causes
<1>3. causes \subseteq Causes
  BY DEF TypeOK
<1>4. causes' \subseteq Causes
  BY <1>2, <1>3 DEF TrySay
<1>5. QED
  BY <1>1, <1>4

\* A connection that is closed is still one of those there are.
LEMMA CloseBridgeType ==
    ASSUME NEW s \in Sessions, TypeOK, CloseBridge(s)
    PROVE  /\ link' \in [Sessions -> {"none", "open", "stuck", "closed"}]
           /\ client' \in Sessions \cup {0}
BY DEF CloseBridge, TypeOK

\* A session that has missed all the answers it may leaves at once.
Counting == \A s \in Sessions : session[s] # "leaving" => missed[s] < MaxMissed

\* Counting holds on where a session's count is kept and none stops to leave.
LEMMA CountingFrame ==
    ASSUME Counting, missed' = missed,
           \A r \in Sessions : session[r] = "leaving" => session'[r] = "leaving"
    PROVE  Counting'
BY DEF Counting

\* A connection that was not made yet has no session.
Begun == \A s \in Sessions : link[s] = "none" => session[s] = "none"

\* Begun holds on where no connection is unmade and only sessions there are move.
LEMMA BegunFrame ==
    ASSUME Begun,
           \A r \in Sessions : link'[r] = "none" => link[r] = "none" /\ session'[r] = session[r]
    PROVE  Begun'
BY DEF Begun

\* What TypeOK needs to be inductive, and what no session begins anew for.
BridgesIInv == TypeOK /\ Counting /\ Begun

LEMMA BridgesInit == Init => BridgesIInv
<1> SUFFICES ASSUME Init PROVE BridgesIInv
  OBVIOUS
<1>1. session \in [Sessions -> Steps] /\ causes \subseteq Causes
  BY DEF Init, Steps, Causes
<1>2. missed \in [Sessions -> 0 .. MaxMissed] /\ Counting /\ Begun
  BY BridgesAssumption DEF Init, Counting, Begun
<1>3. join \in [Sessions -> [at : {"none", "asked", "reading", "read"}, of : Sessions \cup {0}]]
  BY DEF Init
<1>4. link \in [Sessions -> {"none", "open", "stuck", "closed"}]
  BY DEF Init
<1>5. QED
  BY <1>1, <1>2, <1>3, <1>4 DEF Init, TypeOK, BridgesIInv

\* The client, the network and what a session feeds leave the sessions as they
\* are, but for the one that begins.
LEMMA OutsideStep ==
    ASSUME BridgesIInv, NEW s \in Sessions,
           ClientStep(s) \/ Cut(s) \/ Quit(s) \/ Stall(s) \/ Resume(s) \/ Report(s)
    PROVE  BridgesIInv'
<1> USE BridgesAssumption DEF linkVars, watchVars, BridgesIInv
<1>1. CASE Connect(s)
  <2>1. session[s] = "none" /\ link' = [link EXCEPT ![s] = "open"]
        /\ session' = [session EXCEPT ![s] = "handshake"]
    BY <1>1 DEF Connect, GoTo, Begun
  <2>2. session' \in [Sessions -> Steps] /\ link' \in [Sessions -> {"none", "open", "stuck", "closed"}]
    BY <2>1 DEF TypeOK, Steps
  <2>3. TypeOK'
    BY <1>1, <2>2 DEF Connect, TypeOK
  <2>4. Counting' /\ Begun'
    BY <1>1, <2>1 DEF Connect, Counting, Begun, TypeOK
  <2>5. QED
    BY <2>3, <2>4
<1>2. CASE SendFails(s) \/ Cut(s) \/ Quit(s)
  <2>1. TypeOK'
    BY <1>2 DEF SendFails, Cut, Quit, Upset, TypeOK
  <2>2. Counting' /\ Begun'
    BY <1>2, CountingFrame, BegunFrame DEF SendFails, Cut, Quit, TypeOK
  <2>3. QED
    BY <2>1, <2>2
<1>3. CASE Stall(s) \/ Resume(s) \/ Report(s)
  <2>1. stalled' \subseteq Sessions
    BY <1>3 DEF Stall, Resume, Report, TypeOK
  <2>2. UNCHANGED <<client, link, session, missed, lost, engine, join, online, home, status, causes>>
    BY <1>3 DEF Stall, Resume, Report
  <2>3. TypeOK'
    <3>1. report' \in BOOLEAN
      BY <1>3 DEF Stall, Resume, Report, TypeOK
    <3>2. upsets' = upsets \/ upsets' = upsets + 1
      BY <1>3 DEF Stall, Resume, Report, Upset, linkVars
    <3>3. QED
      BY <2>1, <2>2, <3>1, <3>2 DEF TypeOK
  <2>4. Counting' /\ Begun'
    BY <2>2, CountingFrame, BegunFrame
  <2>5. QED
    BY <2>3, <2>4
<1>4. QED
  BY <1>1, <1>2, <1>3 DEF ClientStep

\* A session that goes from one step to the next keeps its count.
LEMMA GoOnStep ==
    ASSUME BridgesIInv, NEW s \in Sessions, NEW step \in Steps \ {"none"},
           session[s] \notin {"none", "leaving"}, GoTo(s, step),
           missed' = missed, link' = link
    PROVE  session' \in [Sessions -> Steps] /\ Counting' /\ Begun'
<1>1. session' = [session EXCEPT ![s] = step]
  BY DEF GoTo
<1>2. session' \in [Sessions -> Steps]
  BY <1>1 DEF BridgesIInv, TypeOK
<1>3. Counting'
  BY <1>1, CountingFrame DEF BridgesIInv, TypeOK
<1>4. Begun'
  BY <1>1, BegunFrame DEF BridgesIInv, TypeOK, Begun
<1>5. QED
  BY <1>2, <1>3, <1>4

LEMMA SessionGoesOn ==
    ASSUME BridgesIInv, NEW s \in Sessions, SessionStep(s)
    PROVE  BridgesIInv'
<1> USE BridgesAssumption DEF BridgesIInv
<1>1. CASE Handshake(s)
  <2>1. session' \in [Sessions -> Steps] /\ Counting' /\ Begun'
    BY <1>1, GoOnStep DEF Handshake, Steps, linkVars, watchVars
  <2>2. QED
    BY <1>1, <2>1 DEF Handshake, TypeOK, linkVars, watchVars
<1>2. CASE Load(s)
  <2>1. session' \in [Sessions -> Steps] /\ Counting' /\ Begun'
    BY <1>2, GoOnStep DEF Load, Steps, linkVars, watchVars
  <2>2. QED
    BY <1>2, <2>1 DEF Load, TypeOK, linkVars, watchVars
<1>3. CASE FailLoad(s)
  <2>1. session' \in [Sessions -> Steps] /\ Counting' /\ Begun'
    BY <1>3, GoOnStep DEF FailLoad, Steps, watchVars
  <2>2. causes' \subseteq Causes
    BY <1>3 DEF FailLoad, TypeOK, Causes
  <2>3. upsets' \in Nat
    BY <1>3 DEF FailLoad, Upset, TypeOK
  <2>4. QED
    BY <1>3, <2>1, <2>2, <2>3 DEF FailLoad, TypeOK, watchVars
<1>4. CASE Disconnected(s)
  <2>1. session' \in [Sessions -> Steps] /\ Counting' /\ Begun'
    BY <1>4, GoOnStep DEF Disconnected, Steps, linkVars, watchVars
  <2>2. QED
    BY <1>4, <2>1 DEF Disconnected, TypeOK, linkVars, watchVars
<1>5. CASE FailHandshake(s)
  <2>1. session' = [session EXCEPT ![s] = "failed"] /\ link' = [link EXCEPT ![s] = "closed"]
    BY <1>5 DEF FailHandshake, GoTo, CloseBridge
  <2>2. session' \in [Sessions -> Steps]
    BY <2>1 DEF TypeOK, Steps
  <2>3. client' \in Sessions \cup {0} /\ link' \in [Sessions -> {"none", "open", "stuck", "closed"}]
    BY <1>5, CloseBridgeType DEF FailHandshake
  <2>4. TypeOK'
    BY <1>5, <2>2, <2>3 DEF FailHandshake, Upset, TypeOK
  <2>5. Counting'
    BY <1>5, <2>1, CountingFrame DEF FailHandshake, TypeOK
  <2>6. Begun'
    BY <2>1, BegunFrame DEF TypeOK
  <2>7. QED
    BY <2>4, <2>5, <2>6
<1>6. CASE Register(s)
  <2> DEFINE other == If(engine > s, "overtaken")
                        \cup If(\E r \in Sessions : session[r] = "cleaning", "crossed")
  <2>1. other \in SUBSET Causes
    BY DEF If, Causes
  <2>2. TrySay("online", other)
    BY <1>6 DEF Register
  <2> HIDE DEF other
  <2>3. status' \in {"none", "online", "offline"} /\ upsets' \in Nat /\ causes' \subseteq Causes
    BY <2>1, <2>2, TrySayType
  <2>4. session' \in [Sessions -> Steps] /\ Counting' /\ Begun'
    BY <1>6, GoOnStep DEF Register, Steps, watchVars
  <2>5. join' \in [Sessions -> [at : {"none", "asked", "reading", "read"}, of : Sessions \cup {0}]]
    BY <1>6 DEF Register, TypeOK
  <2>6. QED
    BY <1>6, <2>3, <2>4, <2>5 DEF Register, TypeOK, watchVars
<1>7. CASE Ping(s)
  <2>1. missed[s] \in 0 .. MaxMissed /\ missed[s] < MaxMissed /\ session[s] = "watching"
    BY <1>7 DEF TypeOK, Counting, Ping
  <2>2. Missed(s) \in 0 .. MaxMissed
    BY <2>1 DEF Missed
  <2>3. missed' = [missed EXCEPT ![s] = Missed(s)]
    BY <1>7 DEF Ping
  <2>4. missed' \in [Sessions -> 0 .. MaxMissed]
    BY <2>2, <2>3 DEF TypeOK
  <2>5. CASE Missed(s) < MaxMissed
    <3>1. UNCHANGED <<session, client, link>>
      BY <1>7, <2>5 DEF Ping
    <3>2. TypeOK'
      BY <1>7, <2>4, <3>1 DEF Ping, TypeOK
    <3>3. Counting'
      BY <2>3, <2>5, <3>1 DEF Counting, TypeOK
    <3>4. Begun'
      BY <3>1, BegunFrame
    <3>5. QED
      BY <3>2, <3>3, <3>4
  <2>6. CASE ~(Missed(s) < MaxMissed)
    <3>1. session' = [session EXCEPT ![s] = "leaving"] /\ CloseBridge(s)
      BY <1>7, <2>6 DEF Ping, GoTo
    <3>2. client' \in Sessions \cup {0} /\ link' \in [Sessions -> {"none", "open", "stuck", "closed"}]
      BY <3>1, CloseBridgeType
    <3>3. session' \in [Sessions -> Steps]
      BY <3>1 DEF TypeOK, Steps
    <3>4. TypeOK'
      BY <1>7, <2>4, <3>2, <3>3 DEF Ping, TypeOK
    <3>5. Counting'
      BY <2>3, <3>1 DEF Counting, TypeOK
    <3>6. Begun'
      BY <3>1, BegunFrame DEF CloseBridge, TypeOK
    <3>7. QED
      BY <3>4, <3>5, <3>6
  <2>7. QED
    BY <2>5, <2>6
<1>8. CASE Leave(s)
  <2>1. PICK step \in {"cleaning", "gone"} : session' = [session EXCEPT ![s] = step]
    BY <1>8 DEF Leave, Left, GoTo
  <2>2. session' \in [Sessions -> Steps]
    BY <2>1 DEF TypeOK, Steps
  <2>3. missed' = [missed EXCEPT ![s] = 0] /\ link' = [link EXCEPT ![s] = "closed"]
    BY <1>8 DEF Leave, Left
  <2>4. /\ missed' \in [Sessions -> 0 .. MaxMissed]
        /\ link' \in [Sessions -> {"none", "open", "stuck", "closed"}]
    BY <2>3 DEF TypeOK
  <2>5. engine' \in Sessions \cup {0} /\ lost' \subseteq Sessions /\ stalled' \subseteq Sessions
    BY <1>8 DEF Leave, Left, TypeOK
  <2>6. TypeOK'
    BY <1>8, <2>2, <2>4, <2>5 DEF Leave, Left, TypeOK
  <2>7. Counting'
    BY <2>1, <2>3 DEF Counting, TypeOK
  <2>8. Begun'
    BY <2>1, <2>3, BegunFrame DEF TypeOK
  <2>9. QED
    BY <2>6, <2>7, <2>8
<1>9. CASE CleanUp(s)
  <2> DEFINE other == If(\E r \in Sessions : session[r] = "registering", "crossed")
  <2>1. other \in SUBSET Causes
    BY DEF If, Causes
  <2>2. TrySay("offline", other)
    BY <1>9 DEF CleanUp
  <2> HIDE DEF other
  <2>3. status' \in {"none", "online", "offline"} /\ upsets' \in Nat /\ causes' \subseteq Causes
    BY <2>1, <2>2, TrySayType
  <2>4. session' \in [Sessions -> Steps] /\ Counting' /\ Begun'
    BY <1>9, GoOnStep DEF CleanUp, Steps, watchVars
  <2>5. QED
    BY <1>9, <2>3, <2>4 DEF CleanUp, TypeOK, watchVars
<1>10. QED
  BY <1>1, <1>2, <1>3, <1>4, <1>5, <1>6, <1>7, <1>8, <1>9 DEF SessionStep

\* Roaming's look at the gateway concerns no session.
LEMMA JoinGoesOn ==
    ASSUME BridgesIInv, NEW s \in Sessions, JoinStep(s)
    PROVE  BridgesIInv'
<1> USE DEF BridgesIInv
<1>1. join' \in [Sessions -> [at : {"none", "asked", "reading", "read"}, of : Sessions \cup {0}]]
  <2>1. CASE FindEngine(s)
    BY <2>1 DEF FindEngine, TypeOK
  <2>2. CASE ReadGateway(s)
    BY <2>2 DEF ReadGateway, TypeOK
  <2>3. CASE FailReadGateway(s) \/ MarkOnline(s)
    <3>1. join' = [join EXCEPT ![s] = [at |-> "none", of |-> 0]]
      BY <2>3 DEF FailReadGateway, MarkOnline
    <3>2. QED
      BY <3>1 DEF TypeOK
  <2>4. QED
    BY <2>1, <2>2, <2>3 DEF JoinStep
<1>2. causes' \subseteq Causes /\ upsets' \in Nat /\ online' \in BOOLEAN
  <2>1. causes' \subseteq Causes
    BY DEF JoinStep, FindEngine, ReadGateway, FailReadGateway, MarkOnline, Blame, TypeOK, Causes
  <2>2. upsets' \in Nat
    <3>1. CASE FailReadGateway(s)
      <4>1. upsets' = upsets \/ Upset
        BY <3>1 DEF FailReadGateway
      <4>2. QED
        BY <4>1 DEF Upset, TypeOK
    <3>2. CASE ~FailReadGateway(s)
      BY <3>2 DEF JoinStep, FindEngine, ReadGateway, MarkOnline, linkVars, TypeOK
    <3>3. QED
      BY <3>1, <3>2
  <2>3. online' \in BOOLEAN
    BY DEF JoinStep, FindEngine, ReadGateway, FailReadGateway, MarkOnline, TypeOK
  <2>4. QED
    BY <2>1, <2>2, <2>3
<1>3. UNCHANGED <<client, link, session, missed, lost, stalled, engine, home, report, status>>
  BY DEF JoinStep, FindEngine, ReadGateway, FailReadGateway, MarkOnline, linkVars, watchVars
<1>4. TypeOK'
  BY <1>1, <1>2, <1>3 DEF TypeOK
<1>5. Counting' /\ Begun'
  BY <1>3, CountingFrame, BegunFrame
<1>6. QED
  BY <1>4, <1>5

\* Whatever the network, the client and the queues do to the sessions.
LEMMA BridgesStep == BridgesIInv /\ [Next]_vars => BridgesIInv'
<1> SUFFICES ASSUME BridgesIInv, [Next]_vars PROVE BridgesIInv'
  OBVIOUS
<1>1. CASE Dispatch
  <2>1. UNCHANGED <<linkVars, session, watchVars, engine, join, online, status>>
    BY <1>1 DEF Dispatch
  <2>2. TypeOK'
    BY <1>1, <2>1 DEF Dispatch, Blame, BridgesIInv, TypeOK, Causes, linkVars, watchVars
  <2>3. QED
    BY <2>1, <2>2, CountingFrame, BegunFrame DEF BridgesIInv, linkVars, watchVars
<1>2. CASE UNCHANGED vars
  BY <1>2 DEF vars, linkVars, watchVars, BridgesIInv, TypeOK, Counting, Begun
<1>3. QED
  BY <1>1, <1>2, OutsideStep, SessionGoesOn, JoinGoesOn DEF Next

\* Every variable keeps its type, however many connections there are.
THEOREM BridgesTypeCorrect == Spec => []TypeOK
<1>1. BridgesIInv => TypeOK
  BY DEF BridgesIInv
<1>2. QED
  BY <1>1, BridgesInit, BridgesStep, PTL DEF Spec

-------------------------------------------------------------------------------
\* A session came as far as its registration.
Registered(s) == session[s] \in {"watching", "leaving", "cleaning", "gone"}

\* Steps that leave the map alone and end no registration's standing preserve
\* WatchedServed: who watches after them watched before.
LEMMA ServedFrame ==
    ASSUME TypeOK, WatchedServed, engine' = engine, causes \subseteq causes',
           \A r \in Sessions : session'[r] = "watching" => session[r] = "watching",
           \A r \in Sessions : Registered(r) => Registered(r)'
    PROVE  WatchedServed'
BY DEF WatchedServed, Excused, Registered

\* However many connections there are and however they fail, a session that
\* watches its connection has its engine registered, unless a newer session
\* registered, or an older one did so after a newer one.
THEOREM WatchedAreServed == Spec => []WatchedServed
<1>1. Init => WatchedServed
  BY DEF Init, WatchedServed
<1>2. BridgesIInv /\ WatchedServed /\ [Next]_vars => WatchedServed'
  <2> SUFFICES ASSUME TypeOK, Begun, WatchedServed, [Next]_vars PROVE WatchedServed'
    BY DEF BridgesIInv
  <2>1. ASSUME NEW s \in Sessions, ClientStep(s) \/ Cut(s) \/ Quit(s) PROVE WatchedServed'
    <3>1. CASE Connect(s)
      <4>1. session[s] = "none" /\ session' = [session EXCEPT ![s] = "handshake"]
        BY <3>1 DEF Connect, GoTo, Begun
      <4>2. QED
        BY <3>1, <4>1, ServedFrame DEF Connect, TypeOK, Registered
    <3>2. CASE SendFails(s) \/ Cut(s) \/ Quit(s)
      BY <3>2, ServedFrame DEF SendFails, Cut, Quit, Registered
    <3>3. QED
      BY <2>1, <3>1, <3>2 DEF ClientStep
  <2>2. ASSUME NEW s \in Sessions, Handshake(s) \/ Load(s) \/ FailLoad(s) \/ Disconnected(s) PROVE WatchedServed'
    BY <2>2, ServedFrame DEF Handshake, Load, FailLoad, Disconnected, GoTo, TypeOK, Registered
  <2>3. ASSUME NEW s \in Sessions, FailHandshake(s) PROVE WatchedServed'
    BY <2>3, ServedFrame DEF FailHandshake, GoTo, TypeOK, Registered
  <2>4. ASSUME NEW s \in Sessions, Register(s) PROVE WatchedServed'
    \* s takes the engine's place: from an older session, which it excuses, or from a
    \* newer one, and then it is "overtaken".
    <3> SUFFICES ASSUME NEW q \in Sessions, session'[q] = "watching",
                        ~Excused({"overtaken"})', q # s
                 PROVE  \E r \in Sessions : r > q /\ Registered(r)'
      BY <2>4 DEF Register, WatchedServed, Registered
    <3>1. session' = [session EXCEPT ![s] = "watching"] /\ Registered(s)'
      BY <2>4 DEF Register, GoTo, TypeOK, Registered
    <3>2. ~Excused({"overtaken"}) /\ ~(engine > s)
      BY <2>4 DEF Register, TrySay, Excused, If
    <3>3. CASE engine = q
      BY <3>1, <3>2, <3>3, BridgesAssumption DEF Sessions
    <3>4. CASE engine # q
      <4>1. PICK r \in Sessions : r > q /\ Registered(r)
        BY <3>1, <3>2, <3>4 DEF WatchedServed, Registered, TypeOK
      <4>2. Registered(r)'
        BY <3>1, <4>1 DEF Registered, TypeOK
      <4>3. QED
        BY <4>1, <4>2
    <3>5. QED
      BY <3>3, <3>4
  <2>5. ASSUME NEW s \in Sessions, Ping(s) PROVE WatchedServed'
    BY <2>5, ServedFrame DEF Ping, GoTo, TypeOK, Registered
  <2>6. ASSUME NEW s \in Sessions, Leave(s) PROVE WatchedServed'
    \* Only the engine of s itself is removed, and s does not watch any more.
    <3> SUFFICES ASSUME NEW q \in Sessions, session'[q] = "watching", ~Excused({"overtaken"})'
                 PROVE  engine' = q \/ \E r \in Sessions : r > q /\ Registered(r)'
      BY DEF WatchedServed, Registered
    <3>1. q # s /\ session[q] = "watching" /\ ~Excused({"overtaken"})
      BY <2>6 DEF Leave, Left, GoTo, TypeOK, Excused
    <3>2. CASE engine = q
      BY <2>6, <3>1, <3>2 DEF Leave, Left, Ours
    <3>3. CASE engine # q
      <4>1. PICK r \in Sessions : r > q /\ Registered(r)
        BY <3>1, <3>3 DEF WatchedServed, Registered
      <4>2. Registered(r)'
        BY <2>6, <4>1 DEF Leave, Left, GoTo, Registered, TypeOK
      <4>3. QED
        BY <4>1, <4>2
    <3>4. QED
      BY <3>2, <3>3
  <2>7. ASSUME NEW s \in Sessions, CleanUp(s) PROVE WatchedServed'
    BY <2>7, ServedFrame DEF CleanUp, TrySay, GoTo, TypeOK, Registered
  <2>8. ASSUME NEW s \in Sessions, Stall(s) \/ Resume(s) \/ Report(s) PROVE WatchedServed'
    BY <2>8, ServedFrame DEF Stall, Resume, Report, Registered
  <2>9. ASSUME NEW s \in Sessions, JoinStep(s) PROVE WatchedServed'
    BY <2>9, ServedFrame DEF JoinStep, FindEngine, ReadGateway, FailReadGateway, MarkOnline, Blame, Registered
  <2>10. CASE Dispatch
    BY <2>10, ServedFrame DEF Dispatch, Blame, Registered
  <2>11. CASE UNCHANGED vars
    BY <2>11, ServedFrame DEF vars, Registered
  <2>12. QED
    BY <2>1, <2>2, <2>3, <2>4, <2>5, <2>6, <2>7, <2>8, <2>9, <2>10, <2>11
    DEF Next, SessionStep
<1>3. QED
  BY <1>1, <1>2, BridgesInit, BridgesStep, PTL DEF Spec
-------------------------------------------------------------------------------
\* Session s is about to register its engine; one cleans up after itself.
Registering == \E s \in Sessions : session[s] = "registering"
Cleaning == \E s \in Sessions : session[s] = "cleaning"

\* While a session cleans up, no engine is registered: the next that registers
\* crosses it.
CleaningAlone == Cleaning => engine = 0 \/ Excused({"crossed"})

\* The three views between registrations and clean-ups: what was said of the dongle,
\* whether it has its sensors, and whether roaming takes it to be online.
StatusKept ==
    ~Cleaning => (status = "online" <=> engine # 0) \/ Excused({"crossed", "dropped"})

HomeKept ==
    \/ /\ Registering \/ engine # 0 => home
       /\ home => engine # 0 \/ Registering \/ Cleaning
    \/ Excused({"crossed", "unread", "late report"})

OnlineKept ==
    \/ /\ engine # 0 => online \/ \E s \in Sessions : join[s].at # "none"
       /\ online => engine # 0 \/ Cleaning
    \/ Excused({"crossed", "no join", "late join"})

\* The inductive invariant behind ViewsTrue.
ViewsKept == CleaningAlone /\ StatusKept /\ HomeKept /\ OnlineKept
ViewsIInv == BridgesIInv /\ ViewsKept

\* Steps that move a session neither to nor from its registration or clean-up
\* change none of the views.
LEMMA ViewsFrame ==
    ASSUME ViewsKept, UNCHANGED <<engine, online, home, status>>, causes \subseteq causes',
           \A r \in Sessions :
               /\ session'[r] = "registering" <=> session[r] = "registering"
               /\ session'[r] = "cleaning" <=> session[r] = "cleaning"
               /\ join'[r].at # "none" <=> join[r].at # "none"
    PROVE  ViewsKept'
<1>1. (Registering' <=> Registering) /\ (Cleaning' <=> Cleaning)
  BY DEF Registering, Cleaning
<1>2. (\E s \in Sessions : join'[s].at # "none") <=> (\E s \in Sessions : join[s].at # "none")
  OBVIOUS
<1>3. \A cs : Excused(cs) => Excused(cs)'
  BY DEF Excused
<1>4. CleaningAlone' /\ StatusKept'
  BY <1>1, <1>3 DEF ViewsKept, CleaningAlone, StatusKept
<1>5. HomeKept'
  BY <1>1, <1>3 DEF ViewsKept, HomeKept
<1>6. OnlineKept'
  BY <1>1, <1>2, <1>3 DEF ViewsKept, OnlineKept
<1>7. QED
  BY <1>4, <1>5, <1>6 DEF ViewsKept

\* A session's own steps: what it finds when it gets there is as it was left, or
\* another session was setting up or cleaning up meanwhile.
LEMMA ViewsSession ==
    ASSUME TypeOK, ViewsKept, NEW s \in Sessions, SessionStep(s)
    PROVE  ViewsKept'
<1>1. CASE Handshake(s) \/ Disconnected(s) \/ Ping(s) \/ FailHandshake(s)
  BY <1>1, ViewsFrame
  DEF Handshake, Disconnected, Ping, FailHandshake, GoTo, TypeOK
<1>2. CASE Load(s) \/ FailLoad(s)
  <2>1. /\ session[s] = "loading" /\ session' = [session EXCEPT ![s] = "registering"]
        /\ UNCHANGED <<engine, join, online, status>> /\ causes \subseteq causes'
        /\ home' = TRUE \/ Excused({"crossed", "unread", "late report"})'
    BY <1>2 DEF Load, FailLoad, GoTo, Excused
  <2>2. (Cleaning' <=> Cleaning) /\ Registering'
    BY <2>1 DEF Cleaning, Registering, TypeOK
  <2>3. CleaningAlone' /\ StatusKept' /\ OnlineKept'
    BY <2>1, <2>2 DEF ViewsKept, CleaningAlone, StatusKept, OnlineKept, Excused
  <2>4. HomeKept'
    BY <2>1, <2>2 DEF HomeKept
  <2>5. QED
    BY <2>3, <2>4 DEF ViewsKept
<1>3. CASE Register(s)
  <2>1. /\ session[s] = "registering" /\ session' = [session EXCEPT ![s] = "watching"]
        /\ engine' = s /\ engine' # 0
        /\ join'[s].at # "none"
        /\ UNCHANGED <<online, home>> /\ causes \subseteq causes'
    <3>1. s # 0
      BY BridgesAssumption DEF Sessions
    <3>2. causes \subseteq causes'
      BY <1>3 DEF Register, TrySay
    <3>3. join' = [join EXCEPT ![s] = [at |-> "asked", of |-> 0]]
      BY <1>3 DEF Register
    <3>4. join'[s].at = "asked"
      BY <3>3 DEF TypeOK
    <3>5. QED
      BY <1>3, <3>1, <3>2, <3>4 DEF Register, GoTo
  <2>2. status' = "online" \/ Excused({"crossed", "dropped"})'
    BY <1>3 DEF Register, TrySay, Excused
  <2>3. Cleaning => "crossed" \in causes'
    BY <1>3 DEF Register, TrySay, If, Cleaning
  <2>4. Cleaning' <=> Cleaning
    BY <2>1 DEF Cleaning, TypeOK
  <2>5. CleaningAlone' /\ StatusKept'
    BY <2>1, <2>2, <2>3, <2>4 DEF CleaningAlone, StatusKept, Excused
  <2>6. HomeKept'
    <3>1. Registering
      BY <2>1 DEF Registering
    <3>2. QED
      BY <2>1, <3>1 DEF ViewsKept, HomeKept, Excused
  <2>7. OnlineKept'
    BY <2>1 DEF OnlineKept
  <2>8. QED
    BY <2>5, <2>6, <2>7 DEF ViewsKept
<1>4. CASE Leave(s)
  <2>1. UNCHANGED <<join, online, home, status, causes>> /\ session[s] = "leaving"
    BY <1>4 DEF Leave, Left
  <2>2. CASE engine = s
    <3>1. engine' = 0 /\ session' = [session EXCEPT ![s] = "cleaning"]
      BY <1>4, <2>2 DEF Leave, Left, Ours, GoTo
    <3>2. Cleaning' /\ (Registering' <=> Registering)
      BY <2>1, <3>1 DEF Cleaning, Registering, TypeOK
    <3>3. CleaningAlone' /\ StatusKept'
      BY <3>1, <3>2 DEF CleaningAlone, StatusKept
    <3>4. HomeKept'
      BY <2>1, <3>1, <3>2 DEF ViewsKept, HomeKept, Excused
    <3>5. OnlineKept'
      BY <2>1, <3>1, <3>2 DEF ViewsKept, OnlineKept, Excused
    <3>6. QED
      BY <3>3, <3>4, <3>5 DEF ViewsKept
  <2>3. CASE engine # s
    BY <1>4, <2>1, <2>3, ViewsFrame DEF Leave, Left, Ours, GoTo, TypeOK
  <2>4. QED
    BY <2>2, <2>3
<1>5. CASE CleanUp(s)
  <2>1. /\ session[s] = "cleaning" /\ session' = [session EXCEPT ![s] = "gone"]
        /\ online' = FALSE /\ home' = FALSE
        /\ UNCHANGED <<engine, join>> /\ causes \subseteq causes'
    BY <1>5 DEF CleanUp, GoTo, TrySay
  <2>2. status' = "offline" \/ Excused({"crossed", "dropped"})'
    BY <1>5 DEF CleanUp, TrySay, Excused
  <2>3. Registering => "crossed" \in causes'
    BY <1>5 DEF CleanUp, TrySay, If, Registering
  <2>4. Cleaning /\ (Registering' <=> Registering)
    BY <2>1 DEF Cleaning, Registering, TypeOK
  <2>5. engine' = 0 \/ "crossed" \in causes'
    BY <2>1, <2>4 DEF ViewsKept, CleaningAlone, Excused
  <2>6. CleaningAlone' /\ StatusKept'
    BY <2>2, <2>5 DEF CleaningAlone, StatusKept, Excused
  <2>7. HomeKept'
    BY <2>1, <2>3, <2>4, <2>5 DEF HomeKept, Excused
  <2>8. OnlineKept'
    BY <2>1, <2>5 DEF OnlineKept, Excused
  <2>9. QED
    BY <2>6, <2>7, <2>8 DEF ViewsKept
<1>6. QED
  BY <1>1, <1>2, <1>3, <1>4, <1>5 DEF SessionStep

\* Roaming's look ends with the gateway online, or with an excuse, or there is no
\* engine to look at.
LEMMA ViewsJoin ==
    ASSUME TypeOK, ViewsKept, NEW s \in Sessions, JoinStep(s)
    PROVE  ViewsKept'
<1>0. /\ UNCHANGED <<session, engine, home, status>> /\ causes \subseteq causes'
      /\ Cleaning' <=> Cleaning
      /\ Registering' <=> Registering
  BY DEF JoinStep, FindEngine, ReadGateway, FailReadGateway, MarkOnline, Blame, Cleaning,
         Registering
<1>1. CleaningAlone' /\ StatusKept' /\ HomeKept'
  BY <1>0 DEF ViewsKept, CleaningAlone, StatusKept, HomeKept, Excused
<1>2. OnlineKept'
  <2>1. CASE FindEngine(s)
    <3>1. CASE engine = 0
      BY <1>0, <2>1, <3>1 DEF FindEngine, ViewsKept, OnlineKept, Excused
    <3>2. CASE engine # 0
      <4>1. join'[s].at # "none"
        BY <2>1, <3>2 DEF FindEngine, TypeOK
      <4>2. QED
        BY <1>0, <2>1, <3>2, <4>1 DEF FindEngine, OnlineKept
    <3>3. QED
      BY <3>1, <3>2
  <2>2. CASE ReadGateway(s)
    <3>1. join'[s].at # "none" /\ UNCHANGED <<online, causes>>
      BY <2>2 DEF ReadGateway, TypeOK
    <3>2. QED
      BY <1>0, <3>1 DEF ViewsKept, OnlineKept, Excused
  <2>3. CASE FailReadGateway(s)
    BY <2>3 DEF FailReadGateway, OnlineKept, Excused
  <2>4. CASE MarkOnline(s)
    BY <1>0, <2>4 DEF MarkOnline, Blame, OnlineKept, Excused
  <2>5. QED
    BY <2>1, <2>2, <2>3, <2>4 DEF JoinStep
<1>3. QED
  BY <1>1, <1>2 DEF ViewsKept

\* However connections overlap and whatever fails, at rest MQTT, the sensors and
\* roaming agree on whether the dongle is served, or one of the causes named in the
\* property is on record.
THEOREM ViewsStayTrue == Spec => []ViewsTrue
<1>1. Init => ViewsKept
  BY DEF Init, ViewsKept, CleaningAlone, StatusKept, HomeKept, OnlineKept, Cleaning,
         Registering
<1>2. BridgesIInv /\ ViewsKept /\ [Next]_vars => ViewsKept'
  <2> SUFFICES ASSUME TypeOK, Begun, ViewsKept, [Next]_vars PROVE ViewsKept'
    BY DEF BridgesIInv
  <2>1. ASSUME NEW s \in Sessions, ClientStep(s) PROVE ViewsKept'
    <3>1. CASE Connect(s)
      <4>1. session[s] = "none" /\ session' = [session EXCEPT ![s] = "handshake"]
        BY <3>1 DEF Connect, GoTo, Begun
      <4>2. QED
        BY <3>1, <4>1, ViewsFrame DEF Connect, TypeOK
    <3>2. CASE SendFails(s)
      BY <3>2, ViewsFrame DEF SendFails
    <3>3. QED
      BY <2>1, <3>1, <3>2 DEF ClientStep
  <2>2. ASSUME NEW s \in Sessions,
               Cut(s) \/ Quit(s) \/ Stall(s) \/ Resume(s) \/ Report(s)
        PROVE  ViewsKept'
    BY <2>2, ViewsFrame DEF Cut, Quit, Stall, Resume, Report
  <2>3. CASE Dispatch
    <3>1. /\ UNCHANGED <<session, engine, join, online, status>> /\ causes \subseteq causes'
          /\ home' = TRUE
          /\ engine = 0 => "late report" \in causes'
          /\ Cleaning' <=> Cleaning
          /\ Registering' <=> Registering
      BY <2>3 DEF Dispatch, Blame, Cleaning, Registering
    <3>2. QED
      BY <3>1
      DEF ViewsKept, CleaningAlone, StatusKept, HomeKept, OnlineKept, Excused
  <2>4. CASE UNCHANGED vars
    BY <2>4, ViewsFrame DEF vars
  <2>5. QED
    BY <2>1, <2>2, <2>3, <2>4, ViewsSession, ViewsJoin DEF Next
<1>3. ViewsKept => ViewsTrue
  <2> SUFFICES ASSUME ViewsKept, Settled PROVE ViewsTrue
    BY DEF ViewsTrue, StatusTrue, SensorsHome, GatewayOnlineTrue
  <2>1. ~Cleaning /\ ~Registering /\ \A s \in Sessions : join[s].at = "none"
    BY DEF Settled, Cleaning, Registering
  <2>2. QED
    BY <2>1 DEF ViewsKept, StatusKept, HomeKept, OnlineKept, ViewsTrue, StatusTrue,
                SensorsHome, GatewayOnlineTrue
<1>4. QED
  BY <1>1, <1>2, <1>3, BridgesInit, BridgesStep, PTL DEF Spec

-------------------------------------------------------------------------------
(* What is read from a gateway.                                                *)

\* How far a call can be, by what it is for.
StepsOf(op) == CASE op = "hello" -> 0 .. 4
                 [] op = "list" -> 0 .. 2
                 [] op = "info" -> 0 .. 2
                 [] op = "table" -> Nat
                 [] OTHER -> {0}

\* A call that has not ended is where it can be; only lists are queued for; the
\* lock is held for a command, and the list's sender is that of a list.
AtStep ==
    /\ \A t \in Tasks :
          /\ Running(t) => /\ call[t].step \in StepsOf(call[t].op)
                           /\ call[t].op \in {"add", "delete"} => call[t].mac \in Macs
                           /\ call[t].step = 0 => call[t].count = 0
                           /\ call[t].op = "info" => Len(call[t].got) = call[t].step
          /\ chan[t] # <<>> => call[t].op = "list"
          /\ Len(chan[t]) <= Room
    /\ lock # Nobody => Running(lock) /\ ~Collecting(lock)
    /\ stream # Nobody => call[stream].op = "list"
    /\ IsInjective(table)

StepIInv == ReadsTypeOK /\ AtStep

LEMMA CommandIs ==
    ASSUME StepIInv, NEW t \in Tasks, Running(t), ~Collecting(t)
    PROVE  /\ Command(t) = [cmd |-> Command(t).cmd, index |-> call[t].step, mac |-> call[t].mac]
           /\ Command(t).cmd \in Cmds
           /\ call[t].step \in Nat
           /\ call[t].op = "hello" => Command(t).cmd \in {"inquiry", "enr", "mac", "version", "auth"}
           /\ call[t].op = "list" /\ call[t].step = 0 => Command(t).cmd = "count"
           /\ call[t].op = "list" /\ call[t].step # 0 => Command(t).cmd = "list" /\ call[t].step = 1
           /\ call[t].op = "table" => Command(t).cmd = "get"
           /\ call[t].op = "info" => Command(t).cmd = "page"
           /\ call[t].op \in {"add", "delete"} => Command(t).cmd = call[t].op
<1>1. call[t].step \in StepsOf(call[t].op) /\ call[t].step \in Nat
  BY DEF StepIInv, AtStep, ReadsTypeOK, Calls
<1>2. call[t].op \in {"hello", "list", "table", "info", "add", "delete"}
  BY DEF StepIInv, ReadsTypeOK, Running, Calls
<1>3. CASE call[t].op = "hello"
  <2>1. call[t].step \in 0 .. 4
    BY <1>1, <1>3 DEF StepsOf
  <2>2. Hello[call[t].step + 1] \in {"inquiry", "enr", "mac", "version", "auth"}
    BY <2>1 DEF Hello
  <2>3. QED
    BY <1>1, <1>3, <2>2 DEF Command, Cmds
<1>4. CASE call[t].op = "list"
  <2>1. call[t].step \in {0, 1}
    BY <1>1, <1>4 DEF StepsOf, Collecting
  <2>2. QED
    BY <1>1, <1>4, <2>1 DEF Command, Cmds
<1>5. CASE call[t].op \in {"table", "info", "add", "delete"}
  BY <1>1, <1>5 DEF Command, Cmds
<1>6. QED
  BY <1>2, <1>3, <1>4, <1>5

LEMMA TableIs ==
    ASSUME StepIInv
    PROVE  /\ table \in Seq(Macs) /\ Len(table) \in Nat /\ DOMAIN table = 1 .. Len(table)
           /\ \A i \in 1 .. Len(table) : table[i] \in Macs
<1>1. table \in Seq(Macs)
  BY DEF StepIInv, ReadsTypeOK
<1>2. QED
  BY <1>1

\* The gateway's replies have their type.
LEMMA PlainType ==
    ASSUME StepIInv, NEW key \in Keys, NEW i \in Nat
    PROVE  /\ Plain(key) \in Replies
           /\ [Plain("build") EXCEPT !.index = i] \in Replies
<1>1. ASSUME NEW k \in Keys PROVE Plain(k) \in Replies
  <2>1. Len(table) \in Nat /\ Nobody \in Entries
    BY DEF Entries, StepIInv, ReadsTypeOK
  <2>2. QED
    BY <2>1 DEF Plain, Replies
<1>2. Plain("build") \in Replies
  BY <1>1 DEF Keys
<1>3. QED
  BY <1>1, <1>2 DEF Replies

LEMMA EntryType ==
    ASSUME StepIInv, NEW i \in Nat
    PROVE  /\ EntryAt(i) \in Replies
           /\ EntryAt(i).key = "nv" /\ EntryAt(i).verb = "nv" /\ EntryAt(i).index = i
           /\ EntryAt(i).count = Len(table)
           /\ i < Len(table) => EntryAt(i).item = table[i + 1]
           /\ i >= Len(table) => EntryAt(i).item = Nobody
<1> DEFINE e == IF i < Len(table) THEN table[i + 1] ELSE Nobody
<1>1. e \in Entries /\ (i < Len(table) => e = table[i + 1]) /\ (i >= Len(table) => e = Nobody)
  <2>1. i < Len(table) => i + 1 \in 1 .. Len(table)
    BY TableIs
  <2>2. QED
    BY <2>1, TableIs DEF Entries
<1>2. EntryAt(i) = [Plain("nv") EXCEPT !.index = i, !.item = e]
  BY DEF EntryAt
<1> HIDE DEF e
<1>3. EntryAt(i) = [key |-> "nv", verb |-> "nv", index |-> i, count |-> Len(table), item |-> e, ok |-> TRUE]
  BY <1>2 DEF Plain
<1>4. Len(table) \in Nat /\ "nv" \in Keys
  BY TableIs DEF Keys
<1>5. EntryAt(i) \in Replies
  BY <1>1, <1>3, <1>4 DEF Replies
<1>6. QED
  BY <1>1, <1>3, <1>5

LEMMA ItemsType ==
    ASSUME StepIInv
    PROVE  /\ Items \in Seq(Replies) /\ Len(Items) = Len(table) /\ DOMAIN Items = DOMAIN table
           /\ \A i \in DOMAIN table : Items[i].key = "item" /\ Items[i].item = table[i]
<1>1. table \in Seq(Macs) /\ Len(table) \in Nat /\ DOMAIN table = 1 .. Len(table)
  BY TableIs
<1>2. ASSUME NEW i \in DOMAIN table
      PROVE  LET r == [Plain("item") EXCEPT !.count = 0, !.item = table[i]]
             IN  r \in Replies /\ r.key = "item" /\ r.item = table[i]
  <2>1. Plain("item") \in Replies /\ Plain("item").key = "item"
    BY PlainType DEF Keys, Plain
  <2>2. table[i] \in Entries
    BY <1>1 DEF Entries
  <2>3. QED
    BY <2>1, <2>2 DEF Replies
<1>3. Items \in [1 .. Len(table) -> Replies] /\ \A i \in DOMAIN table : Items[i].key = "item" /\ Items[i].item = table[i]
  BY <1>1, <1>2 DEF Items
<1>4. Items \in Seq(Replies) /\ Len(Items) = Len(table)
  BY <1>1, <1>3
<1>5. QED
  BY <1>1, <1>3, <1>4

LEMMA ReplyType ==
    ASSUME StepIInv, NEW c, c.cmd \in Cmds, c.index \in Nat, NEW added \in BOOLEAN
    PROVE  Reply(c, added) \in Seq(Replies)
<1>1. CASE c.cmd = "get"
  BY <1>1, EntryType DEF Reply
<1>2. CASE c.cmd = "add"
  <2>1. Plain("nv") \in Replies
    BY PlainType DEF Keys
  <2>2. [Plain("nv") EXCEPT !.verb = "add", !.ok = added] \in Replies
    BY <2>1 DEF Replies
  <2>3. QED
    BY <1>2, <2>2 DEF Reply
<1>3. CASE c.cmd = "page"
  BY <1>3, PlainType DEF Reply, Keys
<1>4. CASE c.cmd = "list"
  <2>1. Plain("list") \in Replies /\ Items \in Seq(Replies)
    BY PlainType, ItemsType DEF Keys, Cmds
  <2>2. <<Plain("list")>> \o Items \in Seq(Replies)
    <3>1. <<Plain("list")>> \in Seq(Replies)
      BY <2>1
    <3>2. QED
      BY <2>1, <3>1, ConcatProperties
  <2>3. QED
    BY <1>4, <2>2 DEF Reply
<1>5. CASE c.cmd \notin {"get", "add", "page", "list"}
  <2>1. c.cmd \in Keys
    BY <1>5 DEF Keys
  <2>2. Plain(c.cmd) \in Replies
    BY <2>1, PlainType
  <2>3. QED
    BY <1>5, <2>2 DEF Reply
<1>6. QED
  BY <1>1, <1>2, <1>3, <1>4, <1>5

LEMMA TaggedType ==
    ASSUME NEW t \in Tasks, NEW replies \in Seq(Replies)
    PROVE  /\ Tagged(t, replies) \in Seq(Packets) /\ Len(Tagged(t, replies)) = Len(replies)
           /\ \A i \in 1 .. Len(replies) :
                 Tagged(t, replies)[i] = [reply |-> replies[i], for |-> t, copy |-> FALSE]
<1>1. DOMAIN replies = 1 .. Len(replies) /\ Len(replies) \in Nat /\ \A i \in 1 .. Len(replies) : replies[i] \in Replies
  OBVIOUS
<1>2. Tagged(t, replies) \in [1 .. Len(replies) -> Packets]
  BY <1>1 DEF Tagged, Packets
<1>3. Tagged(t, replies) \in Seq(Packets) /\ Len(Tagged(t, replies)) = Len(replies)
  BY <1>1, <1>2
<1>4. QED
  BY <1>1, <1>3 DEF Tagged

\* What StepIInv says of each variable.
LEMMA StepFacts ==
    ASSUME StepIInv
    PROVE  /\ table \in Seq(Macs) /\ dead \in BOOLEAN
           /\ wire \in Seq(Packets) /\ recent \in Seq(Packets)
           /\ lock \in Tasks \cup {Nobody} /\ stream \in Tasks \cup {Nobody}
           /\ chan \in [Tasks -> Seq(Entries)] /\ call \in [Tasks -> Calls]
           /\ kept \in [Tasks -> SUBSET Macs] /\ met \in [Tasks -> SUBSET Macs]
           /\ moved \in [Tasks -> BOOLEAN] /\ why \in [Tasks -> SUBSET Befalls]
           /\ mishaps \in Nat
           /\ \A t \in Tasks : /\ call[t] \in Calls /\ call[t].step \in Nat /\ call[t].got \in Seq(Entries \cup Nat)
                               /\ call[t].count \in Nat /\ call[t].tries \in Nat /\ call[t].mac \in Entries
                               /\ call[t].op \in {"none", "hello", "list", "table", "info", "add", "delete"}
                               /\ call[t].end \in {"no", "ok", "failed"}
                               /\ Running(t) => /\ call[t].step \in StepsOf(call[t].op)
                                                /\ call[t].op \in {"add", "delete"} => call[t].mac \in Macs
                                                /\ call[t].step = 0 => call[t].count = 0
                                                /\ call[t].op = "info" => Len(call[t].got) = call[t].step
                               /\ chan[t] # <<>> => call[t].op = "list"
                               /\ Len(chan[t]) <= Room
           /\ lock # Nobody => lock \in Tasks /\ Running(lock) /\ ~Collecting(lock)
           /\ stream # Nobody => stream \in Tasks /\ call[stream].op = "list"
           /\ Nobody \notin Tasks /\ IsInjective(table)
<1>1. Nobody \notin Tasks
  BY ReadsAssumption DEF Tasks
<1>2. ASSUME NEW c \in Calls
      PROVE  /\ c.step \in Nat /\ c.got \in Seq(Entries \cup Nat)
             /\ c.count \in Nat /\ c.tries \in Nat /\ c.mac \in Entries
             /\ c.op \in {"none", "hello", "list", "table", "info", "add", "delete"}
             /\ c.end \in {"no", "ok", "failed"}
  BY DEF Calls
<1>3. QED
  BY <1>1, <1>2 DEF StepIInv, ReadsTypeOK, AtStep

\* The sequences' first elements and the rest of them.
LEMMA FirstOf ==
    ASSUME NEW S, NEW s \in Seq(S), s # <<>>
    PROVE  /\ Head(s) \in S /\ Head(s) = s[1] /\ Tail(s) \in Seq(S)
           /\ 1 \in DOMAIN s /\ DOMAIN s = 1 .. Len(s)
           /\ Len(Tail(s)) = Len(s) - 1 /\ DOMAIN Tail(s) = 1 .. Len(s) - 1
           /\ \A i \in 1 .. Len(s) - 1 : Tail(s)[i] = s[i + 1]
<1>1. Len(s) \in Nat /\ DOMAIN s = 1 .. Len(s) /\ Len(s) # 0
  BY EmptySeq
<1>2. QED
  BY <1>1, HeadTailProperties

-------------------------------------------------------------------------------
(* Every step keeps the types and leaves each call where it can be.            *)

\* A change of the table keeps the types of what is told of it.
LEMMA ChangesType ==
    ASSUME StepIInv, NEW new \in Seq(Macs), ChangesTable(new)
    PROVE  /\ table' \in Seq(Macs) /\ kept' \in [Tasks -> SUBSET Macs] /\ met' \in [Tasks -> SUBSET Macs]
           /\ moved' \in [Tasks -> BOOLEAN]
           /\ table' = new
           /\ \A t \in Tasks : /\ Running(t) => kept'[t] = kept[t] \cap ToSet(new) /\ met'[t] = met[t] \cup ToSet(new)
                               /\ ~Running(t) => kept'[t] = kept[t] /\ met'[t] = met[t]
                               /\ moved[t] => moved'[t]
                               /\ Running(t) /\ new # table => moved'[t]
                               /\ (Running(t) => new = table) => (moved'[t] = moved[t])
<1>1. ToSet(new) \subseteq Macs
  BY DEF ToSet
<1>2. \A t \in Tasks : /\ kept'[t] = IF Running(t) THEN kept[t] \cap ToSet(new) ELSE kept[t]
                       /\ met'[t] = IF Running(t) THEN met[t] \cup ToSet(new) ELSE met[t]
                       /\ moved'[t] = (moved[t] \/ (Running(t) /\ new # table))
  BY DEF ChangesTable
<1>3. \A t \in Tasks : kept[t] \in SUBSET Macs /\ met[t] \in SUBSET Macs /\ moved[t] \in BOOLEAN
  BY StepFacts
<1>4. kept' \in [Tasks -> SUBSET Macs]
  BY <1>1, <1>2, <1>3 DEF ChangesTable
<1>5. met' \in [Tasks -> SUBSET Macs]
  BY <1>1, <1>2, <1>3 DEF ChangesTable
<1>6. moved' \in [Tasks -> BOOLEAN]
  BY <1>2, <1>3 DEF ChangesTable
<1>7. table' = new
  BY DEF ChangesTable
<1>8. \A t \in Tasks : /\ moved[t] => moved'[t]
                       /\ Running(t) /\ new # table => moved'[t]
                       /\ (Running(t) => new = table) => (moved'[t] = moved[t])
  BY <1>2, <1>3, Zenon
<1>9. QED
  BY <1>2, <1>4, <1>5, <1>6, <1>7, <1>8

\* A sensor that is taken out of the table is in it no more, and the others are
\* where they were but for the place that fell away.
LEMMA DeleteIs ==
    ASSUME StepIInv, NEW mac \in Macs
    PROVE  /\ Delete(mac) \in Seq(Macs) /\ IsInjective(Delete(mac))
           /\ ToSet(Delete(mac)) = ToSet(table) \ {mac}
<1>1. table \in Seq(Macs) /\ Len(table) \in Nat /\ DOMAIN table = 1 .. Len(table)
      /\ IsInjective(table) /\ \A i \in 1 .. Len(table) : table[i] \in Macs
  BY TableIs, StepFacts
<1>2. CASE mac \notin ToSet(table)
  BY <1>1, <1>2 DEF Delete
<1>3. CASE mac \in ToSet(table)
  <2> DEFINE at == CHOOSE i \in DOMAIN table : table[i] = mac
             left == SubSeq(table, 1, at - 1)
             right == SubSeq(table, at + 1, Len(table))
             rest == left \o right
  <2>1. at \in 1 .. Len(table) /\ table[at] = mac
    <3>1. \E i \in DOMAIN table : table[i] = mac
      BY <1>3 DEF ToSet
    <3>2. QED
      BY <1>1, <3>1
  <2>2. Delete(mac) = rest
    BY <1>3 DEF Delete, RemoveAt
  <2> HIDE DEF at
  <2>3. /\ left \in Seq(Macs) /\ Len(left) = at - 1
        /\ \A i \in 1 .. at - 1 : left[i] = table[i]
    <3>1. at - 1 \in Nat /\ at - 1 <= Len(table)
      BY <1>1, <2>1
    <3>2. \A i \in 1 .. at - 1 : table[i] \in Macs
      BY <1>1, <2>1
    <3>3. QED
      BY <1>1, <2>1, <3>1, <3>2
  <2>4. /\ right \in Seq(Macs) /\ Len(right) = Len(table) - at
        /\ \A i \in 1 .. Len(table) - at : right[i] = table[at + i]
    <3>1. at + 1 \in Nat /\ Len(table) - (at + 1) + 1 = Len(table) - at /\ Len(table) - at \in Nat
      BY <1>1, <2>1
    <3>2. \A i \in at + 1 .. Len(table) : table[i] \in Macs
      BY <1>1, <2>1
    <3>3. \A i \in 1 .. Len(table) - at : (at + 1) + i - 1 = at + i
      BY <1>1, <2>1
    <3>4. /\ right \in Seq(Macs)
          /\ Len(right) = IF at + 1 <= Len(table) THEN Len(table) - (at + 1) + 1 ELSE 0
          /\ \A i \in 1 .. Len(table) - (at + 1) + 1 : right[i] = table[(at + 1) + i - 1]
      <4>1. at + 1 \in Int /\ Len(table) \in Int
        BY <1>1, <3>1
      <4>2. QED
        BY <3>2, <4>1, SubSeqProperties
    <3> HIDE DEF right
    <3>5. Len(right) = Len(table) - at
      <4>1. at \in Nat /\ Len(table) \in Nat /\ at <= Len(table)
        BY <1>1, <2>1
      <4>2. CASE at + 1 <= Len(table)
        BY <3>4, <4>1, <4>2
      <4>3. CASE ~(at + 1 <= Len(table))
        BY <3>4, <4>1, <4>3
      <4>4. QED
        BY <4>2, <4>3
    <3>6. QED
      BY <3>1, <3>3, <3>4, <3>5
  <2> HIDE DEF left, right
  <2>5. /\ rest \in Seq(Macs) /\ Len(rest) = Len(table) - 1 /\ DOMAIN rest = 1 .. Len(table) - 1
        /\ \A i \in 1 .. Len(table) - 1 : rest[i] = table[IF i < at THEN i ELSE i + 1]
    <3>1. rest \in Seq(Macs) /\ Len(rest) = Len(table) - 1
      <4>1. rest \in Seq(Macs) /\ Len(rest) = Len(left) + Len(right)
        BY <2>3, <2>4, ConcatProperties
      <4>2. (at - 1) + (Len(table) - at) = Len(table) - 1
        BY <1>1, <2>1
      <4>3. QED
        BY <2>3, <2>4, <4>1, <4>2
    <3>2. DOMAIN rest = 1 .. Len(table) - 1
      BY <3>1
    <3>3. ASSUME NEW i \in 1 .. Len(table) - 1
          PROVE  rest[i] = table[IF i < at THEN i ELSE i + 1]
      <4>1. CASE i < at
        <5>1. i \in 1 .. Len(left)
          BY <1>1, <2>1, <2>3, <4>1
        <5>2. rest[i] = left[i]
          BY <2>3, <2>4, <5>1, ConcatProperties
        <5>3. QED
          BY <2>3, <4>1, <5>1, <5>2
      <4>2. CASE i >= at
        <5>1. /\ i \in 1 .. Len(left) + Len(right) /\ ~(i <= Len(left))
              /\ i - Len(left) \in 1 .. Len(table) - at /\ at + (i - Len(left)) = i + 1
          BY <1>1, <2>1, <2>3, <2>4, <4>2
        <5>2. rest[i] = right[i - Len(left)]
          BY <2>3, <2>4, <5>1, ConcatProperties
        <5>3. right[i - Len(left)] = table[at + (i - Len(left))]
          BY <2>4, <5>1
        <5>4. ~(i < at)
          BY <1>1, <2>1, <4>2
        <5>5. QED
          BY <5>1, <5>2, <5>3, <5>4
      <4>3. i < at \/ i >= at
        BY <1>1, <2>1
      <4>4. QED
        BY <4>1, <4>2, <4>3
    <3>4. QED
      BY <3>1, <3>2, <3>3
  <2> HIDE DEF rest
  <2>6. ToSet(rest) = ToSet(table) \ {mac}
    <3>1. ASSUME NEW x \in ToSet(rest) PROVE x \in ToSet(table) \ {mac}
      <4>1. PICK i \in 1 .. Len(table) - 1 : x = rest[i]
        BY <2>5 DEF ToSet
      <4>2. PICK j \in 1 .. Len(table) : j # at /\ x = table[j]
        BY <1>1, <2>1, <2>5, <4>1
      <4>3. QED
        BY <1>1, <2>1, <4>2 DEF ToSet, IsInjective
    <3>2. ASSUME NEW x \in ToSet(table) \ {mac} PROVE x \in ToSet(rest)
      <4>1. PICK j \in 1 .. Len(table) : j # at /\ x = table[j]
        BY <1>1, <2>1 DEF ToSet
      <4>2. CASE j < at
        <5>1. j \in 1 .. Len(table) - 1 /\ rest[j] = x
          BY <1>1, <2>1, <2>5, <4>1, <4>2
        <5>2. QED
          BY <2>5, <5>1 DEF ToSet
      <4>3. CASE j > at
        <5>1. j - 1 \in 1 .. Len(table) - 1 /\ ~(j - 1 < at) /\ (j - 1) + 1 = j
          BY <1>1, <2>1, <4>1, <4>3
        <5>2. rest[j - 1] = x
          BY <2>5, <4>1, <5>1
        <5>3. QED
          BY <2>5, <5>1, <5>2 DEF ToSet
      <4>4. QED
        BY <1>1, <2>1, <4>1, <4>2, <4>3
    <3>3. QED
      BY <3>1, <3>2
  <2>7. IsInjective(rest)
    <3> SUFFICES ASSUME NEW a \in 1 .. Len(table) - 1, NEW b \in 1 .. Len(table) - 1, rest[a] = rest[b]
                 PROVE  a = b
      BY <2>5 DEF IsInjective
    <3> DEFINE up(i) == IF i < at THEN i ELSE i + 1
    <3>1. up(a) \in 1 .. Len(table) /\ up(b) \in 1 .. Len(table) /\ table[up(a)] = table[up(b)]
      BY <1>1, <2>1, <2>5
    <3>2. up(a) = up(b)
      BY <1>1, <3>1 DEF IsInjective
    <3>3. QED
      BY <1>1, <2>1, <3>2
  <2>8. QED
    BY <2>2, <2>5, <2>6, <2>7
<1>4. QED
  BY <1>2, <1>3

\* One more at the end of a sequence.
LEMMA OneMore ==
    ASSUME NEW S, NEW s \in Seq(S), NEW x \in S
    PROVE  /\ Append(s, x) \in Seq(S) /\ Len(Append(s, x)) = Len(s) + 1
           /\ ToSet(Append(s, x)) = ToSet(s) \cup {x}
           /\ IsInjective(s) /\ x \notin ToSet(s) => IsInjective(Append(s, x))
<1>1. /\ Append(s, x) \in Seq(S) /\ Len(Append(s, x)) = Len(s) + 1 /\ Len(s) \in Nat
      /\ DOMAIN s = 1 .. Len(s) /\ DOMAIN Append(s, x) = 1 .. Len(s) + 1
      /\ \A i \in 1 .. Len(s) : Append(s, x)[i] = s[i]
      /\ Append(s, x)[Len(s) + 1] = x
  BY AppendProperties
<1>2. ToSet(Append(s, x)) = ToSet(s) \cup {x}
  BY <1>1 DEF ToSet
<1>3. IsInjective(s) /\ x \notin ToSet(s) => IsInjective(Append(s, x))
  BY <1>1 DEF ToSet, IsInjective
<1>4. QED
  BY <1>1, <1>2, <1>3

\* What a command leaves of the table is a table again.
LEMMA TablesType ==
    ASSUME StepIInv, NEW t \in Tasks, Running(t), ~Collecting(t),
           NEW new \in TablesAfter(Command(t))
    PROVE  /\ new \in Seq(Macs) /\ IsInjective(new)
           /\ call[t].op \notin {"add", "delete"} => new = table
<1> DEFINE mac == call[t].mac
<1>1. CASE call[t].op \in {"add", "delete"}
  <2>1. mac \in Macs /\ Command(t).mac = mac /\ Command(t).cmd = call[t].op
    BY <1>1, CommandIs, StepFacts
  <2>2. new \in {Delete(mac), Append(Delete(mac), mac), table}
    BY <1>1, <2>1 DEF TablesAfter, Add
  <2>3. Delete(mac) \in Seq(Macs) /\ IsInjective(Delete(mac)) /\ mac \notin ToSet(Delete(mac))
    BY <2>1, DeleteIs
  <2>4. Append(Delete(mac), mac) \in Seq(Macs) /\ IsInjective(Append(Delete(mac), mac))
    BY <2>1, <2>3, OneMore
  <2>5. QED
    BY <1>1, <2>2, <2>3, <2>4, StepFacts
<1>2. CASE call[t].op \notin {"add", "delete"}
  <2>1. call[t].op \in {"hello", "list", "table", "info"}
    BY <1>2, StepFacts DEF Running
  <2>2. Command(t).cmd \notin {"add", "delete"}
    BY <2>1, CommandIs
  <2>3. new = table
    BY <2>2 DEF TablesAfter
  <2>4. QED
    BY <1>2, <2>3, StepFacts
<1>3. QED
  BY <1>1, <1>2

\* A call that has begun.
LEMMA StartIs ==
    ASSUME StepIInv, NEW t \in Tasks, NEW op \in {"hello", "list", "table", "info", "add", "delete"},
           NEW mac \in Entries, Start(t, op, mac)
    PROVE  /\ call[t].op = "none" /\ ~Running(t)
           /\ call'[t].op = op /\ call'[t].mac = mac /\ call'[t].step = 0 /\ call'[t].count = 0
           /\ call'[t].got = <<>> /\ call'[t].end = "no"
           /\ call' \in [Tasks -> Calls]
           /\ kept'[t] = ToSet(table) /\ met'[t] = ToSet(table)
           /\ kept' \in [Tasks -> SUBSET Macs] /\ met' \in [Tasks -> SUBSET Macs]
           /\ \A u \in Tasks \ {t} : call'[u] = call[u] /\ kept'[u] = kept[u] /\ met'[u] = met[u]
           /\ UNCHANGED <<table, dead, wire, recent, lock, stream, chan, moved, why, mishaps>>
<1> DEFINE k == [Idle EXCEPT !.op = op, !.mac = mac]
<1>1. call[t].op = "none" /\ ~Running(t)
  BY DEF Start, Running
<1>2. Idle \in Calls /\ Idle.step = 0 /\ Idle.count = 0 /\ Idle.got = <<>> /\ Idle.end = "no"
  BY DEF Idle, Calls, Entries
<1>3. k \in Calls /\ k.op = op /\ k.mac = mac /\ k.step = 0 /\ k.count = 0 /\ k.got = <<>> /\ k.end = "no"
  BY <1>2 DEF Calls
<1>4. /\ call' = [call EXCEPT ![t] = k]
      /\ kept' = [kept EXCEPT ![t] = ToSet(table)] /\ met' = [met EXCEPT ![t] = ToSet(table)]
      /\ UNCHANGED <<table, dead, wire, recent, lock, stream, chan, moved, why, mishaps>>
  BY DEF Start, gateway, engineVars
<1> HIDE DEF k
<1>5. /\ call' \in [Tasks -> Calls] /\ call'[t] = k
      /\ \A u \in Tasks \ {t} : call'[u] = call[u]
  BY <1>3, <1>4, StepFacts
<1>6. ToSet(table) \subseteq Macs
  BY TableIs DEF ToSet
<1>7. /\ kept'[t] = ToSet(table) /\ met'[t] = ToSet(table)
      /\ \A u \in Tasks \ {t} : kept'[u] = kept[u] /\ met'[u] = met[u]
      /\ kept' \in [Tasks -> SUBSET Macs]
  BY <1>4, <1>6, StepFacts
<1>8. met' \in [Tasks -> SUBSET Macs]
  BY <1>4, <1>6, StepFacts
<1>9. QED
  BY <1>1, <1>3, <1>4, <1>5, <1>7, <1>8

LEMMA StartStep ==
    ASSUME StepIInv, NEW t \in Tasks, NEW op \in {"hello", "list", "table", "info", "add", "delete"},
           NEW mac \in Entries, op \in {"add", "delete"} => mac \in Macs, Start(t, op, mac)
    PROVE  StepIInv'
<1>1. ToSet(table) \subseteq Macs
  BY TableIs DEF ToSet
<1>2. ReadsTypeOK'
  <2>1. kept' \in [Tasks -> SUBSET Macs] /\ met' \in [Tasks -> SUBSET Macs]
    BY StartIs
  <2>2. call' \in [Tasks -> Calls] /\ UNCHANGED <<table, dead, wire, recent, lock, stream, chan, moved, why, mishaps>>
    BY StartIs
  <2>3. QED
    BY <2>1, <2>2, StepFacts DEF ReadsTypeOK
<1>3. \A u \in Tasks : u # t => call'[u] = call[u] /\ Running(u)' = Running(u) /\ Collecting(u)' = Collecting(u)
  BY StartIs, StepFacts DEF Running, Collecting
<1>4. /\ call'[t].op = op /\ call'[t].mac = mac /\ call'[t].step = 0 /\ call'[t].count = 0
      /\ call'[t].end = "no" /\ Len(call'[t].got) = 0
  BY StartIs, EmptySeq
<1>5. 0 \in StepsOf(op)
  BY DEF StepsOf
<1>6. lock # t /\ stream # t /\ chan[t] = <<>>
  <2>1. call[t].op = "none" /\ ~Running(t)
    BY StartIs
  <2>2. QED
    BY <2>1, StepFacts
<1>7. UNCHANGED <<table, lock, stream, chan>>
  BY StartIs
<1>8. AtStep'
  <2>1. ASSUME NEW u \in Tasks
        PROVE  /\ Running(u)' => /\ call'[u].step \in StepsOf(call'[u].op)
                                 /\ call'[u].op \in {"add", "delete"} => call'[u].mac \in Macs
                                 /\ call'[u].step = 0 => call'[u].count = 0
                                 /\ call'[u].op = "info" => Len(call'[u].got) = call'[u].step
               /\ chan'[u] # <<>> => call'[u].op = "list"
               /\ Len(chan'[u]) <= Room
    <3>1. CASE u = t
      BY <1>4, <1>5, <1>6, <1>7, <3>1, StepFacts
    <3>2. CASE u # t
      BY <1>3, <1>7, <3>2, StepFacts
    <3>3. QED
      BY <3>1, <3>2
  <2>2. lock' # Nobody => Running(lock)' /\ ~Collecting(lock)'
    BY <1>3, <1>6, <1>7, StepFacts
  <2>3. stream' # Nobody => call'[stream'].op = "list"
    BY <1>3, <1>6, <1>7, StepFacts
  <2>4. QED
    BY <1>7, <2>1, <2>2, <2>3, StepFacts DEF AtStep
<1>9. QED
  BY <1>2, <1>8 DEF StepIInv

\* A command that goes out, and what is sent back.
LEMMA SendIs ==
    ASSUME StepIInv, NEW t \in Tasks, Send(t)
    PROVE  /\ Running(t) /\ ~Collecting(t) /\ lock = Nobody /\ lock' = t
           /\ UNCHANGED <<dead, recent, stream, chan, call>>
           /\ \/ /\ \E new \in TablesAfter(Command(t)) :
                       /\ ChangesTable(new)
                       /\ wire' = wire \o Tagged(t, Reply(Command(t), new = Add(Command(t).mac)))
                 /\ UNCHANGED <<why, mishaps>>
              \/ /\ why' = [why EXCEPT ![t] = why[t] \cup {"lost"}]
                 /\ mishaps' \in {mishaps, mishaps + 1}
                 /\ UNCHANGED <<table, wire, kept, met, moved>>
BY DEF Send, Delivered, Undelivered, gateway

LEMMA SendStep ==
    ASSUME StepIInv, NEW t \in Tasks, Send(t)
    PROVE  StepIInv'
<1>1. /\ Running(t) /\ ~Collecting(t) /\ lock' = t
      /\ UNCHANGED <<dead, recent, stream, chan, call>>
  BY SendIs
<1>2. ASSUME NEW new \in TablesAfter(Command(t)), ChangesTable(new),
             wire' = wire \o Tagged(t, Reply(Command(t), new = Add(Command(t).mac))),
             UNCHANGED <<why, mishaps>>
      PROVE  ReadsTypeOK' /\ IsInjective(table')
  <2>1. Command(t).cmd \in Cmds /\ Command(t).index \in Nat
    BY <1>1, CommandIs
  <2>2. Reply(Command(t), new = Add(Command(t).mac)) \in Seq(Replies)
    BY <2>1, ReplyType
  <2>3. Tagged(t, Reply(Command(t), new = Add(Command(t).mac))) \in Seq(Packets)
    BY <2>2, TaggedType
  <2>4. wire' \in Seq(Packets)
    BY <1>2, <2>3, StepFacts, ConcatProperties
  <2>5. new \in Seq(Macs) /\ IsInjective(new)
    BY <1>1, TablesType
  <2>6. /\ table' \in Seq(Macs) /\ kept' \in [Tasks -> SUBSET Macs] /\ met' \in [Tasks -> SUBSET Macs]
        /\ moved' \in [Tasks -> BOOLEAN] /\ table' = new
    BY <1>2, <2>5, ChangesType
  <2>7. QED
    BY <1>1, <1>2, <2>4, <2>5, <2>6, StepFacts DEF ReadsTypeOK
<1>3. ASSUME why' = [why EXCEPT ![t] = why[t] \cup {"lost"}],
             mishaps' \in {mishaps, mishaps + 1},
             UNCHANGED <<table, wire, kept, met, moved>>
      PROVE  ReadsTypeOK' /\ IsInjective(table')
  <2>1. why' \in [Tasks -> SUBSET Befalls]
    BY <1>3, StepFacts DEF Befalls
  <2>2. QED
    BY <1>1, <1>3, <2>1, StepFacts DEF ReadsTypeOK
<1>4. ReadsTypeOK' /\ IsInjective(table')
  BY <1>2, <1>3, SendIs
<1>5. \A u \in Tasks : Running(u)' = Running(u) /\ Collecting(u)' = Collecting(u)
  BY <1>1 DEF Running, Collecting
<1>6. AtStep'
  BY <1>1, <1>4, <1>5, StepFacts DEF AtStep
<1>7. QED
  BY <1>4, <1>6 DEF StepIInv

\* How a call that is answered goes on, by what it is for.
LEMMA Going ==
    ASSUME StepIInv, NEW t \in Tasks, NEW end \in {"ok", "failed"}, NEW got \in Seq(Entries \cup Nat),
           call' \in {Ended(t, end, got), Stepped(t, got), Again(t)}
    PROVE  /\ call' \in [Tasks -> Calls]
           /\ \A u \in Tasks \ {t} : call'[u] = call[u]
           /\ call'[t].op = call[t].op /\ call'[t].mac = call[t].mac /\ call'[t].count = call[t].count
           /\ call' = Ended(t, end, got) =>
                 call'[t].end = end /\ call'[t].got = got /\ call'[t].step = call[t].step
           /\ call' = Stepped(t, got) =>
                 call'[t].end = call[t].end /\ call'[t].got = got /\ call'[t].step = call[t].step + 1
           /\ call' = Again(t) =>
                 call'[t].end = call[t].end /\ call'[t].got = call[t].got /\ call'[t].step = call[t].step
<1>1. call \in [Tasks -> Calls] /\ call[t] \in Calls
  BY StepFacts
<1>2. \A k \in Calls : call' = [call EXCEPT ![t] = k] =>
          /\ call' \in [Tasks -> Calls] /\ call'[t] = k
          /\ \A u \in Tasks \ {t} : call'[u] = call[u]
  BY <1>1
<1> DEFINE e == [call[t] EXCEPT !.end = end, !.got = got]
           s == [call[t] EXCEPT !.step = call[t].step + 1, !.tries = 0, !.got = got]
           a == [call[t] EXCEPT !.tries = call[t].tries + 1]
<1>3. /\ e.op = call[t].op /\ e.mac = call[t].mac /\ e.count = call[t].count
      /\ e.end = end /\ e.got = got /\ e.step = call[t].step
  BY <1>1 DEF Calls
<1>4. /\ s.op = call[t].op /\ s.mac = call[t].mac /\ s.count = call[t].count
      /\ s.end = call[t].end /\ s.got = got /\ s.step = call[t].step + 1
  BY <1>1 DEF Calls
<1>5. /\ a.op = call[t].op /\ a.mac = call[t].mac /\ a.count = call[t].count
      /\ a.end = call[t].end /\ a.got = call[t].got /\ a.step = call[t].step
  BY <1>1 DEF Calls
<1>6. Ended(t, end, got) = [call EXCEPT ![t] = e]
  BY DEF Ended
<1>7. Stepped(t, got) = [call EXCEPT ![t] = s]
  BY DEF Stepped
<1>8. Again(t) = [call EXCEPT ![t] = a]
  BY DEF Again
<1>9. e \in Calls
  BY <1>1 DEF Calls
<1>10. \A n, m \in Nat : /\ [call[t] EXCEPT !.step = n, !.tries = m, !.got = got] \in Calls
                        /\ [call[t] EXCEPT !.tries = n] \in Calls
  BY <1>1 DEF Calls
<1>11. call[t].step + 1 \in Nat /\ call[t].tries + 1 \in Nat /\ 0 \in Nat
  BY <1>1 DEF Calls
<1>12. s \in Calls
  BY <1>10, <1>11
<1>13. a \in Calls
  BY <1>10, <1>11
<1> HIDE DEF e, s, a
<1>14. CASE call' = Ended(t, end, got)
  <2>1. call'[t] = e /\ call' \in [Tasks -> Calls] /\ \A u \in Tasks \ {t} : call'[u] = call[u]
    BY <1>2, <1>6, <1>9, <1>12, <1>13, <1>14
  <2>2. (call' = Stepped(t, got) => s = e) /\ (call' = Again(t) => a = e)
    BY <1>1, <1>6, <1>7, <1>8, <1>9, <1>12, <1>13, <2>1
  <2>3. QED
    BY <1>3, <1>4, <1>5, <2>1, <2>2
<1>15. CASE call' = Stepped(t, got)
  <2>1. call'[t] = s /\ call' \in [Tasks -> Calls] /\ \A u \in Tasks \ {t} : call'[u] = call[u]
    BY <1>2, <1>7, <1>9, <1>12, <1>13, <1>15
  <2>2. (call' = Ended(t, end, got) => s = e) /\ (call' = Again(t) => a = s)
    BY <1>1, <1>6, <1>7, <1>8, <1>9, <1>12, <1>13, <2>1
  <2>3. QED
    BY <1>3, <1>4, <1>5, <2>1, <2>2
<1>16. CASE call' = Again(t)
  <2>1. call'[t] = a /\ call' \in [Tasks -> Calls] /\ \A u \in Tasks \ {t} : call'[u] = call[u]
    BY <1>2, <1>8, <1>9, <1>12, <1>13, <1>16
  <2>2. (call' = Ended(t, end, got) => a = e) /\ (call' = Stepped(t, got) => a = s)
    BY <1>1, <1>6, <1>7, <1>8, <1>9, <1>12, <1>13, <2>1
  <2>3. QED
    BY <1>3, <1>4, <1>5, <2>1, <2>2
<1>17. QED
  BY <1>14, <1>15, <1>16

\* The count, then the list's own reply.
LEMMA ListAnswered ==
    ASSUME StepIInv, NEW t \in Tasks, Running(t), ~Collecting(t), call[t].op = "list",
           NEW m \in Replies, Answered(t, m)
    PROVE  /\ call' \in [Tasks -> Calls] /\ \A u \in Tasks \ {t} : call'[u] = call[u]
           /\ call'[t].op = call[t].op /\ call'[t].mac = call[t].mac /\ call'[t].got = <<>>
           /\ stream' \in {stream, t}
           /\ \/ /\ call[t].step = 0 /\ call'[t].step = 0 /\ call'[t].end = "ok"
                 /\ call'[t].count = 0 /\ stream' = stream
              \/ call[t].step = 0 /\ call'[t].step = 1 /\ call'[t].end = "no" /\ stream' = t
              \/ call[t].step = 1 /\ call'[t].step = 2 /\ call'[t].end = "no" /\ stream' = stream
<1>1. /\ call[t].step \in {0, 1} /\ call[t].end = "no" /\ call \in [Tasks -> Calls] /\ call[t] \in Calls
      /\ call[t].step = 0 => call[t].count = 0
  <2>1. call[t].step \in 0 .. 2
    BY StepFacts DEF StepsOf
  <2>2. QED
    BY <2>1, StepFacts DEF Running, Collecting
<1>2. <<>> \in Seq(Entries \cup Nat)
  OBVIOUS
<1>3. \/ call[t].step = 0 /\ Counted(t, m)
      \/ call[t].step = 1 /\ call' = Stepped(t, <<>>) /\ stream' = stream
  BY DEF Answered
<1>4. CASE call[t].step = 0 /\ m.count = 0 /\ call' = Ended(t, "ok", <<>>) /\ stream' = stream
  BY <1>1, <1>2, <1>4, Going
<1>5. CASE call[t].step = 0 /\ call' = [Stepped(t, <<>>) EXCEPT ![t].count = m.count] /\ stream' = t
  <2> DEFINE s == [call[t] EXCEPT !.step = call[t].step + 1, !.tries = 0, !.got = <<>>]
             k == [s EXCEPT !.count = m.count]
  <2>1. m.count \in Nat
    BY DEF Replies
  <2>2. \A n \in Nat : LET r == [call[t] EXCEPT !.step = n, !.tries = 0, !.got = <<>>]
                       IN  /\ r \in Calls /\ r.op = call[t].op /\ r.mac = call[t].mac /\ r.got = <<>>
                           /\ r.step = n /\ r.end = call[t].end
    BY <1>1, <1>2 DEF Calls
  <2>3. call[t].step + 1 \in Nat /\ call[t].step + 1 = 1
    BY <1>5
  <2>4. /\ s \in Calls /\ s.op = call[t].op /\ s.mac = call[t].mac /\ s.got = <<>>
        /\ s.step = 1 /\ s.end = "no"
    BY <1>1, <2>2, <2>3
  <2>5. Stepped(t, <<>>) = [call EXCEPT ![t] = s]
    BY DEF Stepped
  <2> HIDE DEF s
  <2>6. /\ k \in Calls /\ k.op = call[t].op /\ k.mac = call[t].mac /\ k.got = <<>>
        /\ k.step = 1 /\ k.end = "no"
    BY <2>1, <2>4 DEF Calls
  <2>7. call' = [call EXCEPT ![t] = k]
    <3>1. call' = [[call EXCEPT ![t] = s] EXCEPT ![t].count = m.count]
      BY <1>5, <2>5
    <3>2. QED
      BY <1>1, <3>1
  <2> HIDE DEF k
  <2>8. QED
    BY <1>1, <1>5, <2>6, <2>7
<1>6. CASE call[t].step = 1 /\ call' = Stepped(t, <<>>) /\ stream' = stream
  <2>1. /\ call' \in [Tasks -> Calls] /\ \A u \in Tasks \ {t} : call'[u] = call[u]
        /\ call'[t].op = call[t].op /\ call'[t].mac = call[t].mac
        /\ call'[t].end = call[t].end /\ call'[t].got = <<>> /\ call'[t].step = call[t].step + 1
    BY <1>2, <1>6, Going
  <2>2. QED
    BY <1>1, <1>6, <2>1
<1>7. Counted(t, m) => \/ m.count = 0 /\ call' = Ended(t, "ok", <<>>) /\ stream' = stream
                       \/ call' = [Stepped(t, <<>>) EXCEPT ![t].count = m.count] /\ stream' = t
  BY DEF Counted
<1>8. \/ call[t].step = 0 /\ m.count = 0 /\ call' = Ended(t, "ok", <<>>) /\ stream' = stream
      \/ call[t].step = 0 /\ call' = [Stepped(t, <<>>) EXCEPT ![t].count = m.count] /\ stream' = t
      \/ call[t].step = 1 /\ call' = Stepped(t, <<>>) /\ stream' = stream
  BY <1>3, <1>7, Zenon
<1>9. QED
  BY <1>4, <1>5, <1>6, <1>8, Zenon

\* An entry of the table.
LEMMA EntryAnswered ==
    ASSUME StepIInv, NEW t \in Tasks, Running(t), call[t].op = "table",
           NEW m \in Replies, Answered(t, m)
    PROVE  /\ call' \in [Tasks -> Calls] /\ \A u \in Tasks \ {t} : call'[u] = call[u]
           /\ call'[t].op = call[t].op /\ call'[t].mac = call[t].mac
           /\ stream' = stream
           /\ \/ call'[t].end = "failed"
              \/ call'[t].end = "no" /\ call'[t].got = call[t].got /\ call'[t].step = call[t].step
                 /\ call'[t].count = call[t].count
              \/ m.index = call[t].step /\ m.verb # "add" /\ m.item = Nobody
                 /\ call'[t].end = "ok" /\ call'[t].got = call[t].got
              \/ /\ m.index = call[t].step /\ m.verb # "add" /\ m.item # Nobody
                 /\ call'[t].got = Append(call[t].got, m.item)
                 /\ \/ Len(call'[t].got) >= m.count /\ call'[t].end = "ok"
                    \/ ~(Len(call'[t].got) >= m.count) /\ call'[t].end = "no" /\ call'[t].step = call[t].step + 1
<1> DEFINE got == Append(call[t].got, m.item)
<1>1. /\ call[t].end = "no" /\ call \in [Tasks -> Calls] /\ call[t] \in Calls
      /\ call[t].got \in Seq(Entries \cup Nat) /\ m.item \in Entries
  BY StepFacts DEF Running, Replies
<1>2. got \in Seq(Entries \cup Nat)
  BY <1>1, OneMore
<1>3. stream' = stream /\ EntryRead(t, m)
  BY DEF Answered
<1> HIDE DEF got
<1>4. \/ call' = Ended(t, "failed", call[t].got)
      \/ call' = Again(t)
      \/ m.index = call[t].step /\ m.verb # "add" /\ m.item = Nobody /\ call' = Ended(t, "ok", call[t].got)
      \/ m.index = call[t].step /\ m.verb # "add" /\ m.item # Nobody /\ Len(got) >= m.count /\ call' = Ended(t, "ok", got)
      \/ m.index = call[t].step /\ m.verb # "add" /\ m.item # Nobody /\ ~(Len(got) >= m.count) /\ call' = Stepped(t, got)
  BY <1>3 DEF EntryRead, got
<1>5. /\ call' \in [Tasks -> Calls] /\ \A u \in Tasks \ {t} : call'[u] = call[u]
      /\ call'[t].op = call[t].op /\ call'[t].mac = call[t].mac /\ call'[t].count = call[t].count
  BY <1>1, <1>2, <1>4, Going
<1>6. CASE call' = Ended(t, "failed", call[t].got)
  BY <1>1, <1>3, <1>5, <1>6, Going
<1>7. CASE call' = Again(t)
  BY <1>1, <1>3, <1>5, <1>7, Going
<1>8. CASE m.index = call[t].step /\ m.verb # "add" /\ m.item = Nobody /\ call' = Ended(t, "ok", call[t].got)
  BY <1>1, <1>3, <1>5, <1>8, Going
<1>9. CASE m.index = call[t].step /\ m.verb # "add" /\ m.item # Nobody /\ Len(got) >= m.count /\ call' = Ended(t, "ok", got)
  <2>1. call'[t].end = "ok" /\ call'[t].got = got
    BY <1>1, <1>2, <1>9, Going
  <2>2. QED
    BY <1>3, <1>5, <1>9, <2>1 DEF got
<1>10. CASE m.index = call[t].step /\ m.verb # "add" /\ m.item # Nobody /\ ~(Len(got) >= m.count) /\ call' = Stepped(t, got)
  <2>1. call'[t].end = "no" /\ call'[t].got = got /\ call'[t].step = call[t].step + 1
    BY <1>1, <1>2, <1>10, Going
  <2>2. QED
    BY <1>3, <1>5, <1>10, <2>1 DEF got
<1>11. QED
  BY <1>4, <1>6, <1>7, <1>8, <1>9, <1>10

\* A page of the build information.
LEMMA PageAnswered ==
    ASSUME StepIInv, NEW t \in Tasks, Running(t), call[t].op = "info",
           NEW m \in Replies, Answered(t, m)
    PROVE  /\ call' \in [Tasks -> Calls] /\ \A u \in Tasks \ {t} : call'[u] = call[u]
           /\ call'[t].op = call[t].op /\ call'[t].mac = call[t].mac
           /\ stream' = stream
           /\ call'[t].got = Append(call[t].got, m.index)
           /\ \/ Len(call'[t].got) < 3 /\ call'[t].end = "no" /\ call'[t].step = call[t].step + 1
              \/ Len(call'[t].got) >= 3 /\ call'[t].end \in {"ok", "failed"}
<1> DEFINE got == Append(call[t].got, m.index)
<1>1. /\ call[t].end = "no" /\ call \in [Tasks -> Calls] /\ call[t] \in Calls
      /\ call[t].got \in Seq(Entries \cup Nat) /\ m.index \in Nat
  BY StepFacts DEF Running, Replies
<1>2. got \in Seq(Entries \cup Nat) /\ Len(got) \in Nat
  BY <1>1, OneMore
<1>3. stream' = stream /\ PageRead(t, m.index)
  BY DEF Answered
<1> HIDE DEF got
<1>4. \/ Len(got) < 3 /\ call' = Stepped(t, got)
      \/ ~(Len(got) < 3) /\ \E end \in {"ok", "failed"} : call' = Ended(t, end, got)
  BY <1>3 DEF PageRead, Pages, got
<1>5. CASE Len(got) < 3 /\ call' = Stepped(t, got)
  BY <1>1, <1>2, <1>3, <1>5, Going DEF got
<1>6. ASSUME ~(Len(got) < 3), NEW end \in {"ok", "failed"}, call' = Ended(t, end, got)
      PROVE  /\ call' \in [Tasks -> Calls] /\ \A u \in Tasks \ {t} : call'[u] = call[u]
             /\ call'[t].op = call[t].op /\ call'[t].mac = call[t].mac
             /\ call'[t].got = got /\ call'[t].end \in {"ok", "failed"} /\ Len(got) >= 3
  BY <1>1, <1>2, <1>6, Going
<1>7. QED
  BY <1>3, <1>4, <1>5, <1>6 DEF got

\* The handshake, a sensor added or deleted.
LEMMA OtherAnswered ==
    ASSUME StepIInv, NEW t \in Tasks, Running(t), call[t].op \in {"hello", "add", "delete"},
           NEW m \in Replies, Answered(t, m)
    PROVE  /\ call' \in [Tasks -> Calls] /\ \A u \in Tasks \ {t} : call'[u] = call[u]
           /\ call'[t].op = call[t].op /\ call'[t].mac = call[t].mac
           /\ stream' = stream
           /\ \/ call'[t].end \in {"ok", "failed"}
              \/ call[t].op = "hello" /\ call'[t].step \in 1 .. 4
<1>1. /\ call[t].end = "no" /\ call \in [Tasks -> Calls] /\ <<>> \in Seq(Entries \cup Nat)
      /\ call[t].step \in Nat
  BY StepFacts DEF Running
<1>2. stream' = stream
  BY DEF Answered
<1>3. \/ \E end \in {"ok", "failed"} : call' = Ended(t, end, <<>>)
      \/ call[t].op = "hello" /\ call[t].step + 1 < 5 /\ call' = Stepped(t, <<>>)
  BY DEF Answered, EndsIf, Hello
<1>4. ASSUME NEW end \in {"ok", "failed"}, call' = Ended(t, end, <<>>)
      PROVE  /\ call' \in [Tasks -> Calls] /\ \A u \in Tasks \ {t} : call'[u] = call[u]
             /\ call'[t].op = call[t].op /\ call'[t].mac = call[t].mac
             /\ call'[t].end \in {"ok", "failed"}
  BY <1>1, <1>4, Going
<1>5. CASE call[t].op = "hello" /\ call[t].step + 1 < 5 /\ call' = Stepped(t, <<>>)
  <2>1. /\ call' \in [Tasks -> Calls] /\ \A u \in Tasks \ {t} : call'[u] = call[u]
        /\ call'[t].op = call[t].op /\ call'[t].mac = call[t].mac
        /\ call'[t].step = call[t].step + 1
    BY <1>1, <1>5, Going
  <2>2. QED
    BY <1>1, <1>2, <1>5, <2>1
<1>6. QED
  BY <1>2, <1>3, <1>4, <1>5

\* However it goes on, a call that is answered is where it can be.
LEMMA AnsweredStep ==
    ASSUME StepIInv, NEW t \in Tasks, Running(t), ~Collecting(t), NEW m \in Replies, Answered(t, m)
    PROVE  /\ call' \in [Tasks -> Calls] /\ \A u \in Tasks \ {t} : call'[u] = call[u]
           /\ call'[t].op = call[t].op /\ call'[t].mac = call[t].mac
           /\ stream' \in {stream, t} /\ (stream' # stream => call[t].op = "list")
           /\ Running(t)' => /\ call'[t].step \in StepsOf(call'[t].op)
                             /\ call'[t].step = 0 => call'[t].count = 0
                             /\ call'[t].op = "info" => Len(call'[t].got) = call'[t].step
<1>1. CASE call[t].op = "list"
  BY <1>1, ListAnswered DEF StepsOf, Running
<1>2. CASE call[t].op = "table"
  <2>1. call[t].step \in Nat /\ (call[t].step = 0 => call[t].count = 0)
    BY StepFacts
  <2>2. QED
    BY <1>2, <2>1, EntryAnswered DEF StepsOf, Running
<1>3. CASE call[t].op = "info"
  <2>1. /\ call[t].step \in Nat /\ Len(call[t].got) = call[t].step
        /\ call[t].got \in Seq(Entries \cup Nat) /\ m.index \in Nat
    BY <1>3, StepFacts DEF Replies
  <2>2. Len(Append(call[t].got, m.index)) = call[t].step + 1
    BY <2>1, OneMore
  <2>3. QED
    BY <1>3, <2>1, <2>2, PageAnswered DEF StepsOf, Running
<1>4. CASE call[t].op \in {"hello", "add", "delete"}
  BY <1>4, OtherAnswered DEF StepsOf, Running
<1>5. QED
  BY <1>1, <1>2, <1>3, <1>4, StepFacts DEF Running

\* A step of one call leaves every call where it can be, when it leaves that one so.
LEMMA AtStepFrame ==
    ASSUME StepIInv, NEW t \in Tasks,
           \A u \in Tasks \ {t} : call'[u] = call[u],
           call'[t].op = call[t].op, call'[t].mac = call[t].mac,
           Running(t)' => /\ call'[t].step \in StepsOf(call'[t].op)
                          /\ call'[t].step = 0 => call'[t].count = 0
                          /\ call'[t].op = "info" => Len(call'[t].got) = call'[t].step,
           Running(t)' => Running(t),
           lock' # Nobody => lock' = lock /\ (lock' = t => Running(t)' /\ ~Collecting(t)'),
           stream' # Nobody => stream' = stream \/ (stream' = t /\ call[t].op = "list"),
           \A u \in Tasks : (chan'[u] # <<>> => chan[u] # <<>> \/ call[u].op = "list") /\ Len(chan'[u]) <= Room,
           IsInjective(table')
    PROVE  AtStep'
<1>1. \A u \in Tasks \ {t} : Running(u)' = Running(u) /\ Collecting(u)' = Collecting(u)
  BY DEF Running, Collecting
<1>2. ASSUME NEW u \in Tasks
      PROVE  /\ Running(u)' => /\ call'[u].step \in StepsOf(call'[u].op)
                               /\ call'[u].op \in {"add", "delete"} => call'[u].mac \in Macs
                               /\ call'[u].step = 0 => call'[u].count = 0
                               /\ call'[u].op = "info" => Len(call'[u].got) = call'[u].step
             /\ chan'[u] # <<>> => call'[u].op = "list"
             /\ Len(chan'[u]) <= Room
             /\ call'[u].op = call[u].op
  <2>1. CASE u = t
    BY <2>1, StepFacts
  <2>2. CASE u # t
    BY <1>1, <2>2, StepFacts
  <2>3. QED
    BY <2>1, <2>2
<1>3. lock' # Nobody => Running(lock)' /\ ~Collecting(lock)'
  <2> SUFFICES ASSUME lock' # Nobody PROVE Running(lock)' /\ ~Collecting(lock)'
    OBVIOUS
  <2>1. lock' = lock /\ lock \in Tasks /\ Running(lock) /\ ~Collecting(lock)
    BY StepFacts
  <2>2. CASE lock = t
    BY <2>1, <2>2 DEF Running, Collecting
  <2>3. CASE lock # t
    BY <2>1, <2>3 DEF Running, Collecting
  <2>4. QED
    BY <2>2, <2>3
<1>4. stream' # Nobody => call'[stream'].op = "list"
  BY <1>2, StepFacts
<1>5. QED
  BY <1>2, <1>3, <1>4 DEF AtStep

\* A packet that is read, and what becomes of it.
LEMMA ReadIs ==
    ASSUME StepIInv, Read
    PROVE  /\ wire # <<>> /\ wire' = Tail(wire)
           /\ Head(wire) \in Packets /\ Head(wire).reply \in Replies /\ Head(wire).for \in Tasks
           /\ UNCHANGED <<table, dead, kept, met, moved, mishaps>>
           /\ why' = [u \in Tasks |-> why[u] \cup Befallen(Head(wire), u)]
           /\ \/ IsResend(Head(wire).reply) /\ UNCHANGED <<recent, lock, stream, chan, call>>
              \/ /\ ~IsResend(Head(wire).reply) /\ Waits(Head(wire).reply.key)
                 /\ recent' \in {recent, Append(recent, Head(wire))}
                 /\ lock # Nobody /\ lock' = Nobody /\ Answered(lock, Head(wire).reply) /\ chan' = chan
              \/ /\ ~IsResend(Head(wire).reply) /\ ~Waits(Head(wire).reply.key)
                 /\ recent' \in {recent, Append(recent, Head(wire))}
                 /\ chan' = IF Head(wire).reply.key = "item" /\ Listener # Nobody /\ Len(chan[Listener]) < Room
                            THEN [chan EXCEPT ![Listener] = Append(@, Head(wire).reply.item)] ELSE chan
                 /\ UNCHANGED <<lock, stream, call>>
<1>1. wire # <<>> /\ wire' = Tail(wire) /\ UNCHANGED <<table, dead, kept, met, moved, mishaps>>
  BY DEF Read, gateway
<1>2. Head(wire) \in Packets
  BY <1>1, StepFacts, FirstOf
<1>3. Head(wire).reply \in Replies /\ Head(wire).for \in Tasks
  BY <1>2 DEF Packets
<1>4. why' = [u \in Tasks |-> why[u] \cup Befallen(Head(wire), u)]
  BY DEF Read
<1>5. \/ IsResend(Head(wire).reply) /\ UNCHANGED <<recent, lock, stream, chan, call>>
      \/ /\ ~IsResend(Head(wire).reply)
         /\ recent' \in {recent, Append(recent, Head(wire))}
         /\ Handled(Head(wire).reply)
  BY DEF Read, engineVars
<1>6. QED
  BY <1>1, <1>2, <1>3, <1>4, <1>5 DEF Handled, Waits

\* The listener is a task that is collecting a list, or none.
LEMMA ListenerIs ==
    ASSUME StepIInv
    PROVE  Listener # Nobody => /\ Listener = stream /\ Listener \in Tasks /\ Running(Listener)
                                /\ call[Listener].op = "list"
BY StepFacts DEF Listener

\* A packet that is read befalls the calls only with what there is a name for.
LEMMA BefallenType ==
    ASSUME NEW p, NEW u
    PROVE  Befallen(p, u) \subseteq Befalls
BY DEF Befallen, Befalls

\* An item that is passed on.
LEMMA PassType ==
    ASSUME StepIInv, NEW m \in Replies, Listener # Nobody
    PROVE  /\ [chan EXCEPT ![Listener] = Append(@, m.item)] \in [Tasks -> Seq(Entries)]
           /\ \A u \in Tasks : u # Listener => [chan EXCEPT ![Listener] = Append(@, m.item)][u] = chan[u]
           /\ [chan EXCEPT ![Listener] = Append(@, m.item)][Listener] = Append(chan[Listener], m.item)
<1>1. m.item \in Entries /\ chan[Listener] \in Seq(Entries) /\ Listener \in Tasks
  BY ListenerIs, StepFacts DEF Replies
<1>2. Append(chan[Listener], m.item) \in Seq(Entries)
  BY <1>1, OneMore
<1>3. QED
  BY <1>1, <1>2, StepFacts

LEMMA ReadStep ==
    ASSUME StepIInv, Read
    PROVE  StepIInv'
<1> DEFINE p == Head(wire)
           m == p.reply
<1>1. /\ p \in Packets /\ m \in Replies /\ wire # <<>> /\ wire' = Tail(wire)
      /\ UNCHANGED <<table, dead, kept, met, moved, mishaps>>
      /\ why' = [u \in Tasks |-> why[u] \cup Befallen(p, u)]
  BY ReadIs
<1>2. wire' \in Seq(Packets)
  BY <1>1, StepFacts, FirstOf
<1>3. why' \in [Tasks -> SUBSET Befalls]
  BY <1>1, StepFacts, BefallenType
<1>4. Append(recent, p) \in Seq(Packets)
  BY <1>1, StepFacts, OneMore
<1> HIDE DEF p, m
<1>5. ASSUME recent' \in {recent, Append(recent, p)}, lock' \in Tasks \cup {Nobody}, stream' \in Tasks \cup {Nobody},
             chan' \in [Tasks -> Seq(Entries)], call' \in [Tasks -> Calls]
      PROVE  ReadsTypeOK'
  BY <1>1, <1>2, <1>3, <1>4, <1>5, StepFacts DEF ReadsTypeOK
<1>6. CASE UNCHANGED <<recent, lock, stream, chan, call>>
  <2>1. ReadsTypeOK'
    BY <1>5, <1>6, StepFacts
  <2>2. AtStep'
    BY <1>1, <1>6 DEF StepIInv, AtStep, Running, Collecting
  <2>3. QED
    BY <2>1, <2>2 DEF StepIInv
<1>7. CASE /\ recent' \in {recent, Append(recent, p)}
           /\ lock # Nobody /\ lock' = Nobody /\ Answered(lock, m) /\ chan' = chan
  <2>1. lock \in Tasks /\ Running(lock) /\ ~Collecting(lock) /\ IsInjective(table)
    BY <1>7, StepFacts
  <2>2. /\ call' \in [Tasks -> Calls] /\ \A u \in Tasks \ {lock} : call'[u] = call[u]
        /\ call'[lock].op = call[lock].op /\ call'[lock].mac = call[lock].mac
        /\ stream' \in {stream, lock} /\ (stream' # stream => call[lock].op = "list")
    BY <1>1, <1>7, <2>1, AnsweredStep
  <2>3. ReadsTypeOK'
    BY <1>5, <1>7, <2>1, <2>2, StepFacts
  <2>4. ASSUME NEW t \in Tasks, t = lock PROVE AtStep'
    <3>1. Running(t)' => /\ call'[t].step \in StepsOf(call'[t].op)
                         /\ call'[t].step = 0 => call'[t].count = 0
                         /\ call'[t].op = "info" => Len(call'[t].got) = call'[t].step
      BY <1>1, <1>7, <2>1, <2>4, AnsweredStep
    <3>2. \A u \in Tasks : (chan'[u] # <<>> => chan[u] # <<>> \/ call[u].op = "list") /\ Len(chan'[u]) <= Room
      BY <1>7, StepFacts
    <3>3. IsInjective(table')
      BY <1>1, <2>1
    <3>4. QED
      BY <1>7, <2>1, <2>2, <2>4, <3>1, <3>2, <3>3, AtStepFrame
  <2>5. QED
    BY <2>1, <2>3, <2>4 DEF StepIInv
<1>8. CASE /\ recent' \in {recent, Append(recent, p)}
           /\ chan' = IF m.key = "item" /\ Listener # Nobody /\ Len(chan[Listener]) < Room
                      THEN [chan EXCEPT ![Listener] = Append(@, m.item)] ELSE chan
           /\ UNCHANGED <<lock, stream, call>>
  <2>1. chan' \in [Tasks -> Seq(Entries)]
    BY <1>1, <1>8, PassType, StepFacts
  <2>2. ReadsTypeOK'
    BY <1>5, <1>8, <2>1, StepFacts
  <2>3. \A u \in Tasks : (chan'[u] # <<>> => chan[u] # <<>> \/ call[u].op = "list") /\ Len(chan'[u]) <= Room
    <3>1. \A u \in Tasks : Len(chan[u]) <= Room /\ Len(chan[u]) \in Nat /\ chan[u] \in Seq(Entries)
      BY StepFacts
    <3>2. Listener # Nobody => call[Listener].op = "list" /\ Listener \in Tasks
      BY ListenerIs
    <3>3. CASE m.key = "item" /\ Listener # Nobody /\ Len(chan[Listener]) < Room
      <4>1. chan' = [chan EXCEPT ![Listener] = Append(chan[Listener], m.item)]
        BY <1>8, <3>3
      <4>2. Len(Append(chan[Listener], m.item)) = Len(chan[Listener]) + 1
        BY <1>1, <3>1, <3>2, <3>3, OneMore DEF Replies
      <4>3. chan'[Listener] = Append(chan[Listener], m.item) /\ \A u \in Tasks \ {Listener} : chan'[u] = chan[u]
        BY <4>1, <3>2, <3>3, StepFacts
      <4>4. Len(chan'[Listener]) <= Room
        BY <3>1, <3>2, <3>3, <4>2, <4>3, ReadsAssumption
      <4>5. QED
        BY <3>1, <3>2, <3>3, <4>3, <4>4, StepFacts
    <3>4. CASE ~(m.key = "item" /\ Listener # Nobody /\ Len(chan[Listener]) < Room)
      BY <1>8, <3>1, <3>4
    <3>5. QED
      BY <3>3, <3>4
  <2>4. AtStep'
    BY <1>1, <1>8, <2>3 DEF StepIInv, AtStep, Running, Collecting
  <2>5. QED
    BY <2>2, <2>4 DEF StepIInv
<1>9. QED
  BY <1>6, <1>7, <1>8, ReadIs DEF p, m

\* A wait for a reply that runs out.
LEMMA ExpireIs ==
    ASSUME StepIInv, NEW t \in Tasks, Expire(t)
    PROVE  /\ lock = t /\ lock' = Nobody /\ Running(t) /\ ~Collecting(t)
           /\ UNCHANGED <<table, dead, wire, recent, stream, chan, kept, met, moved>>
           /\ mishaps' \in {mishaps, mishaps + 1}
           /\ why' = [why EXCEPT ![t] = why[t] \cup {"lost"}]
           /\ call' \in [Tasks -> Calls] /\ \A u \in Tasks \ {t} : call'[u] = call[u]
           /\ call'[t].op = call[t].op /\ call'[t].mac = call[t].mac
           /\ call'[t].got = call[t].got /\ call'[t].count = call[t].count /\ call'[t].step = call[t].step
           /\ \/ call[t].op = "info" /\ call'[t].end \in {"ok", "failed"}
              \/ call'[t].end = "failed"
              \/ call[t].op = "hello" /\ call'[t].end = "no"
<1>1. /\ lock = t /\ lock' = Nobody
      /\ UNCHANGED <<table, dead, wire, recent, stream, chan, kept, met, moved>>
      /\ mishaps' \in {mishaps, mishaps + 1}
      /\ why' = [why EXCEPT ![t] = why[t] \cup {"lost"}]
  BY DEF Expire, gateway, Mishap
<1>2. Running(t) /\ ~Collecting(t) /\ call[t].got \in Seq(Entries \cup Nat) /\ call[t].end = "no"
  BY <1>1, StepFacts DEF Running
<1>3. \/ call[t].op = "hello" /\ call' = Again(t)
      \/ call[t].op = "info" /\ \E end \in {"ok", "failed"} : call' = Ended(t, end, call[t].got)
      \/ call' = Ended(t, "failed", call[t].got)
  BY DEF Expire
<1>4. ASSUME NEW end \in {"ok", "failed"}, call' = Ended(t, end, call[t].got)
      PROVE  /\ call' \in [Tasks -> Calls] /\ \A u \in Tasks \ {t} : call'[u] = call[u]
             /\ call'[t].op = call[t].op /\ call'[t].mac = call[t].mac
             /\ call'[t].got = call[t].got /\ call'[t].count = call[t].count /\ call'[t].step = call[t].step
             /\ call'[t].end = end
  BY <1>2, <1>4, Going
<1>5. ASSUME call' = Again(t)
      PROVE  /\ call' \in [Tasks -> Calls] /\ \A u \in Tasks \ {t} : call'[u] = call[u]
             /\ call'[t].op = call[t].op /\ call'[t].mac = call[t].mac
             /\ call'[t].got = call[t].got /\ call'[t].count = call[t].count /\ call'[t].step = call[t].step
             /\ call'[t].end = "no"
  BY <1>2, <1>5, Going
<1>6. QED
  BY <1>1, <1>2, <1>3, <1>4, <1>5

LEMMA ExpireStep ==
    ASSUME StepIInv, NEW t \in Tasks, Expire(t)
    PROVE  StepIInv'
<1>1. /\ lock' = Nobody /\ Running(t)
      /\ UNCHANGED <<table, dead, wire, recent, stream, chan, kept, met, moved>>
      /\ mishaps' \in {mishaps, mishaps + 1}
      /\ why' = [why EXCEPT ![t] = why[t] \cup {"lost"}]
      /\ call' \in [Tasks -> Calls] /\ \A u \in Tasks \ {t} : call'[u] = call[u]
      /\ call'[t].op = call[t].op /\ call'[t].mac = call[t].mac
      /\ call'[t].got = call[t].got /\ call'[t].count = call[t].count /\ call'[t].step = call[t].step
  BY ExpireIs
<1>2. why' \in [Tasks -> SUBSET Befalls]
  BY <1>1, StepFacts DEF Befalls
<1>3. ReadsTypeOK'
  BY <1>1, <1>2, StepFacts DEF ReadsTypeOK
<1>4. Running(t)' => /\ call'[t].step \in StepsOf(call'[t].op)
                     /\ call'[t].step = 0 => call'[t].count = 0
                     /\ call'[t].op = "info" => Len(call'[t].got) = call'[t].step
  BY <1>1, StepFacts
<1>5. \A u \in Tasks : (chan'[u] # <<>> => chan[u] # <<>> \/ call[u].op = "list") /\ Len(chan'[u]) <= Room
  BY <1>1, StepFacts
<1>6. IsInjective(table')
  BY <1>1, StepFacts
<1>7. AtStep'
  BY <1>1, <1>4, <1>5, <1>6, AtStepFrame
<1>8. QED
  BY <1>3, <1>7 DEF StepIInv

\* A list that goes on being collected, or ends.
LEMMA CollectIs ==
    ASSUME StepIInv, NEW t \in Tasks, Collect(t)
    PROVE  /\ Running(t) /\ call[t].op = "list" /\ call[t].step = 2 /\ lock # t
           /\ UNCHANGED <<table, dead, wire, recent, lock, kept, met, moved>>
           /\ mishaps' \in {mishaps, mishaps + 1}
           /\ call' \in [Tasks -> Calls] /\ \A u \in Tasks \ {t} : call'[u] = call[u]
           /\ call'[t].op = call[t].op /\ call'[t].mac = call[t].mac
           /\ call'[t].count = call[t].count /\ call'[t].step = call[t].step
           /\ why' \in [Tasks -> SUBSET Befalls]
           /\ chan' \in [Tasks -> Seq(Entries)] /\ \A u \in Tasks \ {t} : chan'[u] = chan[u]
           /\ \/ /\ chan[t] # <<>> /\ chan'[t] = Tail(chan[t])
                 /\ call'[t].got = IF Head(chan[t]) \in ToSet(call[t].got) THEN call[t].got
                                   ELSE Append(call[t].got, Head(chan[t]))
                 /\ \/ call'[t].end = "ok" /\ Len(call'[t].got) >= call[t].count /\ stream' = Nobody
                    \/ call'[t].end = "no" /\ stream' = stream /\ why' = why
                 /\ why'[t] = why[t]
              \/ /\ chan[t] = <<>> /\ chan'[t] = chan[t]
                 /\ call'[t].got = call[t].got /\ call'[t].end = "ok" /\ stream' = Nobody
                 /\ \/ stream # t
                    \/ ~Coming({"item"})
                    \/ why'[t] = why[t] \cup {"lost"}
                 /\ why[t] \subseteq why'[t]
           /\ \A u \in Tasks \ {t} : /\ why[u] \subseteq why'[u]
                                     /\ stream = u /\ stream' # stream /\ Running(u) => "replaced" \in why'[u]
                                     /\ ~(stream = u /\ Running(u)) => why'[u] = why[u]
<1>1. /\ Running(t) /\ call[t].op = "list" /\ call[t].step = 2 /\ lock # t
      /\ UNCHANGED <<table, dead, wire, recent, lock, kept, met, moved>>
      /\ Pick(t) \/ Settle(t)
  BY StepFacts DEF Collect, Collecting, gateway
<1>2. /\ call[t].end = "no" /\ call[t].got \in Seq(Entries \cup Nat) /\ chan[t] \in Seq(Entries)
      /\ why \in [Tasks -> SUBSET Befalls] /\ chan \in [Tasks -> Seq(Entries)]
      /\ call \in [Tasks -> Calls] /\ call[t] \in Calls
  BY <1>1, StepFacts DEF Running
<1>3. ASSUME NEW got \in Seq(Entries \cup Nat), NEW befell \in SUBSET Befalls, Collected(t, got, befell)
      PROVE  /\ call' \in [Tasks -> Calls] /\ \A u \in Tasks \ {t} : call'[u] = call[u]
             /\ call'[t].op = call[t].op /\ call'[t].mac = call[t].mac
             /\ call'[t].count = call[t].count /\ call'[t].step = call[t].step
             /\ call'[t].got = got /\ call'[t].end = "ok" /\ stream' = Nobody
             /\ why' \in [Tasks -> SUBSET Befalls] /\ why'[t] = why[t] \cup befell
             /\ \A u \in Tasks \ {t} : /\ why[u] \subseteq why'[u]
                                       /\ stream = u /\ Running(u) => "replaced" \in why'[u]
                                       /\ ~(stream = u /\ Running(u)) => why'[u] = why[u]
  <2>1. call' = Ended(t, "ok", got) /\ stream' = Nobody
    BY <1>3 DEF Collected
  <2>2. /\ call' \in [Tasks -> Calls] /\ \A u \in Tasks \ {t} : call'[u] = call[u]
        /\ call'[t].op = call[t].op /\ call'[t].mac = call[t].mac
        /\ call'[t].count = call[t].count /\ call'[t].step = call[t].step
        /\ call'[t].got = got /\ call'[t].end = "ok"
    BY <2>1, Going
  <2>3. why' = [u \in Tasks |-> IF u = t THEN why[u] \cup befell
                               ELSE IF u = stream /\ Running(u) THEN why[u] \cup {"replaced"} ELSE why[u]]
    BY <1>3 DEF Collected
  <2>4. why' \in [Tasks -> SUBSET Befalls]
    BY <1>2, <2>3 DEF Befalls
  <2>5. /\ why'[t] = why[t] \cup befell
        /\ \A u \in Tasks \ {t} : /\ why[u] \subseteq why'[u]
                                  /\ stream = u /\ Running(u) => "replaced" \in why'[u]
                                  /\ ~(stream = u /\ Running(u)) => why'[u] = why[u]
    BY <2>3
  <2>6. QED
    BY <2>1, <2>2, <2>4, <2>5
<1>4. CASE Pick(t)
  <2> DEFINE mac == Head(chan[t])
             got == IF mac \in ToSet(call[t].got) THEN call[t].got ELSE Append(call[t].got, mac)
  <2>1. /\ chan[t] # <<>> /\ chan' = [chan EXCEPT ![t] = Tail(@)] /\ mishaps' = mishaps
        /\ \/ Len(got) >= call[t].count /\ Collected(t, got, {})
           \/ call' = [call EXCEPT ![t].got = got] /\ UNCHANGED <<stream, why>>
    BY <1>4 DEF Pick
  <2>2. mac \in Entries /\ Tail(chan[t]) \in Seq(Entries)
    BY <1>2, <2>1, FirstOf
  <2>3. got \in Seq(Entries \cup Nat)
    BY <1>2, <2>2, OneMore
  <2>4. /\ chan' \in [Tasks -> Seq(Entries)] /\ chan'[t] = Tail(chan[t])
        /\ \A u \in Tasks \ {t} : chan'[u] = chan[u]
    BY <1>2, <2>1, <2>2
  <2> HIDE DEF got
  <2>5. CASE Len(got) >= call[t].count /\ Collected(t, got, {})
    <3>1. /\ call' \in [Tasks -> Calls] /\ \A u \in Tasks \ {t} : call'[u] = call[u]
          /\ call'[t].op = call[t].op /\ call'[t].mac = call[t].mac
          /\ call'[t].count = call[t].count /\ call'[t].step = call[t].step
          /\ call'[t].got = got /\ call'[t].end = "ok" /\ stream' = Nobody
          /\ why' \in [Tasks -> SUBSET Befalls] /\ why'[t] = why[t] \cup {}
          /\ \A u \in Tasks \ {t} : /\ why[u] \subseteq why'[u]
                                    /\ stream = u /\ Running(u) => "replaced" \in why'[u]
                                    /\ ~(stream = u /\ Running(u)) => why'[u] = why[u]
      <4>1. {} \in SUBSET Befalls
        OBVIOUS
      <4>2. QED
        BY <1>3, <2>3, <2>5, <4>1
    <3>2. why'[t] = why[t]
      BY <3>1
    <3>3. QED
      BY <1>1, <2>1, <2>4, <2>5, <3>1, <3>2 DEF got
  <2>6. CASE call' = [call EXCEPT ![t].got = got] /\ UNCHANGED <<stream, why>>
    <3> DEFINE k == [call[t] EXCEPT !.got = got]
    <3>1. /\ k \in Calls /\ k.op = call[t].op /\ k.mac = call[t].mac /\ k.count = call[t].count
          /\ k.step = call[t].step /\ k.got = got /\ k.end = "no"
      BY <1>2, <2>3 DEF Calls
    <3>2. call' = [call EXCEPT ![t] = k]
      BY <2>6
    <3> HIDE DEF k
    <3>3. /\ call' \in [Tasks -> Calls] /\ call'[t] = k /\ \A u \in Tasks \ {t} : call'[u] = call[u]
      BY <1>2, <3>1, <3>2
    <3>4. /\ call'[t].op = call[t].op /\ call'[t].mac = call[t].mac
          /\ call'[t].count = call[t].count /\ call'[t].step = call[t].step
          /\ call'[t].got = got /\ call'[t].end = "no"
          /\ \A u \in Tasks \ {t} : why'[u] = why[u]
      BY <2>6, <3>1, <3>3
    <3>5. QED
      BY <1>1, <1>2, <2>1, <2>4, <2>6, <3>3, <3>4 DEF got
  <2>7. QED
    BY <2>1, <2>5, <2>6 DEF got
<1>5. CASE Settle(t)
  <2>1. /\ chan[t] = <<>> /\ chan' = chan /\ mishaps' \in {mishaps, mishaps + 1}
        /\ \/ stream # t /\ Collected(t, call[t].got, {})
           \/ ~Coming({"item"}) /\ Collected(t, call[t].got, {})
           \/ Collected(t, call[t].got, {"lost"})
    BY <1>5 DEF Settle, Mishap
  <2>2. ASSUME NEW befell \in SUBSET Befalls, Collected(t, call[t].got, befell),
               stream # t \/ ~Coming({"item"}) \/ befell = {"lost"}
        PROVE  /\ call' \in [Tasks -> Calls] /\ \A u \in Tasks \ {t} : call'[u] = call[u]
               /\ call'[t].op = call[t].op /\ call'[t].mac = call[t].mac
               /\ call'[t].count = call[t].count /\ call'[t].step = call[t].step
               /\ call'[t].got = call[t].got /\ call'[t].end = "ok" /\ stream' = Nobody
               /\ why' \in [Tasks -> SUBSET Befalls] /\ why[t] \subseteq why'[t]
               /\ stream # t \/ ~Coming({"item"}) \/ why'[t] = why[t] \cup {"lost"}
               /\ \A u \in Tasks \ {t} : /\ why[u] \subseteq why'[u]
                                         /\ stream = u /\ Running(u) => "replaced" \in why'[u]
                                         /\ ~(stream = u /\ Running(u)) => why'[u] = why[u]
    BY <1>2, <1>3, <2>2
  <2>3. {} \in SUBSET Befalls /\ {"lost"} \in SUBSET Befalls
    BY DEF Befalls
  <2>4. /\ call' \in [Tasks -> Calls] /\ \A u \in Tasks \ {t} : call'[u] = call[u]
        /\ call'[t].op = call[t].op /\ call'[t].mac = call[t].mac
        /\ call'[t].count = call[t].count /\ call'[t].step = call[t].step
        /\ call'[t].got = call[t].got /\ call'[t].end = "ok" /\ stream' = Nobody
        /\ why' \in [Tasks -> SUBSET Befalls] /\ why[t] \subseteq why'[t]
        /\ stream # t \/ ~Coming({"item"}) \/ why'[t] = why[t] \cup {"lost"}
        /\ \A u \in Tasks \ {t} : /\ why[u] \subseteq why'[u]
                                  /\ stream = u /\ Running(u) => "replaced" \in why'[u]
                                  /\ ~(stream = u /\ Running(u)) => why'[u] = why[u]
    BY <2>1, <2>2, <2>3
  <2>5. QED
    BY <1>1, <1>2, <2>1, <2>4
<1>6. QED
  BY <1>1, <1>4, <1>5

LEMMA CollectStep ==
    ASSUME StepIInv, NEW t \in Tasks, Collect(t)
    PROVE  StepIInv'
<1>1. /\ Running(t) /\ call[t].op = "list" /\ call[t].step = 2 /\ lock # t
      /\ UNCHANGED <<table, dead, wire, recent, lock, kept, met, moved>>
      /\ mishaps' \in {mishaps, mishaps + 1}
      /\ call' \in [Tasks -> Calls] /\ \A u \in Tasks \ {t} : call'[u] = call[u]
      /\ call'[t].op = call[t].op /\ call'[t].mac = call[t].mac
      /\ call'[t].count = call[t].count /\ call'[t].step = call[t].step
      /\ why' \in [Tasks -> SUBSET Befalls]
      /\ chan' \in [Tasks -> Seq(Entries)] /\ \A u \in Tasks \ {t} : chan'[u] = chan[u]
      /\ stream' \in {stream, Nobody}
  BY CollectIs
<1>2. ReadsTypeOK'
  BY <1>1, StepFacts DEF ReadsTypeOK
<1>3. /\ call'[t].step \in StepsOf(call'[t].op)
      /\ call'[t].step = 0 => call'[t].count = 0
      /\ call'[t].op = "info" => Len(call'[t].got) = call'[t].step
  BY <1>1, StepFacts
<1>4. \A u \in Tasks : (chan'[u] # <<>> => chan[u] # <<>> \/ call[u].op = "list") /\ Len(chan'[u]) <= Room
  <2>1. \A u \in Tasks : Len(chan[u]) <= Room /\ (chan[u] # <<>> => call[u].op = "list")
    BY StepFacts
  <2>2. chan'[t] \in {chan[t], Tail(chan[t])} /\ (chan'[t] # chan[t] => chan[t] # <<>>)
    BY CollectIs
  <2>3. Len(chan'[t]) <= Room
    <3>1. CASE chan'[t] = chan[t]
      BY <2>1, <3>1
    <3>2. CASE chan[t] # <<>> /\ chan'[t] = Tail(chan[t])
      <4>1. chan[t] \in Seq(Entries) /\ Room \in Nat
        BY StepFacts, ReadsAssumption
      <4>2. Len(chan'[t]) = Len(chan[t]) - 1
        BY <3>2, <4>1, FirstOf
      <4>3. QED
        BY <2>1, <4>1, <4>2
    <3>3. QED
      BY <2>2, <3>1, <3>2
  <2>4. QED
    BY <1>1, <2>1, <2>3
<1>5. IsInjective(table')
  BY <1>1, StepFacts
<1>6. AtStep'
  BY <1>1, <1>3, <1>4, <1>5, AtStepFrame
<1>7. QED
  BY <1>2, <1>6 DEF StepIInv

\* What happens apart from the calls: they, the lock, the sender and the queued
\* items stay as they are.
Meanwhile == Forget \/ Lose \/ Resend \/ Pair \/ PowerOff

LEMMA MeanwhileIs ==
    ASSUME StepIInv, Meanwhile
    PROVE  /\ UNCHANGED <<lock, stream, chan, call>> /\ mishaps' \in {mishaps, mishaps + 1}
           /\ \/ /\ recent # <<>> /\ recent' = Tail(recent)
                 /\ UNCHANGED <<table, wire, kept, met, moved, why>> /\ dead' = dead
              \/ /\ wire # <<>> /\ wire' = Tail(wire)
                 /\ why' = [why EXCEPT ![Head(wire).for] = why[Head(wire).for] \cup {"lost"}]
                 /\ UNCHANGED <<table, recent, kept, met, moved>> /\ dead' = dead
              \/ /\ \E p \in ToSet(recent) : wire' = Append(wire, [p EXCEPT !.copy = TRUE])
                 /\ UNCHANGED <<table, recent, kept, met, moved, why>> /\ dead' = dead
              \/ /\ \E mac \in Macs \ ToSet(table) : ChangesTable(Append(table, mac))
                 /\ UNCHANGED <<wire, recent, why>> /\ dead' = dead
              \/ /\ UNCHANGED <<table, wire, recent, kept, met, moved, why>> /\ dead' = TRUE
<1>1. CASE Forget
  BY <1>1 DEF Forget, gateway, history
<1>2. CASE Lose
  BY <1>2 DEF Lose, gateway, engineVars, Mishap
<1>3. CASE Resend
  BY <1>3 DEF Resend, gateway, engineVars, history, Mishap
<1>4. CASE Pair
  BY <1>4 DEF Pair, engineVars, Mishap
<1>5. CASE PowerOff
  BY <1>5 DEF PowerOff, engineVars, history, Mishap
<1>6. QED
  BY <1>1, <1>2, <1>3, <1>4, <1>5 DEF Meanwhile

\* A packet of what was read a short while ago.
LEMMA RecentIs ==
    ASSUME StepIInv, NEW p \in ToSet(recent)
    PROVE  /\ p \in Packets /\ [p EXCEPT !.copy = TRUE] \in Packets
           /\ [p EXCEPT !.copy = TRUE].reply = p.reply /\ [p EXCEPT !.copy = TRUE].for = p.for
           /\ [p EXCEPT !.copy = TRUE].copy = TRUE
<1>1. p \in Packets
  BY StepFacts DEF ToSet
<1>2. QED
  BY <1>1 DEF Packets

LEMMA MeanwhileStep ==
    ASSUME StepIInv, Meanwhile
    PROVE  StepIInv'
<1>1. UNCHANGED <<lock, stream, chan, call>> /\ mishaps' \in {mishaps, mishaps + 1}
  BY MeanwhileIs
<1>2. ReadsTypeOK' /\ IsInjective(table')
  <2>1. CASE /\ recent # <<>> /\ recent' = Tail(recent)
             /\ UNCHANGED <<table, wire, kept, met, moved, why>> /\ dead' = dead
    <3>1. recent' \in Seq(Packets)
      BY <2>1, StepFacts, FirstOf
    <3>2. QED
      BY <1>1, <2>1, <3>1, StepFacts DEF ReadsTypeOK
  <2>2. CASE /\ wire # <<>> /\ wire' = Tail(wire)
             /\ why' = [why EXCEPT ![Head(wire).for] = why[Head(wire).for] \cup {"lost"}]
             /\ UNCHANGED <<table, recent, kept, met, moved>> /\ dead' = dead
    <3>1. wire' \in Seq(Packets) /\ Head(wire) \in Packets
      BY <2>2, StepFacts, FirstOf
    <3>2. Head(wire).for \in Tasks
      BY <3>1 DEF Packets
    <3>3. why' \in [Tasks -> SUBSET Befalls]
      BY <2>2, <3>2, StepFacts DEF Befalls
    <3>4. QED
      BY <1>1, <2>2, <3>1, <3>3, StepFacts DEF ReadsTypeOK
  <2>3. CASE /\ \E p \in ToSet(recent) : wire' = Append(wire, [p EXCEPT !.copy = TRUE])
             /\ UNCHANGED <<table, recent, kept, met, moved, why>> /\ dead' = dead
    <3>1. wire' \in Seq(Packets)
      BY <2>3, RecentIs, StepFacts, OneMore
    <3>2. QED
      BY <1>1, <2>3, <3>1, StepFacts DEF ReadsTypeOK
  <2>4. ASSUME NEW mac \in Macs \ ToSet(table), ChangesTable(Append(table, mac)),
               UNCHANGED <<wire, recent, why>>, dead' = dead
        PROVE  ReadsTypeOK' /\ IsInjective(table')
    <3>1. Append(table, mac) \in Seq(Macs) /\ IsInjective(Append(table, mac))
      BY StepFacts, OneMore
    <3>2. /\ table' \in Seq(Macs) /\ kept' \in [Tasks -> SUBSET Macs] /\ met' \in [Tasks -> SUBSET Macs]
          /\ moved' \in [Tasks -> BOOLEAN] /\ table' = Append(table, mac)
      BY <2>4, <3>1, ChangesType
    <3>3. QED
      BY <1>1, <2>4, <3>1, <3>2, StepFacts DEF ReadsTypeOK
  <2>5. CASE UNCHANGED <<table, wire, recent, kept, met, moved, why>> /\ dead' = TRUE
    BY <1>1, <2>5, StepFacts DEF ReadsTypeOK
  <2>6. QED
    BY <2>1, <2>2, <2>3, <2>4, <2>5, MeanwhileIs
<1>3. AtStep'
  BY <1>1, <1>2 DEF StepIInv, AtStep, Running, Collecting
<1>4. QED
  BY <1>2, <1>3 DEF StepIInv

\* What starts a call.
LEMMA BeginIs ==
    ASSUME StepIInv, NEW t \in Tasks, (t = Opener /\ Open) \/ Begin(t)
    PROVE  \E op \in {"hello", "list", "table", "info", "add", "delete"}, mac \in Entries :
              (op \in {"add", "delete"} => mac \in Macs) /\ Start(t, op, mac)
<1>1. Nobody \in Entries /\ Macs \subseteq Entries
  BY DEF Entries
<1>2. CASE t = Opener /\ Open
  BY <1>1, <1>2 DEF Open
<1>3. CASE Begin(t)
  BY <1>1, <1>3 DEF Begin
<1>4. QED
  BY <1>2, <1>3

\* Every step is one of these.
LEMMA StepIs ==
    ASSUME StepIInv, [ReadsNext]_readsVars
    PROVE  \/ \E t \in Tasks, op \in {"hello", "list", "table", "info", "add", "delete"}, mac \in Entries :
                 (op \in {"add", "delete"} => mac \in Macs) /\ Start(t, op, mac)
           \/ Read
           \/ \E t \in Tasks : Send(t) \/ Expire(t) \/ Collect(t)
           \/ Meanwhile
           \/ UNCHANGED readsVars
BY BeginIs DEF ReadsNext, Meanwhile, Tasks

LEMMA StepKept ==
    ASSUME StepIInv, [ReadsNext]_readsVars
    PROVE  StepIInv'
<1>1. CASE UNCHANGED readsVars
  BY <1>1 DEF StepIInv, ReadsTypeOK, AtStep, readsVars, gateway, engineVars, history, Running, Collecting
<1>2. QED
  BY <1>1, StepIs, StartStep, ReadStep, SendStep, ExpireStep, CollectStep, MeanwhileStep

\* A table holds a sensor once.
LEMMA TablesOf ==
    ASSUME NEW s \in SetToAllKPermutations(Macs)
    PROVE  s \in Seq(Macs) /\ IsInjective(s)
<1>1. PICK S \in SUBSET Macs : s \in SetToSeqs(S)
  BY DEF SetToAllKPermutations
<1>2. Cardinality(S) \in Nat
  BY ReadsAssumption, FS_Subset, FS_CardinalityType
<1>3. s \in [1 .. Cardinality(S) -> S] /\ IsInjective(s)
  BY <1>1 DEF SetToSeqs, IsInjective
<1>4. QED
  BY <1>2, <1>3

LEMMA StepInit == ReadsInit => StepIInv
<1> SUFFICES ASSUME ReadsInit PROVE StepIInv
  OBVIOUS
<1>1. table \in Seq(Macs) /\ IsInjective(table)
  BY TablesOf DEF ReadsInit
<1>2. \A t \in Tasks : call[t] \in Calls /\ call[t].op = "none" /\ ~Running(t) /\ chan[t] = <<>>
  <2>1. Idle \in Calls /\ Idle.op = "none"
    BY DEF Idle, Calls, Entries
  <2>2. \A t \in Tasks : call[t] = Idle /\ chan[t] = <<>>
    BY DEF ReadsInit
  <2>3. QED
    BY <2>1, <2>2 DEF Running
<1>3. call \in [Tasks -> Calls]
  BY <1>2 DEF ReadsInit
<1>4. ReadsTypeOK
  <2>1. wire \in Seq(Packets) /\ recent \in Seq(Packets) /\ chan \in [Tasks -> Seq(Entries)]
    BY DEF ReadsInit
  <2>2. /\ kept \in [Tasks -> SUBSET Macs] /\ met \in [Tasks -> SUBSET Macs]
        /\ moved \in [Tasks -> BOOLEAN] /\ why \in [Tasks -> SUBSET Befalls]
    BY DEF ReadsInit
  <2>3. dead \in BOOLEAN /\ lock \in Tasks \cup {Nobody} /\ stream \in Tasks \cup {Nobody} /\ mishaps \in Nat
    BY DEF ReadsInit
  <2>4. QED
    BY <1>1, <1>3, <2>1, <2>2, <2>3 DEF ReadsTypeOK
<1>5. AtStep
  <2>1. Len(<<>>) <= Room
    BY ReadsAssumption
  <2>2. QED
    BY <1>1, <1>2, <2>1 DEF AtStep, ReadsInit
<1>6. QED
  BY <1>4, <1>5 DEF StepIInv

-------------------------------------------------------------------------------
(* The packets of a call: those under way and those the reader has read a      *)
(* short while ago.                                                            *)

Packs == ToSet(wire) \cup ToSet(recent)
Answers(t) == {p.reply : p \in {q \in Packs : q.for = t}}

\* Where on the wire packets of t's call are that are not copies, and what
\* sensors those of a list tell of.
Fresh(t) == {i \in DOMAIN wire : wire[i].for = t /\ ~wire[i].copy}
OnWire(t) == {wire[i].reply.item : i \in {j \in Fresh(t) : wire[j].reply.key = "item"}}

LEMMA TailWithin ==
    ASSUME NEW S, NEW s \in Seq(S), s # <<>>
    PROVE  ToSet(Tail(s)) \subseteq ToSet(s) /\ Head(s) \in ToSet(s)
           /\ ToSet(s) = ToSet(Tail(s)) \cup {Head(s)}
<1>1. /\ Head(s) = s[1] /\ 1 \in DOMAIN s /\ DOMAIN s = 1 .. Len(s) /\ Len(s) \in Nat
      /\ DOMAIN Tail(s) = 1 .. Len(s) - 1
      /\ \A i \in 1 .. Len(s) - 1 : Tail(s)[i] = s[i + 1]
  BY FirstOf
<1>2. ASSUME NEW x \in ToSet(Tail(s)) PROVE x \in ToSet(s)
  BY <1>1 DEF ToSet
<1>3. ASSUME NEW x \in ToSet(s) PROVE x = Head(s) \/ x \in ToSet(Tail(s))
  <2>1. PICK i \in 1 .. Len(s) : x = s[i]
    BY <1>1 DEF ToSet
  <2>2. CASE i = 1
    BY <1>1, <2>1, <2>2
  <2>3. CASE i # 1
    <3>1. i - 1 \in 1 .. Len(s) - 1 /\ (i - 1) + 1 = i
      BY <1>1, <2>3
    <3>2. x = Tail(s)[i - 1]
      BY <1>1, <2>1, <3>1
    <3>3. QED
      BY <1>1, <3>1, <3>2 DEF ToSet
  <2>4. QED
    BY <2>2, <2>3
<1>4. Head(s) \in ToSet(s)
  BY <1>1 DEF ToSet
<1>5. QED
  BY <1>2, <1>3, <1>4

\* A task's packets are those that were there, whatever is read, forgotten, lost
\* or sent again.
LEMMA AnswersFrame ==
    ASSUME NEW t, \A q \in Packs' : \E p \in Packs : q.reply = p.reply /\ q.for = p.for
    PROVE  Answers(t)' \subseteq Answers(t)
BY DEF Answers

LEMMA AnswersRead ==
    ASSUME StepIInv, Read, NEW t
    PROVE  Answers(t)' \subseteq Answers(t)
<1>1. wire # <<>> /\ wire' = Tail(wire) /\ recent' \in {recent, Append(recent, Head(wire))}
  BY ReadIs
<1>2. ToSet(wire') \subseteq ToSet(wire) /\ Head(wire) \in ToSet(wire) /\ Head(wire) \in Packets
  BY <1>1, StepFacts, TailWithin, FirstOf
<1>3. ToSet(recent') \subseteq ToSet(recent) \cup {Head(wire)}
  <2>1. recent \in Seq(Packets)
    BY StepFacts
  <2>2. ToSet(Append(recent, Head(wire))) = ToSet(recent) \cup {Head(wire)}
    BY <1>2, <2>1, OneMore
  <2>3. QED
    BY <1>1, <2>2
<1>4. Packs' \subseteq Packs
  BY <1>2, <1>3 DEF Packs
<1>5. QED
  BY <1>4, AnswersFrame

LEMMA AnswersMeanwhile ==
    ASSUME StepIInv, Meanwhile, NEW t
    PROVE  Answers(t)' \subseteq Answers(t)
<1>1. CASE recent # <<>> /\ recent' = Tail(recent) /\ wire' = wire
  BY <1>1, StepFacts, TailWithin, AnswersFrame DEF Packs
<1>2. CASE wire # <<>> /\ wire' = Tail(wire) /\ recent' = recent
  BY <1>2, StepFacts, TailWithin, AnswersFrame DEF Packs
<1>3. ASSUME NEW p \in ToSet(recent), wire' = Append(wire, [p EXCEPT !.copy = TRUE]), recent' = recent
      PROVE  Answers(t)' \subseteq Answers(t)
  <2>1. ToSet(wire') = ToSet(wire) \cup {[p EXCEPT !.copy = TRUE]}
    <3>1. wire \in Seq(Packets) /\ [p EXCEPT !.copy = TRUE] \in Packets
      BY RecentIs, StepFacts
    <3>2. QED
      BY <1>3, <3>1, OneMore
  <2>2. \A q \in Packs' : \E r \in Packs : q.reply = r.reply /\ q.for = r.for
    BY <1>3, <2>1, RecentIs DEF Packs
  <2>3. QED
    BY <2>2, AnswersFrame
<1>4. CASE UNCHANGED <<wire, recent>>
  BY <1>4 DEF Answers, Packs
<1>5. QED
  BY <1>1, <1>2, <1>3, <1>4, MeanwhileIs

\* What is sent to a task adds to its packets and to no other's.
LEMMA SentIs ==
    ASSUME StepIInv, NEW t \in Tasks, NEW rs \in Seq(Replies), wire' = wire \o Tagged(t, rs), recent' = recent
    PROVE  /\ \A u : u # t => Answers(u)' \subseteq Answers(u)
           /\ Answers(t)' \subseteq Answers(t) \cup ToSet(rs)
           /\ \A u : u # t => Fresh(u)' = Fresh(u) /\ \A i \in Fresh(u) : wire'[i] = wire[i]
           /\ \A i \in DOMAIN wire : i \in DOMAIN wire' /\ wire'[i] = wire[i]
           /\ \A j \in 1 .. Len(rs) : /\ Len(wire) + j \in Fresh(t)'
                                      /\ wire'[Len(wire) + j].reply = rs[j]
           /\ \A i \in Fresh(t)' : \/ i \in Fresh(t)
                                   \/ \E j \in 1 .. Len(rs) : i = Len(wire) + j
<1> DEFINE new == Tagged(t, rs)
<1>1. /\ new \in Seq(Packets) /\ Len(new) = Len(rs) /\ Len(rs) \in Nat /\ DOMAIN rs = 1 .. Len(rs)
      /\ \A j \in 1 .. Len(rs) : new[j] = [reply |-> rs[j], for |-> t, copy |-> FALSE]
  BY TaggedType
<1>2. wire \in Seq(Packets) /\ Len(wire) \in Nat /\ DOMAIN wire = 1 .. Len(wire)
  BY StepFacts
<1> HIDE DEF new
<1>3. /\ Len(wire') = Len(wire) + Len(rs) /\ DOMAIN wire' = 1 .. Len(wire) + Len(rs)
      /\ \A i \in 1 .. Len(wire) : wire'[i] = wire[i]
      /\ \A j \in 1 .. Len(rs) : wire'[Len(wire) + j] = new[j]
  <2>1. wire' = wire \o new
    BY DEF new
  <2>2. /\ wire' \in Seq(Packets) /\ Len(wire') = Len(wire) + Len(new)
        /\ \A i \in 1 .. Len(wire) + Len(new) :
              wire'[i] = IF i <= Len(wire) THEN wire[i] ELSE new[i - Len(wire)]
    <3>1. /\ wire \o new \in Seq(Packets) /\ Len(wire \o new) = Len(wire) + Len(new)
          /\ \A i \in 1 .. Len(wire) + Len(new) :
                (wire \o new)[i] = IF i <= Len(wire) THEN wire[i] ELSE new[i - Len(wire)]
      BY <1>1, <1>2, ConcatProperties
    <3>2. QED
      BY <2>1, <3>1
  <2>3. \A j \in 1 .. Len(rs) : /\ Len(wire) + j \in 1 .. Len(wire) + Len(new)
                                /\ ~(Len(wire) + j <= Len(wire)) /\ Len(wire) + j - Len(wire) = j
    BY <1>1, <1>2
  <2>4. ASSUME NEW j \in 1 .. Len(rs) PROVE wire'[Len(wire) + j] = new[j]
    <3> DEFINE i == Len(wire) + j
    <3>1. i \in 1 .. Len(wire) + Len(new) /\ ~(i <= Len(wire)) /\ i - Len(wire) = j
      BY <2>3
    <3> HIDE DEF i
    <3>2. wire'[i] = new[j]
      BY <2>2, <3>1
    <3>3. QED
      BY <3>2 DEF i
  <2>5. \A i \in 1 .. Len(wire) : wire'[i] = wire[i]
    BY <1>1, <1>2, <2>2
  <2>6. QED
    BY <1>1, <1>2, <2>2, <2>4, <2>5
<1>4. ASSUME NEW i \in DOMAIN wire'
      PROVE  i \in 1 .. Len(wire) \/ \E j \in 1 .. Len(rs) : i = Len(wire) + j
  <2>1. i \in 1 .. Len(wire) \/ (i - Len(wire) \in 1 .. Len(rs) /\ i = Len(wire) + (i - Len(wire)))
    BY <1>1, <1>2, <1>3
  <2>2. QED
    BY <2>1
<1>5. ASSUME NEW j \in 1 .. Len(rs)
      PROVE  /\ Len(wire) + j \in DOMAIN wire'
             /\ wire'[Len(wire) + j].reply = rs[j] /\ wire'[Len(wire) + j].for = t
             /\ wire'[Len(wire) + j].copy = FALSE
  <2>1. wire'[Len(wire) + j] = [reply |-> rs[j], for |-> t, copy |-> FALSE]
    BY <1>1, <1>3
  <2>2. Len(wire) + j \in DOMAIN wire'
    BY <1>1, <1>2, <1>3
  <2>3. QED
    BY <2>1, <2>2
<1>6. \A j \in 1 .. Len(rs) : /\ Len(wire) + j \in Fresh(t)'
                              /\ wire'[Len(wire) + j].reply = rs[j]
  BY <1>5 DEF Fresh
<1>7. \A i \in DOMAIN wire : i \in DOMAIN wire' /\ wire'[i] = wire[i]
  BY <1>1, <1>2, <1>3
<1>8. \A i \in Fresh(t)' : i \in Fresh(t) \/ \E j \in 1 .. Len(rs) : i = Len(wire) + j
  BY <1>2, <1>4, <1>7 DEF Fresh
<1>9. ASSUME NEW u, u # t
      PROVE  Fresh(u)' = Fresh(u) /\ \A i \in Fresh(u) : wire'[i] = wire[i]
  <2>1. ASSUME NEW i \in Fresh(u)' PROVE i \in Fresh(u)
    <3>1. i \in DOMAIN wire' /\ wire'[i].for = u /\ ~wire'[i].copy
      BY DEF Fresh
    <3>2. i \in 1 .. Len(wire)
      BY <1>4, <1>5, <1>9, <3>1
    <3>3. QED
      BY <1>2, <1>7, <3>1, <3>2 DEF Fresh
  <2>2. \A i \in Fresh(u) : i \in Fresh(u)' /\ wire'[i] = wire[i]
    BY <1>7 DEF Fresh
  <2>3. QED
    BY <2>1, <2>2
<1>10. ASSUME NEW p \in Packs'
       PROVE  p \in Packs \/ (p.for = t /\ p.reply \in ToSet(rs))
  <2>1. CASE p \in ToSet(recent)
    BY <2>1 DEF Packs
  <2>2. CASE p \in ToSet(wire')
    <3>1. PICK i \in DOMAIN wire' : p = wire'[i]
      BY <2>2 DEF ToSet
    <3>2. CASE i \in 1 .. Len(wire)
      BY <1>2, <1>7, <3>1, <3>2 DEF Packs, ToSet
    <3>3. ASSUME NEW j \in 1 .. Len(rs), i = Len(wire) + j
          PROVE  p.for = t /\ p.reply \in ToSet(rs)
      BY <1>1, <1>5, <3>1, <3>3 DEF ToSet
    <3>4. QED
      BY <1>4, <3>2, <3>3
  <2>3. QED
    BY <2>1, <2>2 DEF Packs
<1>11. \A u : u # t => Answers(u)' \subseteq Answers(u)
  BY <1>10 DEF Answers
<1>12. Answers(t)' \subseteq Answers(t) \cup ToSet(rs)
  BY <1>10 DEF Answers
<1>13. QED
  BY <1>6, <1>7, <1>8, <1>9, <1>11, <1>12

\* A packet fewer at the head of the wire.
LEMMA FreshTail ==
    ASSUME StepIInv, wire # <<>>, wire' = Tail(wire), NEW t
    PROVE  /\ \A i \in Fresh(t)' : i + 1 \in Fresh(t) /\ wire'[i] = wire[i + 1] /\ i \in Nat /\ i # 0
           /\ \A i \in Fresh(t) : i # 1 => i - 1 \in Fresh(t)' /\ wire'[i - 1] = wire[i]
           /\ 1 \in Fresh(t) <=> (Head(wire).for = t /\ ~Head(wire).copy)
           /\ wire[1] = Head(wire)
<1>1. /\ Head(wire) = wire[1] /\ 1 \in DOMAIN wire /\ DOMAIN wire = 1 .. Len(wire) /\ Len(wire) \in Nat
      /\ DOMAIN wire' = 1 .. Len(wire) - 1
      /\ \A i \in 1 .. Len(wire) - 1 : wire'[i] = wire[i + 1]
  BY StepFacts, FirstOf
<1>2. \A i \in Fresh(t)' : i + 1 \in Fresh(t) /\ wire'[i] = wire[i + 1] /\ i \in Nat /\ i # 0
  BY <1>1 DEF Fresh
<1>3. ASSUME NEW i \in Fresh(t), i # 1
      PROVE  i - 1 \in Fresh(t)' /\ wire'[i - 1] = wire[i]
  <2>1. i - 1 \in 1 .. Len(wire) - 1 /\ (i - 1) + 1 = i
    BY <1>1, <1>3 DEF Fresh
  <2>2. wire'[i - 1] = wire[i]
    BY <1>1, <2>1
  <2>3. QED
    BY <1>1, <2>1, <2>2 DEF Fresh
<1>4. QED
  BY <1>1, <1>2, <1>3 DEF Fresh

\* A copy more at its end.
LEMMA FreshCopy ==
    ASSUME StepIInv, NEW p \in ToSet(recent), wire' = Append(wire, [p EXCEPT !.copy = TRUE]), NEW t
    PROVE  Fresh(t)' = Fresh(t) /\ \A i \in Fresh(t) : wire'[i] = wire[i]
<1>1. /\ wire \in Seq(Packets) /\ Len(wire) \in Nat /\ DOMAIN wire = 1 .. Len(wire)
      /\ [p EXCEPT !.copy = TRUE] \in Packets /\ [p EXCEPT !.copy = TRUE].copy = TRUE
  BY RecentIs, StepFacts
<1>2. /\ DOMAIN wire' = 1 .. Len(wire) + 1
      /\ \A i \in 1 .. Len(wire) : wire'[i] = wire[i]
      /\ wire'[Len(wire) + 1].copy = TRUE
  BY <1>1, AppendProperties
<1>3. QED
  BY <1>1, <1>2 DEF Fresh

-------------------------------------------------------------------------------
(* What a step does to a call and to what is told of it.                       *)

Ops == {"hello", "list", "table", "info", "add", "delete"}
Starts(t) == \E op \in Ops, mac \in Entries : (op \in {"add", "delete"} => mac \in Macs) /\ Start(t, op, mac)
Heeds(t) == Read /\ lock = t /\ Waits(Head(wire).reply.key) /\ Answered(t, Head(wire).reply) /\ lock' = Nobody

\* A call changes only when it begins, is answered, runs out of time or collects.
LEMMA CallMoves ==
    ASSUME StepIInv, [ReadsNext]_readsVars, NEW t \in Tasks
    PROVE  call'[t] = call[t] \/ Starts(t) \/ Heeds(t) \/ Expire(t) \/ Collect(t)
<1>1. ASSUME NEW u \in Tasks, Starts(u) PROVE call'[t] = call[t] \/ Starts(t)
  BY <1>1, StartIs DEF Starts, Ops
<1>2. CASE Read
  <2>1. call' = call \/ (lock \in Tasks /\ Heeds(lock))
    BY <1>2, ReadIs, StepFacts DEF Heeds
  <2>2. ASSUME lock \in Tasks, Heeds(lock) PROVE call'[t] = call[t] \/ lock = t
    BY <2>2, ReadIs, StepFacts, AnsweredStep DEF Heeds
  <2>3. QED
    BY <2>1, <2>2
<1>3. ASSUME NEW u \in Tasks, Send(u) \/ Expire(u) \/ Collect(u) PROVE call'[t] = call[t] \/ Expire(t) \/ Collect(t)
  BY <1>3, SendIs, ExpireIs, CollectIs
<1>4. CASE Meanwhile
  BY <1>4, MeanwhileIs
<1>5. CASE UNCHANGED readsVars
  BY <1>5 DEF readsVars
<1>6. QED
  BY <1>1, <1>2, <1>3, <1>4, <1>5, StepIs DEF Starts, Ops

\* A call that begins was not there, one that changes otherwise was running.
LEMMA CallEnds ==
    ASSUME StepIInv, [ReadsNext]_readsVars, NEW t \in Tasks
    PROVE  /\ ~Running(t) => call'[t] = call[t] \/ (Starts(t) /\ call[t].op = "none" /\ Running(t)')
           /\ call[t].op # "none" => call'[t].op = call[t].op
           /\ Running(t) => ~Starts(t)
<1>1. Starts(t) => call[t].op = "none" /\ ~Running(t) /\ Running(t)'
  <2> SUFFICES ASSUME NEW op \in Ops, NEW mac \in Entries, Start(t, op, mac)
               PROVE  call[t].op = "none" /\ ~Running(t) /\ Running(t)'
    BY DEF Starts
  <2>1. call[t].op = "none" /\ ~Running(t) /\ call'[t].op = op /\ call'[t].end = "no"
    BY StartIs DEF Ops
  <2>2. QED
    BY <2>1 DEF Ops, Running
<1>2. Heeds(t) => Running(t) /\ call'[t].op = call[t].op
  <2> SUFFICES ASSUME Heeds(t) PROVE Running(t) /\ call'[t].op = call[t].op
    OBVIOUS
  <2>1. Running(t) /\ ~Collecting(t) /\ Head(wire).reply \in Replies /\ Answered(t, Head(wire).reply)
    BY StepFacts, ReadIs DEF Heeds
  <2>2. QED
    BY <2>1, AnsweredStep
<1>3. Expire(t) => Running(t) /\ call'[t].op = call[t].op
  BY ExpireIs
<1>4. Collect(t) => Running(t) /\ call'[t].op = call[t].op
  BY CollectIs
<1>5. QED
  BY <1>1, <1>2, <1>3, <1>4, CallMoves

\* What is told of a call: nothing before it begins, and how the table was while
\* it ran.
History(t) ==
    /\ call[t].op = "none" => why[t] = {} /\ ~moved[t] /\ Answers(t) = {}
    /\ kept[t] \subseteq met[t]
    /\ Running(t) => kept[t] \subseteq ToSet(table) /\ ToSet(table) \subseteq met[t]

\* What is told of a call that runs: the table is the one it was, or it moved.
Stays(t) == table' = table /\ kept'[t] = kept[t] /\ met'[t] = met[t] /\ moved'[t] = moved[t]
Changes(t) == /\ moved'[t] /\ kept'[t] = kept[t] \cap ToSet(table') /\ met'[t] = met[t] \cup ToSet(table')

LEMMA TableMoves ==
    ASSUME StepIInv, [ReadsNext]_readsVars, NEW t \in Tasks, History(t)
    PROVE  /\ Running(t) => Stays(t) \/ Changes(t)
           /\ ~Running(t) => Starts(t) \/ (kept'[t] = kept[t] /\ met'[t] = met[t])
           /\ ~Running(t) => moved'[t] = moved[t]
           /\ moved[t] => moved'[t]
<1>1. ASSUME NEW new \in Seq(Macs), ChangesTable(new)
      PROVE  /\ Running(t) => Stays(t) \/ Changes(t)
             /\ ~Running(t) => kept'[t] = kept[t] /\ met'[t] = met[t]
             /\ ~Running(t) => moved'[t] = moved[t]
             /\ moved[t] => moved'[t]
  <2>1. /\ table' = new
        /\ Running(t) => kept'[t] = kept[t] \cap ToSet(new) /\ met'[t] = met[t] \cup ToSet(new)
        /\ ~Running(t) => kept'[t] = kept[t] /\ met'[t] = met[t]
        /\ moved[t] => moved'[t]
        /\ Running(t) /\ new # table => moved'[t]
        /\ (Running(t) => new = table) => (moved'[t] = moved[t])
    BY <1>1, ChangesType
  <2>2. CASE Running(t) /\ new = table
    <3>1. kept[t] \cap ToSet(new) = kept[t] /\ met[t] \cup ToSet(new) = met[t]
      BY <2>2 DEF History
    <3>2. QED
      BY <2>1, <2>2, <3>1 DEF Stays
  <2>3. CASE Running(t) /\ new # table
    BY <2>1, <2>3 DEF Changes
  <2>4. CASE ~Running(t)
    BY <2>1, <2>4
  <2>5. QED
    BY <2>2, <2>3, <2>4
<1>2. CASE UNCHANGED <<table, kept, met, moved>>
  BY <1>2 DEF Stays
<1>3. ASSUME NEW u \in Tasks, NEW op \in Ops, NEW mac \in Entries, Start(u, op, mac)
      PROVE  /\ table' = table /\ moved' = moved /\ ~Running(u)
             /\ u # t => kept'[t] = kept[t] /\ met'[t] = met[t]
  BY <1>3, StartIs DEF Ops
<1>4. CASE \E u \in Tasks : Starts(u)
  BY <1>3, <1>4 DEF Starts, Stays
<1>5. CASE \E u \in Tasks : Send(u)
  <2> SUFFICES ASSUME NEW u \in Tasks, Send(u)
               PROVE  UNCHANGED <<table, kept, met, moved>> \/ \E new \in Seq(Macs) : ChangesTable(new)
    BY <1>1, <1>2, <1>5
  <2>1. Running(u) /\ ~Collecting(u)
    BY SendIs
  <2>2. QED
    BY <2>1, SendIs, TablesType
<1>6. CASE \E mac \in Macs \ ToSet(table) : ChangesTable(Append(table, mac))
  <2>1. \A mac \in Macs : Append(table, mac) \in Seq(Macs)
    BY StepFacts, OneMore
  <2>2. QED
    BY <1>1, <1>6, <2>1
<1>7. CASE Read \/ (\E u \in Tasks : Expire(u) \/ Collect(u))
  BY <1>2, <1>7, ReadIs, ExpireIs, CollectIs
<1>8. CASE Meanwhile
  BY <1>2, <1>6, <1>8, MeanwhileIs
<1>9. CASE UNCHANGED readsVars
  BY <1>2, <1>9 DEF readsVars, gateway, history
<1>10. QED
  BY <1>4, <1>5, <1>7, <1>8, <1>9, StepIs DEF Starts, Ops

\* What befell a call is not forgotten, and nothing befalls one that has not begun.
LEMMA WhyMoves ==
    ASSUME StepIInv, [ReadsNext]_readsVars, NEW t \in Tasks
    PROVE  /\ why[t] \subseteq why'[t]
           /\ History(t) /\ call[t].op = "none" => why'[t] = why[t]
<1>1. CASE Read
  <2> DEFINE p == Head(wire)
  <2>1. why'[t] = why[t] \cup Befallen(p, t)
    BY <1>1, ReadIs
  <2>2. ASSUME History(t), call[t].op = "none" PROVE Befallen(p, t) = {}
    <3>1. t # lock /\ t # stream /\ t # Listener /\ ~Running(t)
      BY <2>2, StepFacts, ListenerIs DEF Running
    <3>2. p \in ToSet(wire)
      BY <1>1, ReadIs, StepFacts, TailWithin
    <3>3. p.for # t
      BY <2>2, <3>2 DEF History, Answers, Packs
    <3>4. QED
      BY <3>1, <3>3 DEF Befallen
  <2>3. QED
    BY <2>1, <2>2
<1>2. ASSUME NEW u \in Tasks, Send(u) \/ Expire(u) \/ Collect(u)
      PROVE  why[t] \subseteq why'[t] /\ (History(t) /\ call[t].op = "none" => why'[t] = why[t])
  <2>1. Running(u)
    BY <1>2, SendIs, ExpireIs, CollectIs
  <2>2. CASE Send(u) \/ Expire(u)
    <3>1. why' = why \/ why' = [why EXCEPT ![u] = why[u] \cup {"lost"}]
      BY <2>2, SendIs, ExpireIs
    <3>2. QED
      BY <2>1, <3>1, StepFacts DEF Running
  <2>3. CASE Collect(u)
    <3>1. CASE u = t
      BY <2>1, <2>3, <3>1, CollectIs DEF Running
    <3>2. CASE u # t
      <4>1. why[t] \subseteq why'[t] /\ (~(stream = t /\ Running(t)) => why'[t] = why[t])
        BY <2>3, <3>2, CollectIs
      <4>2. QED
        BY <4>1 DEF Running
    <3>3. QED
      BY <3>1, <3>2
  <2>4. QED
    BY <1>2, <2>2, <2>3
<1>3. CASE Meanwhile
  <2>1. CASE why' = why
    BY <2>1
  <2>2. CASE wire # <<>> /\ why' = [why EXCEPT ![Head(wire).for] = why[Head(wire).for] \cup {"lost"}]
    <3>1. Head(wire) \in ToSet(wire)
      BY <2>2, StepFacts, TailWithin
    <3>2. History(t) /\ call[t].op = "none" => Head(wire).for # t
      BY <3>1 DEF History, Answers, Packs
    <3>3. QED
      BY <2>2, <3>2, StepFacts
  <2>3. QED
    BY <1>3, <2>1, <2>2, MeanwhileIs
<1>4. CASE why' = why
  BY <1>4
<1>5. ASSUME NEW u \in Tasks, Starts(u) PROVE why' = why
  BY <1>5, StartIs DEF Starts, Ops
<1>6. CASE UNCHANGED readsVars
  BY <1>4, <1>6 DEF readsVars, history
<1>7. QED
  BY <1>1, <1>2, <1>3, <1>4, <1>5, <1>6, StepIs DEF Starts, Ops

\* Only a command a task sends adds to its packets.
LEMMA AnswersMove ==
    ASSUME StepIInv, [ReadsNext]_readsVars, NEW t \in Tasks, ~Send(t)
    PROVE  Answers(t)' \subseteq Answers(t)
<1>1. CASE UNCHANGED <<wire, recent>>
  BY <1>1 DEF Answers, Packs
<1>2. ASSUME NEW u \in Tasks, Send(u) PROVE Answers(t)' \subseteq Answers(t)
  <2>1. u # t /\ Running(u) /\ ~Collecting(u) /\ recent' = recent
    BY <1>2, SendIs
  <2>2. Command(u).cmd \in Cmds /\ Command(u).index \in Nat
    BY <2>1, CommandIs
  <2>3. \A added \in BOOLEAN : Reply(Command(u), added) \in Seq(Replies)
    BY <2>2, ReplyType
  <2>4. wire' = wire \/ \E added \in BOOLEAN : wire' = wire \o Tagged(u, Reply(Command(u), added))
    BY <1>2, SendIs
  <2>5. QED
    BY <1>1, <2>1, <2>3, <2>4, SentIs
<1>3. CASE Read \/ Meanwhile
  BY <1>3, AnswersRead, AnswersMeanwhile
<1>4. ASSUME NEW u \in Tasks, Starts(u) PROVE UNCHANGED <<wire, recent>>
  BY <1>4, StartIs DEF Starts, Ops
<1>5. ASSUME NEW u \in Tasks, Expire(u) \/ Collect(u) PROVE UNCHANGED <<wire, recent>>
  BY <1>5, ExpireIs, CollectIs
<1>6. CASE UNCHANGED readsVars
  BY <1>1, <1>6 DEF readsVars, engineVars
<1>7. QED
  BY <1>1, <1>2, <1>3, <1>4, <1>5, <1>6, StepIs DEF Starts, Ops

LEMMA HistoryKept ==
    ASSUME StepIInv, [ReadsNext]_readsVars, NEW t \in Tasks, History(t)
    PROVE  History(t)'
<1>1. call'[t].op = "none" => why'[t] = {} /\ ~moved'[t] /\ Answers(t)' = {}
  <2> SUFFICES ASSUME call'[t].op = "none" PROVE why'[t] = {} /\ ~moved'[t] /\ Answers(t)' = {}
    OBVIOUS
  <2>1. call[t].op = "none" /\ ~Running(t)
    BY CallEnds DEF Running
  <2>2. why'[t] = {} /\ ~moved'[t]
    BY <2>1, WhyMoves, TableMoves DEF History
  <2>3. ~Send(t)
    BY <2>1, SendIs
  <2>4. QED
    BY <2>1, <2>2, <2>3, AnswersMove DEF History
<1>2. CASE Starts(t)
  <2>1. kept'[t] = ToSet(table) /\ met'[t] = ToSet(table) /\ table' = table
    BY <1>2, StartIs DEF Starts, Ops
  <2>2. QED
    BY <1>1, <2>1 DEF History
<1>3. CASE Running(t)
  BY <1>1, <1>3, TableMoves DEF History, Stays, Changes
<1>4. CASE ~Running(t) /\ ~Starts(t)
  <2>1. kept'[t] = kept[t] /\ met'[t] = met[t] /\ call'[t] = call[t]
    BY <1>4, TableMoves, CallEnds
  <2>2. ~Running(t)'
    BY <1>4, <2>1 DEF Running
  <2>3. QED
    BY <1>1, <2>1, <2>2 DEF History
<1>5. QED
  BY <1>2, <1>3, <1>4

-------------------------------------------------------------------------------
(* A sensor table that is read.                                                *)

\* While the table stays as it is and no reply to another call misleads it, a
\* task has read the table's beginning, and what is sent to it is entries of it.
TableInv(t) ==
    Running(t) /\ call[t].op = "table" /\ ~moved[t] /\ "misled" \notin why[t] =>
        /\ kept[t] = ToSet(table) /\ met[t] = ToSet(table)
        /\ call[t].step <= Len(table) /\ call[t].got = SubSeq(table, 1, call[t].step)
        /\ \A r \in Answers(t) : r = EntryAt(r.index)

\* A reply that is heeded and was another's misleads.
LEMMA Misleads ==
    ASSUME StepIInv, NEW t \in Tasks, Heeds(t)
    PROVE  /\ Head(wire).for # t => "misled" \in why'[t]
           /\ Head(wire).copy => "copied" \in why'[t]
           /\ Head(wire).for = t => Head(wire).reply \in Answers(t)
<1>1. why' = [u \in Tasks |-> why[u] \cup Befallen(Head(wire), u)] /\ wire # <<>>
  BY ReadIs DEF Heeds
<1>2. Head(wire) \in ToSet(wire)
  BY <1>1, StepFacts, TailWithin
<1>3. Head(wire).for = t => Head(wire).reply \in Answers(t)
  BY <1>2 DEF Answers, Packs
<1>4. t = lock /\ Waits(Head(wire).reply.key)
  BY DEF Heeds
<1>5. /\ Head(wire).for # t => "misled" \in Befallen(Head(wire), t)
      /\ Head(wire).copy => "copied" \in Befallen(Head(wire), t)
  BY <1>4 DEF Befallen
<1>6. QED
  BY <1>1, <1>3, <1>5

\* The next entry of the table.
LEMMA NextEntry ==
    ASSUME NEW S, NEW s \in Seq(S), NEW n \in Nat, n < Len(s)
    PROVE  Append(SubSeq(s, 1, n), s[n + 1]) = SubSeq(s, 1, n + 1)
<1>1. Len(s) \in Nat /\ n + 1 \in 1 .. Len(s) /\ 1 \in 1 .. Len(s) /\ n + 1 \in 1 .. Len(s)
  OBVIOUS
<1>2. SubSeq(s, 1, n + 1) = SubSeq(s, 1, n + 1 - 1) \o <<s[n + 1]>>
  BY <1>1, SubSeqRecursiveSecond
<1>3. n + 1 - 1 = n
  OBVIOUS
<1>4. SubSeq(s, 1, n) \in Seq(S) /\ s[n + 1] \in S
  BY <1>1
<1>5. Append(SubSeq(s, 1, n), s[n + 1]) = SubSeq(s, 1, n) \o <<s[n + 1]>>
  BY <1>4, AppendIsConcat
<1>6. QED
  BY <1>2, <1>3, <1>5

LEMMA TableHeeds ==
    ASSUME StepIInv, NEW t \in Tasks, Heeds(t), call[t].op = "table", TableInv(t),
           Stays(t), ~moved'[t], "misled" \notin why'[t], "misled" \notin why[t]
    PROVE  /\ Running(t)' => call'[t].step <= Len(table) /\ call'[t].got = SubSeq(table, 1, call'[t].step)
           /\ call'[t].end = "ok" => call'[t].got = table
<1> DEFINE m == Head(wire).reply
           n == call[t].step
<1>1. Running(t) /\ m \in Replies /\ Answered(t, m) /\ n \in Nat
  BY ReadIs, StepFacts DEF Heeds
<1>2. m \in Answers(t)
  BY Misleads
<1>3. /\ kept[t] = ToSet(table) /\ met[t] = ToSet(table)
      /\ n <= Len(table) /\ call[t].got = SubSeq(table, 1, n)
      /\ m = EntryAt(m.index) /\ m.index \in Nat
  BY <1>1, <1>2 DEF TableInv, Stays, Replies
<1>4. /\ m.count = Len(table)
      /\ m.index < Len(table) => m.item = table[m.index + 1] /\ m.item # Nobody
      /\ m.index >= Len(table) => m.item = Nobody
  <2>1. /\ EntryAt(m.index).count = Len(table)
        /\ m.index < Len(table) => EntryAt(m.index).item = table[m.index + 1]
        /\ m.index >= Len(table) => EntryAt(m.index).item = Nobody
    BY <1>3, EntryType
  <2>2. m.index < Len(table) => table[m.index + 1] # Nobody
    BY <1>3, TableIs, ReadsAssumption
  <2>3. QED
    BY <1>3, <2>1, <2>2
<1>5. table \in Seq(Macs) /\ Len(table) \in Nat
  BY TableIs
<1> HIDE DEF m, n
<1>6. \/ call'[t].end = "failed"
      \/ call'[t].end = "no" /\ call'[t].got = call[t].got /\ call'[t].step = n
      \/ m.index = n /\ m.item = Nobody /\ call'[t].end = "ok" /\ call'[t].got = call[t].got
      \/ /\ m.index = n /\ m.item # Nobody
         /\ call'[t].got = Append(call[t].got, m.item)
         /\ \/ Len(call'[t].got) >= m.count /\ call'[t].end = "ok"
            \/ ~(Len(call'[t].got) >= m.count) /\ call'[t].end = "no" /\ call'[t].step = n + 1
  BY <1>1, EntryAnswered DEF n
<1>7. CASE call'[t].end = "failed"
  BY <1>7 DEF Running
<1>8. CASE call'[t].end = "no" /\ call'[t].got = call[t].got /\ call'[t].step = n
  BY <1>3, <1>8
<1>9. CASE m.index = n /\ m.item = Nobody /\ call'[t].end = "ok" /\ call'[t].got = call[t].got
  <2>1. n = Len(table)
    BY <1>1, <1>3, <1>4, <1>5, <1>9
  <2>2. call'[t].got = table
    BY <1>3, <1>5, <1>9, <2>1, SubSeqFull
  <2>3. QED
    BY <1>9, <2>2 DEF Running
<1>10. CASE /\ m.index = n /\ m.item # Nobody
            /\ call'[t].got = Append(call[t].got, m.item)
            /\ \/ Len(call'[t].got) >= m.count /\ call'[t].end = "ok"
               \/ ~(Len(call'[t].got) >= m.count) /\ call'[t].end = "no" /\ call'[t].step = n + 1
  <2>1. n < Len(table) /\ m.item = table[n + 1]
    BY <1>1, <1>3, <1>4, <1>5, <1>10
  <2>2. call'[t].got = SubSeq(table, 1, n + 1)
    BY <1>1, <1>3, <1>5, <1>10, <2>1, NextEntry
  <2>3. Len(SubSeq(table, 1, n + 1)) = n + 1
    BY <1>1, <1>5, <2>1
  <2>4. CASE Len(call'[t].got) >= m.count /\ call'[t].end = "ok"
    <3>1. n + 1 = Len(table)
      BY <1>1, <1>4, <1>5, <2>1, <2>2, <2>3, <2>4
    <3>2. QED
      BY <1>5, <2>2, <2>4, <3>1, SubSeqFull DEF Running
  <2>5. CASE ~(Len(call'[t].got) >= m.count) /\ call'[t].end = "no" /\ call'[t].step = n + 1
    BY <1>1, <1>5, <2>1, <2>2, <2>5
  <2>6. QED
    BY <1>10, <2>4, <2>5
<1>11. QED
  BY <1>6, <1>7, <1>8, <1>9, <1>10

\* What is sent to a task that reads the table is an entry of it.
LEMMA TableSent ==
    ASSUME StepIInv, NEW t \in Tasks, Send(t), call[t].op = "table"
    PROVE  \A r \in Answers(t)' : r \in Answers(t) \/ r = EntryAt(r.index)
<1>1. Running(t) /\ ~Collecting(t) /\ recent' = recent
  BY SendIs
<1>2. Command(t).cmd = "get" /\ Command(t).index = call[t].step /\ call[t].step \in Nat
  BY <1>1, CommandIs
<1>3. \A added \in BOOLEAN : Reply(Command(t), added) = <<EntryAt(call[t].step)>>
  BY <1>2 DEF Reply
<1>4. wire' = wire \/ wire' = wire \o Tagged(t, <<EntryAt(call[t].step)>>)
  BY <1>3, SendIs
<1>5. EntryAt(call[t].step) \in Replies /\ EntryAt(call[t].step).index = call[t].step
  BY <1>2, EntryType
<1>6. CASE wire' = wire
  BY <1>1, <1>6 DEF Answers, Packs
<1>7. CASE wire' = wire \o Tagged(t, <<EntryAt(call[t].step)>>)
  <2>1. <<EntryAt(call[t].step)>> \in Seq(Replies)
    BY <1>5
  <2>2. Answers(t)' \subseteq Answers(t) \cup ToSet(<<EntryAt(call[t].step)>>)
    BY <1>1, <1>7, <2>1, SentIs
  <2>3. ToSet(<<EntryAt(call[t].step)>>) = {EntryAt(call[t].step)}
    BY DEF ToSet
  <2>4. QED
    BY <1>5, <2>2, <2>3
<1>8. QED
  BY <1>4, <1>6, <1>7

LEMMA TableKept ==
    ASSUME StepIInv, [ReadsNext]_readsVars, NEW t \in Tasks, History(t), TableInv(t)
    PROVE  /\ TableInv(t)'
           /\ Running(t) => TableTrue(t)'
<1> SUFFICES ASSUME call'[t].op = "table", ~moved'[t], "misled" \notin why'[t]
             PROVE  /\ Running(t)' =>
                          /\ kept'[t] = ToSet(table') /\ met'[t] = ToSet(table')
                          /\ call'[t].step <= Len(table') /\ call'[t].got = SubSeq(table', 1, call'[t].step)
                          /\ \A r \in Answers(t)' : r = EntryAt(r.index)'
                    /\ Running(t) => (Ok(t, "table")' => ToSet(call'[t].got) = met'[t] /\ IsInjective(call'[t].got))
  BY DEF TableInv, TableTrue, Ok
<1>1. "misled" \notin why[t] /\ ~moved[t]
  BY WhyMoves, TableMoves
<1>2. CASE Starts(t)
  <2>1. /\ kept'[t] = ToSet(table) /\ met'[t] = ToSet(table) /\ table' = table /\ ~Running(t)
        /\ call'[t].step = 0 /\ call'[t].got = <<>> /\ call[t].op = "none" /\ UNCHANGED <<wire, recent>>
    BY <1>2, StartIs DEF Starts, Ops
  <2>2. 0 <= Len(table) /\ SubSeq(table, 1, 0) = <<>>
    BY TableIs, SubSeqEmpty
  <2>3. Answers(t)' = {}
    BY <2>1 DEF History, Answers, Packs
  <2>4. QED
    BY <2>1, <2>2, <2>3
<1>3. CASE ~Running(t) /\ ~Starts(t)
  BY <1>3, CallEnds DEF Running
<1>4. CASE Running(t)
  <2>1. call[t].op = "table" /\ ~Starts(t)
    BY <1>4, CallEnds DEF Running
  <2>2. Stays(t)
    BY <1>4, TableMoves DEF Changes
  <2>3. /\ kept[t] = ToSet(table) /\ met[t] = ToSet(table)
        /\ call[t].step <= Len(table) /\ call[t].got = SubSeq(table, 1, call[t].step)
        /\ \A r \in Answers(t) : r = EntryAt(r.index)
    BY <1>1, <1>4, <2>1 DEF TableInv
  <2>4. kept'[t] = ToSet(table') /\ met'[t] = ToSet(table')
    BY <2>2, <2>3 DEF Stays
  <2>5. \A i : EntryAt(i)' = EntryAt(i)
    BY <2>2 DEF Stays, EntryAt, Plain
  <2>6. \A r \in Answers(t)' : r = EntryAt(r.index)
    BY <2>1, <2>3, TableSent, AnswersMove
  <2>7. \A r \in Answers(t)' : r = EntryAt(r.index)'
    BY <2>5, <2>6
  <2>8. /\ Running(t)' => call'[t].step <= Len(table) /\ call'[t].got = SubSeq(table, 1, call'[t].step)
        /\ call'[t].end = "ok" => call'[t].got = table
    <3>1. CASE Heeds(t)
      BY <1>1, <2>1, <2>2, <3>1, TableHeeds
    <3>2. CASE Expire(t)
      BY <2>1, <3>2, ExpireIs DEF Running
    <3>3. CASE call'[t] = call[t]
      BY <1>4, <2>3, <3>3 DEF Running
    <3>4. CASE Collect(t)
      BY <2>1, <3>4, CollectIs
    <3>5. QED
      BY <2>1, <3>1, <3>2, <3>3, <3>4, CallMoves
  <2>9. Ok(t, "table")' => ToSet(call'[t].got) = met'[t] /\ IsInjective(call'[t].got)
    BY <2>2, <2>4, <2>8, StepFacts DEF Ok, Stays
  <2>10. QED
    BY <2>2, <2>4, <2>7, <2>8, <2>9 DEF Stays
<1>5. QED
  BY <1>2, <1>3, <1>4

-------------------------------------------------------------------------------
(* Build information that is read.                                             *)

\* While nothing befalls it, a task has read the pages so far, and the only one
\* under way to it is the one it holds the lock for.
InfoInv(t) ==
    Running(t) /\ call[t].op = "info" /\ why[t] = {} =>
        /\ call[t].got = [i \in 1 .. call[t].step |-> i - 1]
        /\ \A i \in Fresh(t) : /\ lock = t
                               /\ wire[i].reply.key = "build" /\ wire[i].reply.index = call[t].step
                               /\ \A j \in Fresh(t) : i = j

\* What the page asked for is sent as, alone.
LEMMA PageSent ==
    ASSUME StepIInv, NEW t \in Tasks, Send(t), call[t].op = "info", Fresh(t) = {}, "lost" \notin why'[t]
    PROVE  \A i \in Fresh(t)' : /\ wire'[i].reply.key = "build" /\ wire'[i].reply.index = call[t].step
                                /\ \A j \in Fresh(t)' : i = j
<1>1. Running(t) /\ ~Collecting(t) /\ recent' = recent
  BY SendIs
<1>2. Command(t).cmd = "page" /\ Command(t).index = call[t].step /\ call[t].step \in Nat
  BY <1>1, CommandIs
<1> DEFINE r == [Plain("build") EXCEPT !.index = call[t].step]
<1>3. \A added \in BOOLEAN : Reply(Command(t), added) = <<r>>
  BY <1>2 DEF Reply
<1>4. r \in Replies /\ r.key = "build" /\ r.index = call[t].step
  <2>1. Plain("build") \in Replies /\ Plain("build").key = "build"
    BY PlainType DEF Keys, Plain
  <2>2. QED
    BY <1>2, <2>1 DEF Replies
<1> HIDE DEF r
<1>5. wire' = wire \o Tagged(t, <<r>>)
  <2>1. why' # [why EXCEPT ![t] = why[t] \cup {"lost"}]
    BY StepFacts
  <2>2. QED
    BY <1>3, <2>1, SendIs
<1>6. <<r>> \in Seq(Replies) /\ Len(<<r>>) = 1 /\ <<r>>[1] = r
  BY <1>4
<1>7. /\ wire'[Len(wire) + 1].reply = r
      /\ \A i \in Fresh(t)' : i = Len(wire) + 1
  <2>1. /\ \A j \in 1 .. 1 : wire'[Len(wire) + j].reply = <<r>>[j]
        /\ \A i \in Fresh(t)' : i \in Fresh(t) \/ \E j \in 1 .. 1 : i = Len(wire) + j
    BY <1>1, <1>5, <1>6, SentIs
  <2>2. QED
    BY <1>6, <2>1
<1>8. QED
  BY <1>4, <1>7

\* One page more.
LEMMA NextPage ==
    ASSUME NEW n \in Nat
    PROVE  Append([i \in 1 .. n |-> i - 1], n) = [i \in 1 .. n + 1 |-> i - 1]
<1> DEFINE s == [i \in 1 .. n |-> i - 1]
           r == [i \in 1 .. n + 1 |-> i - 1]
<1>1. s \in Seq(Nat) /\ Len(s) = n /\ r \in Seq(Nat) /\ Len(r) = n + 1
  OBVIOUS
<1> HIDE DEF s, r
<1>2. /\ Append(s, n) \in Seq(Nat) /\ Len(Append(s, n)) = n + 1
      /\ \A i \in 1 .. n : Append(s, n)[i] = s[i]
      /\ Append(s, n)[n + 1] = n
  BY <1>1, AppendProperties
<1>3. \A i \in 1 .. n + 1 : Append(s, n)[i] = r[i]
  BY <1>2 DEF s, r
<1>4. Append(s, n) = r
  BY <1>1, <1>2, <1>3, SeqEqual
<1>5. QED
  BY <1>4 DEF s, r

LEMMA InfoHeeds ==
    ASSUME StepIInv, NEW t \in Tasks, Heeds(t), call[t].op = "info", InfoInv(t), why'[t] = {}, why[t] = {}
    PROVE  /\ Running(t)' => call'[t].got = [i \in 1 .. call'[t].step |-> i - 1]
           /\ call'[t].end = "ok" => call'[t].got = <<0, 1, 2>>
           /\ Fresh(t)' = {}
<1> DEFINE m == Head(wire).reply
           n == call[t].step
<1>1. /\ Running(t) /\ m \in Replies /\ Answered(t, m) /\ n \in 0 .. 2 /\ Len(call[t].got) = n
      /\ wire # <<>> /\ wire' = Tail(wire) /\ call[t].got \in Seq(Entries \cup Nat)
  BY ReadIs, StepFacts DEF Heeds, StepsOf
<1>2. 1 \in Fresh(t)
  BY <1>1, FreshTail, Misleads
<1>3. /\ m.index = n /\ call[t].got = [i \in 1 .. n |-> i - 1]
      /\ \A j \in Fresh(t) : j = 1
  BY <1>1, <1>2, FreshTail DEF InfoInv
<1>4. Fresh(t)' = {}
  BY <1>1, <1>3, FreshTail
<1> HIDE DEF m, n
<1>5. /\ call'[t].got = Append(call[t].got, n)
      /\ \/ Len(call'[t].got) < 3 /\ call'[t].end = "no" /\ call'[t].step = n + 1
         \/ Len(call'[t].got) >= 3 /\ call'[t].end \in {"ok", "failed"}
  BY <1>1, <1>3, PageAnswered DEF n
<1>6. call'[t].got = [i \in 1 .. n + 1 |-> i - 1] /\ Len(call'[t].got) = n + 1
  BY <1>1, <1>3, <1>5, NextPage, OneMore
<1>7. CASE Len(call'[t].got) < 3 /\ call'[t].end = "no" /\ call'[t].step = n + 1
  BY <1>4, <1>6, <1>7
<1>8. CASE Len(call'[t].got) >= 3 /\ call'[t].end \in {"ok", "failed"}
  <2>1. n = 2
    BY <1>1, <1>6, <1>8
  <2>2. [i \in 1 .. n + 1 |-> i - 1] = <<0, 1, 2>>
    BY <2>1
  <2>3. QED
    BY <1>4, <1>6, <1>8, <2>2 DEF Running
<1>9. QED
  BY <1>5, <1>7, <1>8

\* Whose packets are fresh after a step, of a task whose call stays as it is.
LEMMA InfoFresh ==
    ASSUME StepIInv, [ReadsNext]_readsVars, NEW t \in Tasks, Running(t), call[t].op = "info", InfoInv(t),
           why[t] = {}, why'[t] = {}, call'[t] = call[t]
    PROVE  \A i \in Fresh(t)' : /\ lock' = t
                                /\ wire'[i].reply.key = "build" /\ wire'[i].reply.index = call[t].step
                                /\ \A j \in Fresh(t)' : i = j
<1>1. \A i \in Fresh(t) : /\ lock = t
                          /\ wire[i].reply.key = "build" /\ wire[i].reply.index = call[t].step
                          /\ \A j \in Fresh(t) : i = j
  BY DEF InfoInv
<1>2. lock # t => Fresh(t) = {}
  BY <1>1
<1>3. CASE wire' = wire /\ (lock' = lock \/ lock # t)
  BY <1>1, <1>2, <1>3 DEF Fresh
<1>4. CASE wire # <<>> /\ wire' = Tail(wire) /\ (lock' = lock \/ lock # t)
  <2>1. \A i \in Fresh(t)' : i + 1 \in Fresh(t) /\ wire'[i] = wire[i + 1] /\ i \in Nat
    BY <1>4, FreshTail
  <2>2. \A i, j \in Fresh(t)' : i + 1 = j + 1 => i = j
    BY <2>1
  <2>3. QED
    BY <1>1, <1>2, <1>4, <2>1, <2>2
<1>5. CASE Send(t)
  <2>1. Fresh(t) = {} /\ lock' = t
    BY <1>2, <1>5, SendIs, StepFacts
  <2>2. QED
    BY <1>5, <2>1, PageSent
<1>6. ASSUME NEW u \in Tasks, u # t, Send(u)
      PROVE  Fresh(t)' = {}
  <2>1. Fresh(t) = {} /\ Running(u) /\ ~Collecting(u) /\ recent' = recent
    BY <1>2, <1>6, SendIs, StepFacts
  <2>2. Command(u).cmd \in Cmds /\ Command(u).index \in Nat
    BY <2>1, CommandIs
  <2>3. \A added \in BOOLEAN : Reply(Command(u), added) \in Seq(Replies)
    BY <2>2, ReplyType
  <2>4. wire' = wire \/ \E added \in BOOLEAN : wire' = wire \o Tagged(u, Reply(Command(u), added))
    BY <1>6, SendIs
  <2>5. CASE wire' = wire
    BY <2>1, <2>5 DEF Fresh
  <2>6. QED
    BY <1>6, <2>1, <2>3, <2>4, <2>5, SentIs
<1>7. CASE Read
  <2>1. wire # <<>> /\ wire' = Tail(wire)
    BY <1>7, ReadIs
  <2>2. CASE Heeds(t)
    BY <2>2, InfoHeeds
  <2>3. CASE ~Heeds(t)
    <3>1. lock' = lock \/ lock # t
      BY <1>7, <2>3, ReadIs DEF Heeds
    <3>2. QED
      BY <1>4, <2>1, <3>1
  <2>4. QED
    BY <2>2, <2>3
<1>8. ASSUME NEW u \in Tasks, Expire(u)
      PROVE  wire' = wire /\ (lock' = lock \/ lock # t)
  <2>1. u # t
    <3>1. why'[u] = why[u] \cup {"lost"}
      BY <1>8, ExpireIs, StepFacts
    <3>2. QED
      BY <3>1
  <2>2. QED
    BY <1>8, <2>1, ExpireIs
<1>9. ASSUME NEW u \in Tasks, Collect(u) \/ Starts(u)
      PROVE  wire' = wire /\ (lock' = lock \/ lock # t)
  BY <1>9, CollectIs, StartIs DEF Starts, Ops
<1>10. CASE Meanwhile
  <2>1. lock' = lock
    BY <1>10, MeanwhileIs
  <2>2. ASSUME NEW p \in ToSet(recent), wire' = Append(wire, [p EXCEPT !.copy = TRUE])
        PROVE  Fresh(t)' = Fresh(t) /\ \A i \in Fresh(t) : wire'[i] = wire[i]
    BY <2>2, FreshCopy
  <2>3. CASE \E p \in ToSet(recent) : wire' = Append(wire, [p EXCEPT !.copy = TRUE])
    BY <1>1, <2>1, <2>2, <2>3
  <2>4. QED
    BY <1>3, <1>4, <1>10, <2>1, <2>3, MeanwhileIs
<1>11. CASE UNCHANGED readsVars
  BY <1>3, <1>11 DEF readsVars, engineVars
<1>12. QED
  BY <1>3, <1>5, <1>6, <1>7, <1>8, <1>9, <1>10, <1>11, StepIs DEF Starts, Ops

LEMMA InfoKept ==
    ASSUME StepIInv, [ReadsNext]_readsVars, NEW t \in Tasks, History(t), InfoInv(t)
    PROVE  /\ InfoInv(t)'
           /\ Running(t) => InfoTrue(t)'
<1> SUFFICES ASSUME call'[t].op = "info", why'[t] = {}
             PROVE  /\ Running(t)' =>
                          /\ call'[t].got = [i \in 1 .. call'[t].step |-> i - 1]
                          /\ \A i \in Fresh(t)' : /\ lock' = t
                                                  /\ wire'[i].reply.key = "build"
                                                  /\ wire'[i].reply.index = call'[t].step
                                                  /\ \A j \in Fresh(t)' : i = j
                    /\ Running(t) => (Ok(t, "info")' => call'[t].got = <<0, 1, 2>>)
  BY DEF InfoInv, InfoTrue, Ok
<1>1. why[t] = {}
  BY WhyMoves
<1>2. CASE Starts(t)
  <2>1. /\ ~Running(t) /\ call'[t].step = 0 /\ call'[t].got = <<>> /\ call[t].op = "none" /\ wire' = wire
    BY <1>2, StartIs DEF Starts, Ops
  <2>2. Fresh(t)' = {}
    <3>1. Answers(t) = {} /\ Fresh(t)' = Fresh(t)
      BY <2>1 DEF History, Fresh
    <3>2. ASSUME NEW i \in Fresh(t) PROVE wire[i].reply \in Answers(t)
      BY DEF Answers, Packs, Fresh, ToSet
    <3>3. QED
      BY <3>1, <3>2
  <2>3. [i \in 1 .. 0 |-> i - 1] = <<>>
    OBVIOUS
  <2>4. QED
    BY <2>1, <2>2, <2>3
<1>3. CASE ~Running(t) /\ ~Starts(t)
  BY <1>3, CallEnds DEF Running
<1>4. CASE Running(t)
  <2>1. call[t].op = "info" /\ ~Starts(t) /\ call[t].end = "no"
    BY <1>4, CallEnds DEF Running
  <2>2. CASE Heeds(t)
    BY <1>1, <2>1, <2>2, InfoHeeds DEF Ok
  <2>3. CASE call'[t] = call[t]
    <3>1. call[t].got = [i \in 1 .. call[t].step |-> i - 1]
      BY <1>1, <1>4, <2>1 DEF InfoInv
    <3>2. QED
      BY <1>1, <1>4, <2>1, <2>3, <3>1, InfoFresh DEF Ok
  <2>4. CASE Expire(t)
    <3>1. why'[t] = why[t] \cup {"lost"}
      BY <2>4, ExpireIs, StepFacts
    <3>2. QED
      BY <3>1
  <2>5. CASE Collect(t)
    BY <2>1, <2>5, CollectIs
  <2>6. QED
    BY <2>1, <2>2, <2>3, <2>4, <2>5, CallMoves
<1>5. QED
  BY <1>2, <1>3, <1>4

-------------------------------------------------------------------------------
(* A sensor list that is collected.                                            *)

Got(t) == ToSet(call[t].got) \cup ToSet(chan[t])

\* What has come of a list, or lies ready, was in the table, and each of it once;
\* its sender is in place; and while nothing worse than a copy befell it, what
\* has not come of the sensors that were in the table all the while is on the wire.
ListInv(t) ==
    Running(t) /\ call[t].op = "list" =>
        /\ \A r \in Answers(t) : r.key = "item" => r.item \in met[t]
        /\ "misled" \notin why[t] => Got(t) \subseteq met[t]
        /\ IsInjective(call[t].got)
        /\ call[t].step < 2 => call[t].got = <<>>
        /\ call[t].step > 0 => stream = t \/ "replaced" \in why[t]
        /\ (call[t].step = 2 \/ (call[t].step = 1 /\ lock = t)) /\ why[t] \subseteq {"copied"} =>
              kept[t] \subseteq Got(t) \cup OnWire(t)

\* What answers a list's commands: the count alone, then the list with an item
\* for every sensor in the table.
LEMMA ListReply ==
    ASSUME StepIInv, NEW t \in Tasks, Running(t), ~Collecting(t), call[t].op = "list", NEW added \in BOOLEAN
    PROVE  LET rs == Reply(Command(t), added)
           IN  /\ rs \in Seq(Replies)
               /\ \A r \in ToSet(rs) : r.key = "item" => r.item \in ToSet(table)
               /\ call[t].step = 1 => \A mac \in ToSet(table) :
                     \E j \in 1 .. Len(rs) : rs[j].key = "item" /\ rs[j].item = mac
<1> DEFINE rs == Reply(Command(t), added)
<1>1. rs \in Seq(Replies)
  BY CommandIs, ReplyType
<1>2. call[t].step \in {0, 1}
  <2>1. call[t].step \in 0 .. 2
    BY StepFacts DEF StepsOf
  <2>2. QED
    BY <2>1 DEF Collecting
<1>3. CASE call[t].step = 0
  <2>1. rs = <<Plain("count")>>
    BY <1>3, CommandIs DEF Reply
  <2>2. Plain("count").key # "item"
    BY DEF Plain
  <2>3. ToSet(rs) = {Plain("count")}
    BY <2>1 DEF ToSet
  <2>4. QED
    BY <1>1, <1>3, <2>2, <2>3
<1>4. CASE call[t].step = 1
  <2>1. rs = <<Plain("list")>> \o Items
    BY <1>4, CommandIs DEF Reply
  <2>2. /\ Items \in Seq(Replies) /\ Len(Items) = Len(table) /\ Len(table) \in Nat
        /\ DOMAIN table = 1 .. Len(table)
        /\ \A i \in DOMAIN table : Items[i].key = "item" /\ Items[i].item = table[i]
    BY ItemsType, TableIs
  <2>3. <<Plain("list")>> \in Seq(Replies) /\ Len(<<Plain("list")>>) = 1 /\ <<Plain("list")>>[1] = Plain("list")
        /\ Plain("list").key # "item"
    <3>1. Plain("list") \in Replies /\ Plain("list").key # "item"
      BY PlainType DEF Keys, Cmds, Plain
    <3>2. QED
      BY <3>1
  <2> HIDE DEF rs
  <2>4. /\ Len(rs) = 1 + Len(table)
        /\ \A i \in 1 .. 1 + Len(table) : rs[i] = IF i <= 1 THEN <<Plain("list")>>[i] ELSE Items[i - 1]
    <3> DEFINE one == <<Plain("list")>>
    <3>1. one \in Seq(Replies) /\ Len(one) = 1
      BY <2>3
    <3> HIDE DEF one
    <3>2. /\ Len(one \o Items) = Len(one) + Len(Items)
          /\ \A i \in 1 .. Len(one) + Len(Items) :
                (one \o Items)[i] = IF i <= Len(one) THEN one[i] ELSE Items[i - Len(one)]
      <4>1. Items \in Seq(Replies)
        BY <2>2
      <4>2. QED
        BY <3>1, <4>1, ConcatProperties
    <3>3. rs = one \o Items
      BY <2>1 DEF one
    <3>4. /\ Len(rs) = 1 + Len(table)
          /\ \A i \in 1 .. 1 + Len(table) : rs[i] = IF i <= 1 THEN one[i] ELSE Items[i - 1]
      BY <2>2, <3>1, <3>2, <3>3
    <3>5. QED
      BY <3>4 DEF one
  <2>5. rs[1].key # "item" /\ \A i \in 2 .. 1 + Len(table) : rs[i] = Items[i - 1]
    BY <2>2, <2>3, <2>4
  <2>6. ASSUME NEW i \in 2 .. 1 + Len(table)
        PROVE  rs[i].key = "item" /\ rs[i].item = table[i - 1] /\ i - 1 \in DOMAIN table
    BY <2>2, <2>5
  <2>7. DOMAIN rs = 1 .. 1 + Len(table)
    BY <1>1, <2>4 DEF rs
  <2>8. ASSUME NEW r \in ToSet(rs), r.key = "item" PROVE r.item \in ToSet(table)
    <3>1. PICK i \in 1 .. 1 + Len(table) : r = rs[i]
      BY <2>7 DEF ToSet
    <3>2. i \in 2 .. 1 + Len(table)
      BY <2>2, <2>5, <2>8, <3>1
    <3>3. QED
      BY <2>6, <3>1, <3>2 DEF ToSet
  <2>9. ASSUME NEW mac \in ToSet(table)
        PROVE  \E j \in 1 .. Len(rs) : rs[j].key = "item" /\ rs[j].item = mac
    <3>1. PICK i \in 1 .. Len(table) : mac = table[i]
      BY <2>2 DEF ToSet
    <3>2. i + 1 \in 2 .. 1 + Len(table) /\ (i + 1) - 1 = i
      BY <2>2
    <3>3. rs[i + 1].key = "item" /\ rs[i + 1].item = mac
      BY <2>6, <3>1, <3>2
    <3>4. i + 1 \in 1 .. Len(rs)
      BY <2>2, <2>4
    <3>5. QED
      BY <3>3, <3>4
  <2>10. rs \in Seq(Replies)
    BY <1>1 DEF rs
  <2>11. QED
    BY <2>8, <2>9, <2>10 DEF rs
<1>5. QED
  BY <1>2, <1>3, <1>4

\* What a list's command does to its packets.
LEMMA ListSent ==
    ASSUME StepIInv, NEW t \in Tasks, Send(t), call[t].op = "list"
    PROVE  /\ table' = table
           /\ \A r \in Answers(t)' : r \in Answers(t) \/ (r.key = "item" => r.item \in ToSet(table))
           /\ OnWire(t) \subseteq OnWire(t)'
           /\ call[t].step = 1 => "lost" \in why'[t] \/ ToSet(table) \subseteq OnWire(t)'
<1>1. Running(t) /\ ~Collecting(t) /\ recent' = recent
  BY SendIs
<1>2. CASE UNCHANGED <<table, wire>> /\ why' = [why EXCEPT ![t] = why[t] \cup {"lost"}]
  <2>1. "lost" \in why'[t]
    BY <1>2, StepFacts
  <2>2. Answers(t)' = Answers(t) /\ OnWire(t)' = OnWire(t)
    BY <1>1, <1>2 DEF Answers, Packs, OnWire, Fresh
  <2>3. QED
    BY <1>2, <2>1, <2>2
<1>3. ASSUME NEW new \in TablesAfter(Command(t)), ChangesTable(new), NEW added \in BOOLEAN,
             wire' = wire \o Tagged(t, Reply(Command(t), added))
      PROVE  /\ table' = table
             /\ \A r \in Answers(t)' : r \in Answers(t) \/ (r.key = "item" => r.item \in ToSet(table))
             /\ OnWire(t) \subseteq OnWire(t)'
             /\ call[t].step = 1 => ToSet(table) \subseteq OnWire(t)'
  <2> DEFINE rs == Reply(Command(t), added)
  <2>1. table' = table
    BY <1>1, <1>3, TablesType DEF ChangesTable
  <2>2. /\ rs \in Seq(Replies)
        /\ \A r \in ToSet(rs) : r.key = "item" => r.item \in ToSet(table)
        /\ call[t].step = 1 => \A mac \in ToSet(table) :
              \E j \in 1 .. Len(rs) : rs[j].key = "item" /\ rs[j].item = mac
    BY <1>1, ListReply
  <2> HIDE DEF rs
  <2>3. /\ Answers(t)' \subseteq Answers(t) \cup ToSet(rs)
        /\ \A i \in DOMAIN wire : i \in DOMAIN wire' /\ wire'[i] = wire[i]
        /\ \A j \in 1 .. Len(rs) : /\ Len(wire) + j \in Fresh(t)'
                                   /\ wire'[Len(wire) + j].reply = rs[j]
    BY <1>1, <1>3, <2>2, SentIs DEF rs
  <2>4. OnWire(t) \subseteq OnWire(t)'
    BY <2>3 DEF OnWire, Fresh
  <2>5. ASSUME call[t].step = 1, NEW mac \in ToSet(table) PROVE mac \in OnWire(t)'
    <3>1. PICK j \in 1 .. Len(rs) : rs[j].key = "item" /\ rs[j].item = mac
      BY <2>2, <2>5
    <3>2. Len(wire) + j \in Fresh(t)' /\ wire'[Len(wire) + j].reply = rs[j]
      BY <2>3
    <3>3. QED
      BY <3>1, <3>2 DEF OnWire
  <2>6. QED
    BY <2>1, <2>2, <2>3, <2>4, <2>5
<1>4. QED
  BY <1>2, <1>3, SendIs

\* An item off the head of the wire is the only one that is no longer on it.
LEMMA OnWireTail ==
    ASSUME StepIInv, wire # <<>>, wire' = Tail(wire), NEW t, NEW mac \in OnWire(t)
    PROVE  \/ mac \in OnWire(t)'
           \/ /\ Head(wire).for = t /\ ~Head(wire).copy
              /\ Head(wire).reply.key = "item" /\ Head(wire).reply.item = mac
<1>1. PICK i \in Fresh(t) : wire[i].reply.key = "item" /\ wire[i].reply.item = mac
  BY DEF OnWire
<1>2. CASE i = 1
  BY <1>1, <1>2, FreshTail
<1>3. CASE i # 1
  <2>1. i - 1 \in Fresh(t)' /\ wire'[i - 1] = wire[i]
    BY <1>3, FreshTail
  <2>2. QED
    BY <1>1, <2>1 DEF OnWire
<1>4. QED
  BY <1>2, <1>3

\* An injective sequence is as long as its set is large.
LEMMA AsLong ==
    ASSUME NEW S, IsFiniteSet(S), NEW T, NEW s \in Seq(T), IsInjective(s), ToSet(s) \subseteq S,
           NEW n \in Nat, Len(s) >= n, Cardinality(S) <= n
    PROVE  ToSet(s) = S
<1>1. Len(s) \in Nat /\ DOMAIN s = 1 .. Len(s)
  OBVIOUS
<1>2. IsFiniteSet(ToSet(s)) /\ Cardinality(ToSet(s)) <= Cardinality(S)
      /\ (Cardinality(S) = Cardinality(ToSet(s)) => S = ToSet(s))
  BY FS_Subset
<1>3. s \in Injection(1 .. Len(s), ToSet(s))
  BY <1>1 DEF Injection, IsInjective, ToSet
<1>4. Cardinality(1 .. Len(s)) <= Cardinality(ToSet(s))
  BY <1>2, <1>3, FS_Injection
<1>5. Cardinality(1 .. Len(s)) = Len(s)
  <2>1. Cardinality(1 .. Len(s)) = IF 1 > Len(s) THEN 0 ELSE Len(s) - 1 + 1
    <3>1. 1 \in Int /\ Len(s) \in Int
      BY <1>1
    <3>2. QED
      BY <3>1, FS_Interval
  <2>2. QED
    BY <1>1, <2>1
<1>6. Cardinality(S) \in Nat /\ Cardinality(ToSet(s)) \in Nat
  BY <1>2, FS_CardinalityType
<1>7. Cardinality(S) = Cardinality(ToSet(s))
  BY <1>1, <1>2, <1>4, <1>5, <1>6
<1>8. QED
  BY <1>2, <1>7

\* What a list's packets tell of was in the table.
LEMMA ListAnswers ==
    ASSUME StepIInv, [ReadsNext]_readsVars, NEW t \in Tasks, History(t), ListInv(t), Running(t),
           call[t].op = "list"
    PROVE  /\ \A r \in Answers(t)' : r.key = "item" => r.item \in met'[t]
           /\ met[t] \subseteq met'[t] /\ kept'[t] \subseteq kept[t]
<1>1. met[t] \subseteq met'[t] /\ kept'[t] \subseteq kept[t]
  BY TableMoves DEF Stays, Changes
<1>2. ToSet(table) \subseteq met[t] /\ \A r \in Answers(t) : r.key = "item" => r.item \in met[t]
  BY DEF History, ListInv
<1>3. CASE Send(t)
  BY <1>1, <1>2, <1>3, ListSent
<1>4. CASE ~Send(t)
  BY <1>1, <1>2, <1>4, AnswersMove
<1>5. QED
  BY <1>3, <1>4

\* A step that leaves a list's call as it is keeps what is known of it, when it
\* adds only what was in the table, tells of a sender that is replaced, and loses
\* nothing unless it tells of it.
LEMMA ListFrame ==
    ASSUME StepIInv, [ReadsNext]_readsVars, NEW t \in Tasks, History(t), ListInv(t), Running(t),
           call[t].op = "list", call'[t] = call[t],
           "misled" \notin why'[t] => Got(t)' \subseteq Got(t) \cup met'[t],
           stream = t => stream' = t \/ "replaced" \in why'[t],
           why'[t] \subseteq {"copied"} /\ (call[t].step = 2 \/ (call[t].step = 1 /\ lock' = t)) =>
              \/ kept[t] \subseteq Got(t)' \cup OnWire(t)'
              \/ (lock' = t => lock = t) /\ Got(t) \cup OnWire(t) \subseteq Got(t)' \cup OnWire(t)'
    PROVE  ListInv(t)'
<1>1. /\ \A r \in Answers(t)' : r.key = "item" => r.item \in met'[t]
      /\ met[t] \subseteq met'[t] /\ kept'[t] \subseteq kept[t]
  BY ListAnswers
<1>2. why[t] \subseteq why'[t]
  BY WhyMoves
<1>3. "misled" \notin why'[t] => Got(t)' \subseteq met'[t]
  BY <1>1, <1>2 DEF ListInv
<1>4. call[t].step > 0 => stream' = t \/ "replaced" \in why'[t]
  BY <1>2 DEF ListInv
<1>5. ASSUME why'[t] \subseteq {"copied"}, call[t].step = 2 \/ (call[t].step = 1 /\ lock' = t)
      PROVE  kept'[t] \subseteq Got(t)' \cup OnWire(t)'
  <2>1. why[t] \subseteq {"copied"}
    BY <1>2, <1>5
  <2>2. CASE kept[t] \subseteq Got(t)' \cup OnWire(t)'
    BY <1>1, <2>2
  <2>3. CASE (lock' = t => lock = t) /\ Got(t) \cup OnWire(t) \subseteq Got(t)' \cup OnWire(t)'
    <3>1. kept[t] \subseteq Got(t) \cup OnWire(t)
      BY <1>5, <2>1, <2>3 DEF ListInv
    <3>2. QED
      BY <1>1, <2>3, <3>1
  <2>4. QED
    BY <1>5, <2>2, <2>3
<1>6. IsInjective(call[t].got) /\ (call[t].step < 2 => call[t].got = <<>>)
  BY DEF ListInv
<1>7. QED
  BY <1>1, <1>3, <1>4, <1>5, <1>6 DEF ListInv

\* The reader reads a packet that a list's task does not wait for.
LEMMA ListRead ==
    ASSUME StepIInv, [ReadsNext]_readsVars, NEW t \in Tasks, History(t), ListInv(t), Running(t),
           call[t].op = "list", Read, ~Heeds(t)
    PROVE  ListInv(t)'
<1> DEFINE p == Head(wire)
           m == p.reply
<1>1. /\ wire # <<>> /\ wire' = Tail(wire) /\ m \in Replies /\ p \in ToSet(wire)
      /\ why' = [u \in Tasks |-> why[u] \cup Befallen(p, u)]
      /\ why[t] \subseteq why'[t]
  BY ReadIs, StepFacts, TailWithin
<1>2. call'[t] = call[t]
  BY ReadIs, CallMoves, ReadsAssumption, StepFacts, AnsweredStep DEF Heeds
<1>3. p.for = t /\ m.key = "item" => m.item \in met[t]
  BY <1>1 DEF ListInv, Answers, Packs
<1>4. met[t] \subseteq met'[t]
  BY ListAnswers
<1>5. lock' = t => lock = t
  BY ReadIs, StepFacts
<1>6. call[t].step \in Nat
  BY StepFacts
<1>7. CASE UNCHANGED <<recent, lock, stream, chan, call>> /\ IsResend(m)
  <2>1. Got(t)' = Got(t)
    BY <1>7 DEF Got
  <2>2. ASSUME why'[t] \subseteq {"copied"} PROVE OnWire(t) \subseteq OnWire(t)'
    <3>1. p.for = t /\ m.key = "item" /\ ~p.copy => "dropped" \in why'[t]
      BY <1>1, <1>7 DEF Befallen
    <3>2. QED
      BY <1>1, <2>2, <3>1, OnWireTail
  <2>3. QED
    BY <1>2, <1>7, <2>1, <2>2, ListFrame
<1>8. CASE ~IsResend(m) /\ Waits(m.key) /\ lock # Nobody /\ lock' = Nobody /\ Answered(lock, m) /\ chan' = chan
  <2>1. lock # t
    BY <1>8 DEF Heeds
  <2>2. Got(t)' = Got(t)
    BY <1>2, <1>8 DEF Got
  <2>3. m.key # "item"
    <3>1. lock \in Tasks /\ Running(lock) /\ ~Collecting(lock)
      BY <1>8, StepFacts
    <3>2. Command(lock).cmd \in Cmds
      BY <3>1, CommandIs
    <3>3. Key(Command(lock)) # "item"
      BY <3>2 DEF Key, Cmds
    <3>4. QED
      BY <1>8, <3>3 DEF Waits
  <2>4. OnWire(t) \subseteq OnWire(t)'
    BY <1>1, <2>3, OnWireTail
  <2>5. stream = t => stream' = t \/ "replaced" \in why'[t]
    BY <1>1 DEF Befallen
  <2>6. QED
    BY <1>2, <1>5, <2>2, <2>4, <2>5, ListFrame
<1>9. CASE /\ ~IsResend(m) /\ ~Waits(m.key)
           /\ chan' = IF m.key = "item" /\ Listener # Nobody /\ Len(chan[Listener]) < Room
                      THEN [chan EXCEPT ![Listener] = Append(@, m.item)] ELSE chan
           /\ UNCHANGED <<lock, stream, call>>
  <2>1. chan[t] \in Seq(Entries) /\ m.item \in Entries /\ Len(chan[t]) \in Nat /\ Room \in Nat
    BY <1>1, StepFacts, ReadsAssumption DEF Replies
  <2>2. Listener = t <=> stream = t
    BY StepFacts DEF Listener
  <2>3. CASE m.key = "item" /\ Listener = t /\ Len(chan[t]) < Room
    <3>1. chan'[t] = Append(chan[t], m.item)
      BY <1>1, <1>9, <2>3, PassType, StepFacts
    <3>2. Got(t)' = Got(t) \cup {m.item}
      BY <1>2, <2>1, <3>1, OneMore DEF Got
    <3>3. p.for # t => "misled" \in why'[t]
      BY <1>1, <2>3 DEF Befallen
    <3>4. "misled" \notin why'[t] => Got(t)' \subseteq Got(t) \cup met'[t]
      BY <1>3, <1>4, <2>3, <3>2, <3>3
    <3>5. \A mac \in OnWire(t) : mac \in OnWire(t)' \/ mac = m.item
      BY <1>1, OnWireTail
    <3>6. Got(t) \cup OnWire(t) \subseteq Got(t)' \cup OnWire(t)'
      BY <3>2, <3>5
    <3>7. QED
      BY <1>2, <1>9, <3>4, <3>6, ListFrame
  <2>4. CASE ~(m.key = "item" /\ Listener = t /\ Len(chan[t]) < Room)
    <3>1. chan'[t] = chan[t]
      BY <1>1, <1>9, <2>4, PassType
    <3>2. Got(t)' = Got(t)
      BY <1>2, <3>1 DEF Got
    <3>3. ASSUME why'[t] \subseteq {"copied"}, call[t].step > 0
          PROVE  OnWire(t) \subseteq OnWire(t)'
      <4>1. stream = t
        BY <1>1, <3>3 DEF ListInv
      <4>2. m.key = "item" => Len(chan[t]) >= Room
        BY <2>1, <2>2, <2>4, <4>1
      <4>3. p.for = t /\ m.key = "item" /\ Len(chan[t]) = Room => "full" \in why'[t]
        BY <1>1, <2>2, <4>1 DEF Befallen
      <4>4. Len(chan[t]) <= Room
        BY StepFacts
      <4>5. QED
        BY <1>1, <2>1, <3>3, <4>2, <4>3, <4>4, OnWireTail
    <3>4. QED
      BY <1>2, <1>6, <1>9, <3>2, <3>3, ListFrame
  <2>5. QED
    BY <2>3, <2>4
<1>10. QED
  BY <1>7, <1>8, <1>9, ReadIs

\* A list's own command goes out.
LEMMA ListSends ==
    ASSUME StepIInv, [ReadsNext]_readsVars, NEW t \in Tasks, History(t), ListInv(t), Running(t),
           call[t].op = "list", Send(t)
    PROVE  ListInv(t)'
<1>1. call' = call /\ chan' = chan /\ stream' = stream /\ ~Collecting(t)
  BY SendIs
<1>2. Got(t)' = Got(t)
  BY <1>1 DEF Got
<1>3. call[t].step # 2
  BY <1>1 DEF Collecting
<1>4. ASSUME why'[t] \subseteq {"copied"}, call[t].step = 1
      PROVE  kept[t] \subseteq Got(t)' \cup OnWire(t)'
  <2>1. ToSet(table) \subseteq OnWire(t)'
    BY <1>4, ListSent
  <2>2. QED
    BY <2>1 DEF History
<1>5. QED
  BY <1>1, <1>2, <1>3, <1>4, ListFrame

\* Another task begins, sends, waits in vain or collects.
LEMMA ListOthers ==
    ASSUME StepIInv, [ReadsNext]_readsVars, NEW t \in Tasks, History(t), ListInv(t), Running(t),
           call[t].op = "list",
           NEW u \in Tasks \ {t}, Starts(u) \/ Send(u) \/ Expire(u) \/ Collect(u)
    PROVE  ListInv(t)'
<1>1. CASE Starts(u)
  <2>1. call'[t] = call[t] /\ UNCHANGED <<wire, lock, stream, chan>>
    BY <1>1, StartIs DEF Starts, Ops
  <2>2. Got(t)' = Got(t) /\ OnWire(t)' = OnWire(t)
    BY <2>1 DEF Got, OnWire, Fresh
  <2>3. QED
    BY <2>1, <2>2, ListFrame
<1>2. CASE Send(u)
  <2>1. call' = call /\ chan' = chan /\ stream' = stream /\ lock' = u /\ recent' = recent
        /\ Running(u) /\ ~Collecting(u)
    BY <1>2, SendIs
  <2>2. Got(t)' = Got(t)
    BY <2>1 DEF Got
  <2>3. Command(u).cmd \in Cmds /\ Command(u).index \in Nat
    BY <2>1, CommandIs
  <2>4. \A added \in BOOLEAN : Reply(Command(u), added) \in Seq(Replies)
    BY <2>3, ReplyType
  <2>5. wire' = wire \/ \E added \in BOOLEAN : wire' = wire \o Tagged(u, Reply(Command(u), added))
    BY <1>2, SendIs
  <2>6. OnWire(t) \subseteq OnWire(t)'
    <3>1. CASE wire' = wire
      BY <3>1 DEF OnWire, Fresh
    <3>2. ASSUME NEW added \in BOOLEAN, wire' = wire \o Tagged(u, Reply(Command(u), added))
          PROVE  OnWire(t) \subseteq OnWire(t)'
      <4>1. Fresh(t)' = Fresh(t) /\ \A i \in Fresh(t) : wire'[i] = wire[i]
        BY <2>1, <2>4, <3>2, SentIs
      <4>2. QED
        BY <4>1 DEF OnWire
    <3>3. QED
      BY <2>5, <3>1, <3>2
  <2>7. QED
    BY <2>1, <2>2, <2>6, ListFrame
<1>3. CASE Expire(u)
  <2>1. call'[t] = call[t] /\ UNCHANGED <<wire, stream, chan>> /\ lock' = Nobody
    BY <1>3, ExpireIs
  <2>2. Got(t)' = Got(t) /\ OnWire(t)' = OnWire(t) /\ lock' # t
    BY <2>1, StepFacts DEF Got, OnWire, Fresh
  <2>3. QED
    BY <2>1, <2>2, ListFrame
<1>4. CASE Collect(u)
  <2>1. /\ call'[t] = call[t] /\ chan'[t] = chan[t] /\ UNCHANGED <<wire, lock>>
        /\ stream = t => stream' = t \/ "replaced" \in why'[t]
    BY <1>4, CollectIs
  <2>2. Got(t)' = Got(t) /\ OnWire(t)' = OnWire(t)
    BY <2>1 DEF Got, OnWire, Fresh
  <2>3. QED
    BY <2>1, <2>2, ListFrame
<1>5. QED
  BY <1>1, <1>2, <1>3, <1>4

\* What happens apart from the calls.
LEMMA ListMeanwhile ==
    ASSUME StepIInv, [ReadsNext]_readsVars, NEW t \in Tasks, History(t), ListInv(t), Running(t),
           call[t].op = "list", Meanwhile
    PROVE  ListInv(t)'
<1>1. UNCHANGED <<lock, stream, chan, call>>
  BY MeanwhileIs
<1>2. Got(t)' = Got(t)
  BY <1>1 DEF Got
<1>3. ASSUME why'[t] \subseteq {"copied"} PROVE OnWire(t) \subseteq OnWire(t)'
  <2>1. CASE wire' = wire
    BY <2>1 DEF OnWire, Fresh
  <2>2. CASE /\ wire # <<>> /\ wire' = Tail(wire)
             /\ why' = [why EXCEPT ![Head(wire).for] = why[Head(wire).for] \cup {"lost"}]
    <3>1. Head(wire).for # t
      BY <1>3, <2>2, StepFacts
    <3>2. QED
      BY <2>2, <3>1, OnWireTail
  <2>3. ASSUME NEW p \in ToSet(recent), wire' = Append(wire, [p EXCEPT !.copy = TRUE])
        PROVE  OnWire(t) \subseteq OnWire(t)'
    <3>1. Fresh(t)' = Fresh(t) /\ \A i \in Fresh(t) : wire'[i] = wire[i]
      BY <2>3, FreshCopy
    <3>2. QED
      BY <3>1 DEF OnWire
  <2>4. QED
    BY <2>1, <2>2, <2>3, MeanwhileIs
<1>4. QED
  BY <1>1, <1>2, <1>3, ListFrame

\* A list's task is answered: with how many there are, then with the list's own
\* reply, from which on it collects.
LEMMA ListHeeds ==
    ASSUME StepIInv, [ReadsNext]_readsVars, NEW t \in Tasks, History(t), ListInv(t), Running(t),
           call[t].op = "list", Heeds(t)
    PROVE  ListInv(t)' /\ ListTrue(t)'
<1> DEFINE p == Head(wire)
           m == p.reply
<1>1. /\ wire # <<>> /\ wire' = Tail(wire) /\ m \in Replies /\ ~Collecting(t) /\ lock = t /\ lock' = Nobody
      /\ Answered(t, m) /\ Waits(m.key) /\ UNCHANGED <<table, chan, kept, met>>
  <2>1. lock = t /\ ~Collecting(t)
    BY StepFacts DEF Heeds
  <2>2. chan' = chan
    BY <2>1, ReadIs, StepFacts DEF Heeds
  <2>3. QED
    BY <2>1, <2>2, ReadIs DEF Heeds
<1>2. /\ call'[t].op = call[t].op /\ call'[t].got = <<>> /\ stream' \in {stream, t}
      /\ \/ /\ call[t].step = 0 /\ call'[t].step = 0 /\ call'[t].end = "ok"
            /\ call'[t].count = 0 /\ stream' = stream
         \/ call[t].step = 0 /\ call'[t].step = 1 /\ call'[t].end = "no" /\ stream' = t
         \/ call[t].step = 1 /\ call'[t].step = 2 /\ call'[t].end = "no" /\ stream' = stream
  BY <1>1, ListAnswered
<1>3. why[t] \subseteq why'[t]
  BY WhyMoves
<1>4. /\ \A r \in Answers(t)' : r.key = "item" => r.item \in met'[t]
      /\ met[t] \subseteq met'[t] /\ kept'[t] \subseteq kept[t]
  BY ListAnswers
<1>5. call[t].got = <<>> /\ Got(t)' = Got(t)
  <2>1. call[t].got = <<>>
    BY <1>2 DEF ListInv
  <2>2. QED
    BY <1>1, <1>2, <2>1 DEF Got
<1>6. IsInjective(<<>>) /\ ToSet(<<>>) = {}
  BY DEF IsInjective, ToSet
<1>7. call[t].step = 1 => OnWire(t) \subseteq OnWire(t)'
  <2> SUFFICES ASSUME call[t].step = 1 PROVE OnWire(t) \subseteq OnWire(t)'
    OBVIOUS
  <2>1. Command(t).cmd = "list"
    BY <1>1, CommandIs
  <2>2. m.key = "list"
    BY <1>1, <2>1 DEF Waits, Key
  <2>3. QED
    BY <1>1, <2>2, OnWireTail
<1> HIDE DEF p, m
<1>8. CASE call'[t].end = "ok" /\ call'[t].count = 0
  <2>1. Cardinality(met'[t]) <= 0 => met'[t] = {}
    <3>1. met'[t] \in SUBSET Macs
      BY <1>1, StepFacts
    <3>2. IsFiniteSet(met'[t])
      BY <3>1, ReadsAssumption, FS_Subset
    <3>3. Cardinality(met'[t]) \in Nat /\ (Cardinality(met'[t]) = 0 <=> met'[t] = {})
      BY <3>2, FS_CardinalityType, FS_EmptySet
    <3>4. QED
      BY <3>3
  <2>2. kept'[t] \subseteq met'[t]
    BY <1>1 DEF History
  <2>3. ListTrue(t)'
    BY <1>2, <1>6, <1>8, <2>1, <2>2 DEF ListTrue
  <2>4. ListInv(t)'
    BY <1>8 DEF ListInv, Running
  <2>5. QED
    BY <2>3, <2>4
<1>9. CASE call'[t].end = "no"
  <2>1. ListTrue(t)'
    BY <1>9 DEF ListTrue, Ok
  <2>2. "misled" \notin why'[t] => Got(t)' \subseteq met'[t]
    BY <1>3, <1>4, <1>5 DEF ListInv
  <2>3. stream' = t \/ "replaced" \in why'[t]
    BY <1>2, <1>3, <1>9 DEF ListInv
  <2>4. ASSUME call'[t].step = 2, why'[t] \subseteq {"copied"}
        PROVE  kept'[t] \subseteq Got(t)' \cup OnWire(t)'
    <3>1. call[t].step = 1 /\ why[t] \subseteq {"copied"}
      BY <1>2, <1>3, <2>4
    <3>2. kept[t] \subseteq Got(t) \cup OnWire(t)
      BY <1>1, <3>1 DEF ListInv
    <3>3. QED
      BY <1>4, <1>5, <1>7, <3>1, <3>2
  <2>5. lock' # t
    BY <1>1, StepFacts
  <2>6. QED
    BY <1>2, <1>4, <1>6, <2>1, <2>2, <2>3, <2>4, <2>5 DEF ListInv
<1>10. QED
  BY <1>2, <1>8, <1>9

\* One more sensor off the channel of a list that is collected, or the end of it.
LEMMA ListCollects ==
    ASSUME StepIInv, [ReadsNext]_readsVars, NEW t \in Tasks, History(t), ListInv(t), Collect(t)
    PROVE  ListInv(t)' /\ ListTrue(t)'
<1>1. /\ Running(t) /\ call[t].op = "list" /\ call[t].step = 2 /\ lock # t
      /\ UNCHANGED <<wire, lock, kept, met>>
      /\ call'[t].op = call[t].op /\ call'[t].count = call[t].count /\ call'[t].step = call[t].step
  BY CollectIs
<1>2. /\ IsInjective(call[t].got)
      /\ "misled" \notin why[t] => Got(t) \subseteq met[t]
      /\ stream = t \/ "replaced" \in why[t]
      /\ why[t] \subseteq {"copied"} => kept[t] \subseteq Got(t) \cup OnWire(t)
  BY <1>1 DEF ListInv
<1>3. \A r \in Answers(t)' : r.key = "item" => r.item \in met'[t]
  BY <1>1, ListAnswers
<1>4. OnWire(t)' = OnWire(t)
  BY <1>1 DEF OnWire, Fresh
<1>5. /\ call[t].got \in Seq(Entries \cup Nat) /\ chan[t] \in Seq(Entries) /\ call[t].count \in Nat
      /\ met[t] \in SUBSET Macs
  BY StepFacts
<1>6. CASE /\ chan[t] # <<>> /\ chan'[t] = Tail(chan[t])
           /\ call'[t].got = IF Head(chan[t]) \in ToSet(call[t].got) THEN call[t].got
                             ELSE Append(call[t].got, Head(chan[t]))
           /\ \/ call'[t].end = "ok" /\ Len(call'[t].got) >= call[t].count /\ stream' = Nobody
              \/ call'[t].end = "no" /\ stream' = stream /\ why' = why
           /\ why'[t] = why[t]
  <2> DEFINE mac == Head(chan[t])
             got == call'[t].got
  <2>1. mac \in Entries /\ ToSet(chan[t]) = ToSet(Tail(chan[t])) \cup {mac}
    BY <1>5, <1>6, FirstOf, TailWithin
  <2>2. /\ got \in Seq(Entries \cup Nat) /\ IsInjective(got)
        /\ ToSet(got) = ToSet(call[t].got) \cup {mac}
    <3>1. CASE mac \in ToSet(call[t].got)
      BY <1>2, <1>5, <1>6, <3>1
    <3>2. CASE mac \notin ToSet(call[t].got)
      <4>1. mac \in Entries \cup Nat
        BY <2>1
      <4>2. got = Append(call[t].got, mac)
        BY <1>6, <3>2
      <4>3. QED
        BY <1>2, <1>5, <3>2, <4>1, <4>2, OneMore
    <3>3. QED
      BY <3>1, <3>2
  <2>3. Got(t)' = Got(t) /\ ToSet(got) \subseteq Got(t)
    BY <1>6, <2>1, <2>2 DEF Got
  <2> HIDE DEF mac, got
  <2>4. CASE call'[t].end = "ok" /\ Len(call'[t].got) >= call[t].count
    <3> SUFFICES ASSUME why'[t] \subseteq {"copied"}
                 PROVE  /\ ToSet(got) \subseteq met[t]
                        /\ Cardinality(met[t]) <= call[t].count => kept[t] \subseteq ToSet(got)
      BY <1>1, <2>4 DEF ListTrue, ListInv, Running, got
    <3>1. ToSet(got) \subseteq met[t]
      BY <1>2, <1>6, <2>3
    <3>2. IsFiniteSet(met[t])
      BY <1>5, ReadsAssumption, FS_Subset
    <3>3. Cardinality(met[t]) <= call[t].count => ToSet(got) = met[t]
      BY <1>5, <2>2, <2>4, <3>1, <3>2, AsLong DEF got
    <3>4. QED
      BY <3>1, <3>3 DEF History
  <2>5. CASE call'[t].end = "no" /\ stream' = stream
    <3>1. ListTrue(t)'
      BY <2>5 DEF ListTrue, Ok
    <3>2. IsInjective(call'[t].got)
      BY <2>2 DEF got
    <3>3. ListInv(t)'
      BY <1>1, <1>2, <1>3, <1>4, <1>6, <2>3, <2>5, <3>2 DEF ListInv
    <3>4. QED
      BY <3>1, <3>3
  <2>6. QED
    BY <1>6, <2>4, <2>5
<1>7. CASE /\ chan[t] = <<>> /\ call'[t].got = call[t].got /\ call'[t].end = "ok"
           /\ \/ stream # t
              \/ ~Coming({"item"})
              \/ why'[t] = why[t] \cup {"lost"}
           /\ why[t] \subseteq why'[t]
  <2> SUFFICES ASSUME why'[t] \subseteq {"copied"}
               PROVE  ToSet(call[t].got) \subseteq met[t] /\ kept[t] \subseteq ToSet(call[t].got)
    BY <1>1, <1>7 DEF ListTrue, ListInv, Running
  <2>1. why[t] \subseteq {"copied"} /\ stream = t /\ ~Coming({"item"})
    BY <1>2, <1>7
  <2>2. OnWire(t) = {}
    BY <2>1 DEF Coming, OnWire, Fresh
  <2>3. Got(t) = ToSet(call[t].got)
    BY <1>7 DEF Got, ToSet
  <2>4. QED
    BY <1>2, <2>1, <2>2, <2>3
<1>8. QED
  BY <1>6, <1>7, CollectIs

\* A list that begins has got nothing, and nothing has been sent to it.
LEMMA ListStarts ==
    ASSUME StepIInv, [ReadsNext]_readsVars, NEW t \in Tasks, History(t), Starts(t)
    PROVE  ListInv(t)'
<1>1. /\ call[t].op = "none" /\ call'[t].got = <<>> /\ call'[t].step = 0
      /\ UNCHANGED <<wire, recent, chan>>
  BY StartIs DEF Starts, Ops
<1>2. chan'[t] = <<>>
  BY <1>1, StepFacts
<1>3. Got(t)' = {} /\ IsInjective(<<>>)
  BY <1>1, <1>2 DEF Got, ToSet, IsInjective
<1>4. Answers(t)' = {}
  BY <1>1 DEF History, Answers, Packs
<1>5. QED
  BY <1>1, <1>3, <1>4 DEF ListInv

LEMMA ListKept ==
    ASSUME StepIInv, [ReadsNext]_readsVars, NEW t \in Tasks, History(t), ListInv(t)
    PROVE  /\ ListInv(t)'
           /\ Running(t) => ListTrue(t)'
<1>1. CASE Starts(t)
  BY <1>1, ListStarts, CallEnds
<1>2. CASE ~Running(t) /\ ~Starts(t)
  BY <1>2, CallEnds DEF ListInv, Running
<1>3. CASE Running(t) /\ call[t].op # "list"
  BY <1>3, CallEnds DEF ListInv, ListTrue, Ok, Running
<1>4. CASE Running(t) /\ call[t].op = "list"
  <2>1. ~Starts(t) /\ call'[t].op = "list"
    BY <1>4, CallEnds DEF Running
  <2>2. CASE Heeds(t)
    BY <1>4, <2>2, ListHeeds
  <2>3. CASE Collect(t)
    BY <2>3, ListCollects
  <2>4. CASE Expire(t)
    <3>1. call'[t].end = "failed"
      BY <1>4, <2>4, ExpireIs
    <3>2. QED
      BY <3>1 DEF ListInv, ListTrue, Ok, Running
  <2>5. CASE ~Heeds(t) /\ ~Collect(t) /\ ~Expire(t)
    <3>1. call'[t] = call[t]
      BY <2>1, <2>5, CallMoves
    <3>2. ListTrue(t)'
      BY <1>4, <3>1 DEF ListTrue, Ok, Running
    <3> SUFFICES ListInv(t)'
      BY <3>2
    <3>3. CASE Read
      BY <1>4, <2>5, <3>3, ListRead
    <3>4. CASE Send(t)
      BY <1>4, <3>4, ListSends
    <3>5. CASE \E u \in Tasks \ {t} : Starts(u) \/ Send(u) \/ Expire(u) \/ Collect(u)
      BY <1>4, <3>5, ListOthers
    <3>6. CASE Meanwhile
      BY <1>4, <3>6, ListMeanwhile
    <3>7. CASE UNCHANGED readsVars
      <4>1. UNCHANGED <<wire, recent, lock, stream, chan, call, kept, met, why>>
        BY <3>7 DEF readsVars, gateway, engineVars, history
      <4>2. Got(t)' = Got(t) /\ OnWire(t)' = OnWire(t)
        BY <4>1 DEF Got, OnWire, Fresh
      <4>3. QED
        BY <1>4, <4>1, <4>2, ListFrame
    <3>8. QED
      BY <2>1, <2>5, <3>3, <3>4, <3>5, <3>6, <3>7, StepIs DEF Starts, Ops
  <2>6. QED
    BY <2>2, <2>3, <2>4, <2>5
<1>5. QED
  BY <1>1, <1>2, <1>3, <1>4

-------------------------------------------------------------------------------
(* What the calls report is what the gateway held.                             *)

Truth(t) == ListTrue(t) /\ TableTrue(t) /\ InfoTrue(t)

\* The inductive invariant: where each call is, what is told of it, what each
\* kind of call has got so far, and that those that have ended told the truth.
ReadsIInv ==
    /\ StepIInv
    /\ \A t \in Tasks : History(t) /\ TableInv(t) /\ InfoInv(t) /\ ListInv(t) /\ Truth(t)

\* A call that has ended stays as true as it was.
LEMMA TruthKept ==
    ASSUME StepIInv, [ReadsNext]_readsVars, NEW t \in Tasks, History(t),
           TableInv(t), InfoInv(t), ListInv(t), Truth(t)
    PROVE  Truth(t)'
<1>1. CASE Running(t)
  BY <1>1, TableKept, InfoKept, ListKept DEF Truth
<1>2. CASE ~Running(t) /\ call'[t] = call[t]
  <2>1. CASE call[t].op = "none"
    BY <1>2, <2>1 DEF Truth, ListTrue, TableTrue, InfoTrue, Ok
  <2>2. CASE call[t].op # "none"
    <3>1. kept'[t] = kept[t] /\ met'[t] = met[t] /\ moved'[t] = moved[t] /\ why[t] \subseteq why'[t]
      BY <1>2, <2>2, TableMoves, WhyMoves, StartIs DEF Starts, Ops
    <3>2. QED
      BY <1>2, <3>1 DEF Truth, ListTrue, TableTrue, InfoTrue, Ok
  <2>3. QED
    BY <2>1, <2>2
<1>3. CASE ~Running(t) /\ Running(t)'
  BY <1>3 DEF Truth, ListTrue, TableTrue, InfoTrue, Ok, Running
<1>4. QED
  BY <1>1, <1>2, <1>3, CallEnds

LEMMA ReadsInitIInv == ReadsInit => ReadsIInv
<1> SUFFICES ASSUME ReadsInit PROVE ReadsIInv
  OBVIOUS
<1>1. StepIInv
  BY StepInit
<1>2. Idle.op = "none"
  BY DEF Idle
<1>3. ASSUME NEW t \in Tasks
      PROVE  History(t) /\ TableInv(t) /\ InfoInv(t) /\ ListInv(t) /\ Truth(t)
  <2>1. call[t].op = "none" /\ kept[t] = {} /\ met[t] = {} /\ ~moved[t] /\ why[t] = {}
    BY <1>2 DEF ReadsInit
  <2>2. Answers(t) = {}
    BY DEF ReadsInit, Answers, Packs, ToSet
  <2>3. QED
    BY <2>1, <2>2 DEF History, TableInv, InfoInv, ListInv, Truth, ListTrue, TableTrue, InfoTrue, Ok, Running
<1>4. QED
  BY <1>1, <1>3 DEF ReadsIInv

LEMMA ReadsNextIInv == ReadsIInv /\ [ReadsNext]_readsVars => ReadsIInv'
<1> SUFFICES ASSUME ReadsIInv, [ReadsNext]_readsVars PROVE ReadsIInv'
  OBVIOUS
<1>1. StepIInv /\ StepIInv'
  BY StepKept DEF ReadsIInv
<1>2. ASSUME NEW t \in Tasks
      PROVE  (History(t) /\ TableInv(t) /\ InfoInv(t) /\ ListInv(t) /\ Truth(t))'
  <2>1. History(t) /\ TableInv(t) /\ InfoInv(t) /\ ListInv(t) /\ Truth(t)
    BY DEF ReadsIInv
  <2>2. History(t)' /\ TableInv(t)' /\ InfoInv(t)' /\ ListInv(t)'
    BY <1>1, <2>1, HistoryKept, TableKept, InfoKept, ListKept
  <2>3. Truth(t)'
    BY <1>1, <2>1, TruthKept
  <2>4. QED
    BY <2>2, <2>3
<1>3. QED
  BY <1>1, <1>2 DEF ReadsIInv

\* The engine and the gateway keep the types of what they hold, whatever is lost,
\* sent again or late.
THEOREM ReadsTypeCorrect == ReadsSpec => []ReadsTypeOK
<1>1. ReadsIInv => ReadsTypeOK
  BY DEF ReadsIInv, StepIInv
<1>2. QED
  BY <1>1, ReadsInitIInv, ReadsNextIInv, PTL DEF ReadsSpec

\* What get_sensor_list, ows_sensor_table and ows_build_info report is what the
\* gateway held, for any number of tasks and sensors.
THEOREM ReadsStayTrue == ReadsSpec => []ReadsTrue
<1>1. ReadsIInv => ReadsTrue
  BY DEF ReadsIInv, Truth, ReadsTrue, Tasks
<1>2. QED
  BY <1>1, ReadsInitIInv, ReadsNextIInv, PTL DEF ReadsSpec

-------------------------------------------------------------------------------
(* The bytes a gateway sends.  What is computed by recursion is reasoned about *)
(* with a least counterexample: the least length of a buffer for which a fact  *)
(* fails.                                                                      *)

\* Among naturals there is a least one.
LEMMA Least ==
    ASSUME NEW T \in SUBSET Nat, T # {}
    PROVE \E n \in T : \A m \in T : n <= m
<1>1. IsWellFoundedOn(OpToRel(<, Nat), Nat)
  BY NatLessThanWellFounded
<1>2. PICK n \in T : \A m \in T : ~(<<m, n>> \in OpToRel(<, Nat))
  BY <1>1, WFMin
<1>3. \A m \in T : ~(m < n)
  <2>1. SUFFICES ASSUME NEW m \in T, m < n PROVE FALSE
    OBVIOUS
  <2>2. m \in Nat /\ n \in Nat
    OBVIOUS
  <2>3. <<m, n>> \in OpToRel(<, Nat)
    BY <2>1, <2>2 DEF OpToRel
  <2>4. QED
    BY <1>2, <2>3
<1>4. QED
  BY <1>3

\* Elements of D, those that are defined by what is smaller in their rest.
Recursive(D, V, more, measure, rest, base, step) ==
    /\ more \in SUBSET D /\ measure \in [D -> Nat] /\ rest \in [more -> D]
    /\ base \in [D -> V] /\ step \in [D \X V -> V]
    /\ \A s \in more : measure[rest[s]] < measure[s]

\* A function may be defined by what it is for an element with a smaller measure.
LEMMA Recursion ==
    ASSUME NEW D, NEW V, NEW more, NEW measure, NEW rest, NEW base, NEW step,
           Recursive(D, V, more, measure, rest, base, step)
    PROVE \E g \in [D -> V] :
              \A s \in D : g[s] = IF s \in more THEN step[<<s, g[rest[s]]>>] ELSE base[s]
<1>0. /\ more \in SUBSET D /\ measure \in [D -> Nat] /\ rest \in [more -> D]
      /\ base \in [D -> V] /\ step \in [D \X V -> V]
      /\ \A s \in more : measure[rest[s]] < measure[s]
  BY DEF Recursive
<1> USE <1>0
<1> DEFINE Right(g, s) == g[s] = IF s \in more THEN step[<<s, g[rest[s]]>>] ELSE base[s]
           Fits(g, n) == g \in [D -> V] /\ \A s \in D : measure[s] <= n => Right(g, s)
<1>1. ASSUME NEW g, NEW h, NEW n \in Nat, NEW m \in Nat, Fits(g, n), Fits(h, m)
      PROVE \A s \in D : measure[s] <= n /\ measure[s] <= m => g[s] = h[s]
  <2> DEFINE T == {k \in Nat : \E s \in D : /\ measure[s] = k /\ k <= n /\ k <= m
                                           /\ g[s] # h[s]}
  <2>1. SUFFICES ASSUME T # {} PROVE FALSE
    OBVIOUS
  <2>2. PICK k \in T : \A j \in T : k <= j
    <3> T \in SUBSET Nat
      OBVIOUS
    <3> HIDE DEF T
    <3> QED
      BY <2>1, Least
  <2>3. PICK s \in D : measure[s] = k /\ k <= n /\ k <= m /\ g[s] # h[s]
    OBVIOUS
  <2>4. Right(g, s) /\ Right(h, s)
    BY <1>1, <2>3
  <2>5. s \in more
    BY <2>3, <2>4
  <2>6. rest[s] \in D /\ measure[rest[s]] \in Nat /\ measure[rest[s]] < k /\ k \in Nat
    BY <2>3, <2>5
  <2>7. measure[rest[s]] \notin T
    BY <2>2, <2>6
  <2>8. g[rest[s]] = h[rest[s]]
    BY <2>3, <2>6, <2>7
  <2>9. g[s] = step[<<s, g[rest[s]]>>] /\ h[s] = step[<<s, h[rest[s]]>>]
    BY <2>4, <2>5
  <2>10. QED
    BY <2>3, <2>8, <2>9
<1>2. ASSUME NEW n \in Nat PROVE \E g : Fits(g, n)
  <2> DEFINE T == {k \in Nat : ~ \E g : Fits(g, k)}
  <2>1. SUFFICES ASSUME T # {} PROVE FALSE
    <3> HIDE DEF Fits
    <3> QED OBVIOUS
  <2>2. PICK k \in T : \A j \in T : k <= j
    <3> T \in SUBSET Nat
      OBVIOUS
    <3> HIDE DEF T
    <3> QED
      BY <2>1, Least
  <2>3. \E h \in [D -> V] : \A s \in D : measure[s] < k => Right(h, s)
    <3>1. CASE k = 0
      <4>1. base \in [D -> V] /\ \A s \in D : ~ measure[s] < k
        BY <3>1
      <4>2. QED
        BY <4>1
    <3>2. CASE k # 0
      <4>1. k - 1 \in Nat /\ ~ (k <= k - 1)
        BY <3>2
      <4>2. k - 1 \notin T
        BY <2>2, <4>1
      <4>3. PICK h : Fits(h, k - 1)
        BY <4>1, <4>2
      <4>4. \A s \in D : measure[s] < k => measure[s] <= k - 1
        BY <4>1
      <4>5. QED
        BY <4>3, <4>4
    <3>3. QED
      BY <3>1, <3>2
  <2>4. PICK h \in [D -> V] : \A s \in D : measure[s] < k => Right(h, s)
    BY <2>3
  <2> DEFINE g == [s \in D |-> IF s \in more THEN step[<<s, h[rest[s]]>>] ELSE base[s]]
  <2>5. g \in [D -> V]
    OBVIOUS
  <2>6. ASSUME NEW s \in D, measure[s] <= k PROVE Right(g, s)
    <3>1. CASE s \notin more
      BY <3>1
    <3>2. CASE s \in more
      <4>1. rest[s] \in D /\ measure[rest[s]] < measure[s]
        BY <3>2
      <4>2. measure[rest[s]] < k
        BY <2>6, <4>1
      <4>3. h[rest[s]] = g[rest[s]]
        BY <2>4, <4>1, <4>2
      <4>4. g[s] = step[<<s, h[rest[s]]>>]
        BY <3>2
      <4>5. QED
        BY <3>2, <4>3, <4>4
    <3>3. QED
      BY <3>1, <3>2
  <2>7. Fits(g, k)
    BY <2>5, <2>6
  <2>8. ~ \E f : Fits(f, k)
    OBVIOUS
  <2>9. QED
    <3> HIDE DEF g, Fits
    <3> QED BY <2>7, <2>8
<1> DEFINE Chosen(n) == CHOOSE g : Fits(g, n)
           G == [s \in D |-> Chosen(measure[s])[s]]
<1>3. \A n \in Nat : Fits(Chosen(n), n)
  <2> HIDE DEF Fits
  <2> QED BY <1>2
<1>4. G \in [D -> V]
  <2>1. \A s \in D : Chosen(measure[s]) \in [D -> V]
    <3> HIDE DEF Chosen
    <3> QED BY <1>3
  <2> HIDE DEF Chosen
  <2>2. QED
    BY <2>1
<1>5. ASSUME NEW s \in D PROVE Right(G, s)
  <2>1. Fits(Chosen(measure[s]), measure[s]) /\ measure[s] \in Nat
    <3> HIDE DEF Fits, Chosen
    <3> QED BY <1>3
  <2>2. Right(Chosen(measure[s]), s)
    <3> HIDE DEF Chosen
    <3> QED BY <2>1
  <2>3. CASE s \notin more
    <3> HIDE DEF Chosen
    <3> QED BY <2>2, <2>3
  <2>4. CASE s \in more
    <3>1. rest[s] \in D /\ measure[rest[s]] < measure[s] /\ measure[rest[s]] \in Nat
      BY <2>4
    <3>2. Fits(Chosen(measure[rest[s]]), measure[rest[s]])
      <4> HIDE DEF Fits, Chosen
      <4> QED BY <1>3, <3>1
    <3>3. Chosen(measure[rest[s]])[rest[s]] = Chosen(measure[s])[rest[s]]
      <4> HIDE DEF Fits, Chosen
      <4> QED BY <1>1, <2>1, <3>1, <3>2
    <3>4. G[rest[s]] = Chosen(measure[s])[rest[s]]
      <4> HIDE DEF Chosen
      <4> QED BY <3>1, <3>3
    <3>5. QED
      <4> HIDE DEF Chosen
      <4> QED BY <2>2, <2>4, <3>4
  <2>5. QED
    BY <2>3, <2>4
<1>6. QED
  <2> HIDE DEF G
  <2> QED BY <1>4, <1>5

\* What the reader hands on, and what its loop leaves.
Framed == [type : Nat, id : Nat, payload : Seq(Nat)]
Leftover == [buffer : Seq(Nat), out : Seq(Framed), dead : BOOLEAN]

\* What is left behind the first n of a sequence's elements.
LEMMA AfterIs ==
    ASSUME NEW S, NEW s \in Seq(S), NEW n \in 0 .. Len(s)
    PROVE  /\ After(s, n) \in Seq(S) /\ Len(After(s, n)) = Len(s) - n
           /\ \A i \in 1 .. Len(s) - n : After(s, n)[i] = s[n + i]
           /\ After(s, 0) = s
<1>1. Len(s) \in Nat /\ n + 1 \in Int /\ Len(s) \in Int /\ \A i \in n + 1 .. Len(s) : s[i] \in S
  BY LenProperties
<1>2. /\ SubSeq(s, n + 1, Len(s)) \in Seq(S)
      /\ Len(SubSeq(s, n + 1, Len(s))) = IF n + 1 <= Len(s) THEN Len(s) - (n + 1) + 1 ELSE 0
      /\ \A i \in 1 .. Len(s) - (n + 1) + 1 : SubSeq(s, n + 1, Len(s))[i] = s[n + 1 + i - 1]
  BY <1>1, SubSeqProperties
<1>3. After(s, n) \in Seq(S) /\ Len(After(s, n)) = Len(s) - n
  BY <1>1, <1>2 DEF After
<1>4. ASSUME NEW i \in 1 .. Len(s) - n PROVE After(s, n)[i] = s[n + i]
  <2>1. i \in 1 .. Len(s) - (n + 1) + 1 /\ n + 1 + i - 1 = n + i
    BY <1>1
  <2>2. QED
    BY <1>2, <2>1 DEF After
<1>5. After(s, 0) = s
  BY SubSeqFull DEF After
<1>6. QED
  BY <1>3, <1>4, <1>5

\* More bytes at the end are more bytes at the end of what is left.
LEMMA AfterMore ==
    ASSUME NEW S, NEW s \in Seq(S), NEW t \in Seq(S), NEW n \in 0 .. Len(s)
    PROVE  After(s \o t, n) = After(s, n) \o t
<1>1. /\ s \o t \in Seq(S) /\ Len(s \o t) = Len(s) + Len(t) /\ Len(s) \in Nat /\ Len(t) \in Nat
      /\ \A i \in 1 .. Len(s) + Len(t) : (s \o t)[i] = IF i <= Len(s) THEN s[i] ELSE t[i - Len(s)]
  BY ConcatProperties, LenProperties
<1>2. n \in 0 .. Len(s \o t)
  BY <1>1
<1>3. /\ After(s, n) \in Seq(S) /\ Len(After(s, n)) = Len(s) - n
      /\ \A i \in 1 .. Len(s) - n : After(s, n)[i] = s[n + i]
  BY AfterIs
<1>4. /\ After(s \o t, n) \in Seq(S) /\ Len(After(s \o t, n)) = Len(s) + Len(t) - n
      /\ \A i \in 1 .. Len(s) + Len(t) - n : After(s \o t, n)[i] = (s \o t)[n + i]
  <2> DEFINE u == s \o t
  <2>1. u \in Seq(S) /\ n \in 0 .. Len(u) /\ Len(u) = Len(s) + Len(t)
    BY <1>1, <1>2
  <2> HIDE DEF u
  <2>2. /\ After(u, n) \in Seq(S) /\ Len(After(u, n)) = Len(u) - n
        /\ \A i \in 1 .. Len(u) - n : After(u, n)[i] = u[n + i]
    BY <2>1, AfterIs
  <2>3. /\ After(u, n) \in Seq(S) /\ Len(After(u, n)) = Len(s) + Len(t) - n
        /\ \A i \in 1 .. Len(s) + Len(t) - n : After(u, n)[i] = u[n + i]
    BY <2>1, <2>2
  <2>4. QED
    BY <2>3 DEF u
<1>5. /\ After(s, n) \o t \in Seq(S) /\ Len(After(s, n) \o t) = Len(s) - n + Len(t)
      /\ \A i \in 1 .. Len(s) - n + Len(t) :
             (After(s, n) \o t)[i] = IF i <= Len(s) - n THEN After(s, n)[i] ELSE t[i - (Len(s) - n)]
  <2> DEFINE u == After(s, n)
  <2>1. u \in Seq(S) /\ Len(u) = Len(s) - n
    BY <1>3
  <2> HIDE DEF u
  <2>2. /\ u \o t \in Seq(S) /\ Len(u \o t) = Len(u) + Len(t)
        /\ \A i \in 1 .. Len(u) + Len(t) :
               (u \o t)[i] = IF i <= Len(u) THEN u[i] ELSE t[i - Len(u)]
    BY <2>1, ConcatProperties
  <2>3. /\ u \o t \in Seq(S) /\ Len(u \o t) = Len(s) - n + Len(t)
        /\ \A i \in 1 .. Len(s) - n + Len(t) :
               (u \o t)[i] = IF i <= Len(s) - n THEN u[i] ELSE t[i - (Len(s) - n)]
    BY <2>1, <2>2
  <2>4. QED
    BY <2>3 DEF u
<1>6. ASSUME NEW i \in 1 .. Len(s) + Len(t) - n
      PROVE After(s \o t, n)[i] = (After(s, n) \o t)[i]
  <2>1. /\ i \in 1 .. Len(s) - n + Len(t) /\ n + i \in 1 .. Len(s) + Len(t)
        /\ i - (Len(s) - n) = n + i - Len(s) /\ (n + i <= Len(s) <=> i <= Len(s) - n)
    BY <1>1
  <2>2. After(s \o t, n)[i] = IF n + i <= Len(s) THEN s[n + i] ELSE t[n + i - Len(s)]
    BY <1>1, <1>4, <2>1
  <2>3. i <= Len(s) - n => After(s, n)[i] = s[n + i]
    BY <1>3, <1>1
  <2>4. QED
    BY <1>5, <2>1, <2>2, <2>3
<1>7. Len(After(s \o t, n)) = Len(After(s, n) \o t)
  BY <1>1, <1>4, <1>5
<1>8. QED
  <2> DEFINE x == After(s \o t, n)
             y == After(s, n) \o t
  <2>1. x \in Seq(S) /\ y \in Seq(S) /\ Len(x) = Len(y) /\ \A i \in 1 .. Len(x) : x[i] = y[i]
    BY <1>4, <1>5, <1>6, <1>7
  <2> HIDE DEF x, y
  <2>2. x = y
    BY <2>1, SeqEqual
  <2>3. QED
    BY <2>2 DEF x, y

\* Where a magic prefix begins.
MagicAt(s) == {i \in 1 .. Len(s) - 1 : <<s[i], s[i + 1]>> \in Magics}

\* The first of them is found, and no other.
LEMMA FindMagicIs ==
    ASSUME NEW s \in Seq(Nat)
    PROVE  /\ FindMagic(s) \in Nat /\ FindMagic(s) <= Len(s)
           /\ FindMagic(s) = 0 <=> MagicAt(s) = {}
           /\ FindMagic(s) # 0 =>
                  FindMagic(s) \in MagicAt(s) /\ \A j \in MagicAt(s) : FindMagic(s) <= j
           /\ \A i \in MagicAt(s) : (\A j \in MagicAt(s) : i <= j) => FindMagic(s) = i
<1>1. Len(s) \in Nat /\ MagicAt(s) \in SUBSET Nat /\ \A i \in MagicAt(s) : i >= 1 /\ i < Len(s)
  BY LenProperties DEF MagicAt
<1> DEFINE first == CHOOSE i \in MagicAt(s) : \A j \in MagicAt(s) : i <= j
<1>2. FindMagic(s) = IF MagicAt(s) = {} THEN 0 ELSE first
  BY DEF FindMagic, MagicAt
<1>3. MagicAt(s) # {} => first \in MagicAt(s) /\ \A j \in MagicAt(s) : first <= j
  <2>1. MagicAt(s) # {} => \E i \in MagicAt(s) : \A j \in MagicAt(s) : i <= j
    BY <1>1, Least
  <2>2. QED
    BY <2>1
<1> HIDE DEF first
<1>4. ASSUME NEW i \in MagicAt(s), \A j \in MagicAt(s) : i <= j PROVE FindMagic(s) = i
  <2>1. first \in MagicAt(s) /\ first <= i /\ i <= first /\ FindMagic(s) = first
    BY <1>2, <1>3, <1>4
  <2>2. first \in Nat /\ i \in Nat
    BY <1>1, <2>1
  <2>3. QED
    BY <2>1, <2>2
<1>5. CASE MagicAt(s) = {}
  BY <1>1, <1>2, <1>5
<1>6. CASE MagicAt(s) # {}
  <2>1. FindMagic(s) = first /\ first \in MagicAt(s) /\ \A j \in MagicAt(s) : first <= j
    BY <1>2, <1>3, <1>6
  <2>2. first \in Nat /\ first >= 1 /\ first < Len(s)
    BY <1>1, <2>1
  <2>3. QED
    BY <1>1, <1>4, <1>6, <2>1, <2>2
<1>7. QED
  BY <1>5, <1>6

\* What comes behind a prefix does not change where it begins.
LEMMA FindMagicMore ==
    ASSUME NEW s \in Seq(Nat), NEW t \in Seq(Nat), FindMagic(s) # 0
    PROVE  FindMagic(s \o t) = FindMagic(s)
<1>1. /\ s \o t \in Seq(Nat) /\ Len(s \o t) = Len(s) + Len(t) /\ Len(s) \in Nat /\ Len(t) \in Nat
      /\ \A i \in 1 .. Len(s) + Len(t) : (s \o t)[i] = IF i <= Len(s) THEN s[i] ELSE t[i - Len(s)]
  BY ConcatProperties, LenProperties
<1> DEFINE n == FindMagic(s)
<1>2. n \in MagicAt(s) /\ \A j \in MagicAt(s) : n <= j
  BY FindMagicIs
<1> HIDE DEF n
<1>3. ASSUME NEW i \in 1 .. Len(s) - 1
      PROVE i \in MagicAt(s) <=> i \in MagicAt(s \o t)
  <2>1. /\ i \in 1 .. Len(s) + Len(t) - 1 /\ i \in 1 .. Len(s) + Len(t) /\ i + 1 \in 1 .. Len(s) + Len(t)
        /\ i <= Len(s) /\ i + 1 <= Len(s)
    BY <1>1
  <2>2. (s \o t)[i] = s[i] /\ (s \o t)[i + 1] = s[i + 1]
    BY <1>1, <2>1
  <2>3. QED
    BY <1>1, <2>1, <2>2 DEF MagicAt
<1>4. n \in 1 .. Len(s) - 1 /\ n \in MagicAt(s \o t)
  BY <1>2, <1>3 DEF MagicAt
<1>5. ASSUME NEW j \in MagicAt(s \o t) PROVE n <= j
  <2>1. j \in Nat /\ j >= 1 /\ n \in Nat
    BY <1>1, <1>4 DEF MagicAt
  <2>2. CASE j \in 1 .. Len(s) - 1
    BY <1>2, <1>3, <2>2
  <2>3. CASE j \notin 1 .. Len(s) - 1
    BY <1>1, <1>4, <2>1, <2>3
  <2>4. QED
    BY <2>2, <2>3
<1>6. FindMagic(s \o t) = n
  BY <1>1, <1>4, <1>5, FindMagicIs
<1>7. QED
  BY <1>6 DEF n

\* Once the bytes before it are dropped, the prefix is at the start.
LEMMA FindMagicRest ==
    ASSUME NEW s \in Seq(Nat), FindMagic(s) # 0
    PROVE  FindMagic(After(s, FindMagic(s) - 1)) = 1
<1> DEFINE n == FindMagic(s)
           r == After(s, n - 1)
<1>1. n \in MagicAt(s) /\ Len(s) \in Nat
  BY FindMagicIs, LenProperties
<1> HIDE DEF n
<1>2. n \in 1 .. Len(s) - 1 /\ n - 1 \in 0 .. Len(s) /\ <<s[n], s[n + 1]>> \in Magics
  BY <1>1 DEF MagicAt
<1>3. /\ r \in Seq(Nat) /\ Len(r) = Len(s) - (n - 1)
      /\ \A i \in 1 .. Len(s) - (n - 1) : r[i] = s[n - 1 + i]
  <2> DEFINE m == n - 1
  <2>1. m \in 0 .. Len(s)
    BY <1>2
  <2> HIDE DEF m
  <2>2. /\ After(s, m) \in Seq(Nat) /\ Len(After(s, m)) = Len(s) - m
        /\ \A i \in 1 .. Len(s) - m : After(s, m)[i] = s[m + i]
    BY <2>1, AfterIs
  <2>3. QED
    BY <2>2 DEF m
<1> HIDE DEF r
<1>4. 1 \in 1 .. Len(s) - (n - 1) /\ 2 \in 1 .. Len(s) - (n - 1) /\ n - 1 + 1 = n /\ n - 1 + 2 = n + 1
  BY <1>1, <1>2
<1>5. r[1] = s[n] /\ r[2] = s[n + 1]
  BY <1>3, <1>4
<1>6. 1 \in 1 .. Len(r) - 1
  <2>1. Len(r) = Len(s) - (n - 1) /\ n <= Len(s) - 1 /\ n \in Nat /\ Len(s) \in Nat
    BY <1>1, <1>2, <1>3
  <2>2. QED
    BY <2>1
<1>7. 1 \in MagicAt(r)
  BY <1>2, <1>5, <1>6 DEF MagicAt
<1>8. \A j \in MagicAt(r) : 1 <= j
  BY <1>3, LenProperties DEF MagicAt
<1>9. FindMagic(r) = 1
  BY <1>3, <1>7, <1>8, FindMagicIs
<1>10. QED
  BY <1>9 DEF n, r

\* The header of a sequence of bytes and the size it claims.
LEMMA SizeIs ==
    ASSUME NEW s \in Seq(Nat), Len(s) >= Shortest
    PROVE  /\ Len(s) \in Nat /\ 3 \in 1 .. Len(s) /\ 4 \in 1 .. Len(s) /\ 5 \in 1 .. Len(s)
           /\ s[3] \in Nat /\ s[4] \in Nat /\ s[5] \in Nat
           /\ Size(s) \in Nat /\ Size(s) >= 4
<1>1. Len(s) \in Nat /\ Len(s) >= 5
  BY LenProperties DEF Shortest
<1>2. 3 \in 1 .. Len(s) /\ 4 \in 1 .. Len(s) /\ 5 \in 1 .. Len(s)
  BY <1>1
<1>3. s[3] \in Nat /\ s[4] \in Nat /\ s[5] \in Nat
  BY <1>2, ElementOfSeq
<1>4. Size(s) \in Nat /\ Size(s) >= 4
  BY <1>3 DEF Size
<1>5. QED
  BY <1>1, <1>2, <1>3, <1>4

\* What is parsed is parsed the same whatever has come behind it.
LEMMA ParseMore ==
    ASSUME NEW s \in Seq(Nat), NEW t \in Seq(Nat), Parse(s) # "short"
    PROVE  /\ Len(s) >= Shortest /\ Size(s \o t) = Size(s) /\ Parse(s \o t) = Parse(s)
           /\ Parse(s) = "packet" =>
                  /\ Size(s) >= 7 /\ Size(s) <= Len(s)
                  /\ PacketIn(s, Size(s)) \in Framed
                  /\ PacketIn(s \o t, Size(s)) = PacketIn(s, Size(s))
<1> DEFINE u == s \o t
<1>1. /\ Len(u) = Len(s) + Len(t) /\ Len(s) \in Nat /\ Len(t) \in Nat
      /\ \A i \in 1 .. Len(s) + Len(t) : u[i] = IF i <= Len(s) THEN s[i] ELSE t[i - Len(s)]
  BY ConcatProperties, LenProperties
<1>2. Len(s) >= Shortest
  <2>1. Len(s) >= 5 \/ Len(s) < 5
    BY <1>1
  <2>2. QED
    BY <2>1 DEF Parse, Shortest
<1>3. /\ Len(s) \in Nat /\ 3 \in 1 .. Len(s) /\ 4 \in 1 .. Len(s) /\ 5 \in 1 .. Len(s)
      /\ s[3] \in Nat /\ s[4] \in Nat /\ s[5] \in Nat
      /\ Size(s) \in Nat /\ Size(s) >= 4
  BY <1>2, SizeIs
<1>4. \A i \in 1 .. Len(s) : i \in 1 .. Len(s) + Len(t) /\ i <= Len(s)
  BY <1>1
<1>5. u[3] = s[3] /\ u[4] = s[4] /\ u[5] = s[5]
  BY <1>1, <1>3, <1>4
<1>6. \A m, n \in 1 .. Len(s) : SubSeq(u, m, n) = SubSeq(s, m, n)
  BY SubSeqOfConcat1
<1> HIDE DEF u
<1>7. Size(u) = Size(s)
  BY <1>5 DEF Size
<1>8. ~(Len(u) < Shortest) /\ ~(Len(s) < Shortest)
  BY <1>1, <1>2 DEF Shortest
<1>9. CASE s[3] \notin {Sync, Async}
  <2>1. Parse(s) = "bad" /\ Parse(u) = "bad"
    BY <1>5, <1>8, <1>9 DEF Parse
  <2>2. QED
    BY <1>2, <1>7, <2>1 DEF u
<1>10. CASE s[3] \in {Sync, Async}
  <2>1. ~(Len(s) < Size(s))
    BY <1>8, <1>10 DEF Parse
  <2>2. Size(s) <= Len(s) /\ ~(Len(u) < Size(u))
    BY <1>1, <1>3, <1>7, <2>1
  <2>3. /\ Size(s) - 1 \in 1 .. Len(s) /\ Size(s) \in 1 .. Len(s) /\ Size(s) - 2 \in 1 .. Len(s)
        /\ 1 \in 1 .. Len(s)
    <3> DEFINE k == Size(s)
               m == Len(s)
    <3>1. k \in Nat /\ m \in Nat /\ k >= 4 /\ k <= m
      BY <1>3, <2>2
    <3> HIDE DEF k, m
    <3>2. k - 1 \in 1 .. m /\ k \in 1 .. m /\ k - 2 \in 1 .. m /\ 1 \in 1 .. m
      BY <3>1
    <3>3. QED
      BY <3>2 DEF k, m
  <2>4. u[Size(s) - 1] = s[Size(s) - 1] /\ u[Size(s)] = s[Size(s)]
    BY <1>1, <1>4, <2>3
  <2>5. SubSeq(u, 1, Size(s) - 2) = SubSeq(s, 1, Size(s) - 2)
    BY <1>6, <2>3
  <2>6. Matches(u, Size(s)) = Matches(s, Size(s))
    BY <2>4, <2>5 DEF Matches
  <2>7. Parse(u) = Parse(s)
    BY <1>5, <1>7, <1>8, <1>10, <2>1, <2>2, <2>6 DEF Parse
  <2>8. ASSUME Parse(s) = "packet"
        PROVE  /\ Size(s) >= 7 /\ PacketIn(s, Size(s)) \in Framed
               /\ PacketIn(u, Size(s)) = PacketIn(s, Size(s))
    <3>1. Size(s) >= 7
      <4>1. ~(Size(s) < 7)
        BY <1>8, <1>10, <2>1, <2>8 DEF Parse
      <4>2. QED
        BY <1>3, <4>1
    <3>2. 6 \in 1 .. Len(s)
      <4> DEFINE k == Size(s)
                 m == Len(s)
      <4>1. k \in Nat /\ m \in Nat /\ k >= 7 /\ k <= m
        BY <1>3, <2>2, <3>1
      <4> HIDE DEF k, m
      <4>2. 6 \in 1 .. m
        BY <4>1
      <4>3. QED
        BY <4>2 DEF m
    <3>3. SubSeq(u, 6, Size(s) - 2) = SubSeq(s, 6, Size(s) - 2)
      BY <1>6, <2>3, <3>2
    <3>4. SubSeq(s, 6, Size(s) - 2) \in Seq(Nat)
      <4>1. 6 \in Int /\ Size(s) - 2 \in Int /\ \A i \in 6 .. Size(s) - 2 : i \in 1 .. Len(s)
        BY <1>1, <1>3, <2>2
      <4>2. \A i \in 6 .. Size(s) - 2 : s[i] \in Nat
        BY <4>1, ElementOfSeq
      <4>3. QED
        BY <4>1, <4>2, SubSeqProperties
    <3>5. <<s[4]>> \in Seq(Nat)
      BY <1>3
    <3>6. PacketIn(s, Size(s)) \in Framed
      BY <1>3, <3>4, <3>5 DEF PacketIn, Framed
    <3>7. PacketIn(u, Size(s)) = PacketIn(s, Size(s))
      BY <1>5, <3>3 DEF PacketIn
    <3>8. QED
      BY <3>1, <3>6, <3>7
  <2>9. QED
    BY <1>2, <1>7, <2>2, <2>7, <2>8 DEF u
<1>11. QED
  BY <1>9, <1>10

\* One turn of the reader's loop drops some of the buffer; more bytes at the end
\* of it change nothing in a turn that does not wait, and a turn that waits might
\* have dropped what it does before they came.
LEMMA TurnIs ==
    ASSUME NEW s \in Seq(Nat)
    PROVE  /\ Turn(s).rest \in Seq(Nat) /\ Turn(s).packets \in Seq(Framed)
           /\ Turn(s).next \in {"wait", "stop", "on"}
           /\ Turn(s).next = "on" => Len(Turn(s).rest) < Len(s)
           /\ \A t \in Seq(Nat) :
                  /\ Turn(s).next # "wait" =>
                         /\ Turn(s \o t).rest = Turn(s).rest \o t
                         /\ Turn(s \o t).packets = Turn(s).packets
                         /\ Turn(s \o t).next = Turn(s).next
                  /\ Turn(s).next = "wait" => Turn(s \o t) = Turn(Turn(s).rest \o t)
<1> DEFINE n == FindMagic(s)
           r == After(s, n - 1)
<1>1. /\ Len(s) \in Nat /\ n \in Nat /\ n <= Len(s) /\ <<>> \in Seq(Framed)
      /\ n # 0 => /\ \A t \in Seq(Nat) : FindMagic(s \o t) = n
                  /\ FindMagic(r) = 1
  BY FindMagicIs, FindMagicMore, FindMagicRest, LenProperties, EmptySeq
<1>2. CASE n = 0
  <2>1. Turn(s) = [rest |-> s, packets |-> <<>>, next |-> "wait"]
    BY <1>2 DEF Turn
  <2>2. QED
    BY <1>1, <2>1
<1>3. CASE n # 0
  <2>1. n - 1 \in 0 .. Len(s) /\ n - 1 <= Len(s)
    BY <1>1, <1>3
  <2>2. r \in Seq(Nat) /\ Len(r) = Len(s) - (n - 1) /\ After(r, 0) = r /\ Len(r) \in Nat
    <3>1. r \in Seq(Nat) /\ Len(r) = Len(s) - (n - 1)
      BY <2>1, AfterIs
    <3> HIDE DEF r
    <3>2. Len(r) \in Nat
      BY <3>1, LenProperties
    <3>3. 0 \in 0 .. Len(r)
      BY <3>2
    <3>4. QED
      BY <3>1, <3>2, <3>3, AfterIs
  <2>3. \A t \in Seq(Nat) : After(s \o t, n - 1) = r \o t
    BY <2>1, AfterMore
  <2>4. \A t \in Seq(Nat) : /\ FindMagic(s \o t) = n /\ s \o t \in Seq(Nat)
                            /\ r \o t \in Seq(Nat)
    <3> HIDE DEF r
    <3> QED BY <1>1, <1>3, <2>2, ConcatProperties
  <2>5. FindMagic(r) = 1 /\ Len(r) <= Len(s)
    BY <1>1, <1>3, <2>1, <2>2
  <2> HIDE DEF n, r
  <2>6. n \in Nat /\ n # 0
    BY <1>1, <1>3 DEF n
  <2>7. /\ Parse(r) = "short" => Turn(s) = [rest |-> r, packets |-> <<>>, next |-> "wait"]
        /\ Parse(r) = "panic" => Turn(s) = [rest |-> r, packets |-> <<>>, next |-> "stop"]
        /\ Parse(r) = "bad" => Turn(s) = [rest |-> Skipped(r), packets |-> <<>>, next |-> "on"]
        /\ Parse(r) = "packet" =>
               Turn(s) = [rest |-> After(r, Size(r)), packets |-> <<PacketIn(r, Size(r))>>, next |-> "on"]
    BY <2>6 DEF Turn, n, r
  <2>8. ASSUME NEW t \in Seq(Nat)
        PROVE  /\ Parse(r \o t) = "short" => Turn(s \o t) = [rest |-> r \o t, packets |-> <<>>, next |-> "wait"]
               /\ Parse(r \o t) = "panic" => Turn(s \o t) = [rest |-> r \o t, packets |-> <<>>, next |-> "stop"]
               /\ Parse(r \o t) = "bad" => Turn(s \o t) = [rest |-> Skipped(r \o t), packets |-> <<>>, next |-> "on"]
               /\ Parse(r \o t) = "packet" =>
                      Turn(s \o t) = [rest |-> After(r \o t, Size(r \o t)),
                                      packets |-> <<PacketIn(r \o t, Size(r \o t))>>, next |-> "on"]
    <3> DEFINE u == s \o t
               v == r \o t
    <3>1. FindMagic(u) = n /\ After(u, n - 1) = v
      BY <2>3, <2>4
    <3> HIDE DEF u, v
    <3>2. /\ Parse(v) = "short" => Turn(u) = [rest |-> v, packets |-> <<>>, next |-> "wait"]
          /\ Parse(v) = "panic" => Turn(u) = [rest |-> v, packets |-> <<>>, next |-> "stop"]
          /\ Parse(v) = "bad" => Turn(u) = [rest |-> Skipped(v), packets |-> <<>>, next |-> "on"]
          /\ Parse(v) = "packet" =>
                 Turn(u) = [rest |-> After(v, Size(v)), packets |-> <<PacketIn(v, Size(v))>>, next |-> "on"]
      BY <2>6, <3>1 DEF Turn
    <3>3. QED
      BY <3>2 DEF u, v
  <2>9. Parse(r) \in {"short", "panic", "bad", "packet"}
    BY DEF Parse
  <2>10. CASE Parse(r) = "short"
    <3>1. Turn(s) = [rest |-> r, packets |-> <<>>, next |-> "wait"]
      BY <2>7, <2>10
    <3>2. ASSUME NEW t \in Seq(Nat) PROVE Turn(s \o t) = Turn(r \o t)
      <4>1. FindMagic(r \o t) = 1 /\ 0 \in 0 .. Len(r)
        BY <2>2, <2>5, FindMagicMore
      <4>2. After(r \o t, 1 - 1) = r \o t
        <5>1. After(r \o t, 0) = After(r, 0) \o t
          BY <2>2, <4>1, AfterMore
        <5>2. 1 - 1 = 0
          OBVIOUS
        <5>3. QED
          BY <2>2, <5>1, <5>2
      <4>3. FindMagic(s \o t) = n /\ After(s \o t, n - 1) = r \o t
        BY <2>3, <2>4
      <4> DEFINE u == s \o t
                 v == r \o t
      <4>4. /\ FindMagic(v) = 1 /\ After(v, 1 - 1) = v /\ FindMagic(u) = n /\ After(u, n - 1) = v
            /\ FindMagic(v) # 0
        BY <4>1, <4>2, <4>3
      <4> HIDE DEF u, v
      <4> DEFINE left(rest, packets, next) == [rest |-> rest, packets |-> packets, next |-> next]
                 cut(w) == CASE Parse(w) = "short" -> left(w, <<>>, "wait")
                             [] Parse(w) = "panic" -> left(w, <<>>, "stop")
                             [] Parse(w) = "bad" -> left(Skipped(w), <<>>, "on")
                             [] Parse(w) = "packet" -> left(After(w, Size(w)), <<PacketIn(w, Size(w))>>, "on")
      <4>5. /\ Turn(u) = IF FindMagic(u) = 0 THEN left(u, <<>>, "wait") ELSE cut(After(u, FindMagic(u) - 1))
            /\ Turn(v) = IF FindMagic(v) = 0 THEN left(v, <<>>, "wait") ELSE cut(After(v, FindMagic(v) - 1))
        BY DEF Turn
      <4> HIDE DEF cut, left
      <4>6. Turn(u) = cut(v) /\ Turn(v) = cut(v)
        BY <2>6, <4>4, <4>5
      <4>7. Turn(u) = Turn(v)
        BY <4>6
      <4>8. QED
        BY <4>7 DEF u, v
    <3>3. QED
      BY <1>1, <2>2, <3>1, <3>2
  <2>11. CASE Parse(r) = "panic"
    <3>1. Turn(s) = [rest |-> r, packets |-> <<>>, next |-> "stop"]
      BY <2>7, <2>11
    <3>2. ASSUME NEW t \in Seq(Nat) PROVE Turn(s \o t) = [rest |-> r \o t, packets |-> <<>>, next |-> "stop"]
      BY <2>2, <2>8, <2>11, ParseMore
    <3>3. QED
      BY <1>1, <2>2, <3>1, <3>2
  <2>12. CASE Parse(r) = "bad"
    <3>1. Turn(s) = [rest |-> Skipped(r), packets |-> <<>>, next |-> "on"]
      BY <2>7, <2>12
    <3>2. 2 \in 0 .. Len(r)
      <4>1. Len(r) >= Shortest
        BY <2>2, <2>12, ParseMore, EmptySeq
      <4>2. QED
        BY <2>2, <4>1 DEF Shortest
    <3>3. Skipped(r) \in Seq(Nat) /\ Len(Skipped(r)) = Len(r) - 2
      BY <2>2, <3>2, AfterIs DEF Skipped
    <3>4. \A t \in Seq(Nat) : Skipped(r \o t) = Skipped(r) \o t
      BY <2>2, <3>2, AfterMore DEF Skipped
    <3>5. \A t \in Seq(Nat) : Turn(s \o t) = [rest |-> Skipped(r) \o t, packets |-> <<>>, next |-> "on"]
      BY <2>2, <2>8, <2>12, <3>4, ParseMore
    <3>6. Len(Skipped(r)) < Len(s)
      BY <1>1, <2>2, <2>5, <3>3
    <3>7. QED
      BY <1>1, <3>1, <3>3, <3>5, <3>6
  <2>13. CASE Parse(r) = "packet"
    <3> DEFINE p == PacketIn(r, Size(r))
               k == Size(r)
    <3>1. Turn(s) = [rest |-> After(r, k), packets |-> <<p>>, next |-> "on"]
      BY <2>7, <2>13
    <3>2. /\ Len(r) >= Shortest /\ k >= 7 /\ k <= Len(r) /\ p \in Framed
          /\ \A t \in Seq(Nat) : /\ Parse(r \o t) = "packet" /\ Size(r \o t) = k
                                 /\ PacketIn(r \o t, k) = p
      BY <2>2, <2>13, ParseMore, EmptySeq
    <3>3. k \in 0 .. Len(r)
      BY <2>2, <3>2, SizeIs
    <3> HIDE DEF k, p
    <3>4. After(r, k) \in Seq(Nat) /\ Len(After(r, k)) = Len(r) - k
      BY <2>2, <3>3, AfterIs
    <3>5. \A t \in Seq(Nat) : After(r \o t, k) = After(r, k) \o t
      BY <2>2, <3>3, AfterMore
    <3>6. \A t \in Seq(Nat) : Turn(s \o t) = [rest |-> After(r, k) \o t, packets |-> <<p>>, next |-> "on"]
      BY <2>8, <3>2, <3>5
    <3>7. Len(After(r, k)) < Len(s)
      BY <1>1, <2>2, <2>5, <3>2, <3>3, <3>4
    <3>8. <<p>> \in Seq(Framed)
      BY <3>2
    <3>9. QED
      BY <1>1, <3>1, <3>4, <3>6, <3>7, <3>8
  <2>14. QED
    BY <2>9, <2>10, <2>11, <2>12, <2>13
<1>4. QED
  BY <1>2, <1>3

\* The loop ends, and is what its definition says, for any buffer: every turn that
\* goes on leaves fewer bytes.
LEMMA DrainedIs ==
    \A s \in Seq(Nat) :
        /\ Turn(s).next = "on" =>
               Drained[s] = [Drained[Turn(s).rest] EXCEPT !.out = Turn(s).packets \o @]
        /\ Turn(s).next # "on" =>
               Drained[s] = [buffer |-> Turn(s).rest, out |-> <<>>, dead |-> Turn(s).next = "stop"]
<1> DEFINE D == Seq(Nat)
           more == {s \in D : Turn(s).next = "on"}
           rest == [s \in more |-> Turn(s).rest]
           measure == [s \in D |-> Len(s)]
           base == [s \in D |-> [buffer |-> Turn(s).rest, out |-> <<>>, dead |-> Turn(s).next = "stop"]]
           step == [x \in D \X Leftover |-> [x[2] EXCEPT !.out = Turn(x[1]).packets \o @]]
<1>1. \A s \in D : /\ Turn(s).rest \in D /\ Turn(s).packets \in Seq(Framed)
                   /\ Turn(s).next = "on" => Len(Turn(s).rest) < Len(s)
  BY TurnIs
<1>2. more \in SUBSET D /\ rest \in [more -> D]
  BY <1>1
<1>3. measure \in [D -> Nat] /\ \A s \in more : measure[rest[s]] < measure[s]
  BY <1>1, LenProperties
<1>4. base \in [D -> Leftover]
  <2>1. <<>> \in Seq(Framed) /\ \A s \in D : (Turn(s).next = "stop") \in BOOLEAN
    BY EmptySeq
  <2>2. QED
    BY <1>1, <2>1 DEF Leftover
<1>5. step \in [D \X Leftover -> Leftover]
  <2>1. ASSUME NEW s \in D, NEW l \in Leftover
        PROVE [l EXCEPT !.out = Turn(s).packets \o @] \in Leftover
    <3>1. Turn(s).packets \o l.out \in Seq(Framed)
      BY <1>1, ConcatProperties DEF Leftover
    <3>2. QED
      BY <3>1 DEF Leftover
  <2>2. ASSUME NEW x \in D \X Leftover PROVE step[x] \in Leftover
    <3>1. x[1] \in D /\ x[2] \in Leftover
      BY <2>2
    <3>2. QED
      BY <2>1, <3>1
  <2> HIDE DEF D
  <2>3. QED
    BY <2>2
<1>6. \E g \in [D -> Leftover] :
          \A s \in D : g[s] = IF s \in more THEN step[<<s, g[rest[s]]>>] ELSE base[s]
  <2> HIDE DEF D, more, rest, measure, base, step
  <2>1. \A s \in more : measure[rest[s]] < measure[s]
    BY <1>3
  <2>2. measure \in [D -> Nat]
    BY <1>3
  <2>3. more \in SUBSET D /\ rest \in [more -> D]
    BY <1>2
  <2>4. QED
    <3>1. Recursive(D, Leftover, more, measure, rest, base, step)
      BY <1>4, <1>5, <2>1, <2>2, <2>3 DEF Recursive
    <3>2. QED
      BY <3>1, Recursion
<1> DEFINE Body(g) == [s \in Seq(Nat) |->
                          IF Turn(s).next = "on"
                          THEN [g[Turn(s).rest] EXCEPT !.out = Turn(s).packets \o @]
                          ELSE [buffer |-> Turn(s).rest, out |-> <<>>, dead |-> Turn(s).next = "stop"]]
<1>7. \E g : g = Body(g)
  <2>1. PICK g \in [D -> Leftover] :
            \A s \in D : g[s] = IF s \in more THEN step[<<s, g[rest[s]]>>] ELSE base[s]
    BY <1>6
  <2>2. ASSUME NEW s \in D
        PROVE g[s] = IF Turn(s).next = "on"
                     THEN [g[Turn(s).rest] EXCEPT !.out = Turn(s).packets \o @]
                     ELSE [buffer |-> Turn(s).rest, out |-> <<>>, dead |-> Turn(s).next = "stop"]
    <3>1. CASE s \in more
      <4>1. rest[s] = Turn(s).rest /\ rest[s] \in D
        BY <1>1, <3>1
      <4>2. g[s] = step[<<s, g[rest[s]]>>] /\ <<s, g[rest[s]]>> \in D \X Leftover
        BY <2>1, <3>1, <4>1
      <4>3. step[<<s, g[rest[s]]>>] = [g[rest[s]] EXCEPT !.out = Turn(s).packets \o @]
        BY <4>2
      <4>4. QED
        BY <3>1, <4>1, <4>2, <4>3
    <3>2. CASE s \notin more
      <4>1. g[s] = base[s] /\ Turn(s).next # "on"
        BY <2>1, <3>2
      <4>2. QED
        BY <4>1
    <3>3. QED
      BY <3>1, <3>2
  <2>3. g = Body(g)
    <3>1. g = [s \in D |-> g[s]]
      BY <2>1
    <3>2. QED
      BY <2>2, <3>1
  <2>4. QED
    <3> HIDE DEF Body
    <3> QED BY <2>3
<1>8. Drained = CHOOSE g : g = Body(g)
  BY DEF Drained
<1>9. Drained = Body(Drained)
  <2> HIDE DEF Body
  <2> QED BY <1>7, <1>8
<1>10. QED
  <2>1. \A s \in Seq(Nat) : Body(Drained)[s] =
            IF Turn(s).next = "on"
            THEN [Drained[Turn(s).rest] EXCEPT !.out = Turn(s).packets \o @]
            ELSE [buffer |-> Turn(s).rest, out |-> <<>>, dead |-> Turn(s).next = "stop"]
    OBVIOUS
  <2> HIDE DEF Body
  <2>2. QED
    BY <1>9, <2>1

\* What it leaves of any buffer.
LEMMA DrainedType == \A s \in Seq(Nat) : Drained[s] \in Leftover
<1> DEFINE T == {n \in Nat : \E s \in Seq(Nat) : Len(s) = n /\ Drained[s] \notin Leftover}
<1>1. SUFFICES ASSUME T # {} PROVE FALSE
  BY LenProperties
<1>2. PICK n \in T : \A m \in T : n <= m
  <2> T \in SUBSET Nat
    OBVIOUS
  <2> HIDE DEF T
  <2> QED BY <1>1, Least
<1>3. PICK s \in Seq(Nat) : Len(s) = n /\ Drained[s] \notin Leftover
  OBVIOUS
<1>4. /\ Turn(s).rest \in Seq(Nat) /\ Turn(s).packets \in Seq(Framed)
      /\ Turn(s).next = "on" => Len(Turn(s).rest) < Len(s)
  BY TurnIs
<1>5. CASE Turn(s).next = "on"
  <2> DEFINE r == Turn(s).rest
  <2>1. Len(r) \in Nat /\ Len(r) < n /\ n \in Nat
    BY <1>3, <1>4, <1>5, LenProperties
  <2>2. Len(r) \notin T
    BY <1>2, <2>1
  <2>3. Drained[r] \in Leftover
    BY <1>4, <2>1, <2>2
  <2>4. Turn(s).packets \o Drained[r].out \in Seq(Framed)
    BY <1>4, <2>3, ConcatProperties DEF Leftover
  <2>5. [Drained[r] EXCEPT !.out = Turn(s).packets \o @] \in Leftover
    BY <2>3, <2>4 DEF Leftover
  <2>6. QED
    BY <1>3, <1>5, <2>5, DrainedIs
<1>6. CASE Turn(s).next # "on"
  <2>1. <<>> \in Seq(Framed) /\ (Turn(s).next = "stop") \in BOOLEAN
    BY EmptySeq
  <2>2. [buffer |-> Turn(s).rest, out |-> <<>>, dead |-> Turn(s).next = "stop"] \in Leftover
    BY <1>4, <2>1 DEF Leftover
  <2>3. QED
    BY <1>3, <1>6, <2>2, DrainedIs
<1>7. QED
  BY <1>5, <1>6

\* A change of what is handed on changes nothing else.
LEMMA LeftIs ==
    ASSUME NEW l \in Leftover, NEW x
    PROVE [l EXCEPT !.out = x] = [buffer |-> l.buffer, out |-> x, dead |-> l.dead]
BY DEF Leftover

\* Draining again, when more bytes have come, what was left, is as if they had all
\* come at once.
LEMMA DrainedMore ==
    \A s, t \in Seq(Nat) :
        ~Drained[s].dead =>
            Drained[s \o t] = [Drained[Drained[s].buffer \o t] EXCEPT !.out = Drained[s].out \o @]
<1> DEFINE Same(s, t) ==
        ~Drained[s].dead =>
            Drained[s \o t] = [Drained[Drained[s].buffer \o t] EXCEPT !.out = Drained[s].out \o @]
           T == {n \in Nat : \E s, t \in Seq(Nat) : Len(s) = n /\ ~Same(s, t)}
<1>1. SUFFICES ASSUME T # {} PROVE FALSE
  <2> HIDE DEF Same
  <2>1. SUFFICES \A s, t \in Seq(Nat) : Same(s, t)
    BY DEF Same
  <2>2. \A s \in Seq(Nat) : Len(s) \in Nat
    BY LenProperties
  <2>3. QED
    BY <2>2
<1>2. PICK n \in T : \A m \in T : n <= m
  <2> T \in SUBSET Nat
    OBVIOUS
  <2> HIDE DEF T
  <2> QED BY <1>1, Least
<1>3. PICK s \in Seq(Nat), t \in Seq(Nat) : Len(s) = n /\ ~Same(s, t)
  <2> HIDE DEF Same
  <2> QED OBVIOUS
<1> DEFINE r == Turn(s).rest
           p == Turn(s).packets
           u == s \o t
<1>4. /\ r \in Seq(Nat) /\ p \in Seq(Framed) /\ Turn(s).next \in {"wait", "stop", "on"}
      /\ Turn(s).next = "on" => Len(r) < Len(s)
      /\ Turn(s).next # "wait" => Turn(u).rest = r \o t /\ Turn(u).packets = p /\ Turn(u).next = Turn(s).next
      /\ Turn(s).next = "wait" => Turn(u) = Turn(r \o t)
  BY TurnIs
<1>5. u \in Seq(Nat) /\ r \o t \in Seq(Nat)
  BY <1>4, ConcatProperties
<1>6. ~Drained[s].dead /\ Drained[u] # [Drained[Drained[s].buffer \o t] EXCEPT !.out = Drained[s].out \o @]
  BY <1>3
<1>7. Drained[s] \in Leftover /\ Drained[u] \in Leftover /\ Drained[r \o t] \in Leftover /\ Drained[r] \in Leftover
  BY <1>4, <1>5, DrainedType
<1> HIDE DEF u
<1>8. CASE Turn(s).next = "wait"
  <2>1. Drained[s] = [buffer |-> r, out |-> <<>>, dead |-> FALSE]
    BY <1>8, DrainedIs
  <2> DEFINE w == r \o t
  <2>2. Turn(u) = Turn(w) /\ w \in Seq(Nat)
    BY <1>4, <1>5, <1>8
  <2> HIDE DEF w
  <2>3. Drained[u] = Drained[w]
    <3>1. CASE Turn(w).next = "on"
      <4>1. Drained[w] = [Drained[Turn(w).rest] EXCEPT !.out = Turn(w).packets \o @]
        BY <2>2, <3>1, DrainedIs
      <4>2. Drained[u] = [Drained[Turn(u).rest] EXCEPT !.out = Turn(u).packets \o @]
        BY <1>5, <2>2, <3>1, DrainedIs
      <4>3. QED
        BY <2>2, <4>1, <4>2
    <3>2. CASE Turn(w).next # "on"
      <4>1. Drained[w] = [buffer |-> Turn(w).rest, out |-> <<>>, dead |-> Turn(w).next = "stop"]
        BY <2>2, <3>2, DrainedIs
      <4>2. Drained[u] = [buffer |-> Turn(u).rest, out |-> <<>>, dead |-> Turn(u).next = "stop"]
        BY <1>5, <2>2, <3>2, DrainedIs
      <4>3. QED
        BY <2>2, <4>1, <4>2
    <3>3. QED
      BY <3>1, <3>2
  <2>4. Drained[w] \in Leftover
    BY <1>7 DEF w
  <2>5. <<>> \o Drained[w].out = Drained[w].out
    BY <2>4, ConcatEmptySeq DEF Leftover
  <2>6. [Drained[w] EXCEPT !.out = <<>> \o @] = Drained[w]
    BY <2>4, <2>5 DEF Leftover
  <2>7. Drained[s].buffer = r /\ Drained[s].out = <<>>
    BY <2>1
  <2>8. QED
    BY <1>6, <2>3, <2>6, <2>7 DEF w
<1>9. CASE Turn(s).next = "on"
  <2>1. Drained[s] = [Drained[r] EXCEPT !.out = p \o @]
    BY <1>9, DrainedIs
  <2>2. Drained[u] = [Drained[r \o t] EXCEPT !.out = p \o @]
    BY <1>4, <1>5, <1>9, DrainedIs
  <2>3. Len(r) \notin T
    <3>1. Len(r) \in Nat /\ Len(r) < n /\ n \in Nat
      BY <1>3, <1>4, <1>9, LenProperties
    <3> HIDE DEF T, r
    <3>2. QED
      BY <1>2, <3>1
  <2>4. Same(r, t)
    <3> HIDE DEF Same
    <3> QED BY <1>4, <2>3, LenProperties
  <2> DEFINE d == Drained[r]
             e == Drained[d.buffer \o t]
  <2>5. /\ Drained[s].buffer = d.buffer /\ Drained[s].out = p \o d.out /\ Drained[s].dead = d.dead
        /\ d.buffer \in Seq(Nat) /\ d.out \in Seq(Framed)
    BY <1>7, <2>1 DEF Leftover
  <2>6. Drained[r \o t] = [e EXCEPT !.out = d.out \o @]
    BY <1>6, <2>4, <2>5
  <2>7. e \in Leftover
    BY <2>5, ConcatProperties, DrainedType
  <2> HIDE DEF d, e, p, Same, T
  <2>8. (p \o d.out) \o e.out = p \o (d.out \o e.out)
    <3>1. p \in Seq(Framed) /\ d.out \in Seq(Framed) /\ e.out \in Seq(Framed)
      BY <1>4, <2>5, <2>7 DEF Leftover
    <3>2. \A a, b, c \in Seq(Framed) : (a \o b) \o c = a \o (b \o c)
      BY ConcatAssociative
    <3>3. QED
      BY <3>1, <3>2, Zenon
  <2>9. Drained[u] = [e EXCEPT !.out = (p \o d.out) \o @]
    <3>1. Drained[r \o t].out = d.out \o e.out
      BY <2>6, <2>7 DEF Leftover
    <3>2. Drained[u] = [buffer |-> e.buffer, out |-> p \o (d.out \o e.out), dead |-> e.dead]
      BY <1>7, <2>2, <2>6, <2>7, <3>1 DEF Leftover
    <3>3. [e EXCEPT !.out = (p \o d.out) \o @] = [buffer |-> e.buffer, out |-> (p \o d.out) \o e.out, dead |-> e.dead]
      BY <2>7, LeftIs
    <3>4. QED
      BY <2>8, <3>2, <3>3
  <2>10. Drained[Drained[s].buffer \o t] = e
    BY <2>5 DEF e
  <2>11. QED
    BY <1>6, <2>5, <2>9, <2>10
<1>10. CASE Turn(s).next = "stop"
  <2>1. Drained[s] = [buffer |-> r, out |-> <<>>, dead |-> TRUE]
    BY <1>10, DrainedIs
  <2>2. QED
    BY <1>6, <2>1
<1>11. QED
  BY <1>4, <1>8, <1>9, <1>10

\* The inductive invariant of the reader: nothing but its property and where it is.
LineIInv ==
    /\ line \in Seq(Nat)
    /\ read \in 0 .. Len(line)
    /\ CutsTrue

\* Nothing is kept of nothing.
LEMMA DrainedNothing == Drained[<<>>] = [buffer |-> <<>>, out |-> <<>>, dead |-> FALSE]
<1>1. <<>> \in Seq(Nat) /\ Len(<<>>) = 0
  BY EmptySeq
<1>2. Turn(<<>>) = [rest |-> <<>>, packets |-> <<>>, next |-> "wait"]
  <2>1. MagicAt(<<>>) = {}
    BY <1>1 DEF MagicAt
  <2>2. FindMagic(<<>>) = 0
    BY <1>1, <2>1, FindMagicIs
  <2>3. QED
    BY <2>2 DEF Turn
<1>3. QED
  <2>1. Drained[<<>>] = [buffer |-> Turn(<<>>).rest, out |-> <<>>, dead |-> Turn(<<>>).next = "stop"]
    <3>1. Turn(<<>>).next # "on"
      BY <1>2
    <3>2. QED
      BY <1>1, <3>1, DrainedIs
  <2>2. Turn(<<>>).rest = <<>> /\ Turn(<<>>).next = "wait"
    BY <1>2
  <2>3. ("wait" = "stop") = FALSE
    OBVIOUS
  <2>4. QED
    BY <2>1, <2>2, <2>3

\* The reader's invariant holds before a byte has come.
LEMMA LineFacts == LinesAssumption /\ LineInit => LineIInv
<1> SUFFICES ASSUME LinesAssumption, LineInit PROVE LineIInv
  OBVIOUS
<1>1. line \in Seq(Nat)
  <2>1. line \in Seq(0 .. 255) /\ 0 .. 255 \subseteq Nat
    BY DEF LinesAssumption, LineInit
  <2>2. QED
    BY <2>1, SeqMonotonic
<1>2. read = 0 /\ read \in 0 .. Len(line)
  BY <1>1, LenProperties DEF LineInit
<1>3. SubSeq(line, 1, 0) = <<>>
  BY SubSeqEmpty
<1>4. CutsTrue
  BY <1>2, <1>3, DrainedNothing DEF LineInit, CutsTrue
<1>5. QED
  BY <1>1, <1>2, <1>4 DEF LineIInv

\* However many bytes a read returns, the invariant is kept.
LEMMA LineStep == LineIInv /\ [Arrive]_lineVars => LineIInv'
<1> SUFFICES ASSUME LineIInv, [Arrive]_lineVars PROVE LineIInv'
  OBVIOUS
<1>1. CASE UNCHANGED lineVars
  BY <1>1 DEF LineIInv, CutsTrue, lineVars
<1>2. CASE Arrive
  <2> DEFINE s == SubSeq(line, 1, read)
  <2>1. PICK n \in read + 1 .. Len(line) :
            LET d == Drained[buffer \o SubSeq(line, read + 1, n)] IN
            /\ read' = n
            /\ buffer' = d.buffer /\ out' = out \o d.out /\ stopped' = d.dead
    BY <1>2 DEF Arrive
  <2> DEFINE t == SubSeq(line, read + 1, n)
             e == Drained[buffer \o t]
  <2>2. ~stopped /\ line' = line /\ read' = n /\ buffer' = e.buffer /\ out' = out \o e.out /\ stopped' = e.dead
    BY <1>2, <2>1 DEF Arrive
  <2>3. /\ line \in Seq(Nat) /\ Len(line) \in Nat /\ read \in 0 .. Len(line) /\ n \in 1 .. Len(line)
        /\ \A i \in 1 .. Len(line) : line[i] \in Nat
    BY LenProperties, ElementOfSeq DEF LineIInv
  <2>4. s \in Seq(Nat) /\ t \in Seq(Nat)
    <3>1. 1 \in Int /\ read \in Int /\ read + 1 \in Int /\ n \in Int
      BY <2>3
    <3>2. \A i \in 1 .. read : line[i] \in Nat
      BY <2>3
    <3>3. \A i \in read + 1 .. n : line[i] \in Nat
      BY <2>3
    <3>4. QED
      BY <3>1, <3>2, <3>3, SubSeqProperties
  <2>5. s \o t = SubSeq(line, 1, n)
    <3>1. 1 \in 1 .. Len(line) + 1 /\ read \in 1 - 1 .. Len(line) /\ n \in read .. Len(line)
      BY <2>3
    <3>2. QED
      BY <2>3, <3>1, ConcatAdjacentSubSeq
  <2>6. Drained[s] = [buffer |-> buffer, out |-> out, dead |-> stopped]
    BY DEF LineIInv, CutsTrue
  <2> HIDE DEF s, t
  <2>7. Drained[s].buffer = buffer /\ Drained[s].out = out /\ ~Drained[s].dead
    BY <2>2, <2>6
  <2>8. Drained[s \o t] = [e EXCEPT !.out = out \o @]
    BY <2>4, <2>7, DrainedMore
  <2>9. e \in Leftover
    <3>1. Drained[s] \in Leftover
      BY <2>4, DrainedType
    <3>2. buffer \in Seq(Nat)
      BY <2>7, <3>1 DEF Leftover
    <3>3. buffer \o t \in Seq(Nat)
      BY <2>4, <3>2, ConcatProperties
    <3>4. QED
      BY <3>3, DrainedType
  <2> HIDE DEF e
  <2>10. Drained[SubSeq(line, 1, n)] = [buffer |-> e.buffer, out |-> out \o e.out, dead |-> e.dead]
    BY <2>5, <2>8, <2>9, LeftIs
  <2>11. CutsTrue'
    BY <2>2, <2>10 DEF CutsTrue
  <2>12. QED
    BY <2>2, <2>3, <2>11 DEF LineIInv
<1>3. QED
  BY <1>1, <1>2

\* However a line's bytes are cut into reads, the reader's buffer, the packets it has
\* handed on and whether it has stopped are what one read of them all would have left:
\* a packet that comes in two reads is neither lost nor read twice (the reader loop of
\* Engine::start with Packet::parse), for any bytes, damaged or not.
THEOREM CutsDoNotMatter == LineSpec => []CutsTrue
<1>1. LineInit => LineIInv
  BY LineFacts, LinesAssumption
<1>2. LineIInv /\ [Arrive]_lineVars => LineIInv'
  BY LineStep
<1>3. LineIInv => CutsTrue
  BY DEF LineIInv
<1>4. QED
  BY <1>1, <1>2, <1>3, PTL DEF LineSpec

\* The sum of bytes is a number, for any bytes.
LEMMA TotalIs == \A s \in Seq(Nat) : Total[s] \in Nat
<1> DEFINE D == Seq(Nat)
           more == {s \in D : s # <<>>}
           rest == [s \in more |-> Tail(s)]
           measure == [s \in D |-> Len(s)]
           base == [s \in D |-> 0]
           step == [x \in D \X Nat |-> IF x[1] \in more THEN Head(x[1]) + x[2] ELSE 0]
<1>1. \A s \in more : Tail(s) \in D /\ Head(s) \in Nat /\ Len(Tail(s)) = Len(s) - 1 /\ Len(s) \in Nat
  BY HeadTailProperties, LenProperties
<1>2. Recursive(D, Nat, more, measure, rest, base, step)
  <2>1. more \in SUBSET D /\ rest \in [more -> D]
    BY <1>1
  <2>2. measure \in [D -> Nat] /\ base \in [D -> Nat]
    BY LenProperties
  <2>3. \A s \in more : measure[rest[s]] < measure[s]
    BY <1>1
  <2>4. step \in [D \X Nat -> Nat]
    <3>1. ASSUME NEW x \in D \X Nat PROVE step[x] \in Nat
      <4>1. x[1] \in D /\ x[2] \in Nat
        BY <3>1
      <4>2. x[1] \in more => Head(x[1]) \in Nat
        BY <1>1
      <4> HIDE DEF D, more
      <4>3. QED
        BY <4>1, <4>2
    <3> HIDE DEF D, more
    <3>2. QED
      BY <3>1
  <2> HIDE DEF D, more, rest, measure, base, step
  <2>5. QED
    BY <2>1, <2>2, <2>3, <2>4 DEF Recursive
<1>3. PICK g \in [D -> Nat] :
          \A s \in D : g[s] = IF s \in more THEN step[<<s, g[rest[s]]>>] ELSE base[s]
  <2> HIDE DEF D, more, rest, measure, base, step
  <2> QED BY <1>2, Recursion
<1> DEFINE Body(h) == [s \in Seq(Nat) |-> IF s = <<>> THEN 0 ELSE Head(s) + h[Tail(s)]]
<1>4. g = Body(g)
  <2>1. ASSUME NEW s \in D PROVE g[s] = IF s = <<>> THEN 0 ELSE Head(s) + g[Tail(s)]
    <3>1. CASE s = <<>>
      BY <1>3, <3>1
    <3>2. CASE s # <<>>
      <4>1. s \in more /\ rest[s] = Tail(s) /\ Tail(s) \in D
        BY <1>1, <3>2
      <4>2. g[s] = step[<<s, g[rest[s]]>>] /\ <<s, g[rest[s]]>> \in D \X Nat
        BY <1>3, <4>1
      <4>3. step[<<s, g[rest[s]]>>] = Head(s) + g[rest[s]]
        BY <4>1, <4>2
      <4>4. QED
        BY <3>2, <4>1, <4>2, <4>3
    <3>3. QED
      BY <3>1, <3>2
  <2>2. g = [s \in D |-> g[s]]
    BY <1>3
  <2>3. QED
    BY <2>1, <2>2
<1>5. Total = CHOOSE h : h = Body(h)
  BY DEF Total
<1>6. Total = Body(Total)
  <2> HIDE DEF Body
  <2> QED BY <1>4, <1>5
<1>7. \A s \in Seq(Nat) : Total[s] = IF s = <<>> THEN 0 ELSE Head(s) + Total[Tail(s)]
  <2>1. \A s \in Seq(Nat) : Body(Total)[s] = IF s = <<>> THEN 0 ELSE Head(s) + Total[Tail(s)]
    OBVIOUS
  <2> HIDE DEF Body
  <2>2. QED
    BY <1>6, <2>1
<1> DEFINE T == {n \in Nat : \E s \in Seq(Nat) : Len(s) = n /\ Total[s] \notin Nat}
<1>8. SUFFICES ASSUME T # {} PROVE FALSE
  BY LenProperties
<1>9. PICK n \in T : \A m \in T : n <= m
  <2> T \in SUBSET Nat
    OBVIOUS
  <2> HIDE DEF T
  <2> QED BY <1>8, Least
<1>10. PICK s \in Seq(Nat) : Len(s) = n /\ Total[s] \notin Nat
  OBVIOUS
<1>11. s # <<>> /\ Total[s] = Head(s) + Total[Tail(s)]
  BY <1>7, <1>10
<1>12. /\ n \in Nat /\ Tail(s) \in Seq(Nat) /\ Head(s) \in Nat /\ Len(Tail(s)) \in Nat /\ Len(Tail(s)) < n
  BY <1>10, <1>11, HeadTailProperties, LenProperties
<1>13. Len(Tail(s)) \notin T
  <2> HIDE DEF T
  <2> QED BY <1>9, <1>12
<1>14. Total[Tail(s)] \in Nat
  BY <1>12, <1>13
<1>15. QED
  BY <1>10, <1>11, <1>12, <1>14

\* What a checksum is, and what is sealed with one.
LEMMA SealedIs ==
    ASSUME NEW b \in Seq(Nat)
    PROVE  /\ Sealed(b) \in Seq(Nat) /\ Len(Sealed(b)) = Len(b) + 2 /\ Len(b) \in Nat
           /\ \A i \in 1 .. Len(b) : Sealed(b)[i] = b[i]
           /\ Len(b) > 0 => Matches(Sealed(b), Len(b) + 2)
<1> DEFINE c == Checksum(b)
           e == <<c \div 256, c % 256>>
           x == b \o e
           n == Len(b)
<1>1. c \in Nat
  BY TotalIs DEF Checksum
<1> HIDE DEF c
<1>2. e \in Seq(Nat) /\ Len(e) = 2 /\ e[1] = c \div 256 /\ e[2] = c % 256
  BY <1>1
<1>3. (c \div 256) * 256 + (c % 256) = c
  BY <1>1
<1> HIDE DEF e
<1>4. /\ x \in Seq(Nat) /\ Len(x) = Len(b) + 2 /\ Len(b) \in Nat
      /\ \A i \in 1 .. Len(b) + 2 : x[i] = IF i <= Len(b) THEN b[i] ELSE e[i - Len(b)]
  <2>1. /\ x \in Seq(Nat) /\ Len(x) = Len(b) + Len(e)
        /\ \A i \in 1 .. Len(b) + Len(e) : x[i] = IF i <= Len(b) THEN b[i] ELSE e[i - Len(b)]
    BY <1>2, ConcatProperties
  <2> HIDE DEF x
  <2>2. QED
    BY <1>2, <2>1, LenProperties
<1> HIDE DEF x
<1>5. \A i \in 1 .. Len(b) : x[i] = b[i]
  <2>1. \A i \in 1 .. Len(b) : i \in 1 .. Len(b) + 2 /\ i <= Len(b)
    BY <1>4
  <2>2. QED
    BY <1>4, <2>1
<1>6. x[n + 1] = c \div 256 /\ x[n + 2] = c % 256
  <2>1. /\ n + 1 \in 1 .. n + 2 /\ n + 2 \in 1 .. n + 2 /\ ~(n + 1 <= n) /\ ~(n + 2 <= n)
        /\ n + 1 - n = 1 /\ n + 2 - n = 2
    BY <1>4
  <2>2. QED
    BY <1>2, <1>4, <2>1
<1>7. n > 0 => SubSeq(x, 1, n) = b
  <2>1. n > 0 => 1 \in 1 .. Len(b) /\ n \in 1 .. Len(b)
    BY <1>4
  <2>2. n > 0 => SubSeq(x, 1, n) = SubSeq(b, 1, n)
    BY <1>2, <2>1, SubSeqOfConcat1 DEF x
  <2>3. SubSeq(b, 1, n) = b
    BY SubSeqFull
  <2>4. QED
    BY <2>2, <2>3
<1>8. Sealed(b) = x
  BY DEF Sealed, c, e, x
<1>9. n > 0 => Matches(x, n + 2)
  <2>1. n + 2 - 1 = n + 1 /\ n + 2 - 2 = n
    BY <1>4
  <2>2. n > 0 => (Matches(x, n + 2) <=> Word(x[n + 1], x[n + 2]) = Checksum(b))
    <3>1. Matches(x, n + 2) <=> Word(x[n + 2 - 1], x[n + 2]) = Checksum(SubSeq(x, 1, n + 2 - 2))
      BY DEF Matches
    <3>2. Matches(x, n + 2) <=> Word(x[n + 1], x[n + 2]) = Checksum(SubSeq(x, 1, n))
      BY <2>1, <3>1
    <3>3. QED
      BY <1>7, <3>2
  <2>3. Word(x[n + 1], x[n + 2]) = c
    BY <1>3, <1>6 DEF Word
  <2>4. QED
    BY <2>2, <2>3 DEF c
<1>10. QED
  BY <1>4, <1>5, <1>8, <1>9

\* The payload is what is behind the five bytes of the header.
LEMMA PayloadIs ==
    ASSUME NEW x \in Seq(Nat), NEW k \in Nat, Len(x) >= k + 5
    PROVE  LET y == SubSeq(x, 6, k + 5) IN
           y \in Seq(Nat) /\ Len(y) = k /\ \A i \in 1 .. k : y[i] = x[5 + i]
<1> DEFINE m == k + 5
           y == SubSeq(x, 6, m)
<1>1. Len(x) \in Nat /\ \A i \in 1 .. Len(x) : x[i] \in Nat
  BY LenProperties, ElementOfSeq
<1>2. 6 \in Int /\ m \in Int /\ \A i \in 6 .. m : x[i] \in Nat
  BY <1>1
<1>3. m = k + 5
  OBVIOUS
<1> HIDE DEF m
<1>4. /\ y \in Seq(Nat) /\ Len(y) = IF 6 <= m THEN m - 6 + 1 ELSE 0
      /\ \A i \in 1 .. m - 6 + 1 : y[i] = x[6 + i - 1]
  BY <1>2, SubSeqProperties
<1> HIDE DEF y
<1>5. Len(y) = k
  BY <1>3, <1>4
<1>6. \A i \in 1 .. k : i \in 1 .. m - 6 + 1 /\ 6 + i - 1 = 5 + i
  BY <1>3
<1>7. \A i \in 1 .. k : y[i] = x[5 + i]
  BY <1>4, <1>6
<1>8. QED
  BY <1>4, <1>5, <1>7 DEF y, m

\* A packet's own bytes are read as that packet, whole (Packet::parse undoes
\* Packet::to_bytes).
LEMMA RoundTrip ==
    ASSUME NEW p \in Frames
    PROVE  /\ ToBytes(p) \in Seq(Nat) /\ Len(ToBytes(p)) \in Nat /\ Len(ToBytes(p)) > 0
           /\ FindMagic(ToBytes(p)) = 1 /\ Parse(ToBytes(p)) = "packet"
           /\ Size(ToBytes(p)) = Len(ToBytes(p)) /\ PacketIn(ToBytes(p), Len(ToBytes(p))) = p
<1> DEFINE ack == <<170, 85, p.type, p.payload[1], p.id>>
           head == <<170, 85, p.type, Len(p.payload) + 3, p.id>>
           b == IF IsAck(p) THEN ack ELSE head \o p.payload
           k == Len(p.payload)
           x == ToBytes(p)
           n == Len(x)
<1>1. /\ p.type \in {Sync, Async} /\ p.id \in 0 .. 255 /\ p.payload \in Seq(0 .. 255)
      /\ p.type \in Nat /\ p.id \in Nat
      /\ p = [type |-> p.type, id |-> p.id, payload |-> p.payload]
  <2>1. p \in [type : {Sync, Async}, id : 0 .. 255, payload : Seq(0 .. 255)]
    BY DEF Frames
  <2>2. /\ p.type \in {Sync, Async} /\ p.id \in 0 .. 255 /\ p.payload \in Seq(0 .. 255)
        /\ p = [type |-> p.type, id |-> p.id, payload |-> p.payload]
    <3> DEFINE A == {Sync, Async}
               B == 0 .. 255
               C == Seq(0 .. 255)
    <3>1. p \in [type : A, id : B, payload : C]
      BY <2>1
    <3> HIDE DEF A, B, C
    <3>2. p.type \in A /\ p.id \in B /\ p.payload \in C
      BY <3>1
    <3>3. p = [type |-> p.type, id |-> p.id, payload |-> p.payload]
      BY <3>1
    <3>4. QED
      BY <3>2, <3>3 DEF A, B, C
  <2>3. Sync \in Nat /\ Async \in Nat
    BY DEF Sync, Async
  <2>4. p.type \in Nat /\ p.id \in Nat
    <3> DEFINE y == p.type
               z == p.id
    <3>1. y \in {Sync, Async} /\ z \in 0 .. 255
      BY <2>2
    <3> HIDE DEF y, z
    <3>2. y \in Nat /\ z \in Nat
      BY <2>3, <3>1
    <3>3. QED
      BY <3>2 DEF y, z
  <2>5. QED
    BY <2>2, <2>4, Zenon
<1>2. p.payload \in Seq(Nat) /\ k \in Nat
  <2> DEFINE q == p.payload
  <2>1. q \in Seq(0 .. 255) /\ 0 .. 255 \subseteq Nat
    BY <1>1
  <2> HIDE DEF q
  <2>2. q \in Seq(Nat) /\ Len(q) \in Nat
    BY <2>1, SeqMonotonic, LenProperties
  <2>3. QED
    BY <2>2 DEF q
<1>3. x = Sealed(b)
  BY DEF ToBytes
<1>4. /\ b \in Seq(Nat) /\ Len(b) >= 5 /\ b[1] = 170 /\ b[2] = 85 /\ b[3] = p.type /\ b[5] = p.id
      /\ IsAck(p) => k = 1 /\ Len(b) = 5 /\ b[4] = p.payload[1]
      /\ ~IsAck(p) => Len(b) = k + 5 /\ b[4] = k + 3 /\ \A i \in 1 .. k : b[5 + i] = p.payload[i]
  <2>1. CASE IsAck(p)
    <3>1. k = 1
      BY <2>1 DEF Frames
    <3>2. p.payload[1] \in Nat
      BY <1>2, <3>1, ElementOfSeq
    <3>3. b = ack
      BY <2>1
    <3> HIDE DEF b
    <3>4. QED
      BY <1>1, <2>1, <3>1, <3>2, <3>3
  <2>2. CASE ~IsAck(p)
    <3>1. head \in Seq(Nat) /\ Len(head) = 5
          /\ head[1] = 170 /\ head[2] = 85 /\ head[3] = p.type /\ head[4] = k + 3 /\ head[5] = p.id
      BY <1>1, <1>2
    <3> HIDE DEF head
    <3>2. /\ head \o p.payload \in Seq(Nat) /\ Len(head \o p.payload) = 5 + k
          /\ \A i \in 1 .. 5 + k : (head \o p.payload)[i] = IF i <= 5 THEN head[i] ELSE p.payload[i - 5]
      <4> DEFINE q == p.payload
      <4>1. q \in Seq(Nat)
        BY <1>2
      <4>2. /\ head \o q \in Seq(Nat) /\ Len(head \o q) = Len(head) + Len(q)
            /\ \A i \in 1 .. Len(head) + Len(q) :
                   (head \o q)[i] = IF i <= Len(head) THEN head[i] ELSE q[i - Len(head)]
        <5> HIDE DEF q
        <5>1. head \in Seq(Nat) /\ q \in Seq(Nat)
          BY <3>1, <4>1
        <5> QED BY <5>1, ConcatProperties
      <4>3. Len(q) = k
        OBVIOUS
      <4> HIDE DEF q, k
      <4>4. /\ head \o q \in Seq(Nat) /\ Len(head \o q) = 5 + k
            /\ \A i \in 1 .. 5 + k : (head \o q)[i] = IF i <= 5 THEN head[i] ELSE q[i - 5]
        BY <3>1, <4>2, <4>3
      <4>5. QED
        BY <4>4 DEF q
    <3>3. b = head \o p.payload
      BY <2>2 DEF head
    <3> HIDE DEF b
    <3>4. \A i \in 1 .. 5 : i \in 1 .. 5 + k /\ i <= 5
      BY <1>2
    <3>5. b[1] = 170 /\ b[2] = 85 /\ b[3] = p.type /\ b[4] = k + 3 /\ b[5] = p.id
      BY <3>1, <3>2, <3>3, <3>4
    <3>6. \A i \in 1 .. k : b[5 + i] = p.payload[i]
      <4>1. \A i \in 1 .. k : 5 + i \in 1 .. 5 + k /\ ~(5 + i <= 5) /\ 5 + i - 5 = i
        BY <1>2
      <4>2. QED
        BY <3>2, <3>3, <4>1
    <3>7. QED
      <4>1. b \in Seq(Nat) /\ Len(b) = k + 5 /\ Len(b) >= 5
        <5> HIDE DEF k
        <5> QED BY <1>2, <3>2, <3>3
      <4>2. QED
        BY <2>2, <3>5, <3>6, <4>1
  <2>3. QED
    BY <2>1, <2>2
<1> HIDE DEF b, k
<1>5. /\ x \in Seq(Nat) /\ n = Len(b) + 2 /\ Len(b) \in Nat /\ \A i \in 1 .. Len(b) : x[i] = b[i]
      /\ Matches(x, n)
  <2>1. Len(b) \in Nat /\ Len(b) > 0
    BY <1>4, LenProperties
  <2>2. QED
    BY <1>3, <1>4, <2>1, SealedIs
<1> HIDE DEF x
<1>6. x[1] = 170 /\ x[2] = 85 /\ x[3] = p.type /\ x[4] = b[4] /\ x[5] = p.id
  <2>1. \A i \in 1 .. 5 : i \in 1 .. Len(b)
    BY <1>4, <1>5
  <2>2. \A i \in 1 .. 5 : x[i] = b[i]
    BY <1>5, <2>1
  <2>3. b[1] = 170 /\ b[2] = 85 /\ b[3] = p.type /\ b[5] = p.id
    BY <1>4
  <2>4. 1 \in 1 .. 5 /\ 2 \in 1 .. 5 /\ 3 \in 1 .. 5 /\ 4 \in 1 .. 5 /\ 5 \in 1 .. 5
    OBVIOUS
  <2>5. QED
    BY <2>2, <2>3, <2>4
<1>7. Size(x) = n /\ n >= 7 /\ n \in Nat
  <2>1. CASE IsAck(p)
    <3>1. Size(x) = 7
      BY <1>6, <2>1 DEF Size, IsAck
    <3>2. n = 7
      <4>1. Len(b) = 5
        BY <1>4, <2>1
      <4>2. n = Len(b) + 2
        BY <1>5
      <4>3. QED
        BY <4>1, <4>2
    <3>3. QED
      BY <3>1, <3>2
  <2>2. CASE ~IsAck(p)
    <3>1. Size(x) = k + 3 + 4
      BY <1>4, <1>6, <2>2 DEF Size, IsAck
    <3>2. n = k + 5 + 2
      BY <1>4, <1>5, <2>2
    <3>3. QED
      BY <1>2, <3>1, <3>2
  <2>3. QED
    BY <2>1, <2>2
<1>8. Parse(x) = "packet"
  <2>1. ~(n < Shortest) /\ ~(n < Size(x)) /\ ~(Size(x) < 7) /\ x[3] \in {Sync, Async} /\ Matches(x, Size(x))
    BY <1>1, <1>5, <1>6, <1>7 DEF Shortest
  <2>2. QED
    BY <2>1 DEF Parse
<1>9. FindMagic(x) = 1
  <2>1. 1 \in 1 .. Len(x) - 1 /\ <<x[1], x[1 + 1]>> \in Magics
    BY <1>6, <1>7 DEF Magics
  <2>2. 1 \in MagicAt(x) /\ \A j \in MagicAt(x) : 1 <= j
    BY <1>7, <2>1 DEF MagicAt
  <2>3. QED
    BY <1>5, <2>2, FindMagicIs
<1>10. PacketIn(x, n) = p
  <2>1. CASE IsAck(p)
    <3>1. PacketIn(x, n) = [type |-> p.type, id |-> p.id, payload |-> <<p.payload[1]>>]
      BY <1>4, <1>6, <2>1 DEF PacketIn, IsAck
    <3>2. <<p.payload[1]>> = p.payload
      BY <1>2, <1>4, <2>1 DEF k
    <3>3. QED
      BY <1>1, <3>1, <3>2
  <2>2. CASE ~IsAck(p)
    <3> DEFINE y == SubSeq(x, 6, n - 2)
    <3>1. PacketIn(x, n) = [type |-> p.type, id |-> p.id, payload |-> y]
      BY <1>6, <2>2 DEF PacketIn, IsAck
    <3>2. n - 2 = k + 5 /\ n = k + 7 /\ k \in Nat /\ n \in Nat
      <4>1. Len(b) = k + 5 /\ n = Len(b) + 2
        BY <1>4, <1>5, <2>2
      <4>2. k \in Nat
        BY <1>2
      <4>3. QED
        BY <4>1, <4>2
    <3>3. /\ y \in Seq(Nat) /\ Len(y) = k /\ \A i \in 1 .. k : y[i] = x[5 + i]
      <4>1. x \in Seq(Nat) /\ Len(x) >= k + 5 /\ k \in Nat
        BY <1>5, <3>2
      <4>2. y = SubSeq(x, 6, k + 5)
        <5>1. n - 2 = k + 5
          BY <3>2
        <5>2. QED
          BY <5>1, Zenon
      <4> HIDE DEF y
      <4>3. QED
        BY <4>1, <4>2, PayloadIs
    <3> HIDE DEF y
    <3>4. \A i \in 1 .. k : x[5 + i] = p.payload[i]
      <4>1. \A i \in 1 .. k : 5 + i \in 1 .. Len(b)
        <5>1. Len(b) = k + 5 /\ k \in Nat
          BY <1>4, <2>2, <3>2
        <5>2. QED
          BY <5>1
      <4>2. QED
        BY <1>4, <1>5, <2>2, <4>1
    <3>5. y = p.payload
      BY <1>2, <3>3, <3>4, SeqEqual DEF k
    <3>6. QED
      BY <1>1, <3>1, <3>5
  <2>3. QED
    BY <2>1, <2>2
<1>11. QED
  BY <1>5, <1>7, <1>8, <1>9, <1>10 DEF x

\* A reader that has stopped stays stopped, whatever comes.
LEMMA DrainedDead == \A s, t \in Seq(Nat) : Drained[s].dead => Drained[s \o t].dead
<1> DEFINE Lasts(s, t) == Drained[s].dead => Drained[s \o t].dead
           T == {n \in Nat : \E s, t \in Seq(Nat) : Len(s) = n /\ ~Lasts(s, t)}
<1>1. SUFFICES ASSUME T # {} PROVE FALSE
  BY LenProperties
<1>2. PICK n \in T : \A m \in T : n <= m
  <2> T \in SUBSET Nat
    OBVIOUS
  <2> HIDE DEF T
  <2> QED BY <1>1, Least
<1>3. PICK s \in Seq(Nat), t \in Seq(Nat) : Len(s) = n /\ ~Lasts(s, t) /\ n \in Nat
  OBVIOUS
<1> DEFINE r == Turn(s).rest
           u == s \o t
<1>4. /\ r \in Seq(Nat) /\ Turn(s).next \in {"wait", "stop", "on"}
      /\ Turn(s).next = "on" => Len(r) < Len(s)
      /\ Turn(s).next # "wait" => Turn(u).rest = r \o t /\ Turn(u).next = Turn(s).next
  BY TurnIs
<1>5. u \in Seq(Nat) /\ r \o t \in Seq(Nat)
  BY <1>4, ConcatProperties
<1>6. Drained[s].dead /\ ~Drained[u].dead
  BY <1>3
<1>7. Drained[s] \in Leftover /\ Drained[u] \in Leftover /\ Drained[r \o t] \in Leftover /\ Drained[r] \in Leftover
  BY <1>4, <1>5, DrainedType
<1> HIDE DEF u, r
<1>8. CASE Turn(s).next = "wait"
  <2>1. Drained[s].dead = FALSE
    <3>1. Drained[s] = [buffer |-> Turn(s).rest, out |-> <<>>, dead |-> FALSE]
      BY <1>8, DrainedIs
    <3>2. QED
      BY <3>1
  <2>2. QED
    BY <1>6, <2>1
<1>9. CASE Turn(s).next = "stop"
  <2>1. Drained[u].dead = TRUE
    <3>1. Turn(u).next = "stop" /\ Turn(u).next # "on"
      BY <1>4, <1>9
    <3>2. Drained[u] = [buffer |-> Turn(u).rest, out |-> <<>>, dead |-> TRUE]
      BY <1>5, <3>1, DrainedIs
    <3>3. QED
      BY <3>2
  <2>2. QED
    BY <1>6, <2>1
<1>10. CASE Turn(s).next = "on"
  <2>1. Drained[s].dead = Drained[r].dead
    <3>1. Drained[s] = [Drained[r] EXCEPT !.out = Turn(s).packets \o @]
      BY <1>10, DrainedIs DEF r
    <3>2. QED
      BY <1>7, <3>1, LeftIs
  <2>2. Drained[u].dead = Drained[r \o t].dead
    <3>1. Drained[u] = [Drained[r \o t] EXCEPT !.out = Turn(u).packets \o @]
      <4>1. Turn(u).next = "on" /\ Turn(u).rest = r \o t
        BY <1>4, <1>10
      <4>2. Drained[u] = [Drained[Turn(u).rest] EXCEPT !.out = Turn(u).packets \o @]
        BY <1>5, <4>1, DrainedIs
      <4>3. QED
        BY <4>1, <4>2
    <3>2. QED
      BY <1>7, <3>1, LeftIs
  <2>3. Len(r) \in Nat /\ Len(r) < n
    BY <1>3, <1>4, <1>10, LenProperties
  <2>4. Len(r) \notin T
    <3> HIDE DEF T
    <3> QED BY <1>2, <1>3, <2>3
  <2>5. Lasts(r, t)
    <3> HIDE DEF Lasts
    <3> QED BY <1>4, <2>3, <2>4
  <2>6. QED
    BY <1>6, <2>1, <2>2, <2>5
<1>11. QED
  BY <1>4, <1>8, <1>9, <1>10

\* What packets are on the line is what its definition says.
LEMMA StreamIs ==
    \A ps \in Seq(Frames) :
        /\ ps = <<>> => Stream[ps] = <<>>
        /\ ps # <<>> => Stream[ps] = ToBytes(Head(ps)) \o Stream[Tail(ps)]
<1> DEFINE D == Seq(Frames)
           V == Seq(Nat)
           more == {s \in D : s # <<>>}
           rest == [s \in more |-> Tail(s)]
           measure == [s \in D |-> Len(s)]
           base == [s \in D |-> <<>>]
           step == [x \in D \X V |-> IF x[1] \in more THEN ToBytes(Head(x[1])) \o x[2] ELSE <<>>]
<1>1. \A s \in more : Tail(s) \in D /\ Head(s) \in Frames /\ Len(Tail(s)) = Len(s) - 1 /\ Len(s) \in Nat
  BY HeadTailProperties, LenProperties
<1>2. Recursive(D, V, more, measure, rest, base, step)
  <2>1. more \in SUBSET D /\ rest \in [more -> D]
    BY <1>1
  <2>2. measure \in [D -> Nat] /\ base \in [D -> V]
    BY LenProperties, EmptySeq
  <2>3. \A s \in more : measure[rest[s]] < measure[s]
    BY <1>1
  <2>4. step \in [D \X V -> V]
    <3>1. ASSUME NEW s \in D, NEW v \in V PROVE (IF s \in more THEN ToBytes(Head(s)) \o v ELSE <<>>) \in V
      <4>1. CASE s \in more
        <5>1. ToBytes(Head(s)) \in Seq(Nat)
          BY <1>1, <4>1, RoundTrip
        <5>2. QED
          BY <4>1, <5>1, ConcatProperties
      <4>2. CASE s \notin more
        BY <4>2, EmptySeq
      <4>3. QED
        BY <4>1, <4>2
    <3>2. ASSUME NEW x \in D \X V PROVE step[x] \in V
      <4>1. x[1] \in D /\ x[2] \in V
        BY <3>2
      <4> HIDE DEF D, V, more
      <4>2. QED
        BY <3>1, <4>1
    <3> HIDE DEF D, V, more
    <3>3. QED
      BY <3>2
  <2> HIDE DEF D, V, more, rest, measure, base, step
  <2>5. QED
    BY <2>1, <2>2, <2>3, <2>4 DEF Recursive
<1>3. PICK g \in [D -> V] :
          \A s \in D : g[s] = IF s \in more THEN step[<<s, g[rest[s]]>>] ELSE base[s]
  <2> HIDE DEF D, V, more, rest, measure, base, step
  <2> QED BY <1>2, Recursion
<1> DEFINE Body(h) == [ps \in Seq(Frames) |-> IF ps = <<>> THEN <<>> ELSE ToBytes(Head(ps)) \o h[Tail(ps)]]
<1>4. g = Body(g)
  <2>1. ASSUME NEW s \in D PROVE g[s] = IF s = <<>> THEN <<>> ELSE ToBytes(Head(s)) \o g[Tail(s)]
    <3>1. CASE s = <<>>
      BY <1>3, <3>1
    <3>2. CASE s # <<>>
      <4>1. s \in more /\ rest[s] = Tail(s) /\ Tail(s) \in D
        BY <1>1, <3>2
      <4>2. g[s] = step[<<s, g[rest[s]]>>] /\ <<s, g[rest[s]]>> \in D \X V
        BY <1>3, <4>1
      <4>3. step[<<s, g[rest[s]]>>] = ToBytes(Head(s)) \o g[rest[s]]
        BY <4>1, <4>2
      <4>4. QED
        BY <3>2, <4>1, <4>2, <4>3
    <3>3. QED
      BY <3>1, <3>2
  <2>2. g = [s \in D |-> g[s]]
    BY <1>3
  <2>3. QED
    BY <2>1, <2>2
<1>5. Stream = CHOOSE h : h = Body(h)
  BY DEF Stream
<1>6. Stream = Body(Stream)
  <2> HIDE DEF Body
  <2> QED BY <1>4, <1>5
<1>7. \A s \in Seq(Frames) : Body(Stream)[s] = IF s = <<>> THEN <<>> ELSE ToBytes(Head(s)) \o Stream[Tail(s)]
  OBVIOUS
<1>8. \A s \in Seq(Frames) : Stream[s] = IF s = <<>> THEN <<>> ELSE ToBytes(Head(s)) \o Stream[Tail(s)]
  <2> HIDE DEF Body
  <2> QED BY <1>6, <1>7
<1>9. QED
  BY <1>8

\* The first of a buffer's packets is handed on in one turn.
LEMMA PacketTurn ==
    ASSUME NEW p \in Frames, NEW t \in Seq(Nat)
    PROVE LET u == ToBytes(p) \o t IN
          /\ u \in Seq(Nat)
          /\ Turn(u).rest = t /\ Turn(u).packets = <<p>> /\ Turn(u).next = "on"
<1> DEFINE w == ToBytes(p)
<1>1. /\ w \in Seq(Nat) /\ Len(w) \in Nat /\ Len(w) > 0 /\ FindMagic(w) = 1 /\ Parse(w) = "packet"
      /\ Size(w) = Len(w) /\ PacketIn(w, Len(w)) = p
  BY RoundTrip
<1> HIDE DEF w
<1>2. After(w, 1 - 1) = w
  <2>1. 1 - 1 = 0 /\ 0 \in 0 .. Len(w)
    BY <1>1
  <2>2. After(w, 0) = w
    BY <1>1, <2>1, AfterIs
  <2>3. QED
    BY <2>1, <2>2
<1>3. After(w, Len(w)) = <<>>
  <2>1. Len(w) + 1 \in Int /\ Len(w) \in Int /\ Len(w) < Len(w) + 1
    BY <1>1
  <2>2. QED
    BY <2>1, SubSeqEmpty DEF After
<1>4. Turn(w) = [rest |-> <<>>, packets |-> <<p>>, next |-> "on"]
  BY <1>1, <1>2, <1>3 DEF Turn
<1>5. Turn(w \o t).rest = <<>> \o t /\ Turn(w \o t).packets = <<p>> /\ Turn(w \o t).next = "on"
  <2>1. Turn(w).next # "wait" /\ Turn(w).rest = <<>> /\ Turn(w).packets = <<p>> /\ Turn(w).next = "on"
    BY <1>4
  <2>2. QED
    BY <1>1, <2>1, TurnIs
<1>6. <<>> \o t = t /\ w \o t \in Seq(Nat)
  BY <1>1, ConcatEmptySeq, ConcatProperties
<1>7. QED
  BY <1>5, <1>6 DEF w

\* Intact packets leave nothing but themselves.
LEMMA DrainedStream ==
    \A ps \in Seq(Frames) :
        Stream[ps] \in Seq(Nat) /\ Drained[Stream[ps]] = [buffer |-> <<>>, out |-> ps, dead |-> FALSE]
<1> DEFINE Whole(ps) ==
        Stream[ps] \in Seq(Nat) /\ Drained[Stream[ps]] = [buffer |-> <<>>, out |-> ps, dead |-> FALSE]
           T == {n \in Nat : \E ps \in Seq(Frames) : Len(ps) = n /\ ~Whole(ps)}
<1>1. SUFFICES ASSUME T # {} PROVE FALSE
  <2> HIDE DEF Whole
  <2>1. SUFFICES \A ps \in Seq(Frames) : Whole(ps)
    BY DEF Whole
  <2>2. QED
    BY LenProperties
<1>2. PICK n \in T : \A m \in T : n <= m
  <2> T \in SUBSET Nat
    OBVIOUS
  <2> HIDE DEF T
  <2> QED BY <1>1, Least
<1>3. PICK ps \in Seq(Frames) : Len(ps) = n /\ ~Whole(ps) /\ n \in Nat
  <2> HIDE DEF Whole
  <2> QED OBVIOUS
<1>4. CASE ps = <<>>
  <2>1. Stream[ps] = <<>>
    BY <1>4, StreamIs
  <2>2. Whole(ps)
    BY <1>4, <2>1, DrainedNothing, EmptySeq
  <2>3. QED
    BY <1>3, <2>2
<1>5. CASE ps # <<>>
  <2> DEFINE p == Head(ps)
             qs == Tail(ps)
             v == Stream[qs]
             u == ToBytes(p) \o v
  <2>1. /\ p \in Frames /\ qs \in Seq(Frames) /\ Len(qs) = n - 1 /\ Len(qs) \in Nat
        /\ ps = <<p>> \o qs
    <3>1. p \in Frames /\ qs \in Seq(Frames) /\ Len(qs) = Len(ps) - 1
      BY <1>5, HeadTailProperties
    <3>2. Len(qs) \in Nat
      BY <3>1, LenProperties
    <3>3. ps = <<p>> \o qs
      <4>1. 1 \in 1 .. Len(ps) /\ Len(ps) \in 1 .. Len(ps) /\ Len(ps) \in Nat
        BY <1>5, EmptySeq
      <4>2. SubSeq(ps, 1, Len(ps)) = <<ps[1]>> \o SubSeq(ps, 1 + 1, Len(ps))
        BY <4>1, SubSeqRecursiveFirst
      <4>3. SubSeq(ps, 1, Len(ps)) = ps /\ SubSeq(ps, 2, Len(ps)) = qs /\ 1 + 1 = 2
        BY <1>5, SubSeqFull, TailIsSubSeq
      <4>4. Head(ps) = ps[1]
        BY <1>5
      <4>5. QED
        BY <4>2, <4>3, <4>4
    <3>4. QED
      BY <1>3, <3>1, <3>2, <3>3
  <2>2. Whole(qs)
    <3>1. Len(qs) \notin T
      <4> HIDE DEF T
      <4> QED BY <1>2, <1>3, <2>1
    <3> HIDE DEF Whole
    <3>2. QED
      BY <2>1, <3>1
  <2>3. Stream[ps] = u
    BY <1>5, StreamIs
  <2>4. v \in Seq(Nat) /\ Drained[v] = [buffer |-> <<>>, out |-> qs, dead |-> FALSE]
    BY <2>2
  <2>5. u \in Seq(Nat) /\ Turn(u).rest = v /\ Turn(u).packets = <<p>> /\ Turn(u).next = "on"
    BY <2>1, <2>4, PacketTurn
  <2> HIDE DEF u, v, p, qs
  <2>6. Drained[u] = [Drained[v] EXCEPT !.out = <<p>> \o @]
    BY <2>5, DrainedIs
  <2>7. Drained[u] = [buffer |-> <<>>, out |-> ps, dead |-> FALSE]
    <3>1. Drained[v] \in Leftover
      BY <2>4, DrainedType
    <3>2. Drained[u] = [buffer |-> Drained[v].buffer, out |-> <<p>> \o Drained[v].out, dead |-> Drained[v].dead]
      BY <2>6, <3>1, LeftIs
    <3>3. Drained[v].buffer = <<>> /\ Drained[v].out = qs /\ Drained[v].dead = FALSE
      BY <2>4
    <3>4. QED
      BY <2>1, <3>2, <3>3
  <2>8. QED
    BY <1>3, <2>3, <2>5, <2>7
<1>6. QED
  BY <1>4, <1>5

\* A sequence begins with the first of the two it is made of.
LEMMA Beginning ==
    ASSUME NEW S, NEW a \in Seq(S), NEW b \in Seq(S)
    PROVE  /\ Len(a) \in 0 .. Len(a \o b) /\ Len(a \o b) >= Len(a)
           /\ SubSeq(a \o b, 1, Len(a)) = a
<1>1. Len(a \o b) = Len(a) + Len(b) /\ Len(a) \in Nat /\ Len(b) \in Nat
  BY ConcatProperties, LenProperties
<1>2. CASE Len(a) = 0
  <2>1. a = <<>>
    BY <1>2, EmptySeq
  <2>2. SubSeq(a \o b, 1, 0) = <<>>
    BY SubSeqEmpty
  <2>3. QED
    BY <1>1, <1>2, <2>1, <2>2
<1>3. CASE Len(a) # 0
  <2>1. 1 \in 1 .. Len(a) /\ Len(a) \in 1 .. Len(a)
    BY <1>1, <1>3
  <2>2. SubSeq(a \o b, 1, Len(a)) = SubSeq(a, 1, Len(a))
    BY <2>1, SubSeqOfConcat1
  <2>3. QED
    BY <1>1, <2>2, SubSeqFull
<1>4. QED
  BY <1>2, <1>3

\* So does what is left when it is cut: a sequence is its first n and the others.
LEMMA CutAt ==
    ASSUME NEW S, NEW s \in Seq(S), NEW n \in 0 .. Len(s), NEW m \in n .. Len(s)
    PROVE  /\ SubSeq(s, 1, n) \in Seq(S) /\ SubSeq(s, n + 1, m) \in Seq(S)
           /\ Len(SubSeq(s, 1, n)) = n
           /\ SubSeq(s, 1, n) \o SubSeq(s, n + 1, m) = SubSeq(s, 1, m)
<1>1. Len(s) \in Nat /\ \A i \in 1 .. Len(s) : s[i] \in S
  BY LenProperties, ElementOfSeq
<1>2. 1 \in Int /\ n \in Int /\ n + 1 \in Int /\ m \in Int
  BY <1>1
<1>3. (\A i \in 1 .. n : s[i] \in S) /\ (\A i \in n + 1 .. m : s[i] \in S)
  BY <1>1
<1>4. SubSeq(s, 1, n) \in Seq(S) /\ Len(SubSeq(s, 1, n)) = (IF 1 <= n THEN n - 1 + 1 ELSE 0)
  BY <1>2, <1>3, SubSeqProperties
<1>5. SubSeq(s, n + 1, m) \in Seq(S)
  BY <1>2, <1>3, SubSeqProperties
<1>6. n \in 1 - 1 .. Len(s) /\ 1 \in 1 .. Len(s) + 1
  BY <1>1
<1>7. SubSeq(s, 1, n) \o SubSeq(s, n + 1, m) = SubSeq(s, 1, m)
  BY <1>6, ConcatAdjacentSubSeq
<1>8. Len(SubSeq(s, 1, n)) = n
  BY <1>1, <1>4
<1>9. QED
  BY <1>4, <1>5, <1>7, <1>8

\* Intact packets are handed on where the cuts do not matter.
LEMMA IntactFacts == LineIInv => IntactTrue
<1> SUFFICES ASSUME LineIInv, NEW ps \in Seq(Frames), NEW t \in Seq(0 .. 255), line = Stream[ps] \o t
             PROVE /\ read <= Len(Stream[ps]) => ~stopped /\ \E n \in 0 .. Len(ps) : out = SubSeq(ps, 1, n)
                   /\ read >= Len(Stream[ps]) => Len(out) >= Len(ps) /\ SubSeq(out, 1, Len(ps)) = ps
                   /\ read = Len(Stream[ps]) => buffer = <<>>
  BY DEF IntactTrue
<1> DEFINE w == Stream[ps]
           s == SubSeq(line, 1, read)
<1>1. w \in Seq(Nat) /\ Drained[w] = [buffer |-> <<>>, out |-> ps, dead |-> FALSE]
  BY DrainedStream
<1>2. t \in Seq(Nat)
  <2>1. 0 .. 255 \subseteq Nat
    OBVIOUS
  <2>2. QED
    BY <2>1, SeqMonotonic
<1> HIDE DEF w
<1>3. line = w \o t /\ line \in Seq(Nat) /\ read \in 0 .. Len(line)
  BY DEF LineIInv, w
<1>4. Len(line) = Len(w) + Len(t) /\ Len(w) \in Nat /\ Len(t) \in Nat
  BY <1>1, <1>2, <1>3, ConcatProperties, LenProperties
<1>5. Drained[s] = [buffer |-> buffer, out |-> out, dead |-> stopped]
  BY DEF LineIInv, CutsTrue
<1>6. SubSeq(line, 1, Len(w)) = w
  BY <1>1, <1>2, <1>3, Beginning
<1>7. s \in Seq(Nat)
  <2>1. read \in read .. Len(line)
    BY <1>3, <1>4
  <2>2. QED
    BY <1>3, <2>1, CutAt
<1>8. Drained[s] \in Leftover /\ Drained[w] \in Leftover
  BY <1>1, <1>7, DrainedType
<1>9. out \in Seq(Framed) /\ ps \in Seq(Framed)
  <2>1. Drained[s].out = out /\ Drained[w].out = ps
    BY <1>1, <1>5
  <2>2. QED
    BY <1>8, <2>1 DEF Leftover
<1>10. ASSUME read <= Len(w) PROVE ~stopped /\ \E n \in 0 .. Len(ps) : out = SubSeq(ps, 1, n)
  <2> DEFINE r == SubSeq(line, read + 1, Len(w))
  <2>1. Len(w) \in read .. Len(line)
    BY <1>3, <1>4, <1>10
  <2>2. r \in Seq(Nat) /\ s \o r = w
    <3> DEFINE k == Len(w)
    <3>1. line \in Seq(Nat) /\ read \in 0 .. Len(line) /\ k \in read .. Len(line)
      BY <1>3, <2>1
    <3> HIDE DEF k
    <3>2. /\ SubSeq(line, read + 1, k) \in Seq(Nat)
          /\ SubSeq(line, 1, read) \o SubSeq(line, read + 1, k) = SubSeq(line, 1, k)
      BY <3>1, CutAt
    <3>3. QED
      BY <1>6, <3>2 DEF k
  <2> HIDE DEF r, s
  <2>3. ~Drained[s].dead
    <3>1. Drained[w].dead = FALSE
      BY <1>1
    <3>2. QED
      BY <1>7, <2>2, <3>1, DrainedDead
  <2> DEFINE e == Drained[Drained[s].buffer \o r]
  <2>4. Drained[w] = [e EXCEPT !.out = Drained[s].out \o @]
    BY <1>7, <2>2, <2>3, DrainedMore
  <2>5. e \in Leftover
    <3>1. Drained[s].buffer \in Seq(Nat)
      BY <1>8 DEF Leftover
    <3>2. Drained[s].buffer \o r \in Seq(Nat)
      BY <2>2, <3>1, ConcatProperties
    <3>3. QED
      BY <3>2, DrainedType
  <2> HIDE DEF e
  <2>6. Drained[w].out = Drained[s].out \o e.out
    BY <2>4, <2>5, LeftIs
  <2>7. ps = out \o e.out /\ e.out \in Seq(Framed)
    <3>1. Drained[w].out = ps /\ Drained[s].out = out
      BY <1>1, <1>5
    <3>2. e.out \in Seq(Framed)
      BY <2>5 DEF Leftover
    <3>3. QED
      BY <2>6, <3>1, <3>2
  <2>8. Len(out) \in 0 .. Len(ps) /\ SubSeq(ps, 1, Len(out)) = out
    BY <1>9, <2>7, Beginning
  <2>9. ~stopped
    BY <1>5, <2>3
  <2>10. QED
    BY <2>8, <2>9
<1>11. ASSUME read >= Len(w) PROVE Len(out) >= Len(ps) /\ SubSeq(out, 1, Len(ps)) = ps
  <2> DEFINE q == SubSeq(line, Len(w) + 1, read)
  <2>1. Len(w) \in 0 .. Len(line) /\ read \in Len(w) .. Len(line)
    BY <1>3, <1>4, <1>11
  <2>2. q \in Seq(Nat) /\ w \o q = s
    <3> DEFINE k == Len(w)
    <3>1. line \in Seq(Nat) /\ k \in 0 .. Len(line) /\ read \in k .. Len(line)
      BY <1>3, <2>1
    <3> HIDE DEF k
    <3>2. /\ SubSeq(line, k + 1, read) \in Seq(Nat)
          /\ SubSeq(line, 1, k) \o SubSeq(line, k + 1, read) = SubSeq(line, 1, read)
      BY <3>1, CutAt
    <3>3. QED
      BY <1>6, <3>2 DEF k
  <2> HIDE DEF q, s
  <2>3. Drained[w].buffer = <<>> /\ Drained[w].out = ps /\ ~Drained[w].dead
    BY <1>1
  <2> DEFINE e == Drained[Drained[w].buffer \o q]
  <2>4. Drained[s] = [e EXCEPT !.out = Drained[w].out \o @]
    BY <1>1, <2>2, <2>3, DrainedMore
  <2>5. e \in Leftover
    <3>1. Drained[w].buffer \in Seq(Nat)
      BY <1>8 DEF Leftover
    <3>2. Drained[w].buffer \o q \in Seq(Nat)
      BY <2>2, <3>1, ConcatProperties
    <3>3. QED
      BY <3>2, DrainedType
  <2> HIDE DEF e
  <2>6. Drained[s].out = Drained[w].out \o e.out
    BY <2>4, <2>5, LeftIs
  <2>7. out = ps \o e.out /\ e.out \in Seq(Framed)
    <3>1. Drained[s].out = out
      BY <1>5
    <3>2. e.out \in Seq(Framed)
      BY <2>5 DEF Leftover
    <3>3. QED
      BY <2>3, <2>6, <3>1, <3>2
  <2>8. QED
    BY <1>9, <2>7, Beginning
<1>12. ASSUME read = Len(w) PROVE buffer = <<>>
  <2>1. s = w
    BY <1>6, <1>12
  <2> HIDE DEF s
  <2>2. Drained[s].buffer = buffer /\ Drained[w].buffer = <<>>
    BY <1>1, <1>5
  <2>3. QED
    BY <2>1, <2>2
<1>13. QED
  BY <1>10, <1>11, <1>12 DEF w

\* Packets that come intact are handed on, in order, each once, as soon as the last of
\* their bytes has come, however the reads cut them and whatever comes behind them
\* (Packet::to_bytes, Packet::parse and the reader loop of Engine::start).
THEOREM IntactAreHandedOn == LineSpec => []IntactTrue
<1>1. LineInit => LineIInv
  BY LineFacts, LinesAssumption
<1>2. LineIInv /\ [Arrive]_lineVars => LineIInv'
  BY LineStep
<1>3. LineIInv => IntactTrue
  BY IntactFacts
<1>4. QED
  BY <1>1, <1>2, <1>3, PTL DEF LineSpec
===============================================================================
