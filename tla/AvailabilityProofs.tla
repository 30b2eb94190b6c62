--------------------------- MODULE AvailabilityProofs ---------------------------
(***************************************************************************)
(* Proofs about Availability, for any sensors, channels and timeout and    *)
(* however often the broker, Home Assistant and commands interfere: a      *)
(* sensor that is offline has been silent for its timeout, and what the    *)
(* broker retains is right.                                                *)
(***************************************************************************)
EXTENDS Availability, FiniteSetTheorems, SequenceTheorems, TLAPS

Kinds == {"absent", "untyped", "typed"}
Jobs == [at : {"idle", "listing", "next"} \cup Announcing, todo : SUBSET Sensors,
         mac : Sensors \cup {Nobody}, told : Words \cup {"none"}, force : BOOLEAN]
Packets == [mac : Sensors, what : Words \cup {"config"}]

\* TypeOK in parts: what the manager knows, the channels, the announcing tasks,
\* and the rest.
ManagerTypes ==
    /\ now \in Nat
    /\ kind \in [Sensors -> Kinds] /\ online \in [Sensors -> BOOLEAN] /\ seen \in [Sensors -> Nat]
    /\ causes \in [Sensors -> SUBSET Causes]
ChannelTypes == events \in Seq(Events) /\ notices \in Seq(Sensors)
TaskTypes ==
    /\ job \in [Tasks -> Jobs] /\ lock \in Tasks \cup {Nobody}
    /\ published \in SUBSET Sensors /\ wire \in Seq(Packets)
BrokerTypes ==
    /\ connected \in BOOLEAN /\ config \in SUBSET Sensors /\ retained \in [Sensors -> Words \cup {"none"}]
    /\ sending \in {"no", "command", "reload"} /\ commands \in Nat /\ spent \in [Bounds -> Nat]

\* A task that announces has its sensor, and the word it tells of it.
Placed ==
    \A t \in Tasks : job[t].at \in Announcing => job[t].mac \in Sensors /\ job[t].told \in Words

\* An offline event carries no type the manager does not know already, so that
\* it registers nothing.
OfflineTyped ==
    \A i \in DOMAIN events :
        events[i].what = "offline" =>
            events[i].mac \in Sensors /\ (events[i].typed => kind[events[i].mac] = "typed")

AvailabilityIInv ==
    /\ ManagerTypes /\ ChannelTypes /\ TaskTypes /\ BrokerTypes
    /\ Placed /\ OfflineTyped /\ OfflineMeansSilent

LEMMA TypesAreTypeOK ==
    (ManagerTypes /\ ChannelTypes /\ TaskTypes /\ BrokerTypes) <=> TypeOK
BY DEF TypeOK, ManagerTypes, ChannelTypes, TaskTypes, BrokerTypes, Kinds, Jobs, Packets

-------------------------------------------------------------------------------
(* Facts about queues. *)

LEMMA AppendFacts ==
    ASSUME NEW S, NEW s \in Seq(S), NEW x \in S
    PROVE  /\ Append(s, x) \in Seq(S)
           /\ \A i \in DOMAIN Append(s, x) :
                 (i \in DOMAIN s /\ Append(s, x)[i] = s[i]) \/ Append(s, x)[i] = x
BY AppendProperties

LEMMA TailFacts ==
    ASSUME NEW S, NEW s \in Seq(S), s # <<>>
    PROVE  /\ Head(s) \in S /\ Tail(s) \in Seq(S)
           /\ 1 \in DOMAIN s /\ Head(s) = s[1]
           /\ \A i \in DOMAIN Tail(s) : i + 1 \in DOMAIN s /\ Tail(s)[i] = s[i + 1]
BY HeadTailProperties

\* A set of sensors in some order is a queue of sensors.
LEMMA OrderedSet ==
    ASSUME NEW S \in SUBSET Sensors, NEW q \in SetToSeqs(S)
    PROVE  q \in Seq(Sensors)
<1>1. IsFiniteSet(S)
  BY AvailabilityAssumption, FS_Subset
<1>2. Cardinality(S) \in Nat /\ q \in [1 .. Cardinality(S) -> S]
  BY <1>1, FS_CardinalityType DEF SetToSeqs
<1>3. QED
  BY <1>2

-------------------------------------------------------------------------------
(* The manager's parts of the invariant. *)

\* What the manager knows is not touched.
LEMMA ManagerStep ==
    ASSUME AvailabilityIInv, UNCHANGED <<now, kind, online, seen>>,
           causes' \in [Sensors -> SUBSET Causes],
           \A m \in Sensors : causes[m] \subseteq causes'[m]
    PROVE  ManagerTypes' /\ OfflineMeansSilent'
<1>1. ManagerTypes'
  BY DEF AvailabilityIInv, ManagerTypes
<1>2. OfflineMeansSilent'
  BY DEF AvailabilityIInv, OfflineMeansSilent, Known, Silent
<1>3. QED
  BY <1>1, <1>2

LEMMA TickKeeps ==
    ASSUME AvailabilityIInv, Tick
    PROVE  AvailabilityIInv'
<1>1. /\ now' = now + 1
      /\ UNCHANGED <<kind, online, seen, events, notices, job, lock, published, wire, connected, config,
                     retained, sending, commands, spent, causes>>
  BY DEF Tick, managerVars, taskVars, brokerVars, loopVars
<1>2. ManagerTypes' /\ ChannelTypes' /\ TaskTypes' /\ BrokerTypes'
  BY <1>1 DEF AvailabilityIInv, ManagerTypes, ChannelTypes, TaskTypes, BrokerTypes
<1>3. Placed' /\ OfflineTyped'
  BY <1>1 DEF AvailabilityIInv, Placed, OfflineTyped
<1>4. \A m \in Sensors : now > seen[m] + Timeout => now' > seen'[m] + Timeout
  BY <1>1, AvailabilityAssumption DEF AvailabilityIInv, ManagerTypes
<1>5. OfflineMeansSilent'
  BY <1>1, <1>4 DEF AvailabilityIInv, OfflineMeansSilent, Known, Silent
<1>6. QED
  BY <1>2, <1>3, <1>5 DEF AvailabilityIInv

LEMMA SignalKeeps ==
    ASSUME AvailabilityIInv, NEW m \in Sensors \cup {Stray}, NEW s \in Signals, NEW at \in Times,
           Signal(m, s, at)
    PROVE  AvailabilityIInv'
<1> DEFINE e == Event(m, s.what, s.typed, at)
<1>0. at \in Nat
  BY AvailabilityAssumption DEF Times
<1>1. e \in Events /\ e.what # "offline"
  BY <1>0 DEF Event, Events, Signals
<1>2. /\ events' = Append(events, e) /\ spent' \in [Bounds -> Nat]
      /\ UNCHANGED <<now, kind, online, seen, notices, job, lock, published, wire, connected, config,
                     retained, sending, commands, causes>>
  BY DEF Signal, Spend, AvailabilityIInv, BrokerTypes, Bounds, managerVars, taskVars, brokerVars, loopVars
<1> HIDE DEF e
<1>3. /\ events' \in Seq(Events)
      /\ \A i \in DOMAIN events' : (i \in DOMAIN events /\ events'[i] = events[i]) \/ events'[i] = e
  BY <1>1, <1>2, AppendFacts DEF AvailabilityIInv, ChannelTypes
<1>4. ChannelTypes' /\ TaskTypes' /\ BrokerTypes' /\ Placed'
  BY <1>2, <1>3 DEF AvailabilityIInv, ChannelTypes, TaskTypes, BrokerTypes, Placed
<1>5. OfflineTyped'
  BY <1>1, <1>2, <1>3 DEF AvailabilityIInv, OfflineTyped
<1>6. ManagerTypes' /\ OfflineMeansSilent'
  BY <1>2, ManagerStep DEF AvailabilityIInv, ManagerTypes
<1>7. QED
  BY <1>4, <1>5, <1>6 DEF AvailabilityIInv

\* What the mention of a listed sensor does to the channel and to the causes.
LEMMA MentionFacts ==
    ASSUME AvailabilityIInv, NEW m \in Sensors, NEW lost \in SUBSET Causes, Mention(m, lost)
    PROVE  /\ events' \in Seq(Events)
           /\ \/ causes' = causes /\ \E e \in Events : e.mac = m /\ events' = Append(events, e)
              \/ events' = events /\ causes'[m] = causes[m] \cup lost
           /\ \A i \in DOMAIN events' :
                 (i \in DOMAIN events /\ events'[i] = events[i]) \/ events'[i].what = "odd"
           /\ causes' \in [Sensors -> SUBSET Causes]
           /\ \A s \in Sensors : /\ causes[s] \subseteq causes'[s]
                                 /\ s # m => causes'[s] = causes[s]
<1>1. events \in Seq(Events) /\ causes \in [Sensors -> SUBSET Causes] /\ now \in Nat
  BY DEF AvailabilityIInv, ChannelTypes, ManagerTypes
<1>2. CASE RoomForEvent
  <2>1. PICK b \in BOOLEAN : b <=> kind'[m] = "typed"
    OBVIOUS
  <2> DEFINE e == Event(m, "odd", kind'[m] = "typed", now)
  <2>2. e \in Events /\ e.what = "odd" /\ e.mac = m
    BY <1>1, <2>1 DEF Event, Events
  <2>3. events' = Append(events, e) /\ causes' = causes
    BY <1>2 DEF Mention
  <2> HIDE DEF e
  <2>4. /\ events' \in Seq(Events)
        /\ \A i \in DOMAIN events' : (i \in DOMAIN events /\ events'[i] = events[i]) \/ events'[i] = e
    BY <1>1, <2>2, <2>3, AppendFacts
  <2>5. QED
    BY <1>1, <2>2, <2>3, <2>4
<1>3. CASE ~RoomForEvent
  <2>1. events' = events /\ causes' = [causes EXCEPT ![m] = causes[m] \cup lost]
    BY <1>1, <1>3 DEF Mention
  <2>2. QED
    BY <1>1, <2>1
<1>4. QED
  BY <1>2, <1>3

LEMMA SpendFacts ==
    ASSUME AvailabilityIInv, NEW bound \in Bounds, NEW max, Spend(bound, max)
    PROVE  spent' \in [Bounds -> Nat]
BY DEF Spend, AvailabilityIInv, BrokerTypes

LEMMA AssignKeeps ==
    ASSUME AvailabilityIInv, NEW m \in Sensors, Assign(m)
    PROVE  AvailabilityIInv'
<1>1. /\ kind[m] = "absent" /\ kind' = [kind EXCEPT ![m] = "untyped"]
      /\ online' = [online EXCEPT ![m] = TRUE] /\ seen' = [seen EXCEPT ![m] = now]
      /\ Mention(m, {"dropped"})
      /\ UNCHANGED <<now, notices, job, lock, published, wire, connected, config,
                     retained, sending, commands, spent>>
  BY DEF Assign, taskVars, brokerVars, loopVars
<1>2. {"dropped"} \in SUBSET Causes
  BY DEF Causes
<1>3. /\ events' \in Seq(Events)
      /\ \A i \in DOMAIN events' :
            (i \in DOMAIN events /\ events'[i] = events[i]) \/ events'[i].what = "odd"
      /\ causes' \in [Sensors -> SUBSET Causes] /\ \A s \in Sensors : causes[s] \subseteq causes'[s]
  BY <1>1, <1>2, MentionFacts
<1>4. ManagerTypes'
  BY <1>1, <1>3 DEF AvailabilityIInv, ManagerTypes, Kinds
<1>5. ChannelTypes' /\ TaskTypes' /\ BrokerTypes' /\ Placed'
  BY <1>1, <1>3 DEF AvailabilityIInv, ChannelTypes, TaskTypes, BrokerTypes, Placed
<1>6. OfflineTyped'
  BY <1>1, <1>3 DEF AvailabilityIInv, ManagerTypes, OfflineTyped
<1>7. OfflineMeansSilent'
  BY <1>1, <1>3 DEF AvailabilityIInv, ManagerTypes, OfflineMeansSilent, Known, Silent
<1>8. QED
  BY <1>4, <1>5, <1>6, <1>7 DEF AvailabilityIInv

\* A sensor loaded as offline is one that was silent when it was last saved.
LEMMA LoadKeeps ==
    ASSUME AvailabilityIInv, NEW m \in Sensors, NEW saved \in Times, Load(m, saved)
    PROVE  AvailabilityIInv'
<1> DEFINE lost == IF online'[m] = online[m] THEN {} ELSE IF online[m] THEN {"unsaid"} ELSE {"dropped"}
<1>1. /\ online' = [online EXCEPT ![m] = now <= saved + Timeout] /\ seen' = [seen EXCEPT ![m] = saved]
      /\ Mention(m, lost) /\ Spend("upsets", MaxUpsets)
      /\ UNCHANGED <<now, kind, notices, job, lock, published, wire, connected, config,
                     retained, sending, commands>>
  BY DEF Load, taskVars, brokerVars, loopVars
<1>2. lost \in SUBSET Causes
  BY DEF Causes
<1> HIDE DEF lost
<1>3. /\ events' \in Seq(Events)
      /\ \A i \in DOMAIN events' :
            (i \in DOMAIN events /\ events'[i] = events[i]) \/ events'[i].what = "odd"
      /\ causes' \in [Sensors -> SUBSET Causes] /\ \A s \in Sensors : causes[s] \subseteq causes'[s]
  BY <1>1, <1>2, MentionFacts
<1>4. saved \in Nat /\ now \in Nat /\ Timeout \in Nat
  BY AvailabilityAssumption DEF Times, AvailabilityIInv, ManagerTypes
<1> DEFINE up == now <= saved + Timeout
<1>5. up \in BOOLEAN /\ (~up => now > saved + Timeout)
  BY <1>4
<1>6. online' = [online EXCEPT ![m] = up]
  BY <1>1
<1> HIDE DEF up
<1>7. ManagerTypes'
  BY <1>1, <1>3, <1>4, <1>5, <1>6 DEF AvailabilityIInv, ManagerTypes
<1>8. spent' \in [Bounds -> Nat]
  BY <1>1, SpendFacts DEF Bounds
<1>9. ChannelTypes' /\ TaskTypes' /\ BrokerTypes' /\ Placed'
  BY <1>1, <1>3, <1>8 DEF AvailabilityIInv, ChannelTypes, TaskTypes, BrokerTypes, Placed
<1>10. OfflineTyped'
  BY <1>1, <1>3 DEF AvailabilityIInv, OfflineTyped
<1>11. OfflineMeansSilent'
  <2>1. ASSUME NEW s \in Known', ~online'[s] PROVE Silent(s)' \/ "overtaken" \in causes'[s]
    <3>1. CASE s = m
      BY <1>1, <1>5, <1>6, <2>1, <3>1 DEF AvailabilityIInv, ManagerTypes, Known, Silent
    <3>2. CASE s # m
      <4>1. s \in Known /\ online[s] = online'[s] /\ seen'[s] = seen[s]
        BY <1>1, <1>6, <2>1, <3>2 DEF AvailabilityIInv, ManagerTypes, Known
      <4>2. Silent(s) \/ "overtaken" \in causes[s]
        BY <2>1, <4>1 DEF AvailabilityIInv, OfflineMeansSilent
      <4>3. QED
        BY <1>1, <1>3, <2>1, <4>1, <4>2 DEF Silent, Known
    <3>3. QED
      BY <3>1, <3>2
  <2>2. QED
    BY <2>1 DEF OfflineMeansSilent
<1>12. QED
  BY <1>7, <1>9, <1>10, <1>11 DEF AvailabilityIInv

LEMMA SweepKeeps ==
    ASSUME AvailabilityIInv, Sweep
    PROVE  AvailabilityIInv'
<1> DEFINE gone == {m \in Sensors : Overdue(m)}
<1>1. /\ online' = [m \in Sensors |-> online[m] /\ m \notin gone]
      /\ \E q \in SetToSeqs(gone) : notices' = notices \o q
      /\ UNCHANGED <<now, kind, seen, events, job, lock, published, wire, connected, config,
                     retained, sending, commands, spent, causes>>
  BY DEF Sweep, taskVars, brokerVars, loopVars
<1>2. notices' \in Seq(Sensors)
  BY <1>1, OrderedSet, ConcatProperties DEF AvailabilityIInv, ChannelTypes
<1>3. online' \in [Sensors -> BOOLEAN] /\ \A m \in Sensors : online'[m] = (online[m] /\ ~Overdue(m))
  BY <1>1 DEF AvailabilityIInv, ManagerTypes
<1> HIDE DEF gone
<1>4. ManagerTypes' /\ ChannelTypes' /\ TaskTypes' /\ BrokerTypes' /\ Placed' /\ OfflineTyped'
  BY <1>1, <1>2, <1>3
     DEF AvailabilityIInv, ManagerTypes, ChannelTypes, TaskTypes, BrokerTypes, Placed, OfflineTyped
<1>5. OfflineMeansSilent'
  BY <1>1, <1>3 DEF AvailabilityIInv, OfflineMeansSilent, Known, Silent, Overdue
<1>6. QED
  BY <1>4, <1>5 DEF AvailabilityIInv

LEMMA ForwardKeeps ==
    ASSUME AvailabilityIInv, Forward
    PROVE  AvailabilityIInv'
<1> DEFINE m == Head(notices)
           e == Notice(m)
<1>1. m \in Sensors /\ notices' \in Seq(Sensors)
  BY TailFacts DEF AvailabilityIInv, ChannelTypes, Forward
<1>2. e \in Events /\ e.mac = m /\ (e.typed => kind[m] = "typed")
  BY <1>1 DEF AvailabilityIInv, ManagerTypes, Notice, Event, Events
<1>3. /\ events' = Append(events, e)
      /\ UNCHANGED <<now, kind, online, seen, job, lock, published, wire, connected, config,
                     retained, sending, commands, spent, causes>>
  BY DEF Forward, managerVars, taskVars, brokerVars, loopVars
<1> HIDE DEF e, m
<1>4. /\ events' \in Seq(Events)
      /\ \A i \in DOMAIN events' : (i \in DOMAIN events /\ events'[i] = events[i]) \/ events'[i] = e
  BY <1>2, <1>3, AppendFacts DEF AvailabilityIInv, ChannelTypes
<1>5. ChannelTypes' /\ TaskTypes' /\ BrokerTypes' /\ Placed'
  BY <1>1, <1>3, <1>4 DEF AvailabilityIInv, ChannelTypes, TaskTypes, BrokerTypes, Placed
<1>6. OfflineTyped'
  BY <1>1, <1>2, <1>3, <1>4 DEF AvailabilityIInv, OfflineTyped
<1>7. ManagerTypes' /\ OfflineMeansSilent'
  BY <1>3, ManagerStep DEF AvailabilityIInv, ManagerTypes
<1>8. QED
  BY <1>5, <1>6, <1>7 DEF AvailabilityIInv

LEMMA SkipKeeps ==
    ASSUME AvailabilityIInv, Skip
    PROVE  AvailabilityIInv'
<1>1. /\ events' \in Seq(Events)
      /\ \A i \in DOMAIN events' : i + 1 \in DOMAIN events /\ events'[i] = events[i + 1]
  BY TailFacts DEF AvailabilityIInv, ChannelTypes, Skip
<1>2. UNCHANGED <<now, kind, online, seen, notices, job, lock, published, wire, connected, config,
                  retained, sending, commands, spent, causes>>
  BY DEF Skip, managerVars, taskVars, brokerVars, loopVars
<1>3. ChannelTypes' /\ TaskTypes' /\ BrokerTypes' /\ Placed' /\ OfflineTyped'
  BY <1>1, <1>2 DEF AvailabilityIInv, ChannelTypes, TaskTypes, BrokerTypes, Placed, OfflineTyped
<1>4. ManagerTypes' /\ OfflineMeansSilent'
  BY <1>2, ManagerStep DEF AvailabilityIInv, ManagerTypes
<1>5. QED
  BY <1>3, <1>4 DEF AvailabilityIInv

LEMMA DispatchKeeps ==
    ASSUME AvailabilityIInv, Dispatch
    PROVE  AvailabilityIInv'
<1> DEFINE e == Head(events)
           m == e.mac
<1>1. events \in Seq(Events) /\ events # <<>>
  BY DEF AvailabilityIInv, ChannelTypes, Dispatch
<1>2. /\ events' \in Seq(Events)
      /\ \A i \in DOMAIN events' : i + 1 \in DOMAIN events /\ events'[i] = events[i + 1]
      /\ e \in Events /\ 1 \in DOMAIN events /\ e = events[1]
  BY <1>1, TailFacts DEF Dispatch
<1>3. m \in Sensors
  BY <1>2 DEF Dispatch, Events
<1>4. e.what = "offline" /\ e.typed => kind[m] = "typed"
  BY <1>2 DEF AvailabilityIInv, OfflineTyped
<1>5. /\ kind' = IF Registers(e)
                    THEN [kind EXCEPT ![m] = IF e.typed THEN "typed" ELSE "untyped"]
                    ELSE kind
      /\ online' = [online EXCEPT ![m] = OnlineAfter(e)]
      /\ seen' = [seen EXCEPT ![m] = SeenAfter(e)]
      /\ job' = [job EXCEPT ![Worker] = [Idle EXCEPT !.at = "locking", !.mac = m, !.told = Word(e)]]
      /\ UNCHANGED <<now, notices, lock, published, wire, connected, config,
                     retained, sending, commands, spent>>
  BY DEF Dispatch, brokerVars, loopVars
<1>6. /\ causes' \in [Sensors -> SUBSET Causes] /\ \A s \in Sensors : causes[s] \subseteq causes'[s]
      /\ e.what = "offline" /\ online[m] => "overtaken" \in causes'[m]
  <2> DEFINE new == (IF Crossed(m, Word(e)) THEN {"crossed"} ELSE {})
                       \cup (IF e.what = "offline" /\ online[m] THEN {"overtaken"} ELSE {})
  <2>1. new \in SUBSET Causes /\ (e.what = "offline" /\ online[m] => "overtaken" \in new)
    BY DEF Causes
  <2>2. causes' = [causes EXCEPT ![m] = @ \cup (IF Crossed(m, Word(e)) THEN {"crossed"} ELSE {})
                       \cup (IF e.what = "offline" /\ online[m] THEN {"overtaken"} ELSE {})]
    BY DEF Dispatch
  <2>3. causes \in [Sensors -> SUBSET Causes]
    BY DEF AvailabilityIInv, ManagerTypes
  <2>4. causes' = [causes EXCEPT ![m] = causes[m] \cup new]
    BY <1>3, <2>2, <2>3
  <2> HIDE DEF new
  <2>5. QED
    BY <1>3, <2>1, <2>3, <2>4
<1> HIDE DEF e, m
<1>7. OnlineAfter(e) \in BOOLEAN /\ SeenAfter(e) \in Nat
  BY <1>2, <1>3 DEF OnlineAfter, SeenAfter, AvailabilityIInv, ManagerTypes, Events, m, Registers
<1>8. ManagerTypes'
  BY <1>3, <1>5, <1>6, <1>7 DEF AvailabilityIInv, ManagerTypes, Kinds
<1>9. job' \in [Tasks -> Jobs] /\ Placed'
  <2> DEFINE new == [Idle EXCEPT !.at = "locking", !.mac = m, !.told = Word(e)]
  <2>1. Word(e) \in Words
    BY DEF Word, Say, Words
  <2>2. new \in Jobs /\ new.mac \in Sensors /\ new.told \in Words
    BY <1>3, <2>1 DEF Idle, Jobs, Announcing
  <2> HIDE DEF new
  <2>3. job' = [job EXCEPT ![Worker] = new] /\ Worker \in Tasks
    BY <1>5 DEF new, Tasks
  <2>4. QED
    BY <2>2, <2>3 DEF AvailabilityIInv, TaskTypes, Placed
<1>10. ChannelTypes' /\ TaskTypes' /\ BrokerTypes'
  BY <1>2, <1>5, <1>9 DEF AvailabilityIInv, ChannelTypes, TaskTypes, BrokerTypes
<1>11. /\ \A s \in Sensors \ {m} : kind'[s] = kind[s] /\ online'[s] = online[s] /\ seen'[s] = seen[s]
       /\ kind'[m] = IF Registers(e) THEN (IF e.typed THEN "typed" ELSE "untyped") ELSE kind[m]
       /\ online'[m] = OnlineAfter(e) /\ seen'[m] = SeenAfter(e)
  BY <1>3, <1>5 DEF AvailabilityIInv, ManagerTypes
<1>12. OfflineTyped'
  <2>1. \A s \in Sensors : kind[s] = "typed" => kind'[s] = "typed"
    BY <1>3, <1>11 DEF Registers, Known, m
  <2>2. QED
    BY <1>2, <2>1 DEF AvailabilityIInv, OfflineTyped
<1>13. OfflineMeansSilent'
  <2>1. ASSUME NEW s \in Sensors, s \in Known', ~online'[s]
        PROVE  now > seen'[s] + Timeout \/ "overtaken" \in causes'[s]
    <3>1. s \in Known /\ ~online[s] => now > seen[s] + Timeout \/ "overtaken" \in causes[s]
      BY DEF AvailabilityIInv, OfflineMeansSilent, Silent
    <3>2. CASE s # m
      BY <1>6, <1>11, <2>1, <3>1, <3>2 DEF Known
    <3>3. CASE s = m
      <4>1. CASE Ignored(e)
        <5>1. s \notin Known /\ ~Registers(e)
          BY <3>3, <4>1 DEF Ignored, Registers, Known, m
        <5>2. QED
          BY <1>11, <2>1, <3>3, <5>1 DEF Known
      <4>2. CASE ~Ignored(e) /\ e.what = "offline"
        <5>1. s \in Known /\ ~Registers(e)
          BY <1>4, <3>3, <4>2 DEF Ignored, Registers, Known, m
        <5>2. seen'[s] = seen[s]
          BY <1>11, <3>3, <4>2, <5>1 DEF SeenAfter, m
        <5>3. QED
          BY <1>6, <3>1, <3>3, <4>2, <5>1, <5>2
      <4>3. CASE ~Ignored(e) /\ e.what # "offline"
        <5>1. e.what = "odd" /\ ~Registers(e) /\ ~online[s]
          BY <1>2, <1>11, <2>1, <3>3, <4>3 DEF OnlineAfter, m
        <5>2. seen'[s] = seen[s] /\ s \in Known
          BY <1>11, <2>1, <3>3, <5>1 DEF SeenAfter, Known, m
        <5>3. QED
          BY <1>6, <3>1, <5>1, <5>2
      <4>4. QED
        BY <4>1, <4>2, <4>3
    <3>4. QED
      BY <3>2, <3>3
  <2>2. QED
    BY <1>5, <2>1 DEF OfflineMeansSilent, Silent, Known
<1>14. QED
  BY <1>8, <1>9, <1>10, <1>12, <1>13 DEF AvailabilityIInv

-------------------------------------------------------------------------------
(* The announcing tasks. *)

\* A step of a task: the manager and the channel are not touched.
LEMMA TaskStep ==
    ASSUME AvailabilityIInv, TaskTypes', Placed', BrokerTypes',
           UNCHANGED <<now, managerVars, events, notices, causes>>
    PROVE  AvailabilityIInv'
<1>1. UNCHANGED <<now, kind, online, seen, events, notices, causes>>
  BY DEF managerVars
<1>2. ManagerTypes' /\ OfflineMeansSilent'
  BY <1>1, ManagerStep DEF AvailabilityIInv, ManagerTypes
<1>3. ChannelTypes' /\ OfflineTyped'
  BY <1>1 DEF AvailabilityIInv, ChannelTypes, OfflineTyped
<1>4. QED
  BY <1>2, <1>3 DEF AvailabilityIInv

\* A task that becomes one with its sensor leaves the others alone.
LEMMA JobStep ==
    ASSUME AvailabilityIInv, NEW t \in Tasks, NEW j \in Jobs, job' = [job EXCEPT ![t] = j],
           j.at \in Announcing => j.mac \in Sensors /\ j.told \in Words
    PROVE  job' \in [Tasks -> Jobs] /\ Placed'
BY DEF AvailabilityIInv, TaskTypes, Placed

\* A job that has one field changed is a job.
LEMMA JobFields ==
    ASSUME NEW j \in Jobs
    PROVE  /\ \A x \in {"idle", "listing", "next"} \cup Announcing : [j EXCEPT !.at = x] \in Jobs
           /\ \A x \in SUBSET Sensors : [j EXCEPT !.at = "next", !.todo = x] \in Jobs
           /\ Idle \in Jobs
BY DEF Jobs, Idle, Announcing

LEMMA OnwardFacts ==
    ASSUME AvailabilityIInv, NEW t \in Tasks, NEW left \in SUBSET Sensors, Onward(t, left)
    PROVE  job' \in [Tasks -> Jobs] /\ Placed'
<1> DEFINE j == IF left = {} THEN Idle ELSE [job[t] EXCEPT !.at = "next", !.todo = left]
<1>1. job[t] \in Jobs
  BY DEF AvailabilityIInv, TaskTypes
<1>2. j \in Jobs /\ j.at \notin Announcing
  BY <1>1, JobFields DEF Idle, Announcing, Jobs
<1>3. job' = [job EXCEPT ![t] = j]
  BY DEF Onward, AvailabilityIInv, TaskTypes
<1> HIDE DEF j
<1>4. QED
  BY <1>2, <1>3, JobStep

LEMMA MoveFacts ==
    ASSUME AvailabilityIInv, NEW t \in Tasks, job[t].at \in Announcing, NEW at \in Announcing, Move(t, at)
    PROVE  job' \in [Tasks -> Jobs] /\ Placed'
<1> DEFINE j == [job[t] EXCEPT !.at = at]
<1>1. job[t] \in Jobs /\ job[t].mac \in Sensors /\ job[t].told \in Words
  BY DEF AvailabilityIInv, TaskTypes, Placed
<1>2. j \in Jobs /\ j.mac \in Sensors /\ j.told \in Words
  BY <1>1, JobFields DEF Jobs
<1>3. job' = [job EXCEPT ![t] = j]
  BY DEF Move, AvailabilityIInv, TaskTypes
<1> HIDE DEF j
<1>4. QED
  BY <1>2, <1>3, JobStep

LEMMA AnnounceKeeps ==
    ASSUME AvailabilityIInv, NEW t \in Tasks, Announce(t)
    PROVE  AvailabilityIInv'
<1>1. UNCHANGED <<now, managerVars, events, notices, brokerVars, loopVars, spent, causes>>
  BY DEF Announce, List, LookUp, Lock, Discover, Tell
<1>2. BrokerTypes'
  BY <1>1 DEF AvailabilityIInv, BrokerTypes, brokerVars, loopVars
<1>3. CASE List(t)
  <2>1. Known \in SUBSET Sensors
    BY DEF Known
  <2>2. TaskTypes' /\ Placed'
    BY <1>3, <2>1, OnwardFacts DEF List, AvailabilityIInv, TaskTypes
  <2>3. QED
    BY <1>1, <1>2, <2>2, TaskStep
<1>4. CASE LookUp(t)
  <2>1. PICK m \in job[t].todo :
            job' = [job EXCEPT ![t].at = "locking", ![t].todo = @ \ {m}, ![t].mac = m,
                               ![t].told = Say(m \in Known /\ online[m])]
    BY <1>4 DEF LookUp
  <2> DEFINE j == [job[t] EXCEPT !.at = "locking", !.todo = @ \ {m}, !.mac = m,
                                 !.told = Say(m \in Known /\ online[m])]
  <2>2. job[t] \in Jobs /\ m \in Sensors /\ Say(m \in Known /\ online[m]) \in Words
    BY DEF AvailabilityIInv, TaskTypes, Jobs, Say, Words
  <2>3. j \in Jobs /\ j.mac \in Sensors /\ j.told \in Words
    BY <2>2 DEF Jobs, Announcing
  <2>4. job' = [job EXCEPT ![t] = j]
    BY <2>1 DEF AvailabilityIInv, TaskTypes
  <2> HIDE DEF j
  <2>5. TaskTypes' /\ Placed'
    BY <1>4, <2>3, <2>4, JobStep DEF LookUp, AvailabilityIInv, TaskTypes
  <2>6. QED
    BY <1>1, <1>2, <2>5, TaskStep
<1>5. CASE Lock(t)
  <2>1. job[t].at \in Announcing /\ \E at \in Announcing : Move(t, at)
    BY <1>5 DEF Lock, Announcing
  <2>2. lock' \in Tasks \cup {Nobody} /\ published' \in SUBSET Sensors /\ wire' = wire
    BY <1>5 DEF Lock, AvailabilityIInv, TaskTypes
  <2>3. TaskTypes' /\ Placed'
    BY <2>1, <2>2, MoveFacts DEF AvailabilityIInv, TaskTypes
  <2>4. QED
    BY <1>1, <1>2, <2>3, TaskStep
<1>6. CASE Discover(t)
  <2>1. job[t].at \in Announcing /\ \E at \in Announcing : Move(t, at)
    BY <1>6 DEF Discover, Announcing
  <2>2. job[t].mac \in Sensors
    BY <2>1 DEF AvailabilityIInv, Placed
  <2>3. [mac |-> job[t].mac, what |-> "config"] \in Packets
    BY <2>2 DEF Packets
  <2>4. wire' \in Seq(Packets)
    BY <1>6, <2>3, AppendFacts DEF Discover, Put, AvailabilityIInv, TaskTypes
  <2>5. TaskTypes' /\ Placed'
    BY <1>6, <2>1, <2>2, <2>4, MoveFacts DEF Discover, AvailabilityIInv, TaskTypes
  <2>6. QED
    BY <1>1, <1>2, <2>5, TaskStep
<1>7. CASE Tell(t)
  <2>1. job[t].mac \in Sensors /\ job[t].told \in Words /\ job[t].todo \in SUBSET Sensors
    BY <1>7 DEF Tell, Announcing, AvailabilityIInv, Placed, TaskTypes, Jobs
  <2>2. [mac |-> job[t].mac, what |-> job[t].told] \in Packets
    BY <2>1 DEF Packets
  <2>3. wire' \in Seq(Packets)
    BY <1>7, <2>2, AppendFacts DEF Tell, Put, AvailabilityIInv, TaskTypes
  <2>4. TaskTypes' /\ Placed'
    BY <1>7, <2>1, <2>3, OnwardFacts DEF Tell, AvailabilityIInv, TaskTypes
  <2>5. QED
    BY <1>1, <1>2, <2>4, TaskStep
<1>8. QED
  BY <1>3, <1>4, <1>5, <1>6, <1>7 DEF Announce

-------------------------------------------------------------------------------
(* The event loop and the broker. *)

LEMMA SpawnFacts ==
    ASSUME AvailabilityIInv, NEW forced \in BOOLEAN, Spawn(forced)
    PROVE  job' \in [Tasks -> Jobs] /\ Placed'
<1>1. PICK t \in Announcers : job' = [job EXCEPT ![t] = [Idle EXCEPT !.at = "listing", !.force = forced]]
  BY DEF Spawn
<1>2. [Idle EXCEPT !.at = "listing", !.force = forced] \in Jobs
  BY DEF Idle, Jobs
<1>3. [Idle EXCEPT !.at = "listing", !.force = forced].at \notin Announcing
  BY DEF Idle, Announcing
<1>4. QED
  BY <1>1, <1>2, <1>3, JobStep DEF Tasks

LEMMA LoopKeeps ==
    ASSUME AvailabilityIInv,
           \/ Deliver \/ (\E forgets \in BOOLEAN : Outage(forgets)) \/ Connect \/ Birth
           \/ (\E what \in {"command", "reload"} : Command(what)) \/ PassOn \/ Carry
    PROVE  AvailabilityIInv'
<1>1. CASE Deliver
  <2>1. Head(wire) \in Packets /\ Tail(wire) \in Seq(Packets)
    BY <1>1, TailFacts DEF Deliver, AvailabilityIInv, TaskTypes
  <2>2. TaskTypes' /\ Placed'
    BY <1>1, <2>1 DEF Deliver, AvailabilityIInv, TaskTypes, Placed
  <2>3. BrokerTypes'
    BY <1>1, <2>1 DEF Deliver, AvailabilityIInv, BrokerTypes, Packets, loopVars
  <2>4. QED
    BY <1>1, <2>2, <2>3, TaskStep DEF Deliver
<1>2. ASSUME NEW forgets \in BOOLEAN, Outage(forgets) PROVE AvailabilityIInv'
  <2>1. TaskTypes' /\ Placed'
    BY <1>2 DEF Outage, AvailabilityIInv, TaskTypes, Placed, taskVars
  <2>2. BrokerTypes'
    BY <1>2, SpendFacts DEF Outage, AvailabilityIInv, BrokerTypes, Bounds, loopVars
  <2>3. QED
    BY <1>2, <2>1, <2>2, TaskStep DEF Outage
<1>3. CASE Connect
  <2>1. TaskTypes' /\ Placed'
    BY <1>3, SpawnFacts DEF Connect, AvailabilityIInv, TaskTypes
  <2>2. BrokerTypes'
    BY <1>3 DEF Connect, AvailabilityIInv, BrokerTypes, loopVars
  <2>3. QED
    BY <1>3, <2>1, <2>2, TaskStep DEF Connect
<1>4. CASE Birth
  <2>1. TaskTypes' /\ Placed'
    BY <1>4, SpawnFacts DEF Birth, AvailabilityIInv, TaskTypes
  <2>2. BrokerTypes'
    BY <1>4, SpendFacts DEF Birth, AvailabilityIInv, BrokerTypes, Bounds, brokerVars, loopVars
  <2>3. QED
    BY <1>4, <2>1, <2>2, TaskStep DEF Birth
<1>5. ASSUME NEW what \in {"command", "reload"}, Command(what) PROVE AvailabilityIInv'
  <2>1. TaskTypes' /\ Placed'
    BY <1>5 DEF Command, AvailabilityIInv, TaskTypes, Placed, taskVars
  <2>2. BrokerTypes'
    BY <1>5, SpendFacts DEF Command, AvailabilityIInv, BrokerTypes, Bounds, brokerVars
  <2>3. QED
    BY <1>5, <2>1, <2>2, TaskStep DEF Command
<1>6. CASE PassOn
  <2>1. (job' \in [Tasks -> Jobs] /\ Placed') \/ job' = job
    BY <1>6, SpawnFacts DEF PassOn
  <2>2. TaskTypes' /\ Placed'
    BY <1>6, <2>1 DEF PassOn, AvailabilityIInv, TaskTypes, Placed
  <2>3. BrokerTypes'
    BY <1>6 DEF PassOn, AvailabilityIInv, BrokerTypes, brokerVars
  <2>4. QED
    BY <1>6, <2>2, <2>3, TaskStep DEF PassOn
<1>7. CASE Carry
  <2>1. TaskTypes' /\ Placed'
    BY <1>7 DEF Carry, EndCommand, AvailabilityIInv, TaskTypes, Placed, taskVars
  <2>2. BrokerTypes'
    BY <1>7 DEF Carry, EndCommand, AvailabilityIInv, BrokerTypes, brokerVars
  <2>3. QED
    BY <1>7, <2>1, <2>2, TaskStep DEF Carry, EndCommand
<1>8. QED
  BY <1>1, <1>2, <1>3, <1>4, <1>5, <1>6, <1>7

-------------------------------------------------------------------------------
(* The theorems. *)

LEMMA AvailabilityInit == Init => AvailabilityIInv
<1> SUFFICES ASSUME Init PROVE AvailabilityIInv
  OBVIOUS
<1>1. ManagerTypes /\ ChannelTypes /\ BrokerTypes
  <2>1. ManagerTypes
    BY DEF Init, ManagerTypes, Kinds
  <2>2. ChannelTypes
    BY DEF Init, ChannelTypes
  <2>3. retained \in [Sensors -> Words \cup {"none"}] /\ config \in SUBSET Sensors
    BY DEF Init, Words
  <2>4. spent \in [Bounds -> Nat]
    BY DEF Init
  <2>5. BrokerTypes
    BY <2>3, <2>4 DEF Init, BrokerTypes
  <2>6. QED
    BY <2>1, <2>2, <2>5
<1>2. TaskTypes /\ Placed
  <2>1. Idle \in Jobs /\ Idle.at \notin Announcing
    BY DEF Idle, Jobs, Announcing
  <2>2. QED
    BY <2>1 DEF Init, TaskTypes, Placed
<1>3. OfflineTyped /\ OfflineMeansSilent
  <2>1. events = <<>> /\ DOMAIN <<>> = {}
    BY DEF Init
  <2>2. OfflineTyped
    BY <2>1 DEF OfflineTyped
  <2>3. \A m \in Known : online[m]
    BY DEF Init, Known
  <2>4. QED
    BY <2>2, <2>3 DEF OfflineMeansSilent
<1>4. QED
  BY <1>1, <1>2, <1>3 DEF AvailabilityIInv

LEMMA AvailabilityStep == AvailabilityIInv /\ [Next]_vars => AvailabilityIInv'
<1> SUFFICES ASSUME AvailabilityIInv, [Next]_vars PROVE AvailabilityIInv'
  OBVIOUS
<1>1. CASE UNCHANGED vars
  <2>1. TaskTypes' /\ Placed' /\ BrokerTypes'
    BY <1>1 DEF AvailabilityIInv, TaskTypes, Placed, BrokerTypes, vars, taskVars, brokerVars, loopVars
  <2>2. QED
    BY <1>1, <2>1, TaskStep DEF vars
<1>2. CASE Next
  BY <1>2, TickKeeps, SignalKeeps, AssignKeeps, LoadKeeps, SweepKeeps, ForwardKeeps, SkipKeeps, DispatchKeeps,
     AnnounceKeeps, LoopKeeps DEF Next
<1>3. QED
  BY <1>1, <1>2

LEMMA AvailabilityInvariant == Spec => []AvailabilityIInv
BY AvailabilityInit, AvailabilityStep, PTL DEF Spec

\* The state has its types.
THEOREM AvailabilityTypeCorrect == Spec => []TypeOK
<1>1. AvailabilityIInv => TypeOK
  BY TypesAreTypeOK DEF AvailabilityIInv
<1>2. QED
  BY <1>1, AvailabilityInvariant, PTL

\* A sensor that is known and offline was not heard for its timeout, unless an
\* offline event was dispatched after a newer report (check_timeouts and
\* dispatch_event).
THEOREM OfflineIsSilent == Spec => []OfflineMeansSilent
<1>1. AvailabilityIInv => OfflineMeansSilent
  BY DEF AvailabilityIInv
<1>2. QED
  BY <1>1, AvailabilityInvariant, PTL
-------------------------------------------------------------------------------
(* What the broker retains: every word that is still to come is right, or newer  *)
(* news of the sensor comes after it.                                            *)

\* News of sensor m are on their way to the event worker.
Coming(m) ==
    \/ \E i \in DOMAIN events : events[i].mac = m
    \/ \E i \in DOMAIN notices : notices[i] = m

\* Task t is about to tell of sensor m; it will look m up.
Saying(t, m) == job[t].at \in Announcing /\ job[t].mac = m
Listed(t, m) == job[t].at = "listing" \/ m \in job[t].todo

\* The broker retains the word w for m once the wire is delivered.
IsWord(i, m) == wire[i].mac = m /\ wire[i].what # "config"
LastIs(m, w) ==
    \/ \E i \in DOMAIN wire :
          IsWord(i, m) /\ wire[i].what = w /\ \A j \in DOMAIN wire : IsWord(j, m) => j <= i
    \/ (\A j \in DOMAIN wire : ~IsWord(j, m)) /\ retained[m] = w

WordsRight(m) == \A t \in Tasks : Saying(t, m) => job[t].told = Say(online[m])
WordComes(m) ==
    \/ LastIs(m, Say(online[m])) \/ ~connected
    \/ \E t \in Tasks : Saying(t, m) \/ Listed(t, m)

Trusted(m) == m \in Known /\ causes[m] \cap {"crossed", "dropped", "unsaid"} = {} /\ ~Coming(m)
ToldInv == \A m \in Sensors : Trusted(m) => WordsRight(m) /\ WordComes(m)

\* The discovery of m is with the broker or will be, whoever sends it; a new
\* connection starts anew.
ConfigSent(m) ==
    \/ m \in config \/ ~connected
    \/ \E i \in DOMAIN wire : wire[i].mac = m /\ wire[i].what = "config"
Discovers(t, m) ==
    \/ job[t].at = "discovering" /\ job[t].mac = m
    \/ /\ job[t].force \/ m \notin published
       /\ Listed(t, m) \/ (job[t].at = "locking" /\ job[t].mac = m)

DiscoveryInv ==
    /\ \A m \in published : kind[m] = "typed"
    /\ \A t \in Tasks : job[t].at = "discovering" => kind[job[t].mac] = "typed"
    /\ \A m \in Sensors :
          kind[m] = "typed" => ConfigSent(m) \/ \E t \in Tasks : Discovers(t, m)

\* A task that rests has no sensor left.
Rested == \A t \in Tasks : job[t].at = "idle" => job[t].todo = {}

\* The inductive invariant behind RetainedTrue.
RetainedIInv == AvailabilityIInv /\ Rested /\ ToldInv /\ DiscoveryInv

-------------------------------------------------------------------------------
(* What the queues do to the words and the news of a sensor. *)

\* Entry i of a queue is entry i - 1 of its tail.
LEMMA TailInverse ==
    ASSUME NEW S, NEW s \in Seq(S), s # <<>>
    PROVE  \A i \in DOMAIN s : i # 1 => i - 1 \in DOMAIN Tail(s) /\ Tail(s)[i - 1] = s[i]
<1>1. /\ DOMAIN s = 1 .. Len(s) /\ DOMAIN Tail(s) = 1 .. Len(s) - 1 /\ Len(s) \in Nat
      /\ \A i \in 1 .. Len(s) - 1 : Tail(s)[i] = s[i + 1]
  BY HeadTailProperties, EmptySeq, LenProperties
<1>2. SUFFICES ASSUME NEW i \in DOMAIN s, i # 1
               PROVE  i - 1 \in DOMAIN Tail(s) /\ Tail(s)[i - 1] = s[i]
  OBVIOUS
<1>3. i - 1 \in 1 .. Len(s) - 1 /\ (i - 1) + 1 = i
  BY <1>1, <1>2
<1>4. QED
  BY <1>1, <1>3

\* The new entry is the last, the others keep their places.
LEMMA AppendEntries ==
    ASSUME NEW S, NEW s \in Seq(S), NEW x \in S
    PROVE  /\ \A i \in DOMAIN s : i \in DOMAIN Append(s, x) /\ Append(s, x)[i] = s[i]
           /\ \E n \in DOMAIN Append(s, x) :
                 Append(s, x)[n] = x /\ \A i \in DOMAIN Append(s, x) : i <= n
<1>1. /\ DOMAIN s = 1 .. Len(s) /\ DOMAIN Append(s, x) = 1 .. Len(s) + 1
      /\ Len(s) \in Nat
      /\ Append(s, x)[Len(s) + 1] = x
      /\ \A i \in 1 .. Len(s) : Append(s, x)[i] = s[i]
  BY AppendProperties, LenProperties
<1>2. Len(s) + 1 \in DOMAIN Append(s, x) /\ \A i \in DOMAIN Append(s, x) : i <= Len(s) + 1
  BY <1>1
<1>3. QED
  BY <1>1, <1>2

\* A request that is queued leaves the last word on a sensor, or becomes it.
LEMMA LastAppend ==
    ASSUME wire \in Seq(Packets), NEW p \in Packets, wire' = Append(wire, p),
           retained' = retained, NEW m, NEW w
    PROVE  /\ p.mac = m /\ p.what # "config" /\ p.what = w => LastIs(m, w)'
           /\ ~(p.mac = m /\ p.what # "config") /\ LastIs(m, w) => LastIs(m, w)'
<1>1. /\ \A i \in DOMAIN wire : i \in DOMAIN wire' /\ wire'[i] = wire[i]
      /\ \A i \in DOMAIN wire' : (i \in DOMAIN wire /\ wire'[i] = wire[i]) \/ wire'[i] = p
  BY AppendEntries, AppendFacts
<1>2. PICK n \in DOMAIN wire' : wire'[n] = p /\ \A i \in DOMAIN wire' : i <= n
  BY AppendEntries
<1>3. p.mac = m /\ p.what # "config" /\ p.what = w => LastIs(m, w)'
  BY <1>2 DEF LastIs, IsWord
<1>4. ASSUME ~(p.mac = m /\ p.what # "config"), LastIs(m, w) PROVE LastIs(m, w)'
  <2>1. \A i \in DOMAIN wire' : IsWord(i, m)' => i \in DOMAIN wire /\ IsWord(i, m)
    BY <1>1, <1>4 DEF IsWord
  <2>2. \A i \in DOMAIN wire : i \in DOMAIN wire' /\ (IsWord(i, m) => IsWord(i, m)')
    BY <1>1 DEF IsWord
  <2>3. QED
    BY <1>1, <1>4, <2>1, <2>2 DEF LastIs
<1>5. QED
  BY <1>3, <1>4

\* The request the broker takes is retained, or was not the last word.
LEMMA LastDeliver ==
    ASSUME AvailabilityIInv, Deliver, NEW m \in Sensors, NEW w, LastIs(m, w)
    PROVE  LastIs(m, w)'
<1>1. /\ wire \in Seq(Packets) /\ wire # <<>> /\ wire' = Tail(wire)
      /\ retained \in [Sensors -> Words \cup {"none"}]
  BY DEF Deliver, AvailabilityIInv, TaskTypes, BrokerTypes
<1>2. PICK p \in Packets : p = Head(wire)
  BY <1>1, TailFacts
<1>3. /\ 1 \in DOMAIN wire /\ p = wire[1]
      /\ \A i \in DOMAIN wire' : i + 1 \in DOMAIN wire /\ wire'[i] = wire[i + 1]
      /\ \A i \in DOMAIN wire : i # 1 => i - 1 \in DOMAIN wire' /\ wire'[i - 1] = wire[i]
  BY <1>1, <1>2, TailFacts, TailInverse
<1>4. DOMAIN wire \subseteq Nat /\ DOMAIN wire' \subseteq Nat /\ \A i \in DOMAIN wire : i >= 1
  BY <1>1, LenProperties, TailFacts
<1>5. /\ p.what # "config" => retained'[p.mac] = p.what
      /\ p.mac # m \/ p.what = "config" => retained'[m] = retained[m]
  BY <1>1, <1>2 DEF Deliver, Packets
<1>6. CASE \E i \in DOMAIN wire :
              IsWord(i, m) /\ wire[i].what = w /\ \A j \in DOMAIN wire : IsWord(j, m) => j <= i
  <2>1. PICK i \in DOMAIN wire :
              IsWord(i, m) /\ wire[i].what = w /\ \A j \in DOMAIN wire : IsWord(j, m) => j <= i
    BY <1>6
  <2>2. CASE i = 1
    <3>1. \A j \in DOMAIN wire' : ~IsWord(j, m)'
      <4> SUFFICES ASSUME NEW j \in DOMAIN wire', IsWord(j, m)' PROVE FALSE
        OBVIOUS
      <4>1. IsWord(j + 1, m) /\ j + 1 \in DOMAIN wire
        BY <1>3 DEF IsWord
      <4>2. j + 1 <= 1 /\ j \in Nat
        BY <1>4, <2>1, <2>2, <4>1
      <4>3. j # 0
        BY <1>1, TailFacts, LenProperties
      <4>4. QED
        BY <4>2, <4>3
    <3>2. retained'[m] = w
      BY <1>3, <1>5, <2>1, <2>2 DEF IsWord
    <3>3. QED
      BY <3>1, <3>2 DEF LastIs
  <2>3. CASE i # 1
    <3>1. i - 1 \in DOMAIN wire' /\ IsWord(i - 1, m)' /\ wire'[i - 1].what = w
      BY <1>3, <2>1, <2>3 DEF IsWord
    <3>2. ASSUME NEW j \in DOMAIN wire', IsWord(j, m)' PROVE j <= i - 1
      <4>1. IsWord(j + 1, m) /\ j + 1 \in DOMAIN wire
        BY <1>3, <3>2 DEF IsWord
      <4>2. j + 1 <= i /\ j \in Nat /\ i \in Nat
        BY <1>4, <2>1, <4>1
      <4>3. QED
        BY <4>2
    <3>3. QED
      BY <3>1, <3>2 DEF LastIs
  <2>4. QED
    BY <2>2, <2>3
<1>7. CASE (\A j \in DOMAIN wire : ~IsWord(j, m)) /\ retained[m] = w
  <2>1. ~IsWord(1, m)
    BY <1>3, <1>7
  <2>2. retained'[m] = w
    BY <1>3, <1>5, <1>7, <2>1 DEF IsWord
  <2>3. \A j \in DOMAIN wire' : ~IsWord(j, m)'
    BY <1>3, <1>7 DEF IsWord
  <2>4. QED
    BY <2>2, <2>3 DEF LastIs
<1>8. QED
  BY <1>6, <1>7 DEF LastIs

\* The news of all sensors that went silent are queued.
LEMMA SweepTells ==
    ASSUME AvailabilityIInv, Sweep, NEW m \in Sensors
    PROVE  /\ Overdue(m) => Coming(m)'
           /\ Coming(m) => Coming(m)'
           /\ ~Overdue(m) => online'[m] = online[m]
<1> DEFINE gone == {s \in Sensors : Overdue(s)}
<1>1. PICK q \in SetToSeqs(gone) : notices' = notices \o q
  BY DEF Sweep
<1>2. online' = [s \in Sensors |-> online[s] /\ s \notin gone] /\ events' = events
  BY DEF Sweep
<1>3. IsFiniteSet(gone)
  BY AvailabilityAssumption, FS_Subset
<1>4. q \in Seq(Sensors) /\ notices \in Seq(Sensors)
  BY <1>1, OrderedSet DEF AvailabilityIInv, ChannelTypes
<1>5. \A s \in gone : \E i \in 1 .. Cardinality(gone) : q[i] = s
  <2>1. Cardinality(gone) \in Nat
    BY <1>3, FS_CardinalityType
  <2>2. IsFiniteSet(1 .. Cardinality(gone)) /\ Cardinality(1 .. Cardinality(gone)) = Cardinality(gone)
    BY <2>1, FS_Interval
  <2>3. q \in Injection(1 .. Cardinality(gone), gone)
    BY <1>1 DEF SetToSeqs, Injection, IsInjective
  <2>4. q \in Surjection(1 .. Cardinality(gone), gone)
    BY <1>3, <2>2, <2>3, FS_Injection
  <2>5. QED
    BY <2>4 DEF Surjection
<1>6. DOMAIN q = 1 .. Cardinality(gone) /\ Cardinality(gone) \in Nat
  BY <1>1, <1>3, FS_CardinalityType DEF SetToSeqs
<1> HIDE DEF gone
<1>7. Len(q) = Cardinality(gone)
  BY <1>4, <1>6, LenProperties
<1>8. /\ \A i \in DOMAIN notices : i \in DOMAIN notices' /\ notices'[i] = notices[i]
      /\ \A i \in 1 .. Len(q) : \E k \in DOMAIN notices' : notices'[k] = q[i]
  <2>1. /\ DOMAIN notices = 1 .. Len(notices) /\ Len(notices) \in Nat /\ Len(q) \in Nat
        /\ DOMAIN notices' = 1 .. Len(notices) + Len(q)
        /\ \A k \in 1 .. Len(notices) + Len(q) :
              notices'[k] = IF k <= Len(notices) THEN notices[k] ELSE q[k - Len(notices)]
    BY <1>1, <1>4, ConcatProperties, LenProperties
  <2>2. ASSUME NEW i \in 1 .. Len(q) PROVE \E k \in DOMAIN notices' : notices'[k] = q[i]
    <3>1. /\ Len(notices) + i \in DOMAIN notices' /\ ~(Len(notices) + i <= Len(notices))
          /\ (Len(notices) + i) - Len(notices) = i
      BY <2>1
    <3>2. QED
      BY <2>1, <3>1
  <2>3. QED
    BY <2>1, <2>2
<1>9. Overdue(m) => Coming(m)'
  BY <1>5, <1>7, <1>8 DEF Coming, gone
<1>10. Coming(m) => Coming(m)'
  BY <1>2, <1>8 DEF Coming
<1>11. ~Overdue(m) => online'[m] = online[m]
  BY <1>2 DEF gone, AvailabilityIInv, ManagerTypes
<1>12. QED
  BY <1>9, <1>10, <1>11

-------------------------------------------------------------------------------
(* The invariant, step by step. *)

\* The last word on m is the manager's.
WordSent(m) == LastIs(m, Say(online[m]))

\* Neither the manager, nor what is told, nor what is retained changes.
LEMMA ToldFrame ==
    ASSUME ToldInv, UNCHANGED <<kind, online, job, wire, retained, connected>>,
           \A m \in Sensors : /\ causes[m] \subseteq causes'[m]
                              /\ Coming(m) => Coming(m)'
    PROVE  ToldInv'
<1>1. \A m \in Sensors : Trusted(m)' => Trusted(m)
  BY DEF Trusted, Known
<1>2. \A m \in Sensors : /\ WordsRight(m) => WordsRight(m)'
                         /\ WordComes(m) => WordComes(m)'
  BY DEF WordsRight, WordComes, LastIs, IsWord, Saying, Listed
<1>3. QED
  BY <1>1, <1>2 DEF ToldInv

LEMMA DiscoveryFrame ==
    ASSUME Rested, DiscoveryInv, UNCHANGED <<kind, job, published, wire, config, connected>>
    PROVE  Rested' /\ DiscoveryInv'
<1>1. \A m : /\ ConfigSent(m)' <=> ConfigSent(m)
             /\ \A t : Discovers(t, m)' <=> Discovers(t, m)
  BY DEF ConfigSent, Discovers, Listed
<1>2. QED
  BY <1>1 DEF Rested, DiscoveryInv

\* Task t goes on to job j: what it says is the manager's word, and what it had to
\* say it still has, or it is on its way to the broker.
ToldMove(t, j) ==
    \A m \in Sensors : Trusted(m) /\ WordsRight(m) =>
        /\ j.at \in Announcing /\ j.mac = m => j.told = Say(online[m])
        /\ WordSent(m) => WordSent(m)'
        /\ Saying(t, m) \/ Listed(t, m) =>
              \/ WordSent(m)'
              \/ j.at \in Announcing /\ j.mac = m
              \/ j.at = "listing" \/ m \in j.todo

LEMMA ToldJob ==
    ASSUME AvailabilityIInv, ToldInv,
           UNCHANGED <<kind, online, events, notices, connected, causes>>,
           NEW t \in Tasks, NEW j, job' = [job EXCEPT ![t] = j],
           ToldMove(t, j)
    PROVE  ToldInv'
<1>1. job \in [Tasks -> Jobs]
  BY DEF AvailabilityIInv, TaskTypes
<1>2. job'[t] = j /\ \A u \in Tasks : u # t => job'[u] = job[u]
  BY <1>1
<1>3. ASSUME NEW m \in Sensors, Trusted(m)' PROVE WordsRight(m)' /\ WordComes(m)'
  <2>1. Trusted(m) /\ WordsRight(m) /\ WordComes(m)
    BY <1>3 DEF ToldInv, Trusted, Known, Coming
  <2>2. WordsRight(m)'
    BY <1>2, <2>1 DEF WordsRight, Saying, ToldMove
  <2>3. WordComes(m)'
    <3>1. CASE WordSent(m) \/ ~connected
      BY <2>1, <3>1 DEF WordComes, WordSent, ToldMove
    <3>2. ASSUME NEW u \in Tasks, Saying(u, m) \/ Listed(u, m) PROVE WordComes(m)'
      <4>1. CASE u = t
        <5>1. WordSent(m)' \/ Saying(t, m)' \/ Listed(t, m)'
          BY <1>2, <2>1, <3>2, <4>1 DEF Saying, Listed, ToldMove
        <5>2. QED
          BY <5>1 DEF WordComes, WordSent
      <4>2. CASE u # t
        BY <1>2, <3>2, <4>2 DEF WordComes, Saying, Listed
      <4>3. QED
        BY <4>1, <4>2
    <3>3. QED
      BY <2>1, <3>1, <3>2 DEF WordComes, WordSent
  <2>4. QED
    BY <2>2, <2>3
<1>4. QED
  BY <1>3 DEF ToldInv

LEMMA DiscoveryJob ==
    ASSUME AvailabilityIInv, Rested, DiscoveryInv, kind' = kind,
           NEW t \in Tasks, NEW j, job' = [job EXCEPT ![t] = j],
           j.at = "idle" => j.todo = {},
           j.at = "discovering" => kind[j.mac] = "typed",
           \A m \in published' : kind[m] = "typed",
           \A m \in Sensors : kind[m] = "typed" =>
               /\ ConfigSent(m) => ConfigSent(m)'
               /\ m \in published' => m \in published \/ ConfigSent(m)'
               /\ Discovers(t, m) => ConfigSent(m)' \/ Discovers(t, m)'
    PROVE  Rested' /\ DiscoveryInv'
<1>1. job \in [Tasks -> Jobs]
  BY DEF AvailabilityIInv, TaskTypes
<1>2. job'[t] = j /\ \A u \in Tasks : u # t => job'[u] = job[u]
  BY <1>1
<1>3. Rested'
  BY <1>2 DEF Rested
<1>4. \A u \in Tasks : job'[u].at = "discovering" => kind[job'[u].mac] = "typed"
  BY <1>2 DEF DiscoveryInv
<1>5. ASSUME NEW m \in Sensors, kind[m] = "typed", ~ConfigSent(m)'
      PROVE  \E u \in Tasks : Discovers(u, m)'
  <2>1. PICK u \in Tasks : Discovers(u, m)
    BY <1>5 DEF DiscoveryInv
  <2>2. CASE u = t
    BY <1>5, <2>1, <2>2
  <2>3. CASE u # t
    BY <1>2, <1>5, <2>1, <2>3 DEF Discovers, Listed
  <2>4. QED
    BY <2>2, <2>3
<1>6. QED
  BY <1>3, <1>4, <1>5 DEF DiscoveryInv

\* A request for another sensor, or of another kind, changes neither the last word
\* on m nor what was sent of its discovery.
LEMMA PutFacts ==
    ASSUME AvailabilityIInv, NEW p \in Packets, wire' = Append(wire, p),
           UNCHANGED <<online, retained, config, connected>>, NEW m \in Sensors
    PROVE  /\ WordSent(m) /\ ~(p.mac = m /\ p.what # "config") => WordSent(m)'
           /\ p.mac = m /\ p.what # "config" /\ p.what = Say(online[m]) => WordSent(m)'
           /\ ConfigSent(m) \/ (p.mac = m /\ p.what = "config") => ConfigSent(m)'
<1>1. PICK w : w = Say(online[m])
  OBVIOUS
<1>2. w = Say(online'[m])
  BY <1>1
<1>3. wire \in Seq(Packets)
  BY DEF AvailabilityIInv, TaskTypes
<1>4. /\ p.mac = m /\ p.what # "config" /\ p.what = w => LastIs(m, w)'
      /\ ~(p.mac = m /\ p.what # "config") /\ LastIs(m, w) => LastIs(m, w)'
  BY <1>3, LastAppend
<1>5. (WordSent(m) <=> LastIs(m, w)) /\ (WordSent(m)' <=> LastIs(m, w)')
  BY <1>1, <1>2 DEF WordSent
<1>6. ConfigSent(m) \/ (p.mac = m /\ p.what = "config") => ConfigSent(m)'
  BY <1>3, AppendEntries DEF ConfigSent
<1>7. QED
  BY <1>1, <1>4, <1>5, <1>6

LEMMA WireFrame ==
    ASSUME UNCHANGED <<online, retained, wire, config, connected>>, NEW m
    PROVE  (WordSent(m)' <=> WordSent(m)) /\ (ConfigSent(m)' <=> ConfigSent(m))
BY DEF WordSent, LastIs, IsWord, ConfigSent

-------------------------------------------------------------------------------
\* A task goes through its sensors.
LEMMA AnnounceTells ==
    ASSUME AvailabilityIInv, Rested, ToldInv, DiscoveryInv, NEW t \in Tasks, Announce(t)
    PROVE  Rested' /\ ToldInv' /\ DiscoveryInv'
<1>1. /\ UNCHANGED <<kind, online, events, notices, connected, causes, retained, config>>
      /\ job \in [Tasks -> Jobs] /\ job[t] \in Jobs
  BY DEF Announce, List, LookUp, Lock, Discover, Tell, managerVars, brokerVars,
         AvailabilityIInv, TaskTypes
<1>2. CASE List(t)
  <2>1. UNCHANGED <<published, wire>> /\ job[t].at = "listing"
    BY <1>2 DEF List
  <2>2. PICK j : /\ job' = [job EXCEPT ![t] = j]
                 /\ j = IF Known = {} THEN Idle ELSE [job[t] EXCEPT !.at = "next", !.todo = Known]
    BY <1>1, <1>2 DEF List, Onward
  <2>3. /\ j.at \in {"idle", "next"}
        /\ j.at = "idle" => j.todo = {}
        /\ \A m \in Known : m \in j.todo /\ j.force = job[t].force
    BY <1>1, <2>2 DEF Idle, Jobs
  <2>4. ToldInv'
    <3>1. ToldMove(t, j)
      BY <1>1, <2>1, <2>3, WireFrame DEF Announcing, Trusted, ToldMove
    <3>2. QED
      BY <1>1, <2>2, <3>1, ToldJob
  <2>5. Rested' /\ DiscoveryInv'
    <3>1. \A m \in Sensors : kind[m] = "typed" /\ Discovers(t, m) => Discovers(t, m)'
      <4> SUFFICES ASSUME NEW m \in Sensors, kind[m] = "typed", Discovers(t, m)
                   PROVE  Discovers(t, m)'
        OBVIOUS
      <4>1. m \in Known /\ job'[t] = j
        BY <1>1, <2>2 DEF Known
      <4>2. QED
        BY <2>1, <2>3, <4>1 DEF Discovers, Listed
    <3>2. QED
      BY <1>1, <2>1, <2>2, <2>3, <3>1, WireFrame, DiscoveryJob DEF DiscoveryInv
  <2>6. QED
    BY <2>4, <2>5
<1>3. CASE LookUp(t)
  <2>1. PICK m0 \in job[t].todo :
            job' = [job EXCEPT ![t].at = "locking", ![t].todo = @ \ {m0}, ![t].mac = m0,
                               ![t].told = Say(m0 \in Known /\ online[m0])]
    BY <1>3 DEF LookUp
  <2>2. UNCHANGED <<published, wire>> /\ job[t].at = "next"
    BY <1>3 DEF LookUp
  <2>3. PICK j : /\ job' = [job EXCEPT ![t] = j]
                 /\ j = [job[t] EXCEPT !.at = "locking", !.todo = @ \ {m0}, !.mac = m0,
                                       !.told = Say(m0 \in Known /\ online[m0])]
    BY <1>1, <2>1
  <2>4. /\ j.at = "locking" /\ j.mac = m0 /\ j.todo = job[t].todo \ {m0}
        /\ j.told = Say(m0 \in Known /\ online[m0]) /\ j.force = job[t].force
    BY <1>1, <2>3 DEF Jobs
  <2>5. \A m \in Known : m = m0 => j.told = Say(online[m])
    <3> SUFFICES ASSUME m0 \in Known PROVE j.told = Say(online[m0])
      OBVIOUS
    <3>1. online[m0] \in BOOLEAN
      BY DEF AvailabilityIInv, ManagerTypes, Known
    <3>2. QED
      BY <2>4, <3>1 DEF Say
  <2>6. ToldInv'
    <3>1. \A m \in Sensors : Saying(t, m) \/ Listed(t, m) => j.mac = m \/ m \in j.todo
      BY <2>2, <2>4 DEF Saying, Listed, Announcing
    <3>2. ToldMove(t, j)
      BY <1>1, <2>2, <2>4, <2>5, <3>1, WireFrame DEF Announcing, Trusted, ToldMove
    <3>3. QED
      BY <1>1, <2>3, <3>2, ToldJob
  <2>7. Rested' /\ DiscoveryInv'
    <3>1. \A m \in Sensors : Discovers(t, m) => Discovers(t, m)'
      <4>1. job'[t] = j
        BY <1>1, <2>3
      <4>2. QED
        BY <2>2, <2>4, <4>1 DEF Discovers, Listed
    <3>2. QED
      BY <1>1, <2>2, <2>3, <2>4, <3>1, WireFrame, DiscoveryJob DEF DiscoveryInv
  <2>8. QED
    BY <2>6, <2>7
<1>4. CASE Lock(t)
  <2>1. PICK m0 \in Sensors : m0 = job[t].mac
    BY <1>4 DEF Lock, AvailabilityIInv, Placed, Announcing
  <2>2. PICK sent : sent = IF job[t].force THEN published \ {m0} ELSE published
    OBVIOUS
  <2>3. PICK j : /\ job' = [job EXCEPT ![t] = j]
                 /\ j = [job[t] EXCEPT !.at = IF m0 \notin sent /\ kind[m0] = "typed"
                                                 THEN "discovering" ELSE "telling"]
    BY <1>1, <1>4, <2>1, <2>2 DEF Lock, Move
  <2>4. /\ published' = sent /\ wire' = wire /\ job[t].at = "locking"
        /\ sent \subseteq published /\ (job[t].force => m0 \notin sent)
    BY <1>4, <2>1, <2>2 DEF Lock
  <2>5. /\ j.at = IF m0 \notin sent /\ kind[m0] = "typed" THEN "discovering" ELSE "telling"
        /\ j.mac = m0 /\ j.told = job[t].told /\ j.todo = job[t].todo
        /\ j.force = job[t].force
    BY <1>1, <2>1, <2>3 DEF Jobs
  <2>6. ToldInv'
    <3>1. ToldMove(t, j)
      BY <1>1, <2>1, <2>4, <2>5, WireFrame DEF Announcing, WordsRight, Saying, Listed, ToldMove
    <3>2. QED
      BY <1>1, <2>3, <3>1, ToldJob
  <2>7. Rested' /\ DiscoveryInv'
    <3>1. \A m \in Sensors : kind[m] = "typed" /\ Discovers(t, m) => Discovers(t, m)'
      <4>1. job'[t] = j
        BY <1>1, <2>3
      <4>2. QED
        BY <2>1, <2>2, <2>4, <2>5, <4>1 DEF Discovers, Listed
    <3>2. j.at \in {"discovering", "telling"} /\ (j.at = "discovering" => kind[j.mac] = "typed")
      BY <2>5
    <3>3. QED
      BY <1>1, <2>3, <2>4, <3>1, <3>2, WireFrame, DiscoveryJob DEF DiscoveryInv
  <2>8. QED
    BY <2>6, <2>7
<1>5. CASE Discover(t)
  <2>1. PICK m0 \in Sensors : m0 = job[t].mac
    BY <1>5 DEF Discover, AvailabilityIInv, Placed, Announcing
  <2>2. PICK p \in Packets : p = [mac |-> m0, what |-> "config"]
    BY DEF Packets
  <2>3. /\ wire' = Append(wire, p) /\ published' = published \cup {m0}
        /\ job[t].at = "discovering"
    BY <1>5, <2>1, <2>2 DEF Discover, Put
  <2>4. PICK j : job' = [job EXCEPT ![t] = j] /\ j = [job[t] EXCEPT !.at = "telling"]
    BY <1>1, <1>5 DEF Discover, Move
  <2>5. /\ j.at = "telling" /\ j.mac = m0 /\ j.told = job[t].told
        /\ j.todo = job[t].todo /\ j.force = job[t].force
    BY <1>1, <2>1, <2>4 DEF Jobs
  <2>6. \A m \in Sensors : /\ WordSent(m) => WordSent(m)'
                           /\ ConfigSent(m) \/ m = m0 => ConfigSent(m)'
    BY <1>1, <2>2, <2>3, PutFacts
  <2>7. ToldInv'
    <3>1. ToldMove(t, j)
      BY <2>1, <2>3, <2>5, <2>6 DEF Announcing, WordsRight, Saying, Listed, ToldMove
    <3>2. QED
      BY <1>1, <2>4, <3>1, ToldJob
  <2>8. Rested' /\ DiscoveryInv'
    <3>1. \A m \in Sensors : Discovers(t, m) => ConfigSent(m)' \/ Discovers(t, m)'
      <4>1. job'[t] = j
        BY <1>1, <2>4
      <4>2. QED
        BY <2>1, <2>3, <2>5, <2>6, <4>1 DEF Discovers, Listed
    <3>2. kind[m0] = "typed"
      BY <2>1, <2>3 DEF DiscoveryInv
    <3>3. QED
      BY <1>1, <2>3, <2>4, <2>5, <2>6, <3>1, <3>2, DiscoveryJob DEF DiscoveryInv
  <2>9. QED
    BY <2>7, <2>8
<1>6. CASE Tell(t)
  <2>1. PICK m0 \in Sensors : m0 = job[t].mac /\ job[t].told \in Words
    BY <1>6 DEF Tell, AvailabilityIInv, Placed, Announcing
  <2>2. PICK p \in Packets : p = [mac |-> m0, what |-> job[t].told]
    BY <2>1 DEF Packets
  <2>3. /\ wire' = Append(wire, p) /\ published' = published
        /\ job[t].at = "telling" /\ p.what # "config"
    BY <1>6, <2>1, <2>2 DEF Tell, Put, Words
  <2>4. PICK j : /\ job' = [job EXCEPT ![t] = j]
                 /\ j = IF job[t].todo = {} THEN Idle
                        ELSE [job[t] EXCEPT !.at = "next", !.todo = job[t].todo]
    BY <1>1, <1>6 DEF Tell, Onward
  <2>5. /\ j.at \in {"idle", "next"} /\ (j.at = "idle" => j.todo = {})
        /\ j.todo = job[t].todo
        /\ j.todo # {} => j.force = job[t].force
    BY <1>1, <2>4 DEF Idle, Jobs
  <2>6. \A m \in Sensors : /\ WordSent(m) /\ m # m0 => WordSent(m)'
                           /\ m = m0 /\ p.what = Say(online[m]) => WordSent(m)'
                           /\ ConfigSent(m) => ConfigSent(m)'
    BY <1>1, <2>2, <2>3, PutFacts
  <2>7. ToldInv'
    <3>1. \A m \in Sensors : WordsRight(m) /\ m = m0 => p.what = Say(online[m])
      BY <2>1, <2>2, <2>3 DEF WordsRight, Saying, Announcing
    <3>2. \A m \in Sensors : Saying(t, m) \/ Listed(t, m) => m = m0 \/ m \in j.todo
      BY <2>1, <2>3, <2>5 DEF Saying, Listed
    <3>3. ToldMove(t, j)
      BY <2>5, <2>6, <3>1, <3>2 DEF Announcing, ToldMove
    <3>4. QED
      BY <1>1, <2>4, <3>3, ToldJob
  <2>8. Rested' /\ DiscoveryInv'
    <3>1. \A m \in Sensors : Discovers(t, m) => Discovers(t, m)'
      <4>1. job'[t] = j
        BY <1>1, <2>4
      <4>2. QED
        BY <2>3, <2>5, <4>1 DEF Discovers, Listed
    <3>2. QED
      BY <1>1, <2>3, <2>4, <2>5, <2>6, <3>1, DiscoveryJob DEF DiscoveryInv
  <2>9. QED
    BY <2>7, <2>8
<1>7. QED
  BY <1>2, <1>3, <1>4, <1>5, <1>6 DEF Announce

\* An announcer that is spawned has nothing to lose.
LEMMA SpawnTells ==
    ASSUME AvailabilityIInv, Rested, ToldInv, DiscoveryInv, NEW forced \in BOOLEAN,
           Spawn(forced),
           UNCHANGED <<managerVars, events, notices, published, wire, brokerVars, causes>>
    PROVE  Rested' /\ ToldInv' /\ DiscoveryInv'
<1>1. PICK t \in Announcers : /\ job[t] = Idle
                              /\ job' = [job EXCEPT ![t] = [Idle EXCEPT !.at = "listing", !.force = forced]]
  BY DEF Spawn
<1>2. PICK j : j = [Idle EXCEPT !.at = "listing", !.force = forced]
  OBVIOUS
<1>3. j.at = "listing" /\ t \in Tasks /\ job' = [job EXCEPT ![t] = j]
  BY <1>1, <1>2 DEF Idle, Tasks
<1>4. /\ UNCHANGED <<kind, online, events, notices, connected, causes, retained, config,
                     published, wire>>
  BY DEF managerVars, brokerVars
<1>5. ToldInv'
  <2>1. ToldMove(t, j)
    BY <1>3, <1>4, WireFrame DEF Announcing, ToldMove
  <2>2. QED
    BY <1>3, <1>4, <2>1, ToldJob
<1>6. \A m : ~Discovers(t, m)
  BY <1>1 DEF Discovers, Listed, Idle
<1>7. Rested' /\ DiscoveryInv'
  BY <1>3, <1>4, <1>6, WireFrame, DiscoveryJob DEF DiscoveryInv
<1>8. QED
  BY <1>5, <1>7

\* The broker takes a request.
LEMMA DeliverTells ==
    ASSUME AvailabilityIInv, Rested, ToldInv, DiscoveryInv, Deliver
    PROVE  Rested' /\ ToldInv' /\ DiscoveryInv'
<1>1. /\ UNCHANGED <<kind, online, events, notices, connected, causes, published, job>>
      /\ job \in [Tasks -> Jobs] /\ Worker \in Tasks
  BY DEF Deliver, managerVars, AvailabilityIInv, TaskTypes, Tasks
<1>2. PICK j : j = job[Worker]
  OBVIOUS
<1>3. job' = [job EXCEPT ![Worker] = j] /\ job'[Worker] = j
  BY <1>1, <1>2
<1>4. \A m \in Sensors : WordSent(m) => WordSent(m)'
  <2> SUFFICES ASSUME NEW m \in Sensors, WordSent(m) PROVE WordSent(m)'
    OBVIOUS
  <2>1. PICK w : w = Say(online[m]) /\ w = Say(online'[m])
    BY <1>1
  <2>2. QED
    BY <2>1, LastDeliver DEF WordSent
<1>5. \A m \in Sensors : ConfigSent(m) => ConfigSent(m)'
  <2> SUFFICES ASSUME NEW m \in Sensors, ConfigSent(m) PROVE ConfigSent(m)'
    OBVIOUS
  <2>1. /\ wire \in Seq(Packets) /\ wire # <<>> /\ wire' = Tail(wire)
        /\ Head(wire).what = "config" => config' = config \cup {Head(wire).mac}
        /\ config \subseteq config'
    BY DEF Deliver, AvailabilityIInv, TaskTypes
  <2>2. ASSUME NEW i \in DOMAIN wire, wire[i].mac = m, wire[i].what = "config"
        PROVE  ConfigSent(m)'
    <3>1. CASE i = 1
      <4>1. Head(wire).mac = m /\ Head(wire).what = "config"
        BY <2>1, <2>2, <3>1, TailFacts
      <4>2. QED
        BY <2>1, <4>1 DEF ConfigSent
    <3>2. CASE i # 1
      <4>1. i - 1 \in DOMAIN wire' /\ wire'[i - 1] = wire[i]
        BY <2>1, <3>2, TailInverse
      <4>2. QED
        BY <2>2, <4>1 DEF ConfigSent
    <3>3. QED
      BY <3>1, <3>2
  <2>3. QED
    BY <1>1, <2>1, <2>2 DEF ConfigSent
<1>6. ToldInv'
  <2>1. ToldMove(Worker, j)
    BY <1>1, <1>2, <1>4 DEF WordsRight, Saying, Listed, ToldMove
  <2>2. QED
    BY <1>1, <1>3, <2>1, ToldJob
<1>7. Rested' /\ DiscoveryInv'
  BY <1>1, <1>2, <1>3, <1>5, DiscoveryJob DEF Rested, DiscoveryInv, Discovers, Listed
<1>8. QED
  BY <1>6, <1>7

-------------------------------------------------------------------------------
(* What the manager learns. *)

\* The event that is dispatched makes the worker say what the manager then knows;
\* whoever is about to say something else of the sensor is crossed.
LEMMA DispatchTells ==
    ASSUME AvailabilityIInv, Rested, ToldInv, DiscoveryInv, Dispatch
    PROVE  Rested' /\ ToldInv' /\ DiscoveryInv'
<1>1. events \in Seq(Events) /\ events # <<>> /\ events' = Tail(events)
  BY DEF AvailabilityIInv, ChannelTypes, Dispatch
<1>2. PICK e \in Events : e = Head(events)
  BY <1>1, TailFacts
<1>3. PICK m0 \in Sensors : m0 = e.mac
  BY <1>2 DEF Dispatch, Events
<1>4. \A i \in DOMAIN events : i # 1 => i - 1 \in DOMAIN events' /\ events'[i - 1] = events[i]
  BY <1>1, TailInverse
<1>5. e = events[1]
  BY <1>1, <1>2, TailFacts
<1>6. \A m \in Sensors : m # m0 /\ Coming(m) => Coming(m)'
  <2>1. notices' = notices
    BY DEF Dispatch
  <2>2. QED
    BY <1>3, <1>4, <1>5, <2>1 DEF Coming
<1>7. /\ kind' = IF Registers(e)
                    THEN [kind EXCEPT ![m0] = IF e.typed THEN "typed" ELSE "untyped"]
                    ELSE kind
      /\ online' = [online EXCEPT ![m0] = OnlineAfter(e)]
      /\ job' = [job EXCEPT ![Worker] = [Idle EXCEPT !.at = "locking", !.mac = m0, !.told = Word(e)]]
      /\ causes' = [causes EXCEPT ![m0] =
                       @ \cup (IF Crossed(m0, Word(e)) THEN {"crossed"} ELSE {})
                         \cup (IF e.what = "offline" /\ online[m0] THEN {"overtaken"} ELSE {})]
      /\ job[Worker].at = "idle"
      /\ UNCHANGED <<wire, retained, config, connected, published>>
  BY <1>2, <1>3 DEF Dispatch, brokerVars
<1>8. PICK j : j = [Idle EXCEPT !.at = "locking", !.mac = m0, !.told = Word(e)]
  OBVIOUS
<1>9. /\ j.at = "locking" /\ j.mac = m0 /\ j.told = Word(e) /\ j.todo = {}
      /\ job'[Worker] = j /\ \A t \in Tasks : t # Worker => job'[t] = job[t]
      /\ Worker \in Tasks /\ Tasks = Announcers \cup {Worker}
  BY <1>7, <1>8 DEF Idle, Tasks, AvailabilityIInv, TaskTypes
<1>10. \A m : ~Saying(Worker, m) /\ ~Listed(Worker, m) /\ ~Discovers(Worker, m)
  BY <1>7, <1>9 DEF Rested, Saying, Listed, Discovers, Announcing
<1>11. \A m \in Sensors : m # m0 => /\ kind'[m] = kind[m] /\ online'[m] = online[m]
                                    /\ causes'[m] = causes[m]
  BY <1>3, <1>7 DEF AvailabilityIInv, ManagerTypes
<1>12. /\ kind'[m0] = IF Registers(e) THEN (IF e.typed THEN "typed" ELSE "untyped") ELSE kind[m0]
       /\ online'[m0] = OnlineAfter(e)
       /\ Crossed(m0, Word(e)) => "crossed" \in causes'[m0]
  BY <1>7 DEF AvailabilityIInv, ManagerTypes
<1>13. Rested'
  BY <1>9 DEF Rested
<1>14. ToldInv'
  <2>1. ASSUME NEW m \in Sensors, m # m0, Trusted(m)' PROVE WordsRight(m)' /\ WordComes(m)'
    <3>1. Trusted(m) /\ WordsRight(m) /\ WordComes(m)
      BY <1>6, <1>11, <2>1 DEF ToldInv, Trusted, Known
    <3>2. WordsRight(m)'
      BY <1>9, <1>11, <2>1, <3>1 DEF WordsRight, Saying
    <3>3. WordComes(m)'
      <4>1. CASE \E t \in Tasks : Saying(t, m) \/ Listed(t, m)
        BY <1>9, <1>10, <4>1 DEF WordComes, Saying, Listed
      <4>2. CASE LastIs(m, Say(online[m])) \/ ~connected
        <5>1. PICK w : w = Say(online[m]) /\ w = Say(online'[m])
          BY <1>11, <2>1
        <5>2. LastIs(m, w) => LastIs(m, w)'
          BY <1>7 DEF LastIs, IsWord
        <5>3. QED
          BY <1>7, <4>2, <5>1, <5>2 DEF WordComes
      <4>3. QED
        BY <3>1, <4>1, <4>2 DEF WordComes
    <3>4. QED
      BY <3>2, <3>3
  <2>2. ASSUME Trusted(m0)' PROVE WordsRight(m0)' /\ WordComes(m0)'
    <3>1. ~Crossed(m0, Word(e)) /\ kind'[m0] # "absent"
      BY <1>12, <2>2 DEF Trusted, Known
    <3>2. ~Ignored(e)
      BY <1>3, <1>12, <3>1 DEF Ignored, Registers, Known
    <3>3. Word(e) = Say(online'[m0])
      BY <1>12, <3>2 DEF Word
    <3>4. \A t \in Announcers : Saying(t, m0) => job[t].told = Word(e)
      BY <3>1 DEF Crossed, Saying
    <3>5. WordsRight(m0)'
      <4> SUFFICES ASSUME NEW t \in Tasks, Saying(t, m0)' PROVE job'[t].told = Word(e)
        BY <3>3 DEF WordsRight
      <4>1. CASE t = Worker
        BY <1>9, <4>1
      <4>2. CASE t # Worker
        BY <1>9, <3>4, <4>2 DEF Saying
      <4>3. QED
        BY <4>1, <4>2
    <3>6. Saying(Worker, m0)'
      BY <1>9 DEF Saying, Announcing
    <3>7. QED
      BY <1>9, <3>5, <3>6 DEF WordComes
  <2>3. QED
    BY <2>1, <2>2 DEF ToldInv
<1>15. DiscoveryInv'
  <2>1. \A m \in Sensors : kind[m] = "typed" => kind'[m] = "typed"
    <3>1. kind[m0] = "typed" => ~Registers(e)
      BY <1>3 DEF Registers, Known
    <3>2. QED
      BY <1>11, <1>12, <3>1
  <2>2. /\ \A m \in published' : kind'[m] = "typed"
        /\ \A t \in Tasks : job'[t].at = "discovering" => kind'[job'[t].mac] = "typed"
    <3>1. published \subseteq Sensors
      BY DEF AvailabilityIInv, TaskTypes
    <3>2. \A t \in Tasks : job[t].at = "discovering" => job[t].mac \in Sensors
      BY DEF AvailabilityIInv, Placed, Announcing
    <3>3. QED
      BY <1>7, <1>9, <2>1, <3>1, <3>2 DEF DiscoveryInv
  <2>3. ASSUME NEW m \in Sensors, kind'[m] = "typed"
        PROVE  ConfigSent(m)' \/ \E t \in Tasks : Discovers(t, m)'
    <3>1. CASE kind[m] = "typed"
      <4>1. ConfigSent(m) => ConfigSent(m)'
        BY <1>7 DEF ConfigSent
      <4>2. \A t \in Tasks : Discovers(t, m) => Discovers(t, m)'
        BY <1>7, <1>9, <1>10 DEF Discovers, Listed
      <4>3. QED
        BY <3>1, <4>1, <4>2 DEF DiscoveryInv
    <3>2. CASE kind[m] # "typed"
      <4>1. m = m0 /\ m \notin published'
        BY <1>7, <1>11, <2>3, <3>2 DEF DiscoveryInv
      <4>2. Discovers(Worker, m)'
        BY <1>9, <4>1 DEF Discovers
      <4>3. QED
        BY <1>9, <4>2
    <3>3. QED
      BY <3>1, <3>2
  <2>4. QED
    BY <2>2, <2>3 DEF DiscoveryInv
<1>16. QED
  BY <1>13, <1>14, <1>15

\* The sensor mentioned is news, or nothing but what its loss leaves untold is
\* added to its causes; the news of the others stay.
LEMMA MentionNews ==
    ASSUME AvailabilityIInv, NEW m \in Sensors, NEW lost \in SUBSET Causes, Mention(m, lost),
           notices' = notices
    PROVE  /\ Coming(m)' \/ causes'[m] = causes[m] \cup lost
           /\ \A s \in Sensors : /\ Coming(s) => Coming(s)'
                                 /\ causes[s] \subseteq causes'[s]
<1>1. events \in Seq(Events)
  BY DEF AvailabilityIInv, ChannelTypes
<1>2. /\ \/ \E e \in Events : e.mac = m /\ events' = Append(events, e)
         \/ events' = events /\ causes'[m] = causes[m] \cup lost
      /\ \A s \in Sensors : causes[s] \subseteq causes'[s]
  BY MentionFacts
<1>3. CASE \E e \in Events : e.mac = m /\ events' = Append(events, e)
  <2>1. PICK e \in Events : e.mac = m /\ events' = Append(events, e)
    BY <1>3
  <2>2. /\ \A i \in DOMAIN events : i \in DOMAIN events' /\ events'[i] = events[i]
        /\ \E i \in DOMAIN events' : events'[i] = e
    BY <1>1, <2>1, AppendEntries
  <2>3. QED
    BY <1>2, <2>1, <2>2 DEF Coming
<1>4. CASE events' = events /\ causes'[m] = causes[m] \cup lost
  BY <1>2, <1>4 DEF Coming
<1>5. QED
  BY <1>2, <1>3, <1>4

\* A sensor that is assigned, loaded or falls silent is news, or its news is
\* dropped.
LEMMA NewsTells ==
    ASSUME AvailabilityIInv, Rested, ToldInv, DiscoveryInv,
           \/ Sweep \/ \E m \in Sensors : Assign(m)
           \/ \E m \in Sensors, saved \in Times : Load(m, saved)
    PROVE  Rested' /\ ToldInv' /\ DiscoveryInv'
<1>1. UNCHANGED <<job, wire, retained, connected, config, published>>
  BY DEF Sweep, Assign, Load, taskVars, brokerVars
\* Who keeps its state, its causes and its news is told of as before.
<1>2. ASSUME NEW m \in Sensors, online'[m] = online[m], Trusted(m)' => Trusted(m)
      PROVE  Trusted(m)' => WordsRight(m)' /\ WordComes(m)'
  <2>1. PICK w : w = Say(online[m]) /\ w = Say(online'[m])
    BY <1>2
  <2>2. LastIs(m, w) => LastIs(m, w)'
    BY <1>1 DEF LastIs, IsWord
  <2>3. WordsRight(m) /\ WordComes(m) => WordsRight(m)' /\ WordComes(m)'
    BY <1>1, <2>1, <2>2 DEF WordsRight, WordComes, Saying, Listed
  <2>4. QED
    BY <1>2, <2>3 DEF ToldInv
<1>3. CASE Sweep
  <2>1. UNCHANGED <<kind, causes>>
    BY <1>3 DEF Sweep
  <2>2. ASSUME NEW m \in Sensors PROVE Trusted(m)' => WordsRight(m)' /\ WordComes(m)'
    <3>1. /\ Overdue(m) => Coming(m)'
          /\ Coming(m) => Coming(m)'
          /\ ~Overdue(m) => online'[m] = online[m]
      BY <1>3, SweepTells
    <3>2. Trusted(m)' => Trusted(m) /\ ~Overdue(m)
      BY <2>1, <3>1 DEF Trusted, Known
    <3>3. QED
      BY <1>2, <3>1, <3>2
  <2>3. QED
    BY <1>1, <2>1, <2>2, DiscoveryFrame DEF ToldInv
<1>4. ASSUME NEW m0 \in Sensors, Assign(m0) PROVE Rested' /\ ToldInv' /\ DiscoveryInv'
  <2>1. /\ kind[m0] = "absent" /\ kind' = [kind EXCEPT ![m0] = "untyped"]
        /\ online' = [online EXCEPT ![m0] = TRUE] /\ notices' = notices
        /\ Mention(m0, {"dropped"}) /\ {"dropped"} \in SUBSET Causes
    BY <1>4 DEF Assign, Causes
  <2>2. \A m \in Sensors : m # m0 => kind'[m] = kind[m] /\ online'[m] = online[m]
    BY <2>1 DEF AvailabilityIInv, ManagerTypes
  <2>3. /\ Coming(m0)' \/ causes'[m0] = causes[m0] \cup {"dropped"}
        /\ \A m \in Sensors : (Coming(m) => Coming(m)') /\ causes[m] \subseteq causes'[m]
    BY <2>1, MentionNews
  <2>4. ~Trusted(m0)'
    BY <2>3 DEF Trusted
  <2>5. ToldInv'
    <3> SUFFICES ASSUME NEW m \in Sensors, m # m0
                 PROVE  Trusted(m)' => WordsRight(m)' /\ WordComes(m)'
      BY <2>4 DEF ToldInv
    <3>1. Trusted(m)' => Trusted(m)
      BY <2>2, <2>3 DEF Trusted, Known
    <3>2. QED
      BY <1>2, <2>2, <3>1
  <2>6. Rested' /\ DiscoveryInv'
    <3>1. \A m \in Sensors : kind'[m] = "typed" <=> kind[m] = "typed"
      BY <2>1, <2>2 DEF AvailabilityIInv, ManagerTypes
    <3>2. /\ published \subseteq Sensors
          /\ \A t \in Tasks : job[t].at = "discovering" => job[t].mac \in Sensors
      BY DEF AvailabilityIInv, TaskTypes, Placed, Announcing
    <3>3. \A m : /\ ConfigSent(m)' <=> ConfigSent(m)
                 /\ \A t : Discovers(t, m)' <=> Discovers(t, m)
      BY <1>1 DEF ConfigSent, Discovers, Listed
    <3>4. QED
      BY <1>1, <3>1, <3>2, <3>3 DEF Rested, DiscoveryInv
  <2>7. QED
    BY <2>5, <2>6
<1>5. ASSUME NEW m0 \in Sensors, NEW saved \in Times, Load(m0, saved)
      PROVE  Rested' /\ ToldInv' /\ DiscoveryInv'
  <2> DEFINE lost == IF online'[m0] = online[m0] THEN {} ELSE IF online[m0] THEN {"unsaid"} ELSE {"dropped"}
  <2>1. /\ kind' = kind /\ notices' = notices /\ Mention(m0, lost)
        /\ \A m \in Sensors : m # m0 => online'[m] = online[m]
    BY <1>5 DEF Load, AvailabilityIInv, ManagerTypes
  <2>2. /\ lost \in SUBSET Causes
        /\ online'[m0] # online[m0] => lost \cap {"crossed", "dropped", "unsaid"} # {}
    BY DEF Causes
  <2> HIDE DEF lost
  <2>3. /\ Coming(m0)' \/ causes'[m0] = causes[m0] \cup lost
        /\ \A m \in Sensors : (Coming(m) => Coming(m)') /\ causes[m] \subseteq causes'[m]
    BY <2>1, <2>2, MentionNews
  <2>4. \A m \in Sensors : Trusted(m)' => Trusted(m)
    BY <2>1, <2>3 DEF Trusted, Known
  <2>5. Trusted(m0)' => online'[m0] = online[m0]
    BY <2>2, <2>3 DEF Trusted
  <2>6. ToldInv'
    BY <1>2, <2>1, <2>4, <2>5 DEF ToldInv
  <2>7. QED
    BY <1>1, <2>1, <2>6, DiscoveryFrame
<1>6. QED
  BY <1>3, <1>4, <1>5

\* A connection that is lost, and the one after it: everything is told anew.
LEMMA OutageTells ==
    ASSUME AvailabilityIInv, Rested, ToldInv, DiscoveryInv,
           Connect \/ \E forgets \in BOOLEAN : Outage(forgets)
    PROVE  Rested' /\ ToldInv' /\ DiscoveryInv'
<1>1. /\ UNCHANGED <<kind, online, events, notices, causes, published>>
      /\ job \in [Tasks -> Jobs]
  BY DEF Connect, Outage, managerVars, taskVars, AvailabilityIInv, TaskTypes
<1>2. \A m \in Sensors : Trusted(m)' => WordsRight(m)
  BY <1>1 DEF ToldInv, Trusted, Known, Coming
<1>3. CASE \E forgets \in BOOLEAN : Outage(forgets)
  <2>1. job' = job /\ ~connected'
    BY <1>3 DEF Outage, taskVars
  <2>2. ToldInv'
    BY <1>1, <1>2, <2>1 DEF ToldInv, WordsRight, WordComes, Saying
  <2>3. Rested' /\ DiscoveryInv'
    BY <1>1, <2>1 DEF Rested, DiscoveryInv, ConfigSent
  <2>4. QED
    BY <2>2, <2>3
<1>4. CASE Connect
  <2>1. PICK t \in Announcers : job' = [job EXCEPT ![t] = [Idle EXCEPT !.at = "listing", !.force = TRUE]]
    BY <1>4 DEF Connect, Spawn
  <2>2. /\ t \in Tasks /\ job'[t].at = "listing" /\ job'[t].force /\ job'[t].todo = {}
        /\ \A u \in Tasks : u # t => job'[u] = job[u]
    BY <1>1, <2>1 DEF Idle, Tasks
  <2>3. ToldInv'
    BY <1>1, <1>2, <2>2 DEF ToldInv, WordsRight, WordComes, Saying, Listed, Announcing
  <2>4. Rested' /\ DiscoveryInv'
    BY <1>1, <2>2 DEF Rested, DiscoveryInv, Discovers, Listed
  <2>5. QED
    BY <2>3, <2>4
<1>5. QED
  BY <1>3, <1>4

\* Steps that touch none of it.
LEMMA OthersTell ==
    ASSUME AvailabilityIInv, Rested, ToldInv, DiscoveryInv,
           \/ Tick \/ (\E m \in Sensors \cup {Stray}, s \in Signals, at \in Times : Signal(m, s, at))
           \/ Forward \/ Skip \/ (\E what \in {"command", "reload"} : Command(what)) \/ Carry
           \/ UNCHANGED vars
    PROVE  Rested' /\ ToldInv' /\ DiscoveryInv'
<1>1. UNCHANGED <<kind, online, job, wire, retained, connected, config, published, causes>>
  BY DEF Tick, Signal, Forward, Skip, Command, Carry, EndCommand, vars, managerVars, taskVars,
         brokerVars
<1>2. Rested' /\ DiscoveryInv'
  BY <1>1, DiscoveryFrame
<1>3. events \in Seq(Events) /\ notices \in Seq(Sensors)
  BY DEF AvailabilityIInv, ChannelTypes
<1>4. \A m \in Sensors : Coming(m) => Coming(m)'
  <2>1. ASSUME NEW m0 \in Sensors \cup {Stray}, NEW s \in Signals, NEW at \in Times, Signal(m0, s, at)
        PROVE  \A m \in Sensors : Coming(m) => Coming(m)'
    <3>0. at \in Nat
      BY AvailabilityAssumption DEF Times
    <3>1. PICK e \in Events : e = Event(m0, s.what, s.typed, at)
      BY <3>0 DEF Event, Events, Signals
    <3>2. events' = Append(events, e) /\ notices' = notices
      BY <2>1, <3>1 DEF Signal
    <3>3. QED
      BY <1>3, <3>2, AppendEntries DEF Coming
  <2>2. CASE Forward
    <3>1. PICK n \in Sensors : n = Head(notices)
      BY <1>3, <2>2, TailFacts DEF Forward
    <3>2. PICK e \in Events : e = Notice(n) /\ e.mac = n
      <4>1. Notice(n) \in Events /\ Notice(n).mac = n
        BY DEF AvailabilityIInv, ManagerTypes, Notice, Event, Events
      <4>2. QED
        BY <4>1
    <3>3. events' = Append(events, e) /\ notices' = Tail(notices) /\ notices # <<>>
      BY <2>2, <3>1, <3>2 DEF Forward
    <3>4. /\ \A i \in DOMAIN events : i \in DOMAIN events' /\ events'[i] = events[i]
          /\ \E i \in DOMAIN events' : events'[i] = e
      BY <1>3, <3>3, AppendEntries
    <3>5. \A i \in DOMAIN notices : notices[i] = n \/ \E k \in DOMAIN notices' : notices'[k] = notices[i]
      <4>1. notices[1] = n
        BY <1>3, <3>1, <3>3, TailFacts
      <4>2. \A i \in DOMAIN notices : i # 1 => i - 1 \in DOMAIN notices' /\ notices'[i - 1] = notices[i]
        BY <1>3, <3>3, TailInverse
      <4>3. QED
        BY <4>1, <4>2
    <3>6. QED
      BY <3>2, <3>4, <3>5 DEF Coming
  <2>3. CASE Skip
    <3>1. events # <<>> /\ events' = Tail(events) /\ notices' = notices /\ Head(events).mac = Stray
      BY <2>3 DEF Skip
    <3>2. events[1].mac = Stray
      BY <1>3, <3>1, TailFacts
    <3>3. \A i \in DOMAIN events : i # 1 => i - 1 \in DOMAIN events' /\ events'[i - 1] = events[i]
      BY <1>3, <3>1, TailInverse
    <3>4. QED
      BY <3>1, <3>2, <3>3, AvailabilityAssumption DEF Coming
  <2>4. CASE Tick \/ (\E what \in {"command", "reload"} : Command(what)) \/ Carry \/ UNCHANGED vars
    BY <2>4 DEF Tick, Command, Carry, EndCommand, vars, Coming
  <2>5. QED
    BY <2>1, <2>2, <2>3, <2>4
<1>5. QED
  BY <1>1, <1>2, <1>4, ToldFrame

LEMMA RetainedInit == Init => Rested /\ ToldInv /\ DiscoveryInv
<1> SUFFICES ASSUME Init PROVE Rested /\ ToldInv /\ DiscoveryInv
  OBVIOUS
<1>1. /\ \A t \in Tasks : job[t].at = "idle" /\ job[t].todo = {}
      /\ wire = <<>> /\ DOMAIN wire = {}
      /\ \A m \in Sensors : /\ online[m] = (kind[m] # "absent")
                            /\ retained[m] = IF online[m] THEN "online" ELSE "none"
                            /\ m \in config <=> kind[m] = "typed"
      /\ published = config /\ config \subseteq Sensors
  BY DEF Init, Idle
<1>2. ToldInv
  <2> SUFFICES ASSUME NEW m \in Sensors, m \in Known PROVE WordsRight(m) /\ WordComes(m)
    BY DEF ToldInv, Trusted
  <2>1. retained[m] = Say(online[m])
    BY <1>1 DEF Known, Say
  <2>2. WordComes(m)
    BY <1>1, <2>1 DEF WordComes, LastIs
  <2>3. QED
    BY <1>1, <2>2 DEF WordsRight, Saying, Announcing
<1>3. Rested /\ DiscoveryInv
  BY <1>1 DEF Rested, DiscoveryInv, ConfigSent
<1>4. QED
  BY <1>2, <1>3

\* Whatever is lost, restarted or repeated between the manager and the broker, at
\* rest the broker retains of every sensor the state the manager knows, unless an
\* announcement was crossed or the event of a sensor listed first, or changed by its
\* load from file, was dropped, and its discovery once its type is known.
THEOREM RetainedStaysTrue == Spec => []RetainedTrue
<1>1. AvailabilityIInv /\ Rested /\ ToldInv /\ DiscoveryInv /\ [Next]_vars
        => Rested' /\ ToldInv' /\ DiscoveryInv'
  <2> SUFFICES ASSUME AvailabilityIInv, Rested, ToldInv, DiscoveryInv, [Next]_vars
               PROVE  Rested' /\ ToldInv' /\ DiscoveryInv'
    OBVIOUS
  <2>1. ASSUME NEW forced \in BOOLEAN, Spawn(forced), Birth \/ PassOn
        PROVE  Rested' /\ ToldInv' /\ DiscoveryInv'
    BY <2>1, SpawnTells DEF Birth, PassOn
  <2>2. CASE Birth
    BY <2>1, <2>2 DEF Birth
  <2>3. CASE PassOn
    <3>1. CASE sending = "reload"
      BY <2>1, <2>3, <3>1 DEF PassOn
    <3>2. CASE sending # "reload"
      <4>1. UNCHANGED <<kind, online, job, wire, retained, connected, config, published,
                        events, notices, causes>>
        BY <2>3, <3>2 DEF PassOn, managerVars, brokerVars
      <4>2. \A m \in Sensors : Coming(m) => Coming(m)'
        BY <4>1 DEF Coming
      <4>3. QED
        BY <4>1, <4>2, ToldFrame, DiscoveryFrame
    <3>3. QED
      BY <3>1, <3>2
  <2>4. QED
    BY <2>2, <2>3, DispatchTells, NewsTells, OutageTells, OthersTell, AnnounceTells,
       DeliverTells DEF Next
<1>2. ToldInv /\ DiscoveryInv => RetainedTrue
  <2> SUFFICES ASSUME ToldInv, DiscoveryInv, AtRest PROVE RetainedTrue
    BY DEF RetainedTrue, AvailabilityTold, DiscoveryTold
  <2>1. /\ \A t \in Tasks : job[t] = Idle
        /\ connected /\ DOMAIN wire = {} /\ DOMAIN events = {} /\ DOMAIN notices = {}
    BY DEF AtRest
  <2>2. \A t \in Tasks, m \in Sensors : ~Saying(t, m) /\ ~Listed(t, m) /\ ~Discovers(t, m)
    BY <2>1 DEF Idle, Saying, Listed, Discovers, Announcing
  <2>3. AvailabilityTold
    <3>1. \A m \in Sensors : ~Coming(m)
      BY <2>1 DEF Coming
    <3>2. \A m \in Sensors : WordComes(m) => retained[m] = Say(online[m])
      BY <2>1, <2>2 DEF WordComes, LastIs
    <3>3. QED
      BY <3>1, <3>2 DEF AvailabilityTold, ToldInv, Trusted, Known
  <2>4. DiscoveryTold
    BY <2>1, <2>2 DEF DiscoveryTold, DiscoveryInv, ConfigSent, Known
  <2>5. QED
    BY <2>3, <2>4 DEF RetainedTrue
<1>3. QED
  BY <1>1, <1>2, RetainedInit, AvailabilityInvariant, PTL DEF Spec
===============================================================================
