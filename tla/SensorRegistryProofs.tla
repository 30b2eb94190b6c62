-------------------------- MODULE SensorRegistryProofs --------------------------
(***************************************************************************)
(* Proofs about SensorRegistry, for any sensors, names and capacity and    *)
(* however often it is connected, edited, restarted or fails: a name the   *)
(* user gave is kept and shown, what a report told is not forgotten, and a *)
(* deleted sensor does not come back.                                      *)
(*                                                                         *)
(* The four properties say nothing of an operation under way, and nothing  *)
(* of the files.  RegistryIInv does: what is still to be saved agrees with *)
(* what the user gave, what the memory knows is in state.yaml or a save of *)
(* it failed, and a sensor being deleted has left no trace.                *)
(***************************************************************************)
EXTENDS SensorRegistry, FiniteSetTheorems, SequenceTheorems, TLAPS

-------------------------------------------------------------------------------
(* The inductive invariant. *)

\* What an operation may have left to save.
Queues == {<<>>, <<"config">>, <<"state">>, <<"config", "state">>}
Ordered == op.todo \in Queues
Unwritten == op.todo \in {<<"config">>, <<"config", "state">>}
Unstored == op.todo \in {<<"state">>, <<"config", "state">>}

\* An operation on one sensor names it, and so does a delete request.
Aimed ==
    /\ op.what \in {"new", "known", "rename", "delete"} => op.mac \in Sensors
    /\ deleting.at # "none" => deleting.mac \in Sensors

\* A report or a delete that has no state.yaml left to save has saved it, or
\* failed to.
Recorded ==
    op.what \in {"new", "known", "delete"} =>
        Unstored \/ state[op.mac] = kind[op.mac] \/ "unsaved" \in causes[op.mac]

\* What was told is in memory, and on disk unless the save failed.
Remembered ==
    \A m \in Sensors :
        kept[m] = "typed" =>
            \/ "lost" \in causes[m]
            \/ kind[m] = "typed" /\ (state[m] = "typed" \/ "unsaved" \in causes[m])

Traceless(m) == m \notin paired /\ \A i \in DOMAIN events : events[i].mac # m
Excused(m) == "lost" \in causes[m] \/ "late" \in causes[m] \/ "paired" \in causes[m]

\* A sensor that is being erased leaves memory first.
Erased ==
    op.what = "delete" =>
        /\ deleting = [mac |-> op.mac, at |-> "erasing"]
        /\ kind[op.mac] = "absent"
        /\ op.mac \in paired \/ Traceless(op.mac) \/ "late" \in causes[op.mac]

\* A deleted sensor is nowhere it could come back from.
Buried ==
    \A m \in gone :
        \/ Excused(m)
        \/ /\ kind[m] = "absent" /\ Traceless(m)
           /\ state[m] = "absent" \/ "unsaved" \in causes[m]

Tampered(m) == "broken" \in causes[m] \/ "overwritten" \in causes[m]

\* The user's names are in the file, and in what is about to be written.
Written == \A m \in Sensors : Tampered(m) \/ given[m] \in {"none", file[m]} \cup Lookalikes
ToWrite ==
    Unwritten => \A m \in Sensors :
        Tampered(m) \/ ~readable \/ given[m] \in {"none", op.file[m]} \cup Lookalikes

\* They are what the sensors go by.
Shown ==
    \A m \in Known :
        Tampered(m) \/ "unread" \in causes[m] \/ given[m] \in {"none", name[m]} \cup Lookalikes
Renaming == op.what = "rename" => name[op.mac] = op.file[op.mac] /\ op.file[op.mac] \in Names

RegistryIInv ==
    /\ TypeOK /\ Ordered /\ Aimed
    /\ Recorded /\ Remembered
    /\ Erased /\ Buried
    /\ Written /\ ToWrite /\ Shown /\ Renaming

-------------------------------------------------------------------------------
(* The parts of the state. *)

Ops == {"none", "new", "known", "load", "rename", "delete"}
Reports == [mac : Sensors, typed : BOOLEAN]

\* The values of op.todo, and what is left of them after the first save.
LEMMA QueueFacts ==
    /\ \A q \in Queues : q # <<>> => Tail(q) \in {<<>>, <<"state">>}
    /\ \A q \in Queues : q # <<>> /\ Head(q) = "config" => q \in {<<"config">>, <<"config", "state">>}
    /\ \A q \in Queues : q # <<>> /\ Head(q) = "state" => q = <<"state">> /\ Tail(q) = <<>>
    /\ Tail(<<"config">>) = <<>> /\ Tail(<<"config", "state">>) = <<"state">>
    /\ <<"config">> \o <<"state">> = <<"config", "state">>
<1>1. Tail(<<"config">>) = <<>>
  OBVIOUS
<1>2. Tail(<<"state">>) = <<>>
  OBVIOUS
<1>3. Tail(<<"config", "state">>) = <<"state">>
  OBVIOUS
<1>4. Head(<<"config">>) = "config" /\ Head(<<"config", "state">>) = "config" /\ Head(<<"state">>) = "state"
  OBVIOUS
<1>5. \A q \in Queues : q # <<>> => Tail(q) \in {<<>>, <<"state">>}
  BY <1>1, <1>2, <1>3 DEF Queues
<1>6. \A q \in Queues : q # <<>> /\ Head(q) = "config" => q \in {<<"config">>, <<"config", "state">>}
  BY <1>4 DEF Queues
<1>7. \A q \in Queues : q # <<>> /\ Head(q) = "state" => q = <<"state">> /\ Tail(q) = <<>>
  BY <1>2, <1>4 DEF Queues
<1>8. <<"config">> \o <<"state">> = <<"config", "state">>
  <2> DEFINE S == {"config", "state"}
             both == <<"config">> \o <<"state">>
  <2>1. <<"config">> \in Seq(S) /\ <<"state">> \in Seq(S) /\ <<"config", "state">> \in Seq(S)
    OBVIOUS
  <2>2. both \in Seq(S) /\ Len(both) = 2 /\ both[1] = "config" /\ both[2] = "state"
    BY <2>1, ConcatProperties, Z3
  <2> HIDE DEF both
  <2>3. both = [i \in 1 .. 2 |-> both[i]]
    BY <2>2
  <2>4. <<"config", "state">> = [i \in 1 .. 2 |-> IF i = 1 THEN "config" ELSE "state"]
    OBVIOUS
  <2>5. both = <<"config", "state">>
    BY <2>2, <2>3, <2>4
  <2>6. QED
    BY <2>5 DEF both
<1>9. QED
  BY <1>1, <1>3, <1>5, <1>6, <1>7, <1>8

\* The values of op.todo are distinct, and are sequences of files.
LEMMA QueueTypes ==
    /\ Queues \subseteq Seq({"config", "state"})
    /\ <<"config">> # <<>> /\ <<"state">> # <<>> /\ <<"config", "state">> # <<>>
    /\ <<"config">> # <<"state">> /\ <<"config">> # <<"config", "state">>
    /\ <<"state">> # <<"config", "state">>
BY DEF Queues

\* Taking an element off a queue of events, and adding one.
LEMMA EventFacts ==
    ASSUME NEW s \in Seq(Reports)
    PROVE  /\ \A i \in DOMAIN s : s[i] \in Reports
           /\ s # <<>> => /\ Head(s) \in Reports /\ Tail(s) \in Seq(Reports)
                          /\ Head(s) = s[1] /\ 1 \in DOMAIN s
                          /\ \A i \in DOMAIN Tail(s) : i + 1 \in DOMAIN s /\ Tail(s)[i] = s[i + 1]
           /\ \A e \in Reports :
                 /\ Append(s, e) \in Seq(Reports)
                 /\ \A i \in DOMAIN Append(s, e) :
                       (i \in DOMAIN s /\ Append(s, e)[i] = s[i]) \/ Append(s, e)[i] = e
<1>1. \A i \in DOMAIN s : s[i] \in Reports
  OBVIOUS
<1>2. s # <<>> => /\ Head(s) \in Reports /\ Tail(s) \in Seq(Reports)
                  /\ Head(s) = s[1] /\ 1 \in DOMAIN s
                  /\ \A i \in DOMAIN Tail(s) : i + 1 \in DOMAIN s /\ Tail(s)[i] = s[i + 1]
  BY HeadTailProperties
<1>3. ASSUME NEW e \in Reports
      PROVE  /\ Append(s, e) \in Seq(Reports)
             /\ \A i \in DOMAIN Append(s, e) :
                   (i \in DOMAIN s /\ Append(s, e)[i] = s[i]) \/ Append(s, e)[i] = e
  BY AppendProperties
<1>4. QED
  BY <1>1, <1>2, <1>3

\* What a dongle's list leaves in the channel: what was there, and sensors it has.
LEMMA AnnounceFacts ==
    ASSUME TypeOK, kind' \in [Sensors -> Kinds], Announce
    PROVE  /\ events' \in Seq(Reports)
           /\ \A i \in DOMAIN events' :
                 \/ i \in DOMAIN events /\ events'[i] = events[i]
                 \/ events'[i].mac \in paired
<1>1. PICK q \in SetToSeqs(paired) :
          LET all == events \o [i \in DOMAIN q |-> [mac |-> q[i], typed |-> kind'[q[i]] = "typed"]]
          IN events' = SubSeq(all, 1, IF Len(all) < EventCap THEN Len(all) ELSE EventCap)
  BY DEF Announce
<1> DEFINE new == [i \in DOMAIN q |-> [mac |-> q[i], typed |-> kind'[q[i]] = "typed"]]
           all == events \o new
           n == IF Len(all) < EventCap THEN Len(all) ELSE EventCap
<1>2. q \in [1 .. Cardinality(paired) -> paired] /\ Cardinality(paired) \in Nat
  <2>1. IsFiniteSet(paired)
    BY RegistryAssumption, FS_Subset DEF TypeOK
  <2>2. QED
    BY <2>1, FS_CardinalityType DEF SetToSeqs
<1>3. /\ DOMAIN new = 1 .. Cardinality(paired)
      /\ \A i \in DOMAIN new : new[i] \in Reports /\ new[i].mac \in paired
  BY <1>2 DEF Reports, TypeOK
<1>4. new \in Seq(Reports) /\ Len(new) = Cardinality(paired)
  <2>1. \A i \in 1 .. Cardinality(paired) : new[i] \in Reports
    BY <1>3
  <2>2. new = [i \in 1 .. Cardinality(paired) |-> new[i]]
    BY <1>2
  <2> HIDE DEF new
  <2>3. new \in Seq(Reports)
    BY <1>2, <2>1, <2>2
  <2>4. QED
    BY <1>2, <1>3, <2>3
<1>5. events \in Seq(Reports)
  BY DEF TypeOK, Reports
<1> HIDE DEF new
<1>6. /\ all \in Seq(Reports) /\ Len(all) = Len(events) + Len(new)
      /\ \A i \in 1 .. Len(events) + Len(new) :
            all[i] = IF i <= Len(events) THEN events[i] ELSE new[i - Len(events)]
  BY <1>4, <1>5, ConcatProperties
<1>7. events' = SubSeq(all, 1, n)
  BY <1>1 DEF new
<1> HIDE DEF all
<1>8. n \in Nat /\ n <= Len(all)
  BY <1>6, RegistryAssumption
<1>9. /\ SubSeq(all, 1, n) \in Seq(Reports) /\ Len(SubSeq(all, 1, n)) = n
      /\ \A i \in 1 .. n : SubSeq(all, 1, n)[i] = all[i]
  BY <1>6, <1>8, SubSeqProperties
<1>10. ASSUME NEW i \in DOMAIN events'
       PROVE  \/ i \in DOMAIN events /\ events'[i] = events[i]
              \/ events'[i].mac \in paired
  <2>1. i \in 1 .. n /\ events'[i] = all[i]
    BY <1>7, <1>9
  <2>2. CASE i <= Len(events)
    BY <2>1, <2>2, <1>5, <1>6, <1>8
  <2>3. CASE ~(i <= Len(events))
    <3>1. i - Len(events) \in 1 .. Len(new) /\ all[i] = new[i - Len(events)]
      BY <2>1, <2>3, <1>4, <1>5, <1>6, <1>8
    <3>2. QED
      BY <2>1, <3>1, <1>3, <1>4
  <2>4. QED
    BY <2>2, <2>3
<1>11. QED
  BY <1>7, <1>9, <1>10
-------------------------------------------------------------------------------
(* The initial state, and the steps that neither begin nor end an operation. *)

\* An operation begins with one of the queues left to save.
LEMMA BeginType ==
    ASSUME NEW what \in Ops, NEW m \in Sensors \cup {Nobody}, NEW todo \in Queues, NEW f \in Files,
           Begin(what, m, todo, f)
    PROVE  /\ op' \in [todo : Seq({"config", "state"}), what : Ops, mac : Sensors \cup {Nobody}, file : Files]
           /\ op'.todo = todo /\ op'.what = what /\ op'.mac = m /\ op'.file = f
BY QueueTypes DEF Begin

\* Nothing is being done.
LEMMA FreeFacts ==
    /\ Free \in [todo : Seq({"config", "state"}), what : Ops, mac : Sensors \cup {Nobody}, file : Files]
    /\ Free.todo = <<>> /\ Free.what = "none"
<1>1. <<>> \in Queues
  BY DEF Queues
<1>2. Empty \in Files
  BY DEF Empty, Files
<1>3. QED
  BY <1>1, <1>2, QueueTypes DEF Free, Ops

LEMMA RegistryInit == Init => RegistryIInv
<1> SUFFICES ASSUME Init PROVE RegistryIInv
  OBVIOUS
<1>1. TypeOK
  <2>1. op \in [todo : Seq({"config", "state"}), what : Ops, mac : Sensors \cup {Nobody}, file : Files]
    BY FreeFacts DEF Init
  <2>2. file \in Files /\ name \in Files
    BY DEF Init, Files, Labels
  <2>3. events \in Seq([mac : Sensors, typed : BOOLEAN])
    BY DEF Init
  <2>4. QED
    BY <2>1, <2>2, <2>3 DEF Init, TypeOK, Ops, Kinds, NoDelete, Causes
<1>2. op.todo = <<>> /\ op.what = "none" /\ deleting.at = "none"
  BY FreeFacts DEF Init, NoDelete
<1>3. Ordered /\ Aimed /\ Recorded /\ Erased /\ ToWrite /\ Renaming
  BY <1>2, QueueTypes DEF Ordered, Aimed, Recorded, Erased, ToWrite, Unwritten, Renaming, Queues
<1>4. Remembered /\ Buried /\ Written /\ Shown
  BY DEF Init, Remembered, Buried, Written, Shown, Known
<1>5. QED
  BY <1>1, <1>3, <1>4 DEF RegistryIInv

\* A step that leaves the operation, the files and the memory alone.
LEMMA QuietStep ==
    ASSUME RegistryIInv, TypeOK', UNCHANGED <<memoryVars, diskVars, op, given, kept, causes>>,
           deleting' = deleting \/ deleting'.mac \in Sensors
    PROVE  /\ Ordered' /\ Aimed' /\ Recorded' /\ Remembered'
           /\ Written' /\ ToWrite' /\ Shown' /\ Renaming'
<1>1. Ordered' /\ Aimed' /\ Recorded' /\ Remembered'
  BY DEF RegistryIInv, Ordered, Aimed, Recorded, Remembered, Unstored, memoryVars, diskVars
<1>2. Written' /\ ToWrite' /\ Shown' /\ Renaming'
  BY DEF RegistryIInv, Written, ToWrite, Unwritten, Shown, Known, Tampered, Renaming, memoryVars, diskVars
<1>3. QED
  BY <1>1, <1>2

LEMMA PairKeeps ==
    ASSUME RegistryIInv, NEW m \in Sensors, Pair(m)
    PROVE  RegistryIInv'
<1> DEFINE e == [mac |-> m, typed |-> TRUE]
<1>1. events \in Seq(Reports) /\ e \in Reports /\ events' = Append(events, e)
  BY DEF RegistryIInv, TypeOK, Reports, Pair
<1>2. /\ events' \in Seq(Reports)
      /\ \A i \in DOMAIN events' : (i \in DOMAIN events /\ events'[i] = events[i]) \/ events'[i].mac = m
  BY <1>1, EventFacts
<1>3. TypeOK'
  BY <1>2 DEF RegistryIInv, TypeOK, Reports, Pair, Spend, memoryVars, diskVars
<1>4. Erased'
  BY <1>2 DEF RegistryIInv, Erased, Traceless, Pair, memoryVars
<1>5. Buried'
  BY <1>2 DEF RegistryIInv, Buried, Traceless, Excused, Pair, memoryVars, diskVars
<1>6. QED
  BY <1>3, <1>4, <1>5, QuietStep DEF RegistryIInv, Pair

LEMMA ReportKeeps ==
    ASSUME RegistryIInv, NEW m \in Sensors, NEW typed \in BOOLEAN, Report(m, typed)
    PROVE  RegistryIInv'
<1> DEFINE e == [mac |-> m, typed |-> typed]
<1>1. events \in Seq(Reports) /\ e \in Reports /\ events' = Append(events, e) /\ m \in paired
  BY DEF RegistryIInv, TypeOK, Reports, Report
<1>2. /\ events' \in Seq(Reports)
      /\ \A i \in DOMAIN events' : (i \in DOMAIN events /\ events'[i] = events[i]) \/ events'[i].mac = m
  BY <1>1, EventFacts
<1>3. TypeOK'
  BY <1>2 DEF RegistryIInv, TypeOK, Reports, Report, memoryVars, diskVars, historyVars
<1>4. Erased'
  BY <1>1, <1>2 DEF RegistryIInv, Erased, Traceless, Report, memoryVars, historyVars
<1>5. Buried'
  BY <1>1, <1>2 DEF RegistryIInv, Buried, Traceless, Excused, Report, memoryVars, diskVars, historyVars
<1>6. QED
  BY <1>3, <1>4, <1>5, QuietStep DEF RegistryIInv, Report, historyVars

LEMMA DisconnectKeeps ==
    ASSUME RegistryIInv, Disconnect
    PROVE  RegistryIInv'
<1>1. TypeOK'
  BY DEF RegistryIInv, TypeOK, Disconnect, memoryVars, diskVars, historyVars
<1>2. Erased' /\ Buried'
  BY DEF RegistryIInv, Erased, Buried, Traceless, Excused, Disconnect, memoryVars, diskVars, historyVars
<1>3. QED
  BY <1>1, <1>2, QuietStep DEF RegistryIInv, Disconnect, historyVars

LEMMA DeleteKeeps ==
    ASSUME RegistryIInv, NEW m \in Sensors, Delete(m)
    PROVE  RegistryIInv'
<1>1. TypeOK'
  BY DEF RegistryIInv, TypeOK, Delete, Spend, memoryVars, diskVars, dongleVars, historyVars
<1>2. op.what # "delete"
  BY DEF RegistryIInv, Erased, Delete, NoDelete
<1>3. Erased' /\ Buried'
  BY <1>2 DEF RegistryIInv, Erased, Buried, Traceless, Excused, Delete, memoryVars, diskVars, dongleVars, historyVars
<1>4. QED
  BY <1>1, <1>3, QuietStep DEF RegistryIInv, Delete, historyVars

LEMMA UnpairKeeps ==
    ASSUME RegistryIInv, NEW ok \in BOOLEAN, Unpair(ok)
    PROVE  RegistryIInv'
<1>1. TypeOK'
  BY DEF RegistryIInv, TypeOK, Unpair, memoryVars, diskVars, historyVars
<1>2. op.what # "delete"
  BY DEF RegistryIInv, Erased, Unpair
<1>3. Erased' /\ Buried'
  BY <1>2 DEF RegistryIInv, Erased, Buried, Traceless, Excused, Unpair, memoryVars, diskVars, historyVars
<1>4. deleting'.mac \in Sensors
  BY DEF RegistryIInv, TypeOK, Aimed, Unpair
<1>5. QED
  BY <1>1, <1>3, <1>4, QuietStep DEF RegistryIInv, Unpair, historyVars
-------------------------------------------------------------------------------
(* The user's steps that begin or disturb an operation. *)

LEMMA BlameFacts ==
    ASSUME TypeOK, NEW S, NEW c \in Causes, Blame(S, c)
    PROVE  /\ causes' \in [Sensors -> SUBSET Causes]
           /\ \A m \in Sensors : causes[m] \subseteq causes'[m] /\ (m \in S => c \in causes'[m])
BY DEF TypeOK, Blame

LEMMA EditKeeps ==
    ASSUME RegistryIInv, NEW m \in Sensors, NEW n \in Names, Edit(m, n)
    PROVE  RegistryIInv'
<1>1. /\ causes' \in [Sensors -> SUBSET Causes]
      /\ \A s \in Sensors : causes[s] \subseteq causes'[s]
      /\ "unread" \in causes'[m]
      /\ op # Free => "overwritten" \in causes'[m]
  BY DEF RegistryIInv, TypeOK, Edit, Causes, Idle
<1>2. TypeOK'
  BY <1>1 DEF RegistryIInv, TypeOK, Edit, Spend, Files, Labels, memoryVars, dongleVars
<1>3. Ordered' /\ Aimed' /\ Recorded' /\ Remembered'
  BY <1>1 DEF RegistryIInv, TypeOK, Ordered, Aimed, Recorded, Remembered, Unstored, Edit, memoryVars
<1>4. Erased' /\ Buried'
  BY <1>1 DEF RegistryIInv, TypeOK, Erased, Buried, Traceless, Excused, Edit, memoryVars, dongleVars
<1>5. Written' /\ Shown' /\ Renaming'
  BY <1>1 DEF RegistryIInv, TypeOK, Written, Shown, Known, Tampered, Renaming, Edit, memoryVars, Files
<1>6. ToWrite'
  <2>1. op' = op /\ readable' = readable /\ (Unwritten => op # Free)
    BY FreeFacts, QueueTypes DEF Unwritten, Edit
  <2>2. Unwritten => \A s \in Sensors : Tampered(s) \/ ~readable \/ given[s] \in {"none", op.file[s]} \cup Lookalikes
    BY DEF RegistryIInv, ToWrite
  <2>3. \A s \in Sensors \ {m} : given'[s] = given[s]
    BY DEF RegistryIInv, TypeOK, Edit
  <2>4. QED
    BY <1>1, <2>1, <2>2, <2>3 DEF ToWrite, Unwritten, Tampered
<1>7. QED
  BY <1>2, <1>3, <1>4, <1>5, <1>6 DEF RegistryIInv

LEMMA GarbleKeeps ==
    ASSUME RegistryIInv, Garble
    PROVE  RegistryIInv'
<1>1. /\ causes' \in [Sensors -> SUBSET Causes]
      /\ \A m \in Sensors : causes[m] \subseteq causes'[m] /\ (op # Free => "overwritten" \in causes'[m])
  BY BlameFacts DEF RegistryIInv, Garble, Causes, Idle
<1>2. TypeOK'
  BY <1>1 DEF RegistryIInv, TypeOK, Garble, Spend, memoryVars, dongleVars
<1>3. Ordered' /\ Aimed' /\ Recorded' /\ Remembered'
  BY <1>1 DEF RegistryIInv, TypeOK, Ordered, Aimed, Recorded, Remembered, Unstored, Garble, memoryVars
<1>4. Erased' /\ Buried'
  <2>1. UNCHANGED <<op, deleting, kind, paired, events, state, gone>>
    BY DEF Garble, memoryVars, dongleVars
  <2>2. Erased'
    BY <1>1, <2>1 DEF RegistryIInv, Erased, Aimed, Traceless
  <2>3. Buried'
    BY <1>1, <2>1 DEF RegistryIInv, TypeOK, Buried, Traceless, Excused
  <2>4. QED
    BY <2>2, <2>3
<1>5. Written' /\ Shown' /\ Renaming'
  BY <1>1 DEF RegistryIInv, TypeOK, Written, Shown, Known, Tampered, Renaming, Garble, memoryVars
<1>6. ToWrite'
  <2>1. op' = op /\ (Unwritten => op # Free)
    BY FreeFacts, QueueTypes DEF Unwritten, Garble
  <2>2. QED
    BY <1>1, <2>1 DEF ToWrite, Unwritten, Tampered
<1>7. QED
  BY <1>2, <1>3, <1>4, <1>5, <1>6 DEF RegistryIInv

LEMMA RenameKeeps ==
    ASSUME RegistryIInv, NEW m \in Sensors, NEW n \in Names, Rename(m, n)
    PROVE  RegistryIInv'
<1> DEFINE f == [file EXCEPT ![m] = n]
<1>1. f \in Files /\ name' \in Files /\ given' \in [Sensors -> Names \cup {"none"}]
  BY DEF RegistryIInv, TypeOK, Rename, Files, Labels
<1>2. op = Free /\ op.todo = <<>> /\ op.what = "none"
  BY FreeFacts DEF Rename, Idle
<1>3. CASE readable
  <2>1. /\ op' \in [todo : Seq({"config", "state"}), what : Ops, mac : Sensors \cup {Nobody}, file : Files]
        /\ op'.todo = <<"config">> /\ op'.what = "rename" /\ op'.mac = m /\ op'.file = f
    <3>1. Begin("rename", m, <<"config">>, f)
      BY <1>3 DEF Rename
    <3>2. QED
      BY <1>1, <3>1, BeginType DEF Ops, Queues
  <2>2. TypeOK'
    BY <1>1, <2>1 DEF RegistryIInv, TypeOK, Rename, Spend, diskVars, dongleVars, Ops
  <2>3. Ordered' /\ Aimed' /\ Recorded'
    BY <2>1 DEF RegistryIInv, Ordered, Aimed, Recorded, Queues, Rename
  <2>4. Remembered' /\ Erased' /\ Buried'
    BY <2>1 DEF RegistryIInv, Remembered, Erased, Buried, Traceless, Excused, Rename, diskVars, dongleVars
  <2>5. Written' /\ Shown' /\ Renaming'
    BY <2>1 DEF RegistryIInv, TypeOK, Written, Shown, Known, Tampered, Renaming, Rename, diskVars, Files
  <2>6. ToWrite'
    BY <2>1 DEF RegistryIInv, TypeOK, ToWrite, Written, Tampered, Rename, diskVars, Files
  <2>7. QED
    BY <2>2, <2>3, <2>4, <2>5, <2>6 DEF RegistryIInv
<1>4. CASE ~readable
  <2>1. op' = op
    BY <1>4 DEF Rename
  <2>2. TypeOK'
    BY <1>1, <2>1 DEF RegistryIInv, TypeOK, Rename, Spend, diskVars, dongleVars
  <2>3. Ordered' /\ Aimed' /\ Recorded' /\ ToWrite' /\ Erased' /\ Renaming'
    BY <1>2, <2>1, QueueTypes DEF RegistryIInv, Ordered, Aimed, Recorded, ToWrite, Unwritten, Erased, Renaming, Rename
  <2>4. Remembered' /\ Buried'
    BY DEF RegistryIInv, Remembered, Buried, Traceless, Excused, Rename, diskVars, dongleVars
  <2>5. Written' /\ Shown'
    BY DEF RegistryIInv, TypeOK, Written, Shown, Known, Tampered, Rename, diskVars, Files
  <2>6. QED
    BY <2>2, <2>3, <2>4, <2>5 DEF RegistryIInv
<1>5. QED
  BY <1>3, <1>4

LEMMA EraseKeeps ==
    ASSUME RegistryIInv, Erase
    PROVE  RegistryIInv'
<1> DEFINE m == deleting.mac
           f == [file EXCEPT ![m] = "none"]
           todo == IF readable /\ file[m] # "none" THEN <<"config">> \o <<"state">> ELSE <<"state">>
<1>1. m \in Sensors
  BY DEF RegistryIInv, Aimed, Erase, Removal
<1>2. f \in Files /\ name' \in Files
  BY <1>1 DEF RegistryIInv, TypeOK, Files, Labels, Erase, Removal
<1>3. todo \in {<<"state">>, <<"config", "state">>} /\ todo \in Queues
  BY QueueFacts DEF Queues
<1>4. todo = <<"config", "state">> => readable
  BY QueueFacts, QueueTypes
<1>5. Begin("delete", m, todo, f) /\ deleting' = [deleting EXCEPT !.at = "erasing"]
  BY DEF Erase, Removal
<1> HIDE DEF todo
<1>6. /\ op' \in [todo : Seq({"config", "state"}), what : Ops, mac : Sensors \cup {Nobody}, file : Files]
      /\ op'.todo = todo /\ op'.what = "delete" /\ op'.mac = m /\ op'.file = f
  BY <1>1, <1>2, <1>3, <1>5, BeginType DEF Ops
<1>7. /\ causes' \in [Sensors -> SUBSET Causes]
      /\ \A s \in Sensors : causes[s] \subseteq causes'[s]
      /\ (\E i \in DOMAIN events : events[i].mac = m) => "late" \in causes'[m]
  <2>1. Blame({s \in {m} : \E i \in DOMAIN events : events[i].mac = s}, "late")
    BY DEF Erase, Removal
  <2>2. QED
    BY <1>1, <2>1, BlameFacts DEF RegistryIInv, Causes
<1>8. TypeOK'
  BY <1>1, <1>2, <1>5, <1>6, <1>7
     DEF RegistryIInv, TypeOK, Erase, Removal, Kinds, diskVars, dongleVars, Ops
<1>9. Ordered' /\ Aimed' /\ Recorded' /\ Renaming'
  BY <1>1, <1>3, <1>5, <1>6 DEF RegistryIInv, TypeOK, Ordered, Aimed, Recorded, Unstored, Renaming
<1>10. Remembered'
  BY <1>1, <1>7 DEF RegistryIInv, TypeOK, Remembered, Erase, Removal, diskVars
<1>11. Erased'
  BY <1>1, <1>5, <1>6, <1>7 DEF RegistryIInv, TypeOK, Erased, Traceless, Erase, Removal, Kinds, dongleVars
<1>12. Buried'
  BY <1>1, <1>7 DEF RegistryIInv, TypeOK, Buried, Traceless, Excused, Erase, Removal, diskVars, dongleVars
<1>13. Written' /\ Shown'
  BY <1>1, <1>7 DEF RegistryIInv, TypeOK, Written, Shown, Known, Tampered, Erase, Removal, diskVars, Files
<1>14. ToWrite'
  BY <1>1, <1>6, <1>7, QueueTypes
     DEF RegistryIInv, TypeOK, ToWrite, Written, Tampered, Erase, Removal, diskVars, Files
<1>15. QED
  BY <1>8, <1>9, <1>10, <1>11, <1>12, <1>13, <1>14 DEF RegistryIInv
-------------------------------------------------------------------------------
(* The saves of an operation, and its end. *)

\* What is left to save after one save.
LEMMA SavedFacts ==
    ASSUME RegistryIInv, op.todo # <<>>, Saved
    PROVE  /\ op' \in [todo : Seq({"config", "state"}), what : Ops, mac : Sensors \cup {Nobody}, file : Files]
           /\ op'.todo = Tail(op.todo) /\ op'.todo \in Queues
           /\ op'.what = op.what /\ op'.mac = op.mac /\ op'.file = op.file
<1>1. op \in [todo : Seq({"config", "state"}), what : Ops, mac : Sensors \cup {Nobody}, file : Files]
  BY DEF RegistryIInv, TypeOK, Ops
<1>2. Tail(op.todo) \in Queues /\ Tail(op.todo) \in Seq({"config", "state"})
  BY QueueFacts, QueueTypes DEF RegistryIInv, Ordered, Queues
<1>3. QED
  BY <1>1, <1>2 DEF Saved

LEMMA SaveConfigKeeps ==
    ASSUME RegistryIInv, SaveConfig
    PROVE  RegistryIInv'
<1>1. /\ op' \in [todo : Seq({"config", "state"}), what : Ops, mac : Sensors \cup {Nobody}, file : Files]
      /\ op'.todo = Tail(op.todo) /\ op'.todo \in Queues
      /\ op'.what = op.what /\ op'.mac = op.mac /\ op'.file = op.file
  BY SavedFacts DEF SaveConfig, Saving
<1>2. Unwritten /\ op'.todo \in {<<>>, <<"state">>} /\ (Unstored => op'.todo = <<"state">>)
  BY <1>1, QueueFacts, QueueTypes DEF RegistryIInv, Ordered, Unwritten, Unstored, SaveConfig, Saving
<1>3. file' = op.file /\ readable' = TRUE /\ file' \in Files
  BY DEF RegistryIInv, TypeOK, SaveConfig
<1>4. /\ given' \in [Sensors -> Names \cup {"none"}]
      /\ \A m \in Sensors : \/ given'[m] = given[m]
                            \/ op.what = "rename" /\ m = op.mac /\ given'[m] = op.file[m]
  <2>1. CASE op.what = "rename"
    <3>1. given' = [given EXCEPT ![op.mac] = op.file[op.mac]] /\ op.mac \in Sensors
      BY <2>1 DEF RegistryIInv, Aimed, SaveConfig
    <3>2. op.file[op.mac] \in Names \cup {"none"}
      BY <2>1 DEF RegistryIInv, Renaming
    <3>3. QED
      BY <2>1, <3>1, <3>2 DEF RegistryIInv, TypeOK
  <2>2. CASE op.what # "rename"
    BY <2>2 DEF RegistryIInv, TypeOK, SaveConfig
  <2>3. QED
    BY <2>1, <2>2
<1>5. /\ causes' \in [Sensors -> SUBSET Causes]
      /\ \A m \in Sensors : /\ causes[m] \subseteq causes'[m]
                            /\ given'[m] # "none" /\ ~readable => "broken" \in causes'[m]
  BY DEF RegistryIInv, TypeOK, SaveConfig, Causes
<1>6. UNCHANGED <<kind, name, state, deleting, paired, link, events, spent, kept, gone>>
  BY DEF SaveConfig, memoryVars, dongleVars
<1>7. TypeOK'
  BY <1>1, <1>3, <1>4, <1>5, <1>6 DEF RegistryIInv, TypeOK, Ops
<1>8. Ordered' /\ Aimed' /\ Recorded' /\ Remembered'
  <2>1. Ordered' /\ Aimed'
    BY <1>1, <1>6 DEF RegistryIInv, Ordered, Aimed
  <2>2. Recorded'
    BY <1>1, <1>2, <1>5, <1>6 DEF RegistryIInv, Aimed, Recorded, Unstored
  <2>3. Remembered'
    BY <1>5, <1>6 DEF RegistryIInv, Remembered
  <2>4. QED
    BY <2>1, <2>2, <2>3
<1>9. Erased' /\ Buried'
  <2>1. Erased'
    BY <1>1, <1>5, <1>6 DEF RegistryIInv, Aimed, Erased, Traceless
  <2>2. Buried'
    BY <1>5, <1>6 DEF RegistryIInv, TypeOK, Buried, Traceless, Excused
  <2>3. QED
    BY <2>1, <2>2
<1>10. Written'
  BY <1>2, <1>3, <1>4, <1>5 DEF RegistryIInv, ToWrite, Written, Tampered
<1>11. ToWrite'
  BY <1>2, QueueTypes DEF ToWrite, Unwritten
<1>12. Shown' /\ Renaming'
  BY <1>1, <1>4, <1>5, <1>6 DEF RegistryIInv, Shown, Known, Tampered, Renaming
<1>13. QED
  BY <1>7, <1>8, <1>9, <1>10, <1>11, <1>12 DEF RegistryIInv

LEMMA SaveStateKeeps ==
    ASSUME RegistryIInv, SaveState
    PROVE  RegistryIInv'
<1>1. /\ op' \in [todo : Seq({"config", "state"}), what : Ops, mac : Sensors \cup {Nobody}, file : Files]
      /\ op'.todo = Tail(op.todo) /\ op'.todo \in Queues
      /\ op'.what = op.what /\ op'.mac = op.mac /\ op'.file = op.file
  BY SavedFacts DEF SaveState, Saving
<1>2. op'.todo = <<>>
  BY <1>1, QueueFacts DEF RegistryIInv, Ordered, SaveState, Saving
<1>3. state' = kind
  BY DEF SaveState
<1>4. /\ causes' \in [Sensors -> SUBSET Causes]
      /\ \A m \in Sensors : causes[m] \ {"unsaved"} \subseteq causes'[m]
  BY DEF RegistryIInv, TypeOK, SaveState
<1>5. UNCHANGED <<kind, name, file, readable, deleting, paired, link, events, spent, given, kept, gone>>
  BY DEF SaveState, memoryVars, dongleVars
<1>6. TypeOK'
  BY <1>1, <1>3, <1>4, <1>5 DEF RegistryIInv, TypeOK, Ops
<1>7. Ordered' /\ Aimed' /\ Recorded'
  BY <1>1, <1>3, <1>5 DEF RegistryIInv, Ordered, Aimed, Recorded
<1>8. Remembered'
  BY <1>3, <1>4, <1>5 DEF RegistryIInv, Remembered
<1>9. Erased'
  BY <1>1, <1>4, <1>5 DEF RegistryIInv, Aimed, Erased, Traceless
<1>10. Buried'
  BY <1>3, <1>4, <1>5 DEF RegistryIInv, TypeOK, Buried, Traceless, Excused
<1>11. Written' /\ Shown' /\ Renaming'
  BY <1>1, <1>4, <1>5 DEF RegistryIInv, Written, Shown, Known, Tampered, Renaming
<1>12. ToWrite'
  BY <1>2, QueueTypes DEF ToWrite, Unwritten
<1>13. QED
  BY <1>6, <1>7, <1>8, <1>9, <1>10, <1>11, <1>12 DEF RegistryIInv

LEMMA SaveFailsKeeps ==
    ASSUME RegistryIInv, SaveFails
    PROVE  RegistryIInv'
<1> DEFINE todo == IF op.what = "known" THEN Tail(op.todo) ELSE <<>>
<1>1. todo \in Queues /\ todo \in Seq({"config", "state"})
  BY QueueFacts, QueueTypes DEF RegistryIInv, Ordered, SaveFails, Queues
<1>2. op' = [op EXCEPT !.todo = todo]
  BY DEF SaveFails, RegistryIInv, TypeOK
<1>3. todo \in {<<>>, <<"state">>}
  BY QueueFacts, QueueTypes DEF RegistryIInv, Ordered, SaveFails, Queues
<1> HIDE DEF todo
<1>4. /\ op' \in [todo : Seq({"config", "state"}), what : Ops, mac : Sensors \cup {Nobody}, file : Files]
      /\ op'.todo = todo /\ op'.what = op.what /\ op'.mac = op.mac /\ op'.file = op.file
  BY <1>1, <1>2 DEF RegistryIInv, TypeOK, Ops
<1>5. /\ causes' \in [Sensors -> SUBSET Causes]
      /\ \A m \in Sensors : causes[m] \subseteq causes'[m] /\ (state[m] # kind[m] => "unsaved" \in causes'[m])
  BY BlameFacts DEF RegistryIInv, SaveFails, Causes
<1>6. /\ UNCHANGED <<kind, name, state, file, readable, deleting, paired, link, events, given, kept, gone>>
      /\ spent' \in Nat
  BY DEF RegistryIInv, TypeOK, SaveFails, Spend, memoryVars, diskVars, dongleVars
<1>7. TypeOK'
  BY <1>4, <1>5, <1>6 DEF RegistryIInv, TypeOK, Ops
<1>8. Ordered' /\ Aimed'
  BY <1>1, <1>4, <1>6 DEF RegistryIInv, Ordered, Aimed
<1>9. Recorded'
  BY <1>4, <1>5, <1>6 DEF RegistryIInv, Aimed, Recorded
<1>10. Remembered' /\ Written' /\ Shown' /\ Renaming'
  BY <1>4, <1>5, <1>6 DEF RegistryIInv, Remembered, Written, Shown, Known, Tampered, Renaming
<1>11. Erased'
  BY <1>4, <1>5, <1>6 DEF RegistryIInv, Aimed, Erased, Traceless
<1>12. Buried'
  BY <1>5, <1>6 DEF RegistryIInv, TypeOK, Buried, Traceless, Excused
<1>13. ToWrite'
  BY <1>3, <1>4, QueueTypes DEF ToWrite, Unwritten
<1>14. QED
  BY <1>7, <1>8, <1>9, <1>10, <1>11, <1>12, <1>13 DEF RegistryIInv

LEMMA FinishKeeps ==
    ASSUME RegistryIInv, Finish
    PROVE  RegistryIInv'
<1>1. op' = Free /\ op'.todo = <<>> /\ op'.what = "none"
  BY FreeFacts DEF Finish
<1>2. ~Unstored
  BY QueueTypes DEF Finish, Unstored
<1>3. /\ kept' \in [Sensors -> Kinds]
      /\ \A m \in Sensors : kept'[m] = kept[m]
                            \/ (kept'[m] = kind[m] /\ (state[m] = kind[m] \/ "unsaved" \in causes[m]))
  BY <1>2 DEF RegistryIInv, TypeOK, Recorded, Aimed, Finish
<1>4. /\ causes' \in [Sensors -> SUBSET Causes]
      /\ \A m \in Sensors : causes[m] \subseteq causes'[m]
      /\ gone' \in SUBSET Sensors
      /\ gone' = gone \/ /\ op.what = "delete" /\ gone' = gone \cup {op.mac}
                         /\ op.mac \in paired => "paired" \in causes'[op.mac]
      /\ deleting' = deleting \/ deleting' = NoDelete
  <2>1. CASE op.what = "delete"
    <3>1. Blame({op.mac} \cap paired, "paired") /\ deleting' = NoDelete /\ gone' = gone \cup {op.mac}
      BY <2>1 DEF Finish
    <3>2. op.mac \in Sensors
      BY <2>1 DEF RegistryIInv, Aimed
    <3>3. QED
      BY <2>1, <3>1, <3>2, BlameFacts DEF RegistryIInv, TypeOK, Causes
  <2>2. CASE op.what # "delete"
    BY <2>2 DEF RegistryIInv, TypeOK, Finish
  <2>3. QED
    BY <2>1, <2>2
<1>5. UNCHANGED <<kind, name, state, file, readable, paired, link, events, spent, given>>
  BY DEF Finish, memoryVars, diskVars, dongleVars
<1>6. TypeOK'
  BY <1>1, <1>3, <1>4, <1>5, FreeFacts DEF RegistryIInv, TypeOK, NoDelete, Ops
<1>7. Ordered' /\ Aimed' /\ Recorded' /\ Erased' /\ Renaming'
  BY <1>1, <1>4 DEF RegistryIInv, Ordered, Queues, Aimed, NoDelete, Recorded, Erased, Renaming
<1>8. Remembered'
  BY <1>3, <1>4, <1>5 DEF RegistryIInv, TypeOK, Remembered
<1>9. Buried'
  <2>1. ASSUME NEW m \in gone
        PROVE  \/ Excused(m)'
               \/ /\ kind'[m] = "absent" /\ Traceless(m)'
                  /\ state'[m] = "absent" \/ "unsaved" \in causes'[m]
    BY <1>4, <1>5 DEF RegistryIInv, TypeOK, Buried, Traceless, Excused
  <2>2. ASSUME NEW m, m = op.mac, op.what = "delete", m \in paired => "paired" \in causes'[m]
        PROVE  \/ Excused(m)'
               \/ /\ kind'[m] = "absent" /\ Traceless(m)'
                  /\ state'[m] = "absent" \/ "unsaved" \in causes'[m]
    <3>1. m \in Sensors /\ kind[m] = "absent"
      BY <2>2 DEF RegistryIInv, Aimed, Erased
    <3>2. state[m] = "absent" \/ "unsaved" \in causes[m]
      BY <1>2, <2>2, <3>1 DEF RegistryIInv, Recorded
    <3>3. m \in paired \/ Traceless(m) \/ "late" \in causes[m]
      BY <2>2 DEF RegistryIInv, Erased
    <3>4. QED
      BY <1>4, <1>5, <2>2, <3>1, <3>2, <3>3 DEF Traceless, Excused
  <2>3. ASSUME NEW m \in gone'
        PROVE  m \in gone \/ (m = op.mac /\ op.what = "delete" /\ (m \in paired => "paired" \in causes'[m]))
    BY <1>4
  <2>4. QED
    BY <2>1, <2>2, <2>3 DEF Buried
<1>10. Written' /\ Shown'
  BY <1>4, <1>5 DEF RegistryIInv, Written, Shown, Known, Tampered
<1>11. ToWrite'
  BY <1>1, QueueTypes DEF ToWrite, Unwritten
<1>12. QED
  BY <1>6, <1>7, <1>8, <1>9, <1>10, <1>11 DEF RegistryIInv
-------------------------------------------------------------------------------
(* The steps that read the files. *)

LEMMA RereadFacts ==
    ASSUME TypeOK, NEW S, Reread(S)
    PROVE  /\ causes' \in [Sensors -> SUBSET Causes]
           /\ \A m \in Sensors :
                 /\ causes[m] \ {"unread"} \subseteq causes'[m]
                 /\ m \notin S => causes'[m] = causes[m]
                 /\ m \in S /\ "unsaved" \in causes[m] => "lost" \in causes'[m]
                 /\ m \in S /\ ~readable => "unread" \in causes'[m]
BY DEF TypeOK, Reread, Causes

\* A name read for a sensor is the user's.
LEMMA LoadedFacts ==
    ASSUME TypeOK, Written
    PROVE  /\ Loaded \in Files
           /\ \A m \in Sensors :
                 Tampered(m) \/ ~readable \/ given[m] \in {"none", Loaded[m]} \cup Lookalikes
<1>1. Loaded \in Files
  BY DEF TypeOK, Loaded, Empty, Files
<1>2. QED
  BY <1>1 DEF Written, Loaded

LEMMA ReloadKeeps ==
    ASSUME RegistryIInv, Reload
    PROVE  RegistryIInv'
<1>1. op' = op /\ op.todo = <<>> /\ op.what = "none"
  BY FreeFacts DEF Reload, Idle
<1>2. /\ causes' \in [Sensors -> SUBSET Causes]
      /\ \A m \in Sensors : causes[m] \ {"unread"} \subseteq causes'[m]
  BY DEF RegistryIInv, TypeOK, Reload
<1>3. name' \in Files /\ name' = ListedNames
  BY DEF RegistryIInv, TypeOK, Reload, ListedNames, Files
<1>4. UNCHANGED <<kind, state, file, readable, deleting, paired, link, events, spent, given, kept, gone>>
  BY DEF Reload, diskVars, dongleVars
<1>5. TypeOK'
  BY <1>1, <1>2, <1>3, <1>4 DEF RegistryIInv, TypeOK
<1>6. Ordered' /\ Aimed' /\ Recorded' /\ Erased' /\ Renaming' /\ ToWrite'
  BY <1>1, <1>4, QueueTypes
     DEF RegistryIInv, Ordered, Aimed, Recorded, Erased, Renaming, ToWrite, Unwritten
<1>7. Remembered'
  BY <1>2, <1>4 DEF RegistryIInv, Remembered
<1>8. Buried'
  BY <1>2, <1>4 DEF RegistryIInv, TypeOK, Buried, Traceless, Excused
<1>9. Written'
  BY <1>2, <1>4 DEF RegistryIInv, Written, Tampered
<1>10. Shown'
  <2>1. ASSUME NEW m \in Known
        PROVE  Tampered(m)' \/ "unread" \in causes'[m] \/ given[m] \in {"none", name'[m]} \cup Lookalikes
    <3>1. Tampered(m) => Tampered(m)'
      BY <1>2 DEF Known, Tampered
    <3>2. Tampered(m) \/ given[m] \in {"none", file[m]} \cup Lookalikes
      BY DEF RegistryIInv, Written, Known
    <3>3. CASE file[m] # "none"
      BY <1>3, <3>1, <3>2, <3>3 DEF Known, ListedNames
    <3>4. CASE file[m] = "none"
      BY <3>1, <3>2, <3>4
    <3>5. QED
      BY <3>3, <3>4
  <2>2. QED
    BY <1>4, <2>1 DEF Shown, Known
<1>11. QED
  BY <1>5, <1>6, <1>7, <1>8, <1>9, <1>10 DEF RegistryIInv

LEMMA RestartKeeps ==
    ASSUME RegistryIInv, Restart
    PROVE  RegistryIInv'
<1>1. op' = Free /\ op'.todo = <<>> /\ op'.what = "none" /\ deleting' = NoDelete /\ deleting'.at = "none"
  BY FreeFacts DEF Restart, NoDelete
<1>2. /\ causes' \in [Sensors -> SUBSET Causes]
      /\ \A m \in Sensors : /\ causes[m] \ {"unread"} \subseteq causes'[m]
                            /\ "unsaved" \in causes[m] => "lost" \in causes'[m]
                            /\ ~readable => "unread" \in causes'[m]
  BY RereadFacts DEF RegistryIInv, Restart
<1>3. kind' = state /\ events' = <<>>
  BY DEF Restart
<1>4. Loaded \in Files
  BY LoadedFacts DEF RegistryIInv
<1>5. /\ name' \in Files
      /\ \A m \in Known' : name'[m] = IF Loaded[m] = "none" THEN "stub" ELSE Loaded[m]
  BY <1>3, <1>4 DEF Restart, Files, Labels, Known
<1>6. UNCHANGED <<state, file, readable, paired, given, kept, gone>> /\ spent' \in Nat
  BY DEF RegistryIInv, TypeOK, Restart, Spend, diskVars
<1>7. TypeOK'
  <2>1. link' \in [up : BOOLEAN, seen : BOOLEAN] /\ events' \in Seq([mac : Sensors, typed : BOOLEAN])
    BY <1>3 DEF Restart
  <2>2. kind' \in [Sensors -> Kinds]
    BY <1>3 DEF RegistryIInv, TypeOK
  <2>3. QED
    BY <1>1, <1>2, <1>5, <1>6, <2>1, <2>2, FreeFacts DEF RegistryIInv, TypeOK, NoDelete, Ops
<1>8. Ordered' /\ Aimed' /\ Recorded' /\ Erased' /\ Renaming' /\ ToWrite'
  BY <1>1, QueueTypes DEF Ordered, Queues, Aimed, Recorded, Erased, Renaming, ToWrite, Unwritten
<1>9. Remembered'
  BY <1>2, <1>3, <1>6 DEF RegistryIInv, TypeOK, Remembered
<1>10. Buried'
  <2>1. ASSUME NEW m \in gone
        PROVE  \/ Excused(m)'
               \/ kind'[m] = "absent" /\ Traceless(m)' /\ state[m] = "absent"
    BY <1>2, <1>3, <1>6 DEF RegistryIInv, TypeOK, Buried, Traceless, Excused
  <2>2. QED
    BY <1>6, <2>1 DEF Buried
<1>11. Written'
  BY <1>2, <1>6 DEF RegistryIInv, Written, Tampered
<1>12. Shown'
  <2>1. ASSUME NEW m \in Known'
        PROVE  Tampered(m)' \/ "unread" \in causes'[m] \/ given[m] \in {"none", name'[m]} \cup Lookalikes
    <3>1. Tampered(m) => Tampered(m)'
      BY <1>2 DEF Known, Tampered
    <3>2. Tampered(m) \/ ~readable \/ given[m] \in {"none", Loaded[m]} \cup Lookalikes
      BY LoadedFacts DEF RegistryIInv, Known
    <3>3. QED
      BY <1>2, <1>5, <3>1, <3>2 DEF Known
  <2>2. QED
    BY <1>6, <2>1 DEF Shown
<1>13. QED
  BY <1>7, <1>8, <1>9, <1>10, <1>11, <1>12 DEF RegistryIInv

LEMMA ConnectBridgeKeeps ==
    ASSUME RegistryIInv, ConnectBridge
    PROVE  RegistryIInv'
<1>1. op' = op /\ op.todo = <<>> /\ op.what = "none" /\ deleting' = deleting
  BY FreeFacts DEF ConnectBridge, Idle
<1>2. /\ causes' \in [Sensors -> SUBSET Causes]
      /\ \A m \in Sensors : causes[m] \subseteq causes'[m]
                            /\ (m \in paired \ Known => "unread" \in causes'[m])
  BY BlameFacts DEF RegistryIInv, ConnectBridge, Causes
<1>3. /\ kind' \in [Sensors -> Kinds] /\ name' \in Files
      /\ \A m \in Sensors : m \notin paired \ Known => kind'[m] = kind[m] /\ name'[m] = name[m]
  BY DEF RegistryIInv, TypeOK, ConnectBridge, Kinds, Files, Labels
<1>4. /\ events' \in Seq(Reports)
      /\ \A i \in DOMAIN events' :
            (i \in DOMAIN events /\ events'[i] = events[i]) \/ events'[i].mac \in paired
  BY <1>3, AnnounceFacts DEF RegistryIInv, ConnectBridge
<1>5. UNCHANGED <<state, file, readable, paired, given, kept, gone>> /\ spent' \in Nat
  BY DEF RegistryIInv, TypeOK, ConnectBridge, Spend, diskVars
<1>6. link' \in [up : BOOLEAN, seen : BOOLEAN]
  BY DEF RegistryIInv, TypeOK, ConnectBridge
<1>7. TypeOK'
  BY <1>1, <1>2, <1>3, <1>4, <1>5, <1>6 DEF RegistryIInv, TypeOK, Reports
<1>8. Ordered' /\ Aimed' /\ Recorded' /\ Erased' /\ Renaming' /\ ToWrite'
  BY <1>1, QueueTypes
     DEF RegistryIInv, Ordered, Aimed, Recorded, Erased, Renaming, ToWrite, Unwritten
<1>9. Remembered'
  BY <1>2, <1>3, <1>5 DEF RegistryIInv, Remembered, Known
<1>10. Buried'
  <2>1. ASSUME NEW m \in gone
        PROVE  \/ Excused(m)'
               \/ /\ kind'[m] = "absent" /\ Traceless(m)'
                  /\ state[m] = "absent" \/ "unsaved" \in causes'[m]
    BY <1>2, <1>3, <1>4, <1>5 DEF RegistryIInv, TypeOK, Buried, Traceless, Excused
  <2>2. QED
    BY <1>5, <2>1 DEF Buried
<1>11. Written'
  BY <1>2, <1>5 DEF RegistryIInv, Written, Tampered
<1>12. Shown'
  BY <1>2, <1>3, <1>5 DEF RegistryIInv, Shown, Known, Tampered
<1>13. QED
  BY <1>7, <1>8, <1>9, <1>10, <1>11, <1>12 DEF RegistryIInv
LEMMA ConnectLocalKeeps ==
    ASSUME RegistryIInv, ConnectLocal
    PROVE  RegistryIInv'
<1> DEFINE read == IF link.seen THEN paired \ Known ELSE paired
           full == [m \in Sensors |-> IF m \in read /\ Loaded[m] = "none" THEN "stub" ELSE Loaded[m]]
           todo == IF full = Loaded THEN <<"state">> ELSE <<"config", "state">>
<1>1. /\ Idle
      /\ link' = [up |-> TRUE, seen |-> TRUE]
      /\ kind' = [m \in Sensors |-> IF m \in read THEN Persisted[m] ELSE kind[m]]
      /\ name' = [m \in Sensors |-> IF m \in read THEN full[m] ELSE name[m]]
      /\ IF read = {} THEN UNCHANGED op ELSE Begin("load", Nobody, todo, full)
      /\ Reread(read)
      /\ Announce
      /\ spent' \in Nat
      /\ UNCHANGED <<state, file, readable, deleting, paired, given, kept, gone>>
  BY DEF ConnectLocal, Read, RegistryIInv, TypeOK, Spend, diskVars
<1>2. /\ Loaded \in Files
      /\ \A m \in Sensors : Tampered(m) \/ ~readable \/ given[m] \in {"none", Loaded[m]} \cup Lookalikes
  BY LoadedFacts DEF RegistryIInv
<1>3. /\ full \in Files
      /\ \A m \in Sensors : full[m] = Loaded[m] \/ Loaded[m] = "none"
  BY <1>2 DEF Files, Labels
<1>4. todo \in {<<"state">>, <<"config", "state">>} /\ todo \in Queues
  BY DEF Queues
<1>5. /\ causes' \in [Sensors -> SUBSET Causes]
      /\ \A m \in Sensors :
            /\ causes[m] \ {"unread"} \subseteq causes'[m]
            /\ m \notin read => causes'[m] = causes[m]
            /\ m \in read /\ "unsaved" \in causes[m] => "lost" \in causes'[m]
            /\ m \in read /\ ~readable => "unread" \in causes'[m]
  BY <1>1, RereadFacts DEF RegistryIInv
<1>6. read \subseteq paired
  OBVIOUS
<1> HIDE DEF read, full, todo
<1>7. /\ op' \in [todo : Seq({"config", "state"}), what : Ops, mac : Sensors \cup {Nobody}, file : Files]
      /\ op'.todo \in Queues /\ op'.what \in {"none", "load"}
      /\ op'.todo = <<>> \/ op'.file = full
  <2>1. CASE read = {}
    BY <1>1, <2>1, FreeFacts DEF Idle, Queues
  <2>2. CASE read # {}
    BY <1>1, <1>3, <1>4, <2>2, BeginType DEF Ops
  <2>3. QED
    BY <2>1, <2>2
<1>8. kind' \in [Sensors -> Kinds] /\ name' \in Files
  <2>1. Persisted \in [Sensors -> Kinds]
    BY DEF Persisted, RegistryIInv, TypeOK, Kinds
  <2>2. QED
    BY <1>1, <1>3, <2>1 DEF RegistryIInv, TypeOK, Files
<1>9. /\ events' \in Seq(Reports)
      /\ \A i \in DOMAIN events' :
            (i \in DOMAIN events /\ events'[i] = events[i]) \/ events'[i].mac \in paired
  BY <1>1, <1>8, AnnounceFacts DEF RegistryIInv
<1>10. TypeOK'
  BY <1>1, <1>5, <1>7, <1>8, <1>9 DEF RegistryIInv, TypeOK, Reports, Ops
<1>11. Ordered' /\ Aimed' /\ Recorded' /\ Erased' /\ Renaming'
  BY <1>1, <1>7 DEF RegistryIInv, Ordered, Aimed, Recorded, Erased, Renaming
<1>12. Remembered'
  <2>1. ASSUME NEW m \in Sensors, kept[m] = "typed"
        PROVE  \/ "lost" \in causes'[m]
               \/ kind'[m] = "typed" /\ (state[m] = "typed" \/ "unsaved" \in causes'[m])
    <3>1. "lost" \in causes[m] \/ (kind[m] = "typed" /\ (state[m] = "typed" \/ "unsaved" \in causes[m]))
      BY <2>1 DEF RegistryIInv, Remembered
    <3>2. CASE m \in read
      BY <1>1, <1>5, <3>1, <3>2 DEF Persisted
    <3>3. CASE m \notin read
      BY <1>1, <1>5, <3>1, <3>3
    <3>4. QED
      BY <3>2, <3>3
  <2>2. QED
    BY <1>1, <2>1 DEF Remembered
<1>13. Buried'
  <2>1. ASSUME NEW m \in gone
        PROVE  \/ Excused(m)'
               \/ /\ kind'[m] = "absent" /\ Traceless(m)'
                  /\ state[m] = "absent" \/ "unsaved" \in causes'[m]
    <3>1. m \in Sensors
      BY DEF RegistryIInv, TypeOK
    <3>2. Excused(m) => Excused(m)'
      BY <1>5, <3>1 DEF Excused
    <3>3. ASSUME ~Excused(m)
          PROVE  /\ kind'[m] = "absent" /\ Traceless(m)'
                 /\ state[m] = "absent" \/ "unsaved" \in causes'[m]
      <4>1. kind[m] = "absent" /\ Traceless(m) /\ (state[m] = "absent" \/ "unsaved" \in causes[m])
        BY <3>3 DEF RegistryIInv, Buried
      <4>2. m \notin read
        BY <1>6, <4>1 DEF Traceless
      <4>3. QED
        BY <1>1, <1>5, <1>9, <3>1, <4>1, <4>2 DEF Traceless
    <3>4. QED
      BY <3>2, <3>3
  <2>2. QED
    BY <1>1, <2>1 DEF Buried
<1>14. Written'
  BY <1>1, <1>5 DEF RegistryIInv, Written, Tampered
<1>15. \A m \in Sensors : Tampered(m) => Tampered(m)'
  BY <1>5 DEF Tampered
<1>16. ToWrite'
  BY <1>1, <1>2, <1>3, <1>7, <1>15, QueueTypes DEF ToWrite, Unwritten
<1>17. Shown'
  <2>1. ASSUME NEW m \in Sensors, m \in Known'
        PROVE  Tampered(m)' \/ "unread" \in causes'[m] \/ given[m] \in {"none", name'[m]} \cup Lookalikes
    <3>1. CASE m \in read
      BY <1>1, <1>2, <1>3, <1>5, <1>15, <3>1
    <3>2. CASE m \notin read
      BY <1>1, <1>5, <1>15, <2>1, <3>2 DEF RegistryIInv, Shown, Known
    <3>3. QED
      BY <3>1, <3>2
  <2>2. QED
    BY <1>1, <2>1 DEF Shown, Known
<1>18. QED
  BY <1>10, <1>11, <1>12, <1>13, <1>14, <1>16, <1>17 DEF RegistryIInv

LEMMA DispatchKeeps ==
    ASSUME RegistryIInv, Dispatch
    PROVE  RegistryIInv'
<1> DEFINE e == Head(events)
           m == e.mac
           n == NewName(m, e.typed)
           f == [Loaded EXCEPT ![m] = n]
<1>1. events \in Seq(Reports) /\ events # <<>>
  BY DEF RegistryIInv, TypeOK, Reports, Dispatch
<1>2. /\ e \in Reports /\ m \in Sensors /\ events' \in Seq(Reports)
      /\ \E i \in DOMAIN events : events[i].mac = m
      /\ \A i \in DOMAIN events' : i + 1 \in DOMAIN events /\ events'[i] = events[i + 1]
  BY <1>1, EventFacts DEF Dispatch, Reports
<1>3. /\ Loaded \in Files
      /\ \A s \in Sensors : Tampered(s) \/ ~readable \/ given[s] \in {"none", Loaded[s]} \cup Lookalikes
  BY LoadedFacts DEF RegistryIInv
<1>4. n \in Labels /\ (n = Loaded[m] \/ Loaded[m] \in {"none", "stub"} \cup Lookalikes)
  BY <1>2, <1>3 DEF NewName, Files, Labels
<1>5. f \in Files
  BY <1>2, <1>3, <1>4 DEF Files
<1>6. /\ UNCHANGED <<state, file, readable, deleting, paired, link, spent, given, kept, gone>>
      /\ op = Free
  BY DEF Dispatch, diskVars, Idle
<1>7. Tampered(m) \/ ~readable \/ given[m] \in {"none", n} \cup Lookalikes
  <2>1. given[m] \in Names \cup {"none"}
    BY <1>2 DEF RegistryIInv, TypeOK
  <2>2. QED
    BY <1>2, <1>3, <1>4, <2>1, RegistryAssumption
<1>8. \/ /\ Registers(e)
         /\ kind' = [kind EXCEPT ![m] = IF e.typed THEN "typed" ELSE "untyped"]
         /\ name' = [name EXCEPT ![m] = n]
         /\ \E what \in {"known", "new"} : Begin(what, m, <<"config", "state">>, f)
         /\ Blame(Unread({m}), "unread")
      \/ /\ ~Registers(e)
         /\ Begin("known", m, <<"state">>, Empty)
         /\ UNCHANGED <<kind, name, causes>>
  BY DEF Dispatch, memoryVars
<1>9. /\ causes' \in [Sensors -> SUBSET Causes]
      /\ \A s \in Sensors : causes[s] \subseteq causes'[s]
      /\ Registers(e) /\ ~readable => "unread" \in causes'[m]
  <2>1. CASE Blame(Unread({m}), "unread")
    BY <1>2, <2>1, BlameFacts DEF RegistryIInv, Causes, Unread
  <2>2. QED
    BY <1>8, <2>1 DEF RegistryIInv, TypeOK
<1> HIDE DEF n, f, m, e
<1>10. /\ op' \in [todo : Seq({"config", "state"}), what : Ops, mac : Sensors \cup {Nobody}, file : Files]
       /\ op'.todo \in Queues /\ op'.todo \in {<<"state">>, <<"config", "state">>}
       /\ op'.what \in {"new", "known"} /\ op'.mac = m
       /\ op'.todo = <<"state">> \/ op'.file = f
  <2>1. ASSUME NEW what \in {"known", "new"}, NEW todo \in {<<"state">>, <<"config", "state">>},
               NEW g \in Files, Begin(what, m, todo, g)
        PROVE  /\ op' \in [todo : Seq({"config", "state"}), what : Ops, mac : Sensors \cup {Nobody}, file : Files]
               /\ op'.todo = todo /\ todo \in Queues /\ op'.what = what /\ op'.mac = m /\ op'.file = g
    <3>1. todo \in Queues /\ what \in Ops
      BY DEF Queues, Ops
    <3>2. QED
      BY <1>2, <2>1, <3>1, BeginType
  <2>2. Empty \in Files
    BY DEF Empty, Files
  <2>3. QED
    BY <1>5, <1>8, <2>1, <2>2
<1>11. /\ kind' \in [Sensors -> Kinds] /\ name' \in Files
       /\ \A s \in Sensors : kind[s] = "typed" => kind'[s] = "typed"
       /\ \A s \in Sensors \ {m} : kind'[s] = kind[s] /\ name'[s] = name[s]
       /\ Registers(e) => name'[m] = n
       /\ ~Registers(e) => kind'[m] = kind[m] /\ name'[m] = name[m]
  <2>1. CASE Registers(e)
    <3>1. kind[m] # "typed"
      BY <2>1 DEF Registers, m
    <3>2. /\ kind' = [kind EXCEPT ![m] = IF e.typed THEN "typed" ELSE "untyped"]
          /\ name' = [name EXCEPT ![m] = n]
      BY <1>8, <2>1
    <3>3. kind \in [Sensors -> Kinds] /\ name \in Files
      BY DEF RegistryIInv, TypeOK
    <3>4. kind' \in [Sensors -> Kinds] /\ \A s \in Sensors \ {m} : kind'[s] = kind[s]
      BY <1>2, <3>2, <3>3 DEF Kinds
    <3>5. name' \in Files /\ name'[m] = n /\ \A s \in Sensors \ {m} : name'[s] = name[s]
      BY <1>2, <1>4, <3>2, <3>3 DEF Files
    <3>6. QED
      BY <2>1, <3>1, <3>4, <3>5
  <2>2. CASE ~Registers(e)
    BY <1>8, <2>2 DEF RegistryIInv, TypeOK
  <2>3. QED
    BY <2>1, <2>2
<1>12. TypeOK'
  BY <1>2, <1>6, <1>9, <1>10, <1>11 DEF RegistryIInv, TypeOK, Reports, Ops
<1>13. Ordered' /\ Aimed' /\ Recorded' /\ Erased' /\ Renaming'
  BY <1>2, <1>6, <1>10 DEF RegistryIInv, Ordered, Aimed, Recorded, Unstored, Erased, Renaming
<1>14. Remembered'
  BY <1>6, <1>9, <1>11 DEF RegistryIInv, Remembered
<1>15. Buried'
  <2>1. ASSUME NEW s \in gone
        PROVE  \/ Excused(s)'
               \/ /\ kind'[s] = "absent" /\ Traceless(s)'
                  /\ state[s] = "absent" \/ "unsaved" \in causes'[s]
    <3>1. s \in Sensors
      BY DEF RegistryIInv, TypeOK
    <3>2. Excused(s) => Excused(s)'
      BY <1>9, <3>1 DEF Excused
    <3>3. ASSUME ~Excused(s)
          PROVE  /\ kind'[s] = "absent" /\ Traceless(s)'
                 /\ state[s] = "absent" \/ "unsaved" \in causes'[s]
      <4>1. kind[s] = "absent" /\ Traceless(s) /\ (state[s] = "absent" \/ "unsaved" \in causes[s])
        BY <3>3 DEF RegistryIInv, Buried
      <4>2. s # m
        BY <1>2, <4>1 DEF Traceless
      <4>3. Traceless(s)'
        BY <1>2, <1>6, <4>1 DEF Traceless
      <4>4. QED
        BY <1>9, <1>11, <3>1, <4>1, <4>2, <4>3
    <3>4. QED
      BY <3>2, <3>3
  <2>2. QED
    BY <1>6, <2>1 DEF Buried
<1>16. \A s \in Sensors : Tampered(s) => Tampered(s)'
  BY <1>9 DEF Tampered
<1>17. Written'
  BY <1>6, <1>16 DEF RegistryIInv, Written
<1>18. ToWrite'
  <2>1. ASSUME NEW s \in Sensors
        PROVE  Tampered(s) \/ ~readable \/ given[s] \in {"none", f[s]} \cup Lookalikes
    BY <1>2, <1>3, <1>7 DEF f, Files
  <2>2. QED
    BY <1>6, <1>10, <1>16, <2>1, QueueTypes DEF ToWrite, Unwritten
<1>19. Shown'
  <2>1. ASSUME NEW s \in Sensors, s \in Known'
        PROVE  Tampered(s)' \/ "unread" \in causes'[s] \/ given[s] \in {"none", name'[s]} \cup Lookalikes
    <3>1. CASE s = m /\ Registers(e)
      <4>1. name'[m] = n /\ (~readable => "unread" \in causes'[m])
        BY <1>9, <1>11, <3>1
      <4>2. Tampered(s) \/ ~readable \/ given[s] \in {"none", n} \cup Lookalikes
        BY <1>7, <3>1
      <4>3. QED
        BY <1>16, <3>1, <4>1, <4>2
    <3>2. CASE ~(s = m /\ Registers(e))
      BY <1>9, <1>11, <1>16, <2>1, <3>2 DEF RegistryIInv, Shown, Known
    <3>3. QED
      BY <3>1, <3>2
  <2>2. QED
    BY <1>6, <2>1 DEF Shown, Known
<1>20. QED
  BY <1>12, <1>13, <1>14, <1>15, <1>17, <1>18, <1>19 DEF RegistryIInv

-------------------------------------------------------------------------------
(* The theorems. *)

LEMMA RegistryStep == RegistryIInv /\ [Next]_vars => RegistryIInv'
<1> SUFFICES ASSUME RegistryIInv, [Next]_vars PROVE RegistryIInv'
  OBVIOUS
<1>1. CASE UNCHANGED vars
  <2>1. TypeOK'
    BY <1>1 DEF RegistryIInv, TypeOK, vars, memoryVars, diskVars, dongleVars, historyVars
  <2>2. Erased' /\ Buried'
    BY <1>1 DEF RegistryIInv, Erased, Buried, Traceless, Excused, vars, memoryVars, diskVars, dongleVars, historyVars
  <2>3. QED
    BY <1>1, <2>1, <2>2, QuietStep DEF RegistryIInv, vars, historyVars
<1>2. CASE Next
  BY <1>2, PairKeeps, ReportKeeps, DisconnectKeeps, ConnectBridgeKeeps, ConnectLocalKeeps, DispatchKeeps,
     SaveConfigKeeps, SaveStateKeeps, SaveFailsKeeps, FinishKeeps, RenameKeeps, DeleteKeeps, UnpairKeeps,
     EraseKeeps, EditKeeps, GarbleKeeps, ReloadKeeps, RestartKeeps DEF Next
<1>3. QED
  BY <1>1, <1>2

LEMMA RegistryInvariant == Spec => []RegistryIInv
BY RegistryInit, RegistryStep, PTL DEF Spec

\* The registry's state has its types.
THEOREM RegistryTypeCorrect == Spec => []TypeOK
BY RegistryInvariant, PTL DEF RegistryIInv

\* A name the user gave a sensor stays in sensors.yaml and is what the sensor
\* goes by, through registrations, deletes, reloads and restarts
\* (register_and_persist_sensor, load_sensors, rename_sensor, reload_config).
THEOREM NamesAreKept == Spec => []NamesTrue
<1>1. RegistryIInv => NamesTrue
  BY DEF RegistryIInv, Written, Shown, Tampered, NamesTrue, NameKept, NameShown, Known
<1>2. QED
  BY <1>1, RegistryInvariant, PTL

\* What a report told of a sensor is not forgotten, unless its save failed and
\* the files were read before one succeeded (dispatch_event, load_sensors).
THEOREM ReportsAreKept == Spec => []ReportedKept
<1>1. RegistryIInv => ReportedKept
  BY DEF RegistryIInv, Remembered, ReportedKept
<1>2. QED
  BY <1>1, RegistryInvariant, PTL

\* A deleted sensor does not come back by itself (delete_and_persist_sensor).
THEOREM DeletedAreGone == Spec => []DeletedStaysGone
<1>1. RegistryIInv => DeletedStaysGone
  BY DEF RegistryIInv, Buried, Excused, DeletedStaysGone
<1>2. QED
  BY <1>1, RegistryInvariant, PTL
===============================================================================
