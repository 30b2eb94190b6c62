----------------------------- MODULE RoamingProofs -----------------------------
(***************************************************************************)
(* Theorems about roaming (src/src/roaming/mod.rs).                        *)
(*                                                                         *)
(* RoamingHandover: for any gateways and sensors, any number of handovers  *)
(* at once, and any of them failing, reconnecting, restarting, paired or   *)
(* unpaired.                                                               *)
(*                                                                         *)
(* ReportMerging (from AheadNext on): for any gateways and any delays, any *)
(* number of reports less than half the counter's range, and any pairings, *)
(* handovers and lapses.                                                   *)
(***************************************************************************)
EXTENDS RoamingHandover, ReportMerging, SequenceTheorems, FiniteSetTheorems,
        WellFoundedInduction, TLAPS

\* There are finitely many ways to be a duplicate.
LEMMA DropsFinite == IsFiniteSet(Drops)
<1> DEFINE T == Sensors \X (Gateways \X Gateways)
           f == [d \in Drops |-> <<d.sensor, <<d.keep, d.at>>>>]
<1>1. IsFiniteSet(T)
  BY RoamingAssumption, FS_Product
<1>2. f \in Injection(Drops, T)
  <2>1. f \in [Drops -> T]
    BY DEF Drops
  <2>2. ASSUME NEW a \in Drops, NEW b \in Drops, f[a] = f[b] PROVE a = b
    <3>1. a.sensor = b.sensor /\ a.keep = b.keep /\ a.at = b.at
      BY <2>2
    <3>2. QED
      BY <3>1 DEF Drops
  <2>3. QED
    BY <2>1, <2>2 DEF Injection, IsInjective
<1>3. QED
  BY <1>1, <1>2, FS_Injection

\* Whatever order the duplicates come in, they make a sequence.
LEMMA DropsInOrder ==
    ASSUME NEW S \in SUBSET Drops, NEW q \in SetToSeqs(S)
    PROVE  q \in Seq(Drops)
<1>1. Cardinality(S) \in Nat
  BY DropsFinite, FS_Subset, FS_CardinalityType
<1>2. q \in [1 .. Cardinality(S) -> Drops]
  BY DEF SetToSeqs
<1>3. QED
  BY <1>1, <1>2

\* The sensors another gateway lists are described by proper records.
LEMMA DuplicatesType ==
    ASSUME TypeOK, NEW g \in Gateways, NEW read \in SUBSET Sensors
    PROVE  Duplicates(g, read) \in SUBSET Drops
<1>1. ASSUME NEW p \in read \X (online \ {g})
      PROVE  (IF owners[p[1]] = g
              THEN [sensor |-> p[1], keep |-> g, at |-> p[2]]
              ELSE [sensor |-> p[1], keep |-> p[2], at |-> g]) \in Drops
  BY <1>1 DEF TypeOK, Drops
<1>2. QED
  BY <1>1 DEF Duplicates

\* Commands and doubts keep their types.
LEMMA CommandType ==
    ASSUME TypeOK, NEW g \in Gateways, NEW s \in Sensors, NEW ok \in BOOLEAN,
           Command(g, With(g, s), ok) \/ Command(g, Without(g, s), ok)
    PROVE  nv' \in [Gateways -> SUBSET Sensors]
BY DEF TypeOK, Command, With, Without

LEMMA DoubtType ==
    ASSUME TypeOK, NEW S, NEW cause \in Causes, Doubt(S, cause)
    PROVE  doubt' \in [Sensors -> Causes \cup {"none"}]
BY DEF TypeOK, Doubt

LEMMA DoubtIfType ==
    ASSUME TypeOK, NEW s, NEW cond, NEW cause \in Causes, DoubtIf(cond, s, cause)
    PROVE  doubt' \in [Sensors -> Causes \cup {"none"}]
BY DoubtType DEF DoubtIf

LEMMA DoubtFailureType ==
    ASSUME TypeOK, NEW s, NEW ok, NEW matters, NEW cause \in Causes,
           DoubtFailure(ok, s, matters, cause)
    PROVE  doubt' \in [Sensors -> Causes \cup {"none"}]
<1>1. "lost" \in Causes
  BY DEF Causes
<1>2. QED
  BY <1>1, DoubtIfType DEF DoubtFailure

LEMMA InitType == Init => TypeOK
<1> SUFFICES ASSUME Init PROVE TypeOK
  OBVIOUS
<1>1. NoJoin \in Joins /\ ~InDrop(NoJoin)
  BY DEF NoJoin, Joins, InDrop
<1>2. NoReload \in Reloads /\ NotUnpairing \in Unpairings
  BY DEF NoReload, Reloads, NotUnpairing, Unpairings
<1>3. QED
  BY <1>1, <1>2, RoamingAssumption DEF Init, TypeOK

\* A task's step: the record it works on stays a handover.
LEMMA MoveStepType ==
    ASSUME TypeOK, NEW m \in Movers, MoveStep(m)
    PROVE  TypeOK'
<1> DEFINE h == move[m]
<1>1. h \in Moves
  BY DEF MoveStep, Start, Delete, Add, Restore, Finish, Record, GiveUp, At, TypeOK
<1>2. /\ h.sensor \in Sensors /\ h.from \in Gateways /\ h.to \in Gateways
      /\ h.blind \in BOOLEAN /\ h.back \in BOOLEAN
  BY <1>1 DEF Moves
<1>3. {"skipped", "lost", "refused", "unlisted"} \subseteq Causes
  BY DEF Causes
<1> USE RoamingAssumption DEF At, GoTo, joinVars, unpairVars
<1>4. CASE Start(m)
  <2>1. doubt' \in [Sensors -> Causes \cup {"none"}]
    BY <1>4, <1>3, DoubtIfType DEF Start
  <2>2. move' \in [Movers -> Moves \cup {NoMove}]
    BY <1>4, <1>1 DEF Start, TypeOK, Moves
  <2>3. QED
    BY <1>4, <2>1, <2>2 DEF Start, TypeOK
<1>5. CASE Delete(m)
  <2>1. PICK ok \in BOOLEAN :
          /\ Command(h.from, Without(h.from, h.sensor), ok)
          /\ move' = [move EXCEPT
                        ![m].step = IF ok \/ h.blind THEN "adding" ELSE "failed",
                        ![m].back = ok]
          /\ DoubtFailure(ok, h.sensor, h.blind, "skipped")
    BY <1>5 DEF Delete
  <2>2. doubt' \in [Sensors -> Causes \cup {"none"}]
    BY <2>1, <1>3, DoubtFailureType
  <2>3. move' \in [Movers -> Moves \cup {NoMove}]
    BY <2>1, <1>1 DEF TypeOK, Moves
  <2>4. nv' \in [Gateways -> SUBSET Sensors]
    BY <2>1, <1>2, CommandType
  <2>5. QED
    BY <1>5, <2>2, <2>3, <2>4 DEF Delete, TypeOK
<1>6. CASE Add(m)
  <2>1. PICK ok \in BOOLEAN :
          /\ Command(h.to, With(h.to, h.sensor), ok)
          /\ GoTo(m, IF ok THEN "added" ELSE IF h.back THEN "restoring" ELSE "failed")
          /\ DoubtFailure(ok, h.sensor, FALSE, "lost")
    BY <1>6 DEF Add
  <2>2. doubt' \in [Sensors -> Causes \cup {"none"}]
    BY <2>1, <1>3, DoubtFailureType
  <2>3. move' \in [Movers -> Moves \cup {NoMove}]
    BY <2>1, <1>1 DEF TypeOK, Moves
  <2>4. nv' \in [Gateways -> SUBSET Sensors]
    BY <2>1, <1>2, CommandType
  <2>5. QED
    BY <1>6, <2>2, <2>3, <2>4 DEF Add, TypeOK
<1>7. CASE Restore(m)
  <2>1. PICK ok \in BOOLEAN :
          /\ Command(h.from, With(h.from, h.sensor), ok)
          /\ DoubtFailure(ok, h.sensor, TRUE, "refused")
    BY <1>7 DEF Restore
  <2>2. doubt' \in [Sensors -> Causes \cup {"none"}]
    BY <2>1, <1>3, DoubtFailureType
  <2>3. move' \in [Movers -> Moves \cup {NoMove}]
    BY <1>7, <1>1 DEF Restore, TypeOK, Moves
  <2>4. nv' \in [Gateways -> SUBSET Sensors]
    BY <2>1, <1>2, CommandType
  <2>5. QED
    BY <1>7, <2>2, <2>3, <2>4 DEF Restore, TypeOK
<1>8. CASE Finish(m)
  <2>1. doubt' \in [Sensors -> Causes \cup {"none"}]
    BY <1>8, <1>3, DoubtIfType DEF Finish
  <2>2. move' \in [Movers -> Moves \cup {NoMove}]
    BY <1>8, <1>1 DEF Finish, TypeOK, Moves
  <2>3. table' \in [Gateways -> SUBSET Sensors]
    BY <1>8, <1>2 DEF Finish, TypeOK
  <2>4. QED
    BY <1>8, <2>1, <2>2, <2>3 DEF Finish, TypeOK
<1>9. CASE Record(m)
  BY <1>9, <1>2 DEF Record, TypeOK
<1>10. CASE GiveUp(m)
  BY <1>10 DEF GiveUp, TypeOK
<1>11. QED
  BY <1>4, <1>5, <1>6, <1>7, <1>8, <1>9, <1>10 DEF MoveStep

LEMMA ConsiderType ==
    ASSUME TypeOK, NEW m \in Movers, NEW s \in Sensors, Consider(m, s)
    PROVE  TypeOK'
<1>1. PICK keeper \in OwnerOf(s), to \in online, blind \in BOOLEAN :
        move' = [move EXCEPT ![m] =
                   [sensor |-> s, from |-> keeper, to |-> to, blind |-> blind,
                    back |-> FALSE, step |-> "decided"]]
  BY DEF Consider, Decide
<1>2. keeper \in Gateways /\ to \in Gateways
  BY <1>1 DEF OwnerOf, Holders, TypeOK
<1>3. move' \in [Movers -> Moves \cup {NoMove}]
  BY <1>1, <1>2 DEF TypeOK, Moves
<1>4. QED
  BY <1>3 DEF Consider, Decide, joinVars, unpairVars, TypeOK

\* A connecting gateway's step: what it read and what is to be deleted.
LEMMA JoinStepType ==
    ASSUME TypeOK, NEW g \in Gateways, JoinStep(g)
    PROVE  TypeOK'
<1>1. NoJoin \in Joins /\ ~InDrop(NoJoin)
  BY DEF NoJoin, Joins, InDrop
<1>2. /\ join[g] \in Joins /\ join[g].seen \in SUBSET Sensors
      /\ join[g].drops \in Seq(Drops)
  BY DEF TypeOK, Joins
<1>3. "overwritten" \in Causes /\ "refused" \in Causes
  BY DEF Causes
<1>4. ASSUME join[g].drops # <<>>
      PROVE  /\ Head(join[g].drops) \in Drops
             /\ Tail(join[g].drops) \in Seq(Drops)
  BY <1>2, <1>4
<1> USE DEF moveVars, unpairVars, InDrop
<1>5. CASE JoinFails(g)
  BY <1>5, <1>1 DEF JoinFails, TypeOK
<1>6. CASE JoinForgets(g)
  <2>1. doubt' \in [Sensors -> Causes \cup {"none"}]
    BY <1>6, <1>3, DoubtType DEF JoinForgets
  <2>2. QED
    BY <1>6, <1>1, <2>1 DEF JoinForgets, TypeOK
<1>7. CASE JoinRead(g)
  <2>1. join' \in [Gateways -> Joins]
    BY <1>7, <1>2 DEF JoinRead, TypeOK, Joins
  <2>2. QED
    BY <1>7, <2>1 DEF JoinRead, TypeOK
<1>8. CASE JoinStore(g)
  <2>1. PICK drops \in SetToSeqs(Duplicates(g, join[g].seen)) :
          join' = [join EXCEPT ![g] = [step |-> "settling", seen |-> {},
                                       drops |-> drops]]
    BY <1>8 DEF JoinStore
  <2>2. drops \in Seq(Drops)
    BY <2>1, <1>2, DuplicatesType, DropsInOrder
  <2>3. join' \in [Gateways -> Joins]
    BY <2>1, <2>2 DEF TypeOK, Joins
  <2>4. doubt' \in [Sensors -> Causes \cup {"none"}]
    BY <1>8, <1>3, DoubtType DEF JoinStore
  <2>5. table' \in [Gateways -> SUBSET Sensors]
    BY <1>8, <1>2 DEF JoinStore, TypeOK
  <2>6. QED
    BY <1>8, <2>3, <2>4, <2>5 DEF JoinStore, TypeOK
<1>9. CASE Drop(g)
  <2> DEFINE d == Head(join[g].drops)
  <2>1. PICK ok \in BOOLEAN :
          /\ Command(d.at, Without(d.at, d.sensor), ok)
          /\ join' = [join EXCEPT
                        ![g].step = IF ok THEN "dropped" ELSE "settling",
                        ![g].drops = IF ok THEN @ ELSE Tail(@)]
          /\ DoubtFailure(ok, d.sensor, TRUE, "refused")
    BY <1>9 DEF Drop
  <2>2. d \in Drops /\ Tail(join[g].drops) \in Seq(Drops)
    BY <1>9, <1>4 DEF Drop
  <2>3. d.at \in Gateways /\ d.sensor \in Sensors
    BY <2>2 DEF Drops
  <2>4. nv' \in [Gateways -> SUBSET Sensors]
    BY <2>1, <2>3, CommandType
  <2>5. doubt' \in [Sensors -> Causes \cup {"none"}]
    BY <2>1, <1>3, DoubtFailureType
  <2>6. join' \in [Gateways -> Joins]
    BY <2>1, <2>2, <1>2 DEF TypeOK, Joins
  <2>7. QED
    BY <1>9, <2>4, <2>5, <2>6 DEF Drop, TypeOK
<1>10. CASE DropListed(g)
  <2>1. join' \in [Gateways -> Joins]
    BY <1>10, <1>2 DEF DropListed, TypeOK, Joins
  <2>2. table' \in [Gateways -> SUBSET Sensors]
    BY <1>10 DEF DropListed, TypeOK
  <2>3. QED
    BY <1>10, <2>1, <2>2 DEF DropListed, TypeOK
<1>11. CASE DropRecorded(g)
  <2>1. Head(join[g].drops).keep \in Gateways /\ Tail(join[g].drops) \in Seq(Drops)
    BY <1>11, <1>4 DEF DropRecorded, TypeOK, InDrop, Drops
  <2>2. join' \in [Gateways -> Joins]
    BY <1>11, <1>2, <2>1 DEF DropRecorded, TypeOK, Joins
  <2>3. owners' \in [Sensors -> Gateways \cup {NoGateway}]
    BY <1>11, <2>1 DEF DropRecorded, TypeOK
  <2>4. QED
    BY <1>11, <2>2, <2>3 DEF DropRecorded, TypeOK
<1>12. CASE Joined(g)
  BY <1>12, <1>1 DEF Joined, TypeOK
<1>13. QED
  BY <1>5, <1>6, <1>7, <1>8, <1>9, <1>10, <1>11, <1>12 DEF JoinStep

\* What comes and goes around a gateway: its link, reloads, pairing.
GatewayEvent(g) ==
    Connect(g) \/ Disconnect(g) \/ Restarted(g) \/ ReloadRead(g) \/ ReloadFails(g)
    \/ ReloadStore(g) \/ \E s \in Sensors : Pair(s, g)

LEMMA UpsetType ==
    ASSUME TypeOK, Upset
    PROVE  upsets' \in 0..MaxUpsets
BY RoamingAssumption DEF TypeOK, Upset

LEMMA GatewayEventType ==
    ASSUME TypeOK, NEW g \in Gateways, GatewayEvent(g)
    PROVE  TypeOK'
<1>1. NoReload \in Reloads
  BY DEF NoReload, Reloads
<1>2. reload[g] \in Reloads /\ reload[g].seen \in SUBSET Sensors /\ join[g] \in Joins
  BY DEF TypeOK, Reloads
<1>3. "overwritten" \in Causes /\ "paired" \in Causes
  BY DEF Causes
<1> USE DEF moveVars, joinVars, unpairVars, InDrop
<1>4. CASE Connect(g)
  <2>1. join' \in [Gateways -> Joins]
    BY <1>4, <1>2 DEF Connect, TypeOK, Joins
  <2>2. QED
    BY <1>4, <1>2, <2>1 DEF Connect, TypeOK
<1>5. CASE Disconnect(g)
  BY <1>5 DEF Disconnect, TypeOK
<1>6. CASE Restarted(g)
  BY <1>6, <1>2, UpsetType DEF Restarted, TypeOK, Reloads
<1>7. CASE ReloadRead(g)
  BY <1>7 DEF ReloadRead, TypeOK, Reloads
<1>8. CASE ReloadFails(g)
  <2>1. doubt' \in [Sensors -> Causes \cup {"none"}]
    BY <1>8, <1>3, DoubtType DEF ReloadFails
  <2>2. QED
    BY <1>8, <1>1, <2>1 DEF ReloadFails, TypeOK
<1>9. CASE ReloadStore(g)
  <2>1. doubt' \in [Sensors -> Causes \cup {"none"}]
    BY <1>9, <1>3, DoubtType DEF ReloadStore
  <2>2. table' \in [Gateways -> SUBSET Sensors]
    BY <1>9, <1>2 DEF ReloadStore, TypeOK
  <2>3. QED
    BY <1>9, <1>1, <2>1, <2>2 DEF ReloadStore, TypeOK
<1>10. ASSUME NEW s \in Sensors, Pair(s, g) PROVE TypeOK'
  <2>1. doubt' \in [Sensors -> Causes \cup {"none"}]
    BY <1>10, <1>3, DoubtIfType DEF Pair
  <2>2. reload' \in [Gateways -> Reloads]
    BY <1>10, <1>2 DEF Pair, TypeOK, Reloads
  <2>3. nv' \in [Gateways -> SUBSET Sensors]
    BY <1>10 DEF Pair, With, TypeOK
  <2>4. QED
    BY <1>10, <2>1, <2>2, <2>3, UpsetType DEF Pair, TypeOK
<1>11. QED
  BY <1>4, <1>5, <1>6, <1>7, <1>8, <1>9, <1>10 DEF GatewayEvent

\* Unpairing a sensor, step by step.
UnpairEvent(s) == Unpair(s) \/ Unpaired(s) \/ \E g \in Gateways : UnpairAt(s, g)

LEMMA UnpairEventType ==
    ASSUME TypeOK, NEW s \in Sensors, UnpairEvent(s)
    PROVE  TypeOK'
<1>1. NotUnpairing \in Unpairings /\ unpair[s] \in Unpairings
  BY DEF NotUnpairing, Unpairings, TypeOK
<1>2. "refused" \in Causes /\ "unpaired" \in Causes
  BY DEF Causes
<1> USE DEF moveVars, joinVars, unpairVars
<1>3. CASE Unpair(s)
  BY <1>3, UpsetType DEF Unpair, TypeOK, Unpairings
<1>4. CASE Unpaired(s)
  <2>1. doubt' \in [Sensors -> Causes \cup {"none"}]
    BY <1>4, <1>2, DoubtIfType DEF Unpaired
  <2>2. QED
    BY <1>4, <1>1, <2>1 DEF Unpaired, TypeOK
<1>5. ASSUME NEW g \in Gateways, UnpairAt(s, g) PROVE TypeOK'
  <2>1. PICK ok \in BOOLEAN : /\ Command(g, Without(g, s), ok)
                              /\ DoubtFailure(ok, s, TRUE, "refused")
    BY <1>5 DEF UnpairAt
  <2>2. doubt' \in [Sensors -> Causes \cup {"none"}]
    BY <2>1, <1>2, DoubtFailureType
  <2>3. nv' \in [Gateways -> SUBSET Sensors]
    BY <2>1, CommandType
  <2>4. unpair' \in [Sensors -> Unpairings]
    BY <1>5, <1>1 DEF UnpairAt, TypeOK, Unpairings
  <2>5. QED
    BY <1>5, <2>2, <2>3, <2>4 DEF UnpairAt, TypeOK
<1>6. QED
  BY <1>3, <1>4, <1>5 DEF UnpairEvent

\* Every step is one of the above.
LEMMA Steps ==
    ASSUME [Next]_vars
    PROVE  \/ \E m \in Movers, s \in Sensors : Consider(m, s)
           \/ \E m \in Movers : MoveStep(m)
           \/ \E g \in Gateways : JoinStep(g) \/ GatewayEvent(g)
           \/ \E s \in Sensors : UnpairEvent(s)
           \/ UNCHANGED vars
BY DEF Next, GatewayEvent, UnpairEvent

\* Every variable keeps its type; in particular only known gateways are ever
\* online, and what is left of a gateway's duplicates stays in order.
THEOREM RoamingTypeCorrect == Spec => []TypeOK
<1>1. TypeOK /\ [Next]_vars => TypeOK'
  <2> SUFFICES ASSUME TypeOK, [Next]_vars PROVE TypeOK'
    OBVIOUS
  <2>1. CASE UNCHANGED vars
    BY <2>1 DEF vars, TypeOK
  <2>2. QED
    BY <2>1, Steps, ConsiderType, MoveStepType, JoinStepType, GatewayEventType,
       UnpairEventType
<1>2. QED
  BY <1>1, InitType, PTL DEF Spec

-------------------------------------------------------------------------------
\* The inductive invariant behind OneHandover: the sensor of a task at work is
\* marked busy, and no second task is at work on it.
BusyInv ==
    \A s \in Trusted, m \in Movers :
        Working(m, s) => /\ s \in busy
                         /\ \A n \in Movers : Working(n, s) => n = m

\* Trust is never regained.
LEMMA TrustShrinks ==
    ASSUME TypeOK, [Next]_vars
    PROVE  Trusted' \subseteq Trusted
<1>1. ASSUME NEW S, NEW cause \in Causes, Doubt(S, cause) PROVE Trusted' \subseteq Trusted
  BY <1>1 DEF Doubt, Trusted, TypeOK
<1>2. ASSUME NEW c, NEW s, NEW cause \in Causes, DoubtIf(c, s, cause)
      PROVE  Trusted' \subseteq Trusted
  BY <1>1, <1>2 DEF DoubtIf
<1>3. ASSUME NEW ok, NEW s, NEW c, NEW cause \in Causes, DoubtFailure(ok, s, c, cause)
      PROVE  Trusted' \subseteq Trusted
  BY <1>2, <1>3 DEF DoubtFailure, Causes
<1>4. ASSUME UNCHANGED doubt PROVE Trusted' \subseteq Trusted
  BY <1>4 DEF Trusted
<1>5. ASSUME NEW m \in Movers, MoveStep(m) PROVE Trusted' \subseteq Trusted
  BY <1>2, <1>3, <1>4, <1>5
  DEF MoveStep, Start, Delete, Add, Restore, Finish, Record, GiveUp, Causes
<1>6. ASSUME NEW g \in Gateways, JoinStep(g) PROVE Trusted' \subseteq Trusted
  BY <1>1, <1>3, <1>4, <1>6
  DEF JoinStep, JoinFails, JoinForgets, JoinRead, JoinStore, Drop, DropListed,
      DropRecorded, Joined, Causes
<1>7. ASSUME NEW g \in Gateways, GatewayEvent(g) PROVE Trusted' \subseteq Trusted
  BY <1>1, <1>2, <1>4, <1>7
  DEF GatewayEvent, Connect, Disconnect, Restarted, ReloadRead, ReloadFails,
      ReloadStore, Pair, Causes
<1>8. ASSUME NEW s \in Sensors, UnpairEvent(s) PROVE Trusted' \subseteq Trusted
  BY <1>2, <1>3, <1>4, <1>8 DEF UnpairEvent, Unpair, Unpaired, UnpairAt, Causes
<1>9. ASSUME NEW m \in Movers, NEW s \in Sensors, Consider(m, s)
      PROVE  Trusted' \subseteq Trusted
  BY <1>4, <1>9 DEF Consider, Decide
<1>10. ASSUME UNCHANGED vars PROVE Trusted' \subseteq Trusted
  BY <1>4, <1>10 DEF vars
<1>11. QED
  BY <1>5, <1>6, <1>7, <1>8, <1>9, <1>10, Steps

\* Tasks that do not touch the marks or the handovers cannot break BusyInv.
LEMMA BusyInvFrame ==
    ASSUME TypeOK, BusyInv, Trusted' \subseteq Trusted, UNCHANGED moveVars
    PROVE  BusyInv'
BY DEF BusyInv, Working, moveVars

\* A new handover is only decided on for a sensor that is not marked, so no
\* other task is at work on it.
LEMMA BusyInvConsider ==
    ASSUME TypeOK, BusyInv, Trusted' \subseteq Trusted,
           NEW m \in Movers, NEW s \in Sensors, Consider(m, s)
    PROVE  BusyInv'
<1>1. PICK h \in [sensor : {s}, step : {"decided"}, from : Gateways, to : Gateways,
                  blind : BOOLEAN, back : BOOLEAN] :
        move' = [move EXCEPT ![m] = h]
  BY DEF Consider, Decide, OwnerOf, Holders, TypeOK
<1>2. h \in Moves /\ h # NoMove /\ h.sensor = s /\ h.step = "decided"
  BY RoamingAssumption DEF Moves
<1>3. s \notin busy /\ busy' = busy \cup {s} /\ move[m] = NoMove
  BY DEF Consider, Decide
<1>4. \A n \in Movers, r \in Sensors :
        Working(n, r)' <=> (IF n = m THEN r = s ELSE Working(n, r))
  BY <1>1, <1>2 DEF Working, TypeOK
<1>5. QED
  BY <1>3, <1>4 DEF BusyInv, Trusted

\* A step of a handover leaves the others alone; the mark goes with the work.
LEMMA BusyInvMoveStep ==
    ASSUME TypeOK, BusyInv, Trusted' \subseteq Trusted,
           NEW m \in Movers, MoveStep(m)
    PROVE  BusyInv'
<1> DEFINE s == move[m].sensor
<1>1. /\ move[m] \in Moves /\ move[m] # NoMove
      /\ move \in [Movers -> Moves \cup {NoMove}]
      /\ s \in Sensors
  BY DEF MoveStep, Start, Delete, Add, Restore, Finish, Record, GiveUp, At, TypeOK, Moves
<1>2. ASSUME move[m].step # "recording", busy' = busy,
             NEW h \in Moves, move' = [move EXCEPT ![m] = h], h.sensor = s
      PROVE  BusyInv'
  <2>1. /\ \A n \in Movers \ {m}, r \in Sensors : Working(n, r)' <=> Working(n, r)
        /\ \A r \in Sensors : Working(m, r)' => Working(m, r)
    BY <1>1, <1>2 DEF Working
  <2>2. QED
    BY <1>2, <2>1 DEF BusyInv, Trusted
<1>3. ASSUME move[m].step # "recording", busy' = busy \ {s},
             NEW h \in Moves \cup {NoMove}, move' = [move EXCEPT ![m] = h],
             h = NoMove \/ h.step = "recording"
      PROVE  BusyInv'
  <2>1. /\ \A n \in Movers \ {m}, r \in Sensors : Working(n, r)' <=> Working(n, r)
        /\ \A r \in Sensors : ~Working(m, r)'
        /\ Working(m, s)
    BY <1>1, <1>3 DEF Working
  <2>2. QED
    BY <1>1, <1>3, <2>1 DEF BusyInv, Trusted
<1>4. CASE Start(m)
  <2>1. PICK st \in {"failed", "deleting", "adding"} :
            move' = [move EXCEPT ![m].step = st]
    BY <1>4 DEF Start, GoTo
  <2>2. move' = [move EXCEPT ![m] = [move[m] EXCEPT !.step = st]]
    BY <2>1
  <2>3. [move[m] EXCEPT !.step = st] \in Moves /\ [move[m] EXCEPT !.step = st].sensor = s
    BY <1>1 DEF Moves
  <2>4. move[m].step # "recording" /\ busy' = busy
    BY <1>4 DEF Start, At
  <2>5. QED
    BY <1>2, <2>2, <2>3, <2>4
<1>5. CASE Delete(m)
  <2>1. PICK ok \in BOOLEAN :
            move' = [move EXCEPT
                       ![m].step = IF ok \/ move[m].blind THEN "adding" ELSE "failed",
                       ![m].back = ok]
    BY <1>5 DEF Delete
  <2> DEFINE h == [move[m] EXCEPT
                    !.step = IF ok \/ move[m].blind THEN "adding" ELSE "failed",
                    !.back = ok]
  <2>2. move' = [move EXCEPT ![m] = h]
    BY <1>1, <2>1
  <2>3. h \in Moves /\ h.sensor = s
    BY <1>1 DEF Moves
  <2>4. move[m].step # "recording" /\ busy' = busy
    BY <1>5 DEF Delete, At
  <2>5. QED
    BY <1>2, <2>2, <2>3, <2>4
<1>6. CASE Add(m) \/ Restore(m)
  <2>1. PICK st \in {"added", "restoring", "failed"} :
            move' = [move EXCEPT ![m].step = st]
    BY <1>6 DEF Add, Restore, GoTo
  <2>2. move' = [move EXCEPT ![m] = [move[m] EXCEPT !.step = st]]
    BY <2>1
  <2>3. [move[m] EXCEPT !.step = st] \in Moves /\ [move[m] EXCEPT !.step = st].sensor = s
    BY <1>1 DEF Moves
  <2>4. move[m].step # "recording" /\ busy' = busy
    BY <1>6 DEF Add, Restore, At
  <2>5. QED
    BY <1>2, <2>2, <2>3, <2>4
<1>7. CASE Finish(m)
  <2> DEFINE h == [move[m] EXCEPT !.step = "recording"]
  <2>1. move' = [move EXCEPT ![m] = h]
    BY <1>7 DEF Finish, GoTo
  <2>2. h \in Moves /\ h.step = "recording"
    BY <1>1 DEF Moves
  <2>3. move[m].step # "recording" /\ busy' = busy \ {s}
    BY <1>7 DEF Finish, At
  <2>4. QED
    BY <1>3, <2>1, <2>2, <2>3
<1>8. CASE Record(m)
  <2>1. move' = [move EXCEPT ![m] = NoMove] /\ busy' = busy
    BY <1>8 DEF Record
  <2>2. \A n \in Movers, r \in Sensors : Working(n, r)' => Working(n, r)
    BY <1>1, <2>1 DEF Working
  <2>3. \A r \in Sensors : ~Working(m, r)
    BY <1>8 DEF Record, At, Working
  <2>4. QED
    BY <2>1, <2>2, <2>3 DEF BusyInv, Trusted
<1>9. CASE GiveUp(m)
  <2>1. /\ move' = [move EXCEPT ![m] = NoMove]
        /\ busy' = busy \ {s}
        /\ move[m].step # "recording"
    BY <1>9 DEF GiveUp, At
  <2>2. QED
    BY <1>3, <2>1
<1>10. QED
  BY <1>4, <1>5, <1>6, <1>7, <1>8, <1>9 DEF MoveStep

\* Unpairing unmarks a sensor, but not while trust in it is kept and a task is
\* at work on it.
LEMMA BusyInvUnpaired ==
    ASSUME TypeOK, BusyInv, Trusted' \subseteq Trusted,
           NEW s \in Sensors, Unpaired(s)
    PROVE  BusyInv'
<1>1. busy' = busy \ {s} /\ UNCHANGED move
  BY DEF Unpaired
<1>2. \A m \in Movers, r \in Sensors : Working(m, r)' <=> Working(m, r)
  BY <1>1 DEF Working
<1>3. ASSUME NEW m \in Movers, Working(m, s) PROVE s \notin Trusted'
  <2>1. InFlight(s)
    BY <1>3 DEF InFlight, Working
  <2>2. DoubtIf(TRUE, s, "unpaired")
    BY <2>1 DEF Unpaired, DoubtIf, Doubt
  <2>3. doubt'[s] # "none"
    BY <2>2 DEF DoubtIf, Doubt, TypeOK
  <2>4. QED
    BY <2>3 DEF Trusted
<1>4. QED
  BY <1>1, <1>2, <1>3 DEF BusyInv, Trusted

LEMMA BusyInvStep ==
    ASSUME TypeOK, BusyInv, [Next]_vars
    PROVE  BusyInv'
<1>1. Trusted' \subseteq Trusted
  BY TrustShrinks
<1>2. ASSUME NEW g \in Gateways, JoinStep(g) \/ GatewayEvent(g) PROVE BusyInv'
  <2>1. UNCHANGED moveVars
    BY <1>2
    DEF JoinStep, JoinFails, JoinForgets, JoinRead, JoinStore, Drop, DropListed,
        DropRecorded, Joined, GatewayEvent, Connect, Disconnect, Restarted,
        ReloadRead, ReloadFails, ReloadStore, Pair
  <2>2. QED
    BY <1>1, <2>1, BusyInvFrame
<1>3. ASSUME NEW s \in Sensors, UnpairEvent(s) PROVE BusyInv'
  <2>1. CASE Unpaired(s)
    BY <1>1, <2>1, BusyInvUnpaired
  <2>2. CASE ~Unpaired(s)
    <3>1. UNCHANGED moveVars
      BY <1>3, <2>2 DEF UnpairEvent, Unpair, UnpairAt
    <3>2. QED
      BY <1>1, <3>1, BusyInvFrame
  <2>3. QED
    BY <2>1, <2>2
<1>4. CASE UNCHANGED vars
  BY <1>1, <1>4, BusyInvFrame DEF vars, moveVars
<1>5. QED
  BY <1>1, <1>2, <1>3, <1>4, Steps, BusyInvConsider, BusyInvMoveStep

LEMMA BusyInvHolds == Spec => []BusyInv
<1>1. Init => BusyInv
  BY DEF Init, BusyInv, Working
<1>2. TypeOK /\ BusyInv /\ [Next]_vars => BusyInv'
  BY BusyInvStep
<1>3. QED
  BY <1>1, <1>2, RoamingTypeCorrect, PTL DEF Spec

\* No two tasks ever hand the same sensor over at once, as long as it was not
\* unpaired under their hands.
THEOREM HandoversExclusive == Spec => []OneHandover
<1>1. BusyInv => OneHandover
  BY DEF BusyInv, OneHandover
<1>2. QED
  BY <1>1, BusyInvHolds, PTL

-------------------------------------------------------------------------------
(* The inductive invariant behind TablesTrue.  OneOwner and CopiesTrue follow *)
(* from what is true of one trusted sensor at a time: where its handover has  *)
(* brought it, or, when none is at work on it, that tables and copies agree.  *)

HeldWithin(s, S) == \A g \in Gateways : s \in nv[g] => g \in S
HeldOnce(s) == \A g, h \in Gateways : s \in nv[g] /\ s \in nv[h] => g = h
ListedOnce(s) == \A g, h \in Gateways : s \in table[g] /\ s \in table[h] => g = h
Idle(s) == \A m \in Movers : ~Working(m, s)

\* A sensor no handover is at work on is held only where it is listed, and listed
\* where it is held, but for what unpairing has deleted already and a reload is
\* still to list.
AtRest(s) ==
    /\ \A g, h \in Gateways : s \in table[g] /\ s \in nv[h] => g = h
    /\ \A g \in Gateways : s \in table[g] /\ ~unpair[s].active => s \in nv[g]
    /\ \A g \in known : s \in nv[g] /\ reload[g] = NoReload => s \in table[g]

\* The gateways that hold the sensor of handover h.
Place(h) ==
    CASE h.step \in {"decided", "deleting", "failed"} -> {h.from}
      [] h.step \in {"adding", "restoring"} -> {}
      [] h.step = "added" -> {h.to}
      [] h.step = "recording" -> Gateways

\* What is true of the sensor of a handover: the old owner lists it until the
\* end, and the step says which gateway holds it, unless unpairing deletes it.
OnItsWay(h) ==
    /\ h.sensor \in table[h.from] /\ h.from # h.to
    /\ HeldWithin(h.sensor, Place(h))
    /\ h.step = "decided" => ~h.back
    /\ ~unpair[h.sensor].active => /\ \A g \in Place(h) : h.sensor \in nv[g]
                                   /\ h.step = "adding" => h.back

SensorInv(s) ==
    /\ ListedOnce(s)
    /\ HeldOnce(s)
    /\ ~Dropping(s)
    /\ unpair[s].todo # {} => unpair[s].active
    /\ Idle(s) => AtRest(s)
    /\ \A m \in Movers : Working(m, s) => OnItsWay(move[m])

TablesIInv == \A s \in Trusted : SensorInv(s)

\* What a step does to one sensor: the invariant still holds of it, and it
\* changed hands as SensorOwnership allows.
Kept(s) == SensorInv(s)' /\ Ownership!Change(s)

\* A handover of s released it and has yet to find it a place.
Between(s) ==
    \E m \in Movers : /\ Working(m, s)
                      /\ move[m].step \in {"adding", "restoring"} /\ move[m].back

\* The step leaves s where it is and the handovers of s alone.
SamePlaces(s) == \A g \in Gateways : s \in nv'[g] <=> s \in nv[g]
SameMoves(s) == \A m \in Movers : Working(m, s) \/ Working(m, s)' => move'[m] = move[m]

Undisturbed(s) ==
    /\ SamePlaces(s)
    /\ SameMoves(s)
    /\ \A g \in Gateways : s \in table'[g] <=> s \in table[g]
    /\ ~Dropping(s)'
    /\ unpair'[s] = unpair[s] \/ unpair'[s].active
    /\ Idle(s) => \A g \in known' : s \in nv[g] /\ reload'[g] = NoReload
                      => s \in table[g] \/ (g \in known /\ reload[g] = NoReload)

LEMMA TransitMeans ==
    ASSUME NEW s \in Trusted
    PROVE  s \in InTransit <=> HeldAt(s) = {} /\ Between(s)
BY DEF InTransit, Between, Working

LEMMA TransitMeansNext ==
    ASSUME NEW s \in Trusted'
    PROVE  s \in InTransit' <=> HeldAt(s)' = {} /\ Between(s)'
BY DEF InTransit, Between, Working

\* How a sensor may change hands, in the words of SensorOwnership.
LEMMA ChangeMeans ==
    ASSUME NEW s \in Sensors,
           \/ HeldAt(s)' = HeldAt(s) /\ (s \in InTransit' <=> s \in InTransit)
           \/ HeldAt(s)' = {} /\ s \notin InTransit /\ s \in InTransit'
           \/ /\ s \in InTransit /\ s \notin InTransit'
              /\ \E g \in Gateways : HeldAt(s)' = {g}
           \/ /\ HeldAt(s) = {} /\ \E g \in Gateways : HeldAt(s)' = {g}
              /\ s \notin InTransit /\ s \notin InTransit'
           \/ /\ HeldAt(s) # {} /\ HeldAt(s)' = {}
              /\ s \notin InTransit /\ s \notin InTransit'
    PROVE  Ownership!Change(s)
BY DEF Ownership!Change, Ownership!Keeps, Ownership!Release, Ownership!Take,
       Ownership!Enter, Ownership!Leave

LEMMA StaysPut ==
    ASSUME NEW s \in Trusted, s \in Trusted', SamePlaces(s), Between(s)' <=> Between(s)
    PROVE  Ownership!Change(s)
<1>1. HeldAt(s)' = HeldAt(s)
  BY DEF HeldAt, SamePlaces
<1>2. s \in InTransit' <=> s \in InTransit
  BY <1>1, TransitMeans, TransitMeansNext
<1>3. s \in Sensors
  BY DEF Trusted
<1>4. QED
  BY <1>1, <1>2, <1>3, ChangeMeans

LEMMA UndisturbedKeeps ==
    ASSUME TypeOK, TypeOK', NEW s \in Trusted, s \in Trusted', SensorInv(s), Undisturbed(s)
    PROVE  Kept(s)
<1>1. Between(s)' <=> Between(s)
  <2>1. \A m \in Movers : Working(m, s)' <=> Working(m, s)
    BY DEF Undisturbed, SameMoves, Working
  <2>2. QED
    BY <2>1 DEF Between, Undisturbed, SameMoves
<1>2. Ownership!Change(s)
  BY <1>1, StaysPut DEF Undisturbed
<1>3. ListedOnce(s)' /\ HeldOnce(s)' /\ ~Dropping(s)'
  BY DEF Undisturbed, SensorInv, SamePlaces, ListedOnce, HeldOnce
<1>4. unpair'[s].todo # {} => unpair'[s].active
  BY DEF Undisturbed, SensorInv
<1>5. Idle(s)' => AtRest(s)'
  <2>1. Idle(s)' => Idle(s)
    BY DEF Idle, Undisturbed, SameMoves, Working
  <2>2. ASSUME AtRest(s), Idle(s) PROVE AtRest(s)'
    <3>1. known' \subseteq Gateways
      BY DEF TypeOK
    <3>2. \A g \in known' : s \in nv'[g] /\ reload'[g] = NoReload => s \in table'[g]
      BY <2>2, <3>1 DEF AtRest, Undisturbed, SamePlaces
    <3>3. QED
      BY <2>2, <3>2 DEF AtRest, Undisturbed, SamePlaces
  <2>3. QED
    BY <2>1, <2>2 DEF SensorInv
<1>6. ASSUME NEW m \in Movers, Working(m, s)' PROVE OnItsWay(move[m])'
  <2>1. move'[m] = move[m] /\ Working(m, s)
    BY <1>6 DEF Undisturbed, SameMoves, Working
  <2>2. PICK h \in Moves : h = move[m]
    BY <2>1 DEF TypeOK, Working
  <2>3. OnItsWay(h) /\ h.sensor = s /\ h.from \in Gateways /\ h.to \in Gateways
    BY <2>1, <2>2 DEF SensorInv, Working, Moves
  <2>4. Place(h) \subseteq Gateways
    BY <2>2, <2>3 DEF Place, Moves
  <2>5. OnItsWay(h)'
    BY <2>3, <2>4 DEF OnItsWay, HeldWithin, Undisturbed, SamePlaces
  <2>6. QED
    BY <2>1, <2>2, <2>5
<1>7. QED
  BY <1>2, <1>3, <1>4, <1>5, <1>6 DEF Kept, SensorInv

\* What keeping trust in a sensor says of the doubts a step raises.
LEMMA NoDoubt ==
    ASSUME TypeOK, NEW S, NEW cause \in Causes, Doubt(S, cause), NEW s \in Trusted'
    PROVE  s \notin S
BY DEF Doubt, Trusted, TypeOK, Causes

LEMMA NoDoubtIf ==
    ASSUME TypeOK, NEW c, NEW cause \in Causes, NEW s \in Trusted', DoubtIf(c, s, cause)
    PROVE  ~c
BY NoDoubt DEF DoubtIf

\* The failures a trusted sensor saw were failures, and of no consequence.
LEMMA NoDoubtFailure ==
    ASSUME TypeOK, NEW ok, NEW matters, NEW cause \in Causes, NEW s \in Trusted',
           DoubtFailure(ok, s, matters, cause)
    PROVE  ok \/ (nv' = nv /\ ~matters)
<1>1. "lost" \in Causes
  BY DEF Causes
<1>2. CASE nv' # nv
  <2>1. DoubtIf(~ok, s, "lost")
    BY <1>2 DEF DoubtFailure
  <2>2. QED
    BY <1>1, <2>1, NoDoubtIf
<1>3. CASE nv' = nv
  <2>1. DoubtIf(~ok /\ matters, s, cause)
    BY <1>3 DEF DoubtFailure
  <2>2. ~(~ok /\ matters)
    BY <2>1, NoDoubtIf
  <2>3. QED
    BY <1>3, <2>2
<1>4. QED
  BY <1>2, <1>3

\* A command about one sensor is about no other.
LEMMA CommandOther ==
    ASSUME TypeOK, NEW g \in Gateways, NEW r \in Sensors, NEW ok, NEW s, s # r,
           Command(g, With(g, r), ok) \/ Command(g, Without(g, r), ok)
    PROVE  SamePlaces(s)
BY DEF TypeOK, Command, With, Without, SamePlaces

\* The step takes the handover of s to the record k, as the sensor's only one.
LEMMA MoveAdvances ==
    ASSUME TypeOK, BusyInv, NEW s \in Trusted, s \in Trusted', SensorInv(s),
           NEW m \in Movers, Working(m, s),
           NEW k \in Moves, move' = [move EXCEPT ![m] = k],
           k.sensor = s, k.step # "recording", OnItsWay(k)',
           HeldOnce(s)', UNCHANGED <<table, join, unpair>>
    PROVE  SensorInv(s)'
<1>1. k # NoMove
  BY RoamingAssumption
<1>2. \A n \in Movers : Working(n, s)' <=> n = m
  BY <1>1 DEF BusyInv, Working, TypeOK
<1>3. ListedOnce(s)' /\ ~Dropping(s)' /\ (unpair'[s].todo # {} => unpair'[s].active)
  BY DEF SensorInv, ListedOnce, Dropping
<1>4. ~Idle(s)'
  BY <1>2 DEF Idle
<1>5. ASSUME NEW n \in Movers, Working(n, s)' PROVE OnItsWay(move[n])'
  <2>1. move'[n] = k
    BY <1>2, <1>5 DEF TypeOK
  <2>2. QED
    BY <2>1
<1>6. QED
  BY <1>3, <1>4, <1>5 DEF SensorInv

\* The task at work on s, its record and where that says the sensor is.
LEMMA WorkingMeans ==
    ASSUME TypeOK, BusyInv, NEW s \in Trusted, SensorInv(s),
           NEW m \in Movers, Working(m, s)
    PROVE  /\ move[m] \in Moves /\ move[m] # NoMove /\ move[m].sensor = s
           /\ move[m].from \in Gateways /\ move[m].to \in Gateways
           /\ s \in Sensors
           /\ OnItsWay(move[m])
           /\ s \in busy
           /\ \A n \in Movers : Working(n, s) => n = m
           /\ Between(s) <=> move[m].step \in {"adding", "restoring"} /\ move[m].back
<1>1. move[m] \in Moves /\ move[m] # NoMove /\ move[m].sensor = s
  BY DEF Working, TypeOK
<1>2. move[m].from \in Gateways /\ move[m].to \in Gateways
  BY <1>1 DEF Moves
<1>3. s \in busy /\ \A n \in Movers : Working(n, s) => n = m
  BY DEF BusyInv
<1>4. OnItsWay(move[m])
  BY DEF SensorInv
<1>5. Between(s) <=> move[m].step \in {"adding", "restoring"} /\ move[m].back
  BY <1>3 DEF Between
<1>6. QED
  BY <1>1, <1>2, <1>3, <1>4, <1>5 DEF Trusted

\* Whether the sensor of a handover is between gateways after its step.
LEMMA BetweenNext ==
    ASSUME TypeOK, BusyInv, NEW s \in Trusted,
           NEW m \in Movers, Working(m, s),
           NEW k \in Moves, move' = [move EXCEPT ![m] = k],
           k.sensor = s, k.step # "recording"
    PROVE  Between(s)' <=> k.step \in {"adding", "restoring"} /\ k.back
<1>1. k # NoMove
  BY RoamingAssumption
<1>2. \A n \in Movers : Working(n, s)' <=> n = m
  BY <1>1 DEF BusyInv, Working, TypeOK
<1>3. move'[m] = k
  BY DEF TypeOK
<1>4. QED
  BY <1>2, <1>3 DEF Between

\* Where the sensor of a handover is, by the step the handover is at.
LEMMA PlaceMeans ==
    ASSUME NEW h \in Moves
    PROVE  /\ h.step \in {"decided", "deleting", "failed"} => Place(h) = {h.from}
           /\ h.step \in {"adding", "restoring"} => Place(h) = {}
           /\ h.step = "added" => Place(h) = {h.to}
BY DEF Place

LEMMA StartKeeps ==
    ASSUME TypeOK, BusyInv, NEW s \in Trusted, s \in Trusted', SensorInv(s),
           NEW m \in Movers, Working(m, s), Start(m)
    PROVE  Kept(s)
<1> DEFINE h == move[m]
<1>1. PICK k \in Moves : k = move'[m]
  <2>1. move'[m] \in Moves
    BY WorkingMeans DEF Start, GoTo, TypeOK, Moves
  <2>2. QED
    BY <2>1
<1>2. /\ h.step = "decided" /\ move' = [move EXCEPT ![m] = k]
      /\ k.sensor = s /\ k.from = h.from /\ k.to = h.to /\ k.back = h.back
      /\ k.step \in {"failed", "deleting", "adding"}
  BY <1>1, WorkingMeans DEF Start, At, GoTo, TypeOK, Moves
<1>3. OnItsWay(h) /\ Place(h) = {h.from} /\ h.from \in Gateways
  BY <1>2, WorkingMeans, PlaceMeans
<1>4. ~h.back /\ s = h.sensor
  BY <1>2, <1>3, WorkingMeans DEF OnItsWay
<1>5. UNCHANGED <<nv, table, join, unpair>>
  BY DEF Start, joinVars, unpairVars
<1>6. k.step = "adding" => s \notin nv[h.from]
  <2>1. "skipped" \in Causes
    BY DEF Causes
  <2>2. DoubtIf((Holders(s) # {} /\ h.to \in linked) /\ h.from \notin online \cap linked
                  /\ s \in nv[h.from], s, "skipped")
    BY <1>4 DEF Start
  <2>3. ~((Holders(s) # {} /\ h.to \in linked) /\ h.from \notin online \cap linked
            /\ s \in nv[h.from])
    BY <2>1, <2>2, NoDoubtIf
  <2>4. k.step = "adding" => (Holders(s) # {} /\ h.to \in linked)
                             /\ h.from \notin online \cap linked
    BY <1>1, <1>4 DEF Start, GoTo, TypeOK
  <2>5. QED
    BY <2>3, <2>4
<1>7. OnItsWay(k)'
  <2>1. CASE k.step = "adding"
    <3>1. Place(k) = {}
      BY <2>1, PlaceMeans
    <3>2. unpair[s].active
      BY <1>3, <1>4, <1>6, <2>1 DEF OnItsWay
    <3>3. HeldWithin(s, {})
      BY <1>3, <1>4, <1>6, <2>1 DEF OnItsWay, HeldWithin
    <3>4. QED
      BY <1>2, <1>3, <1>4, <1>5, <2>1, <3>1, <3>2, <3>3 DEF OnItsWay, HeldWithin
  <2>2. CASE k.step # "adding"
    <3>1. Place(k) = {h.from}
      BY <1>2, <2>2, PlaceMeans
    <3>2. QED
      BY <1>2, <1>3, <1>4, <1>5, <2>2, <3>1 DEF OnItsWay, HeldWithin
  <2>3. QED
    BY <2>1, <2>2
<1>8. SensorInv(s)'
  <2>1. HeldOnce(s)'
    BY <1>5 DEF SensorInv, HeldOnce
  <2>2. QED
    BY <1>2, <1>5, <1>7, <2>1, MoveAdvances
<1>9. Ownership!Change(s)
  <2>1. SamePlaces(s)
    BY <1>5 DEF SamePlaces
  <2>2. ~Between(s)
    BY <1>4, WorkingMeans
  <2>3. ~Between(s)'
    BY <1>2, <1>4, BetweenNext
  <2>4. QED
    BY <2>1, <2>2, <2>3, StaysPut
<1>10. QED
  BY <1>8, <1>9 DEF Kept

LEMMA DeleteKeeps ==
    ASSUME TypeOK, BusyInv, NEW s \in Trusted, s \in Trusted', SensorInv(s),
           NEW m \in Movers, Working(m, s), Delete(m)
    PROVE  Kept(s)
<1> DEFINE h == move[m]
<1>1. PICK ok \in BOOLEAN :
        /\ Command(h.from, Without(h.from, h.sensor), ok)
        /\ move' = [move EXCEPT
                      ![m].step = IF ok \/ h.blind THEN "adding" ELSE "failed",
                      ![m].back = ok]
        /\ DoubtFailure(ok, h.sensor, h.blind, "skipped")
  BY DEF Delete
<1>2. h \in Moves /\ s = h.sensor /\ move \in [Movers -> Moves \cup {NoMove}]
  BY WorkingMeans DEF TypeOK
<1>3. PICK k \in Moves :
        k = [h EXCEPT !.step = IF ok \/ h.blind THEN "adding" ELSE "failed",
                      !.back = ok]
  <2>1. [h EXCEPT !.step = IF ok \/ h.blind THEN "adding" ELSE "failed",
                  !.back = ok] \in Moves
    BY <1>2 DEF Moves
  <2>2. QED
    BY <2>1
<1>4. /\ h.step = "deleting" /\ s = h.sensor
      /\ h.from \in Gateways /\ nv \in [Gateways -> SUBSET Sensors]
  BY WorkingMeans DEF Delete, At, TypeOK
<1>5. /\ move' = [move EXCEPT ![m] = k]
      /\ k.sensor = s /\ k.from = h.from /\ k.to = h.to /\ k.back = ok
      /\ k.step = IF ok \/ h.blind THEN "adding" ELSE "failed"
  BY <1>1, <1>3, <1>2 DEF Moves
<1>6. OnItsWay(h) /\ Place(h) = {h.from}
  BY <1>4, WorkingMeans, PlaceMeans
<1>7. UNCHANGED <<table, join, unpair>>
  BY DEF Delete, joinVars, unpairVars
<1>8. ok \/ (nv' = nv /\ ~h.blind)
  <2>1. "skipped" \in Causes
    BY DEF Causes
  <2>2. QED
    BY <1>1, <1>4, <2>1, NoDoubtFailure
<1>9. CASE ok
  <2>1. nv' = Without(h.from, s)
    BY <1>1, <1>4, <1>9 DEF Command
  <2>2. Place(k) = {} /\ k.step = "adding" /\ k.back
    BY <1>5, <1>9, PlaceMeans
  <2>3. HeldAt(s)' = {}
    BY <1>4, <1>6, <2>1 DEF HeldAt, OnItsWay, HeldWithin, Without
  <2>4. HeldOnce(s)' /\ HeldWithin(s, {})'
    BY <2>3 DEF HeldAt, HeldOnce, HeldWithin
  <2>5. OnItsWay(k)'
    BY <1>4, <1>5, <1>6, <1>7, <2>2, <2>4 DEF OnItsWay, HeldWithin
  <2>6. SensorInv(s)'
    BY <1>5, <1>7, <2>2, <2>4, <2>5, MoveAdvances
  <2>7. s \notin InTransit
    BY <1>4, TransitMeans, WorkingMeans
  <2>8. s \in InTransit'
    <3>1. Between(s)'
      BY <1>5, <2>2, BetweenNext
    <3>2. QED
      BY <2>3, <3>1, TransitMeansNext
  <2>9. Ownership!Change(s)
    BY <2>3, <2>7, <2>8, ChangeMeans DEF Trusted
  <2>10. QED
    BY <2>6, <2>9 DEF Kept
<1>10. CASE ~ok
  <2>1. nv' = nv /\ k.step = "failed" /\ Place(k) = {h.from}
    BY <1>5, <1>8, <1>10, PlaceMeans
  <2>2. OnItsWay(k)'
    BY <1>4, <1>5, <1>6, <1>7, <2>1 DEF OnItsWay, HeldWithin
  <2>3. HeldOnce(s)' /\ SamePlaces(s)
    BY <2>1 DEF SensorInv, HeldOnce, SamePlaces
  <2>4. SensorInv(s)'
    BY <1>5, <1>7, <2>1, <2>2, <2>3, MoveAdvances
  <2>5. ~Between(s)
    BY <1>4, WorkingMeans
  <2>6. ~Between(s)'
    BY <1>5, <2>1, BetweenNext
  <2>7. QED
    BY <2>3, <2>4, <2>5, <2>6, StaysPut DEF Kept
<1>11. QED
  BY <1>9, <1>10

LEMMA AddKeeps ==
    ASSUME TypeOK, BusyInv, NEW s \in Trusted, s \in Trusted', SensorInv(s),
           NEW m \in Movers, Working(m, s), Add(m)
    PROVE  Kept(s)
<1> DEFINE h == move[m]
<1>1. PICK ok \in BOOLEAN :
        /\ Command(h.to, With(h.to, h.sensor), ok)
        /\ GoTo(m, IF ok THEN "added" ELSE IF h.back THEN "restoring" ELSE "failed")
        /\ DoubtFailure(ok, h.sensor, FALSE, "lost")
  BY DEF Add
<1>2. h \in Moves /\ s = h.sensor /\ move \in [Movers -> Moves \cup {NoMove}]
  BY WorkingMeans DEF TypeOK
<1>3. PICK k \in Moves :
        k = [h EXCEPT !.step = IF ok THEN "added"
                               ELSE IF h.back THEN "restoring" ELSE "failed"]
  <2>1. [h EXCEPT !.step = IF ok THEN "added"
                           ELSE IF h.back THEN "restoring" ELSE "failed"] \in Moves
    BY <1>2 DEF Moves
  <2>2. QED
    BY <2>1
<1>4. /\ h.step = "adding" /\ h.to \in Gateways /\ h.from \in Gateways
      /\ nv \in [Gateways -> SUBSET Sensors]
  BY WorkingMeans DEF Add, At, TypeOK
<1>5. /\ move' = [move EXCEPT ![m] = k]
      /\ k.sensor = s /\ k.from = h.from /\ k.to = h.to /\ k.back = h.back
      /\ k.step = IF ok THEN "added" ELSE IF h.back THEN "restoring" ELSE "failed"
  BY <1>1, <1>2, <1>3 DEF Moves, GoTo
<1>6. OnItsWay(h) /\ Place(h) = {}
  BY <1>2, <1>4, WorkingMeans, PlaceMeans
<1>7. UNCHANGED <<table, join, unpair>>
  BY DEF Add, joinVars, unpairVars
<1>8. ok \/ nv' = nv
  <2>1. "lost" \in Causes
    BY DEF Causes
  <2>2. QED
    BY <1>1, <1>2, <2>1, NoDoubtFailure
<1>9. HeldAt(s) = {}
  BY <1>2, <1>6 DEF HeldAt, OnItsWay, HeldWithin
<1>10. CASE ok
  <2>1. nv' = With(h.to, s)
    BY <1>1, <1>2, <1>10 DEF Command
  <2>2. Place(k) = {h.to} /\ k.step = "added"
    BY <1>5, <1>10, PlaceMeans
  <2>3. HeldAt(s)' = {h.to} /\ s \in nv'[h.to]
    BY <1>4, <1>9, <2>1 DEF HeldAt, With
  <2>4. HeldOnce(s)' /\ HeldWithin(s, {k.to})'
    BY <1>5, <2>3 DEF HeldAt, HeldOnce, HeldWithin
  <2>5. OnItsWay(k)'
    BY <1>2, <1>5, <1>6, <1>7, <2>2, <2>3, <2>4 DEF OnItsWay, HeldWithin
  <2>6. SensorInv(s)'
    BY <1>5, <1>7, <2>2, <2>4, <2>5, MoveAdvances
  <2>7. ~Between(s)'
    BY <1>5, <2>2, BetweenNext
  <2>8. s \notin InTransit'
    BY <2>7, TransitMeansNext
  <2>9. Ownership!Change(s)
    <3>1. CASE s \in InTransit
      BY <1>4, <2>3, <2>8, <3>1, ChangeMeans DEF Trusted
    <3>2. CASE s \notin InTransit
      BY <1>4, <1>9, <2>3, <2>8, <3>2, ChangeMeans DEF Trusted
    <3>3. QED
      BY <3>1, <3>2
  <2>10. QED
    BY <2>6, <2>9 DEF Kept
<1>11. CASE ~ok
  <2>1. nv' = nv /\ k.step \in {"restoring", "failed"}
    BY <1>5, <1>8, <1>11
  <2>2. HeldOnce(s)' /\ SamePlaces(s)
    BY <2>1 DEF SensorInv, HeldOnce, SamePlaces
  <2>3. OnItsWay(k)'
    <3>1. HeldWithin(s, {})'
      BY <1>2, <1>6, <2>1 DEF OnItsWay, HeldWithin
    <3>2. h.back \/ unpair[s].active
      BY <1>2, <1>4, <1>6 DEF OnItsWay
    <3>3. CASE h.back
      <4>1. Place(k) = {} /\ k.step = "restoring"
        BY <1>5, <1>11, <3>3, PlaceMeans
      <4>2. QED
        BY <1>2, <1>5, <1>6, <1>7, <3>1, <4>1 DEF OnItsWay, HeldWithin
    <3>4. CASE unpair[s].active
      BY <1>2, <1>5, <1>6, <1>7, <2>1, <3>1, <3>4 DEF OnItsWay, HeldWithin
    <3>5. QED
      BY <3>2, <3>3, <3>4
  <2>4. SensorInv(s)'
    BY <1>5, <1>7, <2>1, <2>2, <2>3, MoveAdvances
  <2>5. Between(s) <=> h.back
    BY <1>4, WorkingMeans
  <2>6. Between(s)' <=> h.back
    <3>1. k.step \in {"adding", "restoring"} <=> h.back
      BY <1>5, <1>11
    <3>2. k.step # "recording" /\ k.sensor = s /\ k.back = h.back
      BY <1>5, <2>1
    <3>3. QED
      BY <1>5, <3>1, <3>2, BetweenNext
  <2>7. QED
    BY <2>2, <2>4, <2>5, <2>6, StaysPut DEF Kept
<1>12. QED
  BY <1>10, <1>11

LEMMA RestoreKeeps ==
    ASSUME TypeOK, BusyInv, NEW s \in Trusted, s \in Trusted', SensorInv(s),
           NEW m \in Movers, Working(m, s), Restore(m)
    PROVE  Kept(s)
<1> DEFINE h == move[m]
<1>1. PICK ok \in BOOLEAN :
        /\ Command(h.from, With(h.from, h.sensor), ok)
        /\ DoubtFailure(ok, h.sensor, TRUE, "refused")
  BY DEF Restore
<1>2. h \in Moves /\ s = h.sensor /\ move \in [Movers -> Moves \cup {NoMove}]
  BY WorkingMeans DEF TypeOK
<1>3. PICK k \in Moves : k = [h EXCEPT !.step = "failed"]
  <2>1. [h EXCEPT !.step = "failed"] \in Moves
    BY <1>2 DEF Moves
  <2>2. QED
    BY <2>1
<1>4. /\ h.step = "restoring" /\ h.from \in Gateways
      /\ nv \in [Gateways -> SUBSET Sensors]
  BY WorkingMeans DEF Restore, At, TypeOK
<1>5. /\ move' = [move EXCEPT ![m] = k]
      /\ k.sensor = s /\ k.from = h.from /\ k.to = h.to /\ k.step = "failed"
      /\ Place(k) = {h.from}
  <2>1. k.sensor = s /\ k.from = h.from /\ k.to = h.to /\ k.step = "failed"
    BY <1>2, <1>3 DEF Moves
  <2>2. QED
    BY <1>3, <2>1, PlaceMeans DEF Restore, GoTo
<1>6. OnItsWay(h) /\ Place(h) = {}
  BY <1>2, <1>4, WorkingMeans, PlaceMeans
<1>7. UNCHANGED <<table, join, unpair>>
  BY DEF Restore, joinVars, unpairVars
<1>8. ok
  <2>1. "refused" \in Causes
    BY DEF Causes
  <2>2. QED
    BY <1>1, <1>2, <2>1, NoDoubtFailure
<1>9. HeldAt(s) = {}
  BY <1>2, <1>6 DEF HeldAt, OnItsWay, HeldWithin
<1>10. nv' = With(h.from, s)
  BY <1>1, <1>2, <1>8 DEF Command
<1>11. HeldAt(s)' = {h.from} /\ s \in nv'[h.from]
  BY <1>4, <1>9, <1>10 DEF HeldAt, With
<1>12. HeldOnce(s)' /\ HeldWithin(s, {k.from})'
  BY <1>5, <1>11 DEF HeldAt, HeldOnce, HeldWithin
<1>13. OnItsWay(k)'
  BY <1>2, <1>5, <1>6, <1>7, <1>11, <1>12 DEF OnItsWay, HeldWithin
<1>14. SensorInv(s)'
  BY <1>5, <1>7, <1>12, <1>13, MoveAdvances
<1>15. s \notin InTransit'
  <2>1. ~Between(s)'
    BY <1>5, BetweenNext
  <2>2. QED
    BY <2>1, TransitMeansNext
<1>16. Ownership!Change(s)
  <2>1. CASE s \in InTransit
    BY <1>4, <1>11, <1>15, <2>1, ChangeMeans DEF Trusted
  <2>2. CASE s \notin InTransit
    BY <1>4, <1>9, <1>11, <1>15, <2>2, ChangeMeans DEF Trusted
  <2>3. QED
    BY <2>1, <2>2
<1>17. QED
  BY <1>14, <1>16 DEF Kept

\* A handover of s that ends leaves it at rest.
LEMMA MoveEnds ==
    ASSUME TypeOK, BusyInv, NEW s \in Trusted, s \in Trusted', SensorInv(s),
           NEW m \in Movers, Working(m, s),
           move[m].step \notin {"adding", "restoring"},
           NEW k \in Moves \cup {NoMove}, move' = [move EXCEPT ![m] = k],
           k = NoMove \/ k.step = "recording",
           ListedOnce(s)', AtRest(s)', UNCHANGED <<nv, join, unpair>>
    PROVE  Kept(s)
<1>1. move \in [Movers -> Moves \cup {NoMove}]
  BY DEF TypeOK
<1>2. \A n \in Movers : ~Working(n, s)'
  BY <1>1 DEF BusyInv, Working
<1>3. HeldOnce(s)' /\ ~Dropping(s)' /\ (unpair'[s].todo # {} => unpair'[s].active)
  BY DEF SensorInv, HeldOnce, Dropping
<1>4. SensorInv(s)'
  BY <1>2, <1>3 DEF SensorInv
<1>5. ~Between(s) /\ ~Between(s)'
  BY <1>2, WorkingMeans DEF Between
<1>6. Ownership!Change(s)
  BY <1>5, StaysPut DEF SamePlaces
<1>7. QED
  BY <1>4, <1>6 DEF Kept

LEMMA FinishKeeps ==
    ASSUME TypeOK, BusyInv, NEW s \in Trusted, s \in Trusted', SensorInv(s),
           NEW m \in Movers, Working(m, s), Finish(m)
    PROVE  Kept(s)
<1> DEFINE h == move[m]
<1>1. /\ h \in Moves /\ s = h.sensor /\ h.from \in Gateways /\ h.to \in Gateways
      /\ h.step = "added" /\ move' = [move EXCEPT ![m].step = "recording"]
      /\ UNCHANGED <<nv, known, join, reload, unpair>>
  BY WorkingMeans DEF Finish, At, GoTo, joinVars, unpairVars
<1>2. PICK k \in Moves : k = [h EXCEPT !.step = "recording"]
  <2>1. [h EXCEPT !.step = "recording"] \in Moves
    BY <1>1 DEF Moves
  <2>2. QED
    BY <2>1
<1>3. move' = [move EXCEPT ![m] = k] /\ k.step = "recording"
  BY <1>1, <1>2 DEF Moves
<1>4. OnItsWay(h) /\ Place(h) = {h.to}
  BY <1>1, WorkingMeans, PlaceMeans
<1>5. s \in table[h.from] /\ h.from # h.to
  BY <1>1, <1>4 DEF OnItsWay
<1>6. table' = [table EXCEPT ![h.from] = @ \ {s},
                             ![h.to] = IF h.to \in known THEN @ \cup {s} ELSE @]
  BY <1>1, <1>5 DEF Finish
<1>7. \A g \in Gateways : s \in table'[g] <=> g = h.to /\ h.to \in known
  <2>1. \A g \in Gateways : s \in table[g] => g = h.from
    BY <1>1, <1>5 DEF SensorInv, ListedOnce
  <2>2. table \in [Gateways -> SUBSET Sensors]
    BY DEF TypeOK
  <2>3. QED
    BY <1>1, <1>5, <1>6, <2>1, <2>2
<1>8. /\ \A g \in Gateways : s \in nv[g] => g = h.to
      /\ ~unpair[s].active => s \in nv[h.to]
  BY <1>1, <1>4 DEF OnItsWay, HeldWithin
<1>9. ListedOnce(s)'
  BY <1>7 DEF ListedOnce
<1>10. AtRest(s)'
  <2>1. known \subseteq Gateways
    BY DEF TypeOK
  <2>2. QED
    BY <1>1, <1>7, <1>8, <2>1 DEF AtRest
<1>11. QED
  BY <1>1, <1>3, <1>9, <1>10, MoveEnds

LEMMA GiveUpKeeps ==
    ASSUME TypeOK, BusyInv, NEW s \in Trusted, s \in Trusted', SensorInv(s),
           NEW m \in Movers, Working(m, s), GiveUp(m)
    PROVE  Kept(s)
<1> DEFINE h == move[m]
<1>1. /\ h \in Moves /\ s = h.sensor /\ h.from \in Gateways
      /\ h.step = "failed" /\ move' = [move EXCEPT ![m] = NoMove]
      /\ UNCHANGED <<nv, table, known, join, reload, unpair>>
  BY WorkingMeans DEF GiveUp, At, joinVars, unpairVars
<1>2. OnItsWay(h) /\ Place(h) = {h.from}
  BY <1>1, WorkingMeans, PlaceMeans
<1>3. /\ s \in table[h.from]
      /\ \A g \in Gateways : s \in nv[g] => g = h.from
      /\ ~unpair[s].active => s \in nv[h.from]
  BY <1>1, <1>2 DEF OnItsWay, HeldWithin
<1>4. \A g \in Gateways : s \in table[g] => g = h.from
  BY <1>1, <1>3 DEF SensorInv, ListedOnce
<1>5. ListedOnce(s)'
  BY <1>1 DEF SensorInv, ListedOnce
<1>6. AtRest(s)'
  <2>1. known \subseteq Gateways
    BY DEF TypeOK
  <2>2. QED
    BY <1>1, <1>3, <1>4, <2>1 DEF AtRest
<1>7. QED
  BY <1>1, <1>5, <1>6, MoveEnds

\* Steps that leave the joining gateways' duplicates, and what the coordinator
\* knows and reloads, as they are.
LEMMA UndisturbedByMove ==
    ASSUME TypeOK, TypeOK', NEW s \in Trusted, s \in Trusted', SensorInv(s),
           SamePlaces(s), SameMoves(s),
           \A g \in Gateways : s \in table'[g] <=> s \in table[g],
           UNCHANGED <<known, join, reload, unpair>>
    PROVE  Kept(s)
<1>1. ~Dropping(s)'
  BY DEF SensorInv, Dropping
<1>2. Undisturbed(s)
  BY <1>1 DEF Undisturbed
<1>3. QED
  BY <1>2, UndisturbedKeeps

LEMMA MoveStepKeeps ==
    ASSUME TypeOK, TypeOK', BusyInv, NEW s \in Trusted, s \in Trusted', SensorInv(s),
           NEW m \in Movers, MoveStep(m)
    PROVE  Kept(s)
<1> DEFINE h == move[m]
<1>1. CASE Working(m, s)
  <2>1. ~Record(m)
    BY <1>1 DEF Working, Record, At
  <2>2. QED
    BY <1>1, <2>1, StartKeeps, DeleteKeeps, AddKeeps, RestoreKeeps, FinishKeeps,
       GiveUpKeeps DEF MoveStep
<1>2. CASE ~Working(m, s)
  <2>1. /\ h \in Moves /\ h # NoMove /\ h.sensor \in Sensors
        /\ h.from \in Gateways /\ h.to \in Gateways
        /\ move \in [Movers -> Moves \cup {NoMove}]
    BY DEF MoveStep, Start, Delete, Add, Restore, Finish, Record, GiveUp, At, TypeOK,
           Moves
  <2>2. UNCHANGED <<known, join, reload, unpair>>
    BY DEF MoveStep, Start, Delete, Add, Restore, Finish, Record, GiveUp, joinVars,
           unpairVars
  <2>3. \A n \in Movers \ {m} : move'[n] = move[n]
    BY <2>1 DEF MoveStep, Start, Delete, Add, Restore, Finish, Record, GiveUp, GoTo
  <2>4. ~Working(m, s)'
    <3>1. CASE Record(m) \/ GiveUp(m)
      BY <2>1, <3>1 DEF Record, GiveUp, Working
    <3>2. CASE ~(Record(m) \/ GiveUp(m))
      <4>1. h.step # "recording"
        BY <3>2 DEF MoveStep, Start, Delete, Add, Restore, Finish, At
      <4>2. h.sensor # s
        BY <1>2, <2>1, <4>1 DEF Working
      <4>3. move'[m].sensor = h.sensor
        <5>1. CASE Delete(m)
          BY <2>1, <5>1 DEF Delete, Moves
        <5>2. CASE ~Delete(m)
          <6>1. PICK st \in {"failed", "deleting", "adding", "added", "restoring",
                             "recording"} :
                    move' = [move EXCEPT ![m].step = st]
            BY <3>2, <5>2 DEF MoveStep, Start, Add, Restore, Finish, GoTo
          <6>2. QED
            BY <2>1, <6>1 DEF Moves
        <5>3. QED
          BY <5>1, <5>2
      <4>4. QED
        BY <4>2, <4>3 DEF Working
    <3>3. QED
      BY <3>1, <3>2
  <2>5. SameMoves(s)
    BY <1>2, <2>3, <2>4 DEF SameMoves
  <2>6. CASE Start(m) \/ Record(m) \/ GiveUp(m)
    <3>1. UNCHANGED <<nv, table>>
      BY <2>6 DEF Start, Record, GiveUp
    <3>2. QED
      BY <2>2, <2>5, <3>1, UndisturbedByMove DEF SamePlaces
  <2>7. CASE Delete(m) \/ Add(m) \/ Restore(m)
    <3>1. h.sensor # s
      BY <1>2, <2>1, <2>7 DEF Working, Delete, Add, Restore, At
    <3>2. \/ \E ok \in BOOLEAN : Command(h.from, Without(h.from, h.sensor), ok)
          \/ \E ok \in BOOLEAN : Command(h.to, With(h.to, h.sensor), ok)
          \/ \E ok \in BOOLEAN : Command(h.from, With(h.from, h.sensor), ok)
      BY <2>7 DEF Delete, Add, Restore
    <3>3. SamePlaces(s)
      BY <2>1, <3>1, <3>2, CommandOther
    <3>4. table' = table
      BY <2>7 DEF Delete, Add, Restore
    <3>5. QED
      BY <2>2, <2>5, <3>3, <3>4, UndisturbedByMove
  <2>8. CASE Finish(m)
    <3>1. h.sensor # s
      BY <1>2, <2>1, <2>8 DEF Working, Finish, At
    <3>2. \A g \in Gateways : s \in table'[g] <=> s \in table[g]
      BY <2>1, <2>8, <3>1 DEF Finish, TypeOK
    <3>3. SamePlaces(s)
      BY <2>8 DEF Finish, SamePlaces
    <3>4. QED
      BY <2>2, <2>5, <3>2, <3>3, UndisturbedByMove
  <2>9. QED
    BY <2>6, <2>7, <2>8 DEF MoveStep
<1>3. QED
  BY <1>1, <1>2

\* A handover is decided on for a sensor at rest, and starts from the gateway
\* that lists it and so has it.
LEMMA ConsiderKeeps ==
    ASSUME TypeOK, TypeOK', BusyInv, NEW s \in Trusted, s \in Trusted', SensorInv(s),
           NEW m \in Movers, NEW r \in Sensors, Consider(m, r)
    PROVE  Kept(s)
<1>1. PICK keeper \in OwnerOf(r), to \in online, blind \in BOOLEAN :
        /\ to # keeper
        /\ move' = [move EXCEPT ![m] =
                      [sensor |-> r, from |-> keeper, to |-> to, blind |-> blind,
                       back |-> FALSE, step |-> "decided"]]
  BY DEF Consider, Decide
<1>2. /\ keeper \in Gateways /\ to \in Gateways /\ r \in table[keeper]
      /\ move \in [Movers -> Moves \cup {NoMove}]
  BY <1>1 DEF OwnerOf, Holders, TypeOK
<1>3. PICK k \in Moves :
        k = [sensor |-> r, from |-> keeper, to |-> to, blind |-> blind,
             back |-> FALSE, step |-> "decided"]
  <2>1. [sensor |-> r, from |-> keeper, to |-> to, blind |-> blind,
         back |-> FALSE, step |-> "decided"] \in Moves
    BY <1>2 DEF Moves
  <2>2. QED
    BY <2>1
<1>4. /\ move' = [move EXCEPT ![m] = k] /\ k # NoMove
      /\ k.sensor = r /\ k.from = keeper /\ k.to = to /\ ~k.back /\ k.step = "decided"
      /\ Place(k) = {keeper}
  BY <1>1, <1>3, PlaceMeans, RoamingAssumption
<1>5. move[m] = NoMove /\ r \notin busy
  BY DEF Consider, Decide
<1>6. UNCHANGED <<nv, table, known, join, reload, unpair>>
  BY DEF Consider, Decide, joinVars, unpairVars
<1>7. CASE r # s
  <2>1. SameMoves(s)
    BY <1>2, <1>4, <1>5, <1>7 DEF SameMoves, Working
  <2>2. QED
    BY <1>6, <2>1, UndisturbedByMove DEF SamePlaces
<1>8. CASE r = s
  <2>1. \A n \in Movers : ~Working(n, s)
    BY <1>5, <1>8 DEF BusyInv
  <2>2. AtRest(s)
    BY <2>1 DEF SensorInv, Idle
  <2>3. \A n \in Movers : Working(n, s)' <=> n = m
    BY <1>2, <1>4, <1>8, <2>1 DEF Working
  <2>4. /\ \A g \in Gateways : s \in nv[g] => g = keeper
        /\ ~unpair[s].active => s \in nv[keeper]
    BY <1>2, <1>8, <2>2 DEF AtRest
  <2>5. OnItsWay(k)'
    BY <1>1, <1>2, <1>4, <1>6, <1>8, <2>4 DEF OnItsWay, HeldWithin
  <2>6. /\ ListedOnce(s)' /\ HeldOnce(s)' /\ ~Dropping(s)'
        /\ unpair'[s].todo # {} => unpair'[s].active
    BY <1>6 DEF SensorInv, ListedOnce, HeldOnce, Dropping
  <2>7. ~Idle(s)'
    BY <2>3 DEF Idle
  <2>8. ASSUME NEW n \in Movers, Working(n, s)' PROVE OnItsWay(move[n])'
    <3>1. move'[n] = k
      BY <1>2, <1>4, <2>3, <2>8
    <3>2. QED
      BY <2>5, <3>1
  <2>9. SensorInv(s)'
    BY <2>6, <2>7, <2>8 DEF SensorInv
  <2>10. ~Between(s) /\ ~Between(s)'
    <3>1. move'[m] = k
      BY <1>2, <1>4
    <3>2. QED
      BY <1>4, <2>1, <2>3, <3>1 DEF Between
  <2>11. SamePlaces(s)
    BY <1>6 DEF SamePlaces
  <2>12. QED
    BY <2>9, <2>10, <2>11, StaysPut DEF Kept
<1>9. QED
  BY <1>7, <1>8

-------------------------------------------------------------------------------
\* The duplicates still to be deleted only become fewer while a gateway settles.
LEMMA NoNewDrops ==
    ASSUME TypeOK, NEW s \in Sensors, ~Dropping(s), NEW g \in Gateways,
           \A h \in Gateways \ {g} : join'[h] = join[h],
           \/ join'[g].drops = <<>>
           \/ join'[g].drops = join[g].drops
           \/ join[g].drops # <<>> /\ join'[g].drops = Tail(join[g].drops)
    PROVE  ~Dropping(s)'
<1>1. \A h \in Gateways : \A i \in DOMAIN join[h].drops : join[h].drops[i].sensor # s
  BY DEF Dropping
<1>2. join[g].drops \in Seq(Drops)
  BY DEF TypeOK, Joins
<1>3. ASSUME NEW i \in DOMAIN join'[g].drops PROVE join'[g].drops[i].sensor # s
  <2>1. CASE join[g].drops # <<>> /\ join'[g].drops = Tail(join[g].drops)
    <3>1. i + 1 \in DOMAIN join[g].drops /\ join'[g].drops[i] = join[g].drops[i + 1]
      BY <1>2, <1>3, <2>1
    <3>2. QED
      BY <1>1, <3>1
  <2>2. QED
    BY <1>1, <1>3, <2>1
<1>4. QED
  BY <1>1, <1>3 DEF Dropping

\* Steps that read, wait or settle: no table, copy or handover changes.
LEMMA UndisturbedByReading ==
    ASSUME TypeOK, TypeOK', NEW s \in Trusted, s \in Trusted', SensorInv(s),
           UNCHANGED <<move, unpair>>, SamePlaces(s),
           \A g \in Gateways : s \in table'[g] <=> s \in table[g],
           ~Dropping(s)',
           Idle(s) => \A g \in known' : s \in nv[g] /\ reload'[g] = NoReload
                          => s \in table[g] \/ (g \in known /\ reload[g] = NoReload)
    PROVE  Kept(s)
<1>1. Undisturbed(s)
  BY DEF Undisturbed, SameMoves
<1>2. QED
  BY <1>1, UndisturbedKeeps

\* A sensor at rest: the coordinator now believes of gateway g what is true of it.
LEMMA Corrected ==
    ASSUME TypeOK, TypeOK', NEW s \in Trusted, s \in Trusted', SensorInv(s), Idle(s),
           NEW g \in Gateways,
           \A h \in Gateways \ {g} : /\ s \in table'[h] <=> s \in table[h]
                                     /\ h \in known' <=> h \in known
                                     /\ reload'[h] = reload[h],
           s \in table'[g] <=> s \in nv[g],
           UNCHANGED <<nv, move, unpair>>, ~Dropping(s)'
    PROVE  Kept(s)
<1>1. AtRest(s) /\ ListedOnce(s) /\ HeldOnce(s)
  BY DEF SensorInv
<1>2. Idle(s)' /\ ~Between(s) /\ ~Between(s)'
  BY DEF Idle, Working, Between
<1>3. ListedOnce(s)'
  BY <1>1 DEF ListedOnce, AtRest
<1>4. HeldOnce(s)' /\ (unpair'[s].todo # {} => unpair'[s].active)
  BY DEF SensorInv, HeldOnce
<1>5. AtRest(s)'
  <2>1. \A k, h \in Gateways : s \in table'[k] /\ s \in nv[h] => k = h
    BY <1>1 DEF AtRest, HeldOnce
  <2>2. \A h \in Gateways : s \in table'[h] /\ ~unpair[s].active => s \in nv[h]
    BY <1>1 DEF AtRest
  <2>3. \A h \in known' : s \in nv[h] /\ reload'[h] = NoReload => s \in table'[h]
    <3>1. known' \subseteq Gateways
      BY DEF TypeOK
    <3>2. QED
      BY <1>1, <3>1 DEF AtRest
  <2>4. QED
    BY <2>1, <2>2, <2>3 DEF AtRest
<1>6. SensorInv(s)'
  BY <1>2, <1>3, <1>4, <1>5 DEF SensorInv, Idle
<1>7. Ownership!Change(s)
  BY <1>2, StaysPut DEF SamePlaces
<1>8. QED
  BY <1>6, <1>7 DEF Kept

LEMMA JoinForgetsKeeps ==
    ASSUME TypeOK, TypeOK', BusyInv, NEW s \in Trusted, s \in Trusted', SensorInv(s),
           NEW g \in Gateways, JoinForgets(g)
    PROVE  Kept(s)
<1>1. /\ known' = known \ {g} /\ table' = [table EXCEPT ![g] = {}]
      /\ join' = [join EXCEPT ![g] = NoJoin]
      /\ UNCHANGED <<nv, move, unpair, reload>>
      /\ table \in [Gateways -> SUBSET Sensors] /\ join \in [Gateways -> Joins]
  BY DEF JoinForgets, moveVars, unpairVars, TypeOK
<1>2. ~Dropping(s)'
  <2>1. join'[g].drops = <<>> /\ \A h \in Gateways \ {g} : join'[h] = join[h]
    BY <1>1 DEF NoJoin
  <2>2. QED
    BY <2>1, NoNewDrops DEF SensorInv, Trusted
<1>3. s \notin table[g] \cap busy
  <2>1. "overwritten" \in Causes
    BY DEF Causes
  <2>2. QED
    BY <2>1, NoDoubt DEF JoinForgets
<1>4. CASE s \notin table[g]
  BY <1>1, <1>2, <1>4, UndisturbedByReading DEF SamePlaces
<1>5. CASE s \notin busy
  <2>1. Idle(s) /\ AtRest(s) /\ ListedOnce(s) /\ HeldOnce(s)
    BY <1>5 DEF BusyInv, Idle, SensorInv
  <2>2. CASE s \in table[g]
    <3>1. /\ \A h \in Gateways : s \notin table'[h]
          /\ \A h \in Gateways : s \in nv[h] => h = g
      BY <1>1, <2>1, <2>2 DEF ListedOnce, AtRest
    <3>2. AtRest(s)'
      <4>1. known' \subseteq Gateways /\ g \notin known'
        BY <1>1 DEF TypeOK
      <4>2. QED
        BY <1>1, <3>1, <4>1 DEF AtRest
    <3>3. ListedOnce(s)' /\ HeldOnce(s)' /\ Idle(s)'
      BY <1>1, <2>1, <3>1 DEF ListedOnce, HeldOnce, Idle, Working
    <3>4. SensorInv(s)'
      BY <1>1, <1>2, <3>2, <3>3 DEF SensorInv, Idle
    <3>5. ~Between(s) /\ ~Between(s)'
      BY <2>1, <3>3 DEF Idle, Between
    <3>6. QED
      BY <1>1, <3>4, <3>5, StaysPut DEF Kept, SamePlaces
  <2>3. QED
    BY <1>4, <2>2
<1>6. QED
  BY <1>3, <1>4, <1>5

LEMMA JoinStoreKeeps ==
    ASSUME TypeOK, TypeOK', BusyInv, NEW s \in Trusted, s \in Trusted', SensorInv(s),
           NEW g \in Gateways, JoinStore(g)
    PROVE  Kept(s)
<1> DEFINE read == join[g].seen
<1>1. PICK drops \in SetToSeqs(Duplicates(g, read)) :
        join' = [join EXCEPT ![g] = [step |-> "settling", seen |-> {}, drops |-> drops]]
  BY DEF JoinStore
<1>2. /\ known' = known \cup {g} /\ table' = [table EXCEPT ![g] = read]
      /\ UNCHANGED <<nv, move, unpair, reload>>
      /\ table \in [Gateways -> SUBSET Sensors] /\ join \in [Gateways -> Joins]
  BY DEF JoinStore, moveVars, unpairVars, TypeOK
<1>3. s \in Sensors /\ online \subseteq Gateways
  BY DEF Trusted, TypeOK
<1>4. /\ s \in read <=> s \in nv[g]
      /\ s \in busy => (s \in read <=> s \in table[g])
  <2>1. "overwritten" \in Causes
    BY DEF Causes
  <2>2. s \notin Overwrites(g, read)
    BY <2>1, NoDoubt DEF JoinStore
  <2>3. QED
    BY <2>2 DEF Overwrites, Disagree
<1>5. ~(s \in read /\ \E h \in online \ {g} : s \in table[h])
  <2>1. CASE Idle(s)
    BY <1>3, <1>4, <2>1 DEF SensorInv, AtRest
  <2>2. CASE ~Idle(s)
    <3>1. s \in busy
      BY <2>2 DEF Idle, BusyInv
    <3>2. QED
      BY <1>3, <1>4, <3>1 DEF SensorInv, ListedOnce
  <2>3. QED
    BY <2>1, <2>2
<1>6. \A d \in Duplicates(g, read) : d.sensor # s
  <2>1. ASSUME NEW p \in read \X (online \ {g}), p[1] \in table[p[2]]
        PROVE  (IF owners[p[1]] = g
                THEN [sensor |-> p[1], keep |-> g, at |-> p[2]]
                ELSE [sensor |-> p[1], keep |-> p[2], at |-> g]).sensor # s
    BY <1>5, <2>1
  <2>2. QED
    BY <2>1 DEF Duplicates
<1>7. ~Dropping(s)'
  <2>1. join'[g].drops = drops /\ \A h \in Gateways \ {g} : join'[h] = join[h]
    BY <1>1, <1>2
  <2>2. \A i \in DOMAIN drops : drops[i] \in Duplicates(g, read)
    BY <1>1 DEF SetToSeqs
  <2>3. \A h \in Gateways \ {g} :
            \A i \in DOMAIN join[h].drops : join[h].drops[i].sensor # s
    BY DEF SensorInv, Dropping
  <2>4. QED
    BY <1>6, <2>1, <2>2, <2>3 DEF Dropping
<1>8. CASE Idle(s)
  BY <1>2, <1>4, <1>7, <1>8, Corrected
<1>9. CASE ~Idle(s)
  <2>1. s \in busy
    BY <1>9 DEF Idle, BusyInv
  <2>2. QED
    BY <1>2, <1>4, <1>7, <1>9, <2>1, UndisturbedByReading DEF SamePlaces
<1>10. QED
  BY <1>8, <1>9

LEMMA JoinStepKeeps ==
    ASSUME TypeOK, TypeOK', BusyInv, NEW s \in Trusted, s \in Trusted', SensorInv(s),
           NEW g \in Gateways, JoinStep(g)
    PROVE  Kept(s)
<1>1. /\ ~Dropping(s) /\ s \in Sensors
      /\ join \in [Gateways -> Joins] /\ join[g].drops \in Seq(Drops)
  BY DEF SensorInv, Trusted, TypeOK, Joins
<1>2. ASSUME join[g].drops # <<>>
      PROVE  Head(join[g].drops) \in Drops /\ Head(join[g].drops).sensor # s
  BY <1>1, <1>2 DEF Dropping
<1>3. CASE JoinForgets(g)
  BY <1>3, JoinForgetsKeeps
<1>4. CASE JoinStore(g)
  BY <1>4, JoinStoreKeeps
<1>5. CASE ~(JoinForgets(g) \/ JoinStore(g))
  <2>1. UNCHANGED <<known, move, unpair, reload>>
    BY <1>5 DEF JoinStep, JoinFails, JoinRead, Drop, DropListed, DropRecorded, Joined,
                moveVars, unpairVars
  <2>2. ~Dropping(s)'
    <3>1. \A h \in Gateways \ {g} : join'[h] = join[h]
      BY <1>1, <1>5 DEF JoinStep, JoinFails, JoinRead, Drop, DropListed, DropRecorded,
                        Joined
    <3>2. \/ join'[g].drops = <<>>
          \/ join'[g].drops = join[g].drops
          \/ join[g].drops # <<>> /\ join'[g].drops = Tail(join[g].drops)
      <4>1. CASE JoinFails(g) \/ Joined(g)
        BY <1>1, <4>1 DEF JoinFails, Joined, NoJoin
      <4>2. CASE JoinRead(g) \/ DropListed(g)
        BY <1>1, <4>2 DEF JoinRead, DropListed, Joins
      <4>3. CASE DropRecorded(g)
        <5>1. join[g].drops # <<>>
          BY <4>3 DEF DropRecorded, InDrop, TypeOK
        <5>2. QED
          BY <1>1, <4>3, <5>1 DEF DropRecorded, Joins
      <4>4. CASE Drop(g)
        <5>1. PICK ok \in BOOLEAN :
                join' = [join EXCEPT
                           ![g].step = IF ok THEN "dropped" ELSE "settling",
                           ![g].drops = IF ok THEN @ ELSE Tail(@)]
          BY <4>4 DEF Drop
        <5>2. join[g].drops # <<>>
          BY <4>4 DEF Drop
        <5>3. join'[g].drops = IF ok THEN join[g].drops ELSE Tail(join[g].drops)
          BY <1>1, <5>1 DEF Joins
        <5>4. QED
          BY <5>2, <5>3
      <4>5. QED
        BY <1>5, <4>1, <4>2, <4>3, <4>4 DEF JoinStep
    <3>3. QED
      BY <1>1, <3>1, <3>2, NoNewDrops
  <2>3. SamePlaces(s)
    <3>1. CASE Drop(g)
      <4>1. PICK ok \in BOOLEAN :
              Command(Head(join[g].drops).at,
                      Without(Head(join[g].drops).at, Head(join[g].drops).sensor), ok)
        BY <3>1 DEF Drop
      <4>2. /\ Head(join[g].drops).at \in Gateways
            /\ Head(join[g].drops).sensor \in Sensors
            /\ Head(join[g].drops).sensor # s
        BY <1>2, <3>1 DEF Drop, Drops
      <4>3. QED
        BY <4>1, <4>2, CommandOther
    <3>2. CASE ~Drop(g)
      BY <1>5, <3>2 DEF JoinStep, JoinFails, JoinRead, DropListed, DropRecorded, Joined,
                        SamePlaces
    <3>3. QED
      BY <3>1, <3>2
  <2>4. \A h \in Gateways : s \in table'[h] <=> s \in table[h]
    <3>1. CASE DropListed(g)
      <4>1. join[g].drops # <<>>
        BY <3>1 DEF DropListed, InDrop, TypeOK
      <4>2. QED
        BY <1>2, <3>1, <4>1 DEF DropListed, TypeOK
    <3>2. CASE ~DropListed(g)
      BY <1>5, <3>2 DEF JoinStep, JoinFails, JoinRead, Drop, DropRecorded, Joined
    <3>3. QED
      BY <3>1, <3>2
  <2>5. QED
    BY <2>1, <2>2, <2>3, <2>4, UndisturbedByReading
<1>6. QED
  BY <1>3, <1>4, <1>5

LEMMA ReloadStoreKeeps ==
    ASSUME TypeOK, TypeOK', BusyInv, NEW s \in Trusted, s \in Trusted', SensorInv(s),
           NEW g \in Gateways, ReloadStore(g)
    PROVE  Kept(s)
<1> DEFINE read == reload[g].seen
<1>1. /\ table' = IF g \in known THEN [table EXCEPT ![g] = read] ELSE table
      /\ \A h \in Gateways \ {g} : reload'[h] = reload[h]
      /\ UNCHANGED <<nv, move, unpair, known, join>>
      /\ table \in [Gateways -> SUBSET Sensors]
  BY DEF ReloadStore, moveVars, unpairVars, joinVars, TypeOK
<1>2. ~Dropping(s)'
  BY <1>1 DEF SensorInv, Dropping
<1>3. /\ s \in read <=> s \in nv[g]
      /\ s \in busy => (s \in read <=> s \in table[g])
  <2>1. "overwritten" \in Causes
    BY DEF Causes
  <2>2. s \notin Overwrites(g, read)
    BY <2>1, NoDoubt DEF ReloadStore
  <2>3. QED
    BY <2>2 DEF Overwrites, Disagree
<1>4. CASE g \notin known
  BY <1>1, <1>2, <1>4, UndisturbedByReading DEF SamePlaces, TypeOK
<1>5. CASE g \in known /\ Idle(s)
  BY <1>1, <1>2, <1>3, <1>5, Corrected
<1>6. CASE g \in known /\ ~Idle(s)
  <2>1. s \in busy
    BY <1>6 DEF Idle, BusyInv
  <2>2. QED
    BY <1>1, <1>2, <1>3, <1>6, <2>1, UndisturbedByReading DEF SamePlaces
<1>7. QED
  BY <1>4, <1>5, <1>6

\* A sensor that no gateway keeps or lists and no task carries is paired.
LEMMA PairKeeps ==
    ASSUME TypeOK, TypeOK', BusyInv, NEW s \in Trusted, s \in Trusted', SensorInv(s),
           NEW g \in Gateways, NEW r \in Sensors, Pair(r, g)
    PROVE  Kept(s)
<1>1. /\ nv' = With(g, r) /\ reload' = [reload EXCEPT ![g].step = "wanted"]
      /\ UNCHANGED <<table, move, unpair, known, join>>
      /\ nv \in [Gateways -> SUBSET Sensors] /\ reload \in [Gateways -> Reloads]
  BY DEF Pair, moveVars, joinVars, TypeOK
<1>2. ~Dropping(s)'
  BY <1>1 DEF SensorInv, Dropping
<1>3. /\ \A h \in Gateways \ {g} : reload'[h] = reload[h]
      /\ reload'[g] # NoReload
  BY <1>1 DEF NoReload, Reloads
<1>4. CASE r # s
  <2>1. SamePlaces(s)
    BY <1>1, <1>4 DEF SamePlaces, With
  <2>2. known \subseteq Gateways
    BY DEF TypeOK
  <2>3. QED
    BY <1>1, <1>2, <1>3, <2>1, <2>2, UndisturbedByReading
<1>5. CASE r = s
  <2>1. "paired" \in Causes
    BY DEF Causes
  <2>2. ~(HeldAt(s) # {} \/ InFlight(s) \/ \E h \in Gateways : s \in table[h])
    BY <1>5, <2>1, NoDoubtIf DEF Pair
  <2>3. HeldAt(s)' = {g}
    BY <1>1, <1>5, <2>2 DEF HeldAt, With
  <2>4. Idle(s) /\ Idle(s)'
    BY <1>1, <2>2 DEF InFlight, Idle, Working
  <2>5. ListedOnce(s)' /\ HeldOnce(s)'
    BY <1>1, <2>2, <2>3 DEF ListedOnce, HeldOnce, HeldAt
  <2>6. AtRest(s)'
    <3>1. known' \subseteq Gateways
      BY DEF TypeOK
    <3>2. \A h \in Gateways : s \notin table'[h]
      BY <1>1, <2>2
    <3>3. \A h \in Gateways : s \in nv'[h] => h = g
      BY <2>3 DEF HeldAt
    <3>4. QED
      BY <1>3, <3>1, <3>2, <3>3 DEF AtRest
  <2>7. unpair'[s].todo # {} => unpair'[s].active
    BY <1>1 DEF SensorInv
  <2>8. SensorInv(s)'
    BY <1>2, <2>4, <2>5, <2>6, <2>7 DEF SensorInv, Idle
  <2>9. s \notin InTransit /\ s \notin InTransit'
    BY <2>4, TransitMeans, TransitMeansNext DEF Idle, Between
  <2>10. Ownership!Change(s)
    BY <2>2, <2>3, <2>9, ChangeMeans DEF Trusted
  <2>11. QED
    BY <2>8, <2>10 DEF Kept
<1>6. QED
  BY <1>4, <1>5

LEMMA GatewayEventKeeps ==
    ASSUME TypeOK, TypeOK', BusyInv, NEW s \in Trusted, s \in Trusted', SensorInv(s),
           NEW g \in Gateways, GatewayEvent(g)
    PROVE  Kept(s)
<1>1. /\ join \in [Gateways -> Joins] /\ reload \in [Gateways -> Reloads]
      /\ known \subseteq Gateways /\ s \in Sensors
  BY DEF TypeOK, Trusted
<1>2. CASE ReloadStore(g)
  BY <1>2, ReloadStoreKeeps
<1>3. ASSUME NEW r \in Sensors, Pair(r, g) PROVE Kept(s)
  BY <1>3, PairKeeps
<1>4. CASE Connect(g) \/ Disconnect(g)
  <2>1. /\ UNCHANGED <<nv, table, known, move, unpair, reload>>
    BY <1>4 DEF Connect, Disconnect, moveVars, unpairVars
  <2>2. ~Dropping(s)'
    <3>1. /\ \A h \in Gateways \ {g} : join'[h] = join[h]
          /\ join'[g].drops = join[g].drops
      BY <1>1, <1>4 DEF Connect, Disconnect, Joins
    <3>2. QED
      BY <1>1, <3>1, NoNewDrops DEF SensorInv
  <2>3. QED
    BY <2>1, <2>2, UndisturbedByReading DEF SamePlaces
<1>5. CASE Restarted(g) \/ ReloadRead(g) \/ ReloadFails(g)
  <2>1. /\ UNCHANGED <<nv, table, known, move, unpair, join>>
        /\ \A h \in Gateways \ {g} : reload'[h] = reload[h]
    BY <1>1, <1>5 DEF Restarted, ReloadRead, ReloadFails, moveVars, unpairVars, joinVars
  <2>2. ~Dropping(s)'
    BY <2>1 DEF SensorInv, Dropping
  <2>3. s \in nv[g] /\ reload'[g] = NoReload => s \in table[g]
    <3>1. CASE Restarted(g) \/ ReloadRead(g)
      BY <1>1, <3>1 DEF Restarted, ReloadRead, NoReload, Reloads
    <3>2. CASE ReloadFails(g)
      <4>1. "overwritten" \in Causes
        BY DEF Causes
      <4>2. s \notin Disagree(table[g], nv[g])
        BY <3>2, <4>1, NoDoubt DEF ReloadFails
      <4>3. QED
        BY <4>2 DEF Disagree
    <3>3. QED
      BY <1>5, <3>1, <3>2
  <2>4. \A h \in known' : s \in nv[h] /\ reload'[h] = NoReload
            => s \in table[h] \/ (h \in known /\ reload[h] = NoReload)
    BY <1>1, <2>1, <2>3
  <2>5. QED
    BY <2>1, <2>2, <2>4, UndisturbedByReading DEF SamePlaces
<1>6. QED
  BY <1>2, <1>3, <1>4, <1>5 DEF GatewayEvent

\* Unpairing s at a gateway: another sensor does not notice, and s is gone there.
LEMMA UnpairAtKeeps ==
    ASSUME TypeOK, TypeOK', BusyInv, NEW s \in Trusted, s \in Trusted', SensorInv(s),
           NEW r \in Sensors, NEW g \in Gateways, UnpairAt(r, g)
    PROVE  Kept(s)
<1>1. PICK ok \in BOOLEAN :
        /\ Command(g, Without(g, r), ok)
        /\ DoubtFailure(ok, r, TRUE, "refused")
  BY DEF UnpairAt
<1>2. /\ g \in unpair[r].todo
      /\ unpair' = [unpair EXCEPT ![r].todo = @ \ {g}]
      /\ UNCHANGED <<table, known, move, join, reload>>
      /\ unpair \in [Sensors -> Unpairings] /\ nv \in [Gateways -> SUBSET Sensors]
      /\ s \in Sensors
  BY DEF UnpairAt, moveVars, joinVars, TypeOK, Trusted
<1>3. ~Dropping(s)'
  BY <1>2 DEF SensorInv, Dropping
<1>4. CASE r # s
  <2>1. SamePlaces(s)
    BY <1>1, <1>4, CommandOther
  <2>2. unpair'[s] = unpair[s]
    BY <1>2, <1>4
  <2>3. Undisturbed(s)
    BY <1>2, <1>3, <2>1, <2>2 DEF Undisturbed, SameMoves, Working
  <2>4. QED
    BY <2>3, UndisturbedKeeps
<1>5. CASE r = s
  <2>1. unpair[s].active /\ unpair'[s].active
    BY <1>2, <1>5 DEF SensorInv, Unpairings
  <2>2. ok
    <3>1. "refused" \in Causes
      BY DEF Causes
    <3>2. QED
      BY <1>1, <1>5, <3>1, NoDoubtFailure
  <2>3. nv' = Without(g, s)
    BY <1>1, <1>5, <2>2 DEF Command
  <2>4. CASE s \notin nv[g]
    <3>1. SamePlaces(s)
      BY <1>2, <2>3, <2>4 DEF SamePlaces, Without
    <3>2. Undisturbed(s)
      BY <1>2, <1>3, <2>1, <3>1 DEF Undisturbed, SameMoves, Working
    <3>3. QED
      BY <3>2, UndisturbedKeeps
  <2>5. CASE s \in nv[g]
    <3>1. HeldAt(s) # {} /\ HeldAt(s)' = {}
      BY <1>2, <2>3, <2>5 DEF HeldAt, Without, SensorInv, HeldOnce
    <3>2. \A h \in Gateways : s \notin nv'[h]
      BY <3>1 DEF HeldAt
    <3>3. ListedOnce(s)' /\ HeldOnce(s)'
      BY <1>2, <3>2 DEF SensorInv, ListedOnce, HeldOnce
    <3>4. AtRest(s)'
      <4>1. known' \subseteq Gateways
        BY DEF TypeOK
      <4>2. QED
        BY <2>1, <3>2, <4>1 DEF AtRest
    <3>5. ASSUME NEW n \in Movers, Working(n, s)' PROVE OnItsWay(move[n])'
      <4>1. PICK h \in Moves : h = move[n]
        BY <1>2, <3>5 DEF Working, TypeOK
      <4>2. OnItsWay(h) /\ h.sensor = s /\ move'[n] = h
        BY <1>2, <3>5, <4>1 DEF SensorInv, Working
      <4>3. OnItsWay(h)'
        BY <1>2, <2>1, <3>2, <4>2 DEF OnItsWay, HeldWithin
      <4>4. QED
        BY <4>2, <4>3
    <3>6. SensorInv(s)'
      BY <1>3, <2>1, <3>3, <3>4, <3>5 DEF SensorInv
    <3>7. ~Between(s)
      <4>1. ASSUME NEW n \in Movers, Working(n, s),
                   move[n].step \in {"adding", "restoring"}
            PROVE  FALSE
        <5>1. OnItsWay(move[n]) /\ Place(move[n]) = {} /\ move[n].sensor = s
          BY <4>1, WorkingMeans, PlaceMeans
        <5>2. QED
          BY <2>5, <5>1 DEF OnItsWay, HeldWithin
      <4>2. QED
        BY <4>1 DEF Between
    <3>8. ~Between(s)'
      BY <1>2, <3>7 DEF Between, Working
    <3>9. Ownership!Change(s)
      BY <1>2, <3>1, <3>7, <3>8, TransitMeans, TransitMeansNext, ChangeMeans
    <3>10. QED
      BY <3>6, <3>9 DEF Kept
  <2>6. QED
    BY <2>4, <2>5
<1>6. QED
  BY <1>4, <1>5

\* Unpairing is over: nothing of the sensor is left, in a table or in a copy.
LEMMA UnpairedKeeps ==
    ASSUME TypeOK, TypeOK', BusyInv, NEW s \in Trusted, s \in Trusted', SensorInv(s),
           NEW r \in Sensors, Unpaired(r)
    PROVE  Kept(s)
<1>1. /\ table' = [g \in Gateways |-> table[g] \ {r}]
      /\ unpair' = [unpair EXCEPT ![r] = NotUnpairing]
      /\ UNCHANGED <<nv, known, move, join, reload>>
      /\ unpair \in [Sensors -> Unpairings]
      /\ s \in Sensors
  BY DEF Unpaired, joinVars, TypeOK, Trusted
<1>2. ~Dropping(s)'
  BY <1>1 DEF SensorInv, Dropping
<1>3. CASE r # s
  <2>1. /\ \A g \in Gateways : s \in table'[g] <=> s \in table[g]
        /\ unpair'[s] = unpair[s]
    BY <1>1, <1>3
  <2>2. Undisturbed(s)
    BY <1>1, <1>2, <2>1 DEF Undisturbed, SameMoves, SamePlaces, Working
  <2>3. QED
    BY <2>2, UndisturbedKeeps
<1>4. CASE r = s
  <2>1. "unpaired" \in Causes
    BY DEF Causes
  <2>2. HeldAt(s) = {} /\ ~InFlight(s)
    BY <1>4, <2>1, NoDoubtIf DEF Unpaired
  <2>3. Idle(s) /\ Idle(s)'
    BY <1>1, <2>2 DEF InFlight, Idle, Working
  <2>4. \A g \in Gateways : s \notin nv'[g] /\ s \notin table'[g]
    BY <1>1, <1>4, <2>2 DEF HeldAt
  <2>5. ListedOnce(s)' /\ HeldOnce(s)'
    BY <2>4 DEF ListedOnce, HeldOnce
  <2>6. AtRest(s)'
    <3>1. known' \subseteq Gateways
      BY DEF TypeOK
    <3>2. QED
      BY <2>4, <3>1 DEF AtRest
  <2>7. unpair'[s].todo = {}
    BY <1>1, <1>4 DEF NotUnpairing
  <2>8. SensorInv(s)'
    BY <1>2, <2>3, <2>5, <2>6, <2>7 DEF SensorInv, Idle
  <2>9. ~Between(s) /\ ~Between(s)'
    BY <2>3 DEF Idle, Between
  <2>10. QED
    BY <1>1, <2>8, <2>9, StaysPut DEF Kept, SamePlaces
<1>5. QED
  BY <1>3, <1>4

LEMMA UnpairEventKeeps ==
    ASSUME TypeOK, TypeOK', BusyInv, NEW s \in Trusted, s \in Trusted', SensorInv(s),
           NEW r \in Sensors, UnpairEvent(r)
    PROVE  Kept(s)
<1>1. CASE Unpair(r)
  <2>1. /\ UNCHANGED <<nv, table, known, move, join, reload>>
        /\ unpair' = [unpair EXCEPT ![r] = [active |-> TRUE, todo |-> linked]]
        /\ unpair \in [Sensors -> Unpairings]
        /\ s \in Sensors
    BY <1>1 DEF Unpair, moveVars, joinVars, TypeOK, Trusted
  <2>2. ~Dropping(s)'
    BY <2>1 DEF SensorInv, Dropping
  <2>3. unpair'[s] = unpair[s] \/ unpair'[s].active
    BY <2>1
  <2>4. Undisturbed(s)
    BY <2>1, <2>2, <2>3 DEF Undisturbed, SameMoves, SamePlaces, Working
  <2>5. QED
    BY <2>4, UndisturbedKeeps
<1>2. QED
  BY <1>1, UnpairAtKeeps, UnpairedKeeps DEF UnpairEvent

\* One step: every sensor still trusted after it is kept.
LEMMA StepKeeps ==
    ASSUME TypeOK, TypeOK', BusyInv, TablesIInv, [Next]_vars,
           NEW s \in Trusted'
    PROVE  s \in Trusted /\ Kept(s)
<1>1. s \in Trusted /\ SensorInv(s)
  BY TrustShrinks DEF TablesIInv
<1>2. ASSUME UNCHANGED vars PROVE Kept(s)
  BY <1>1, <1>2, UndisturbedByMove DEF vars, SamePlaces, SameMoves, moveVars, joinVars
<1>3. QED
  BY <1>1, <1>2, Steps, ConsiderKeeps, MoveStepKeeps, JoinStepKeeps,
     GatewayEventKeeps, UnpairEventKeeps

\* At most one gateway is what the code counts and what the proofs quantify over.
LEMMA CountedOnce ==
    ASSUME NEW s
    PROVE  Cardinality(HeldAt(s)) <= 1 <=> HeldOnce(s)
<1>1. HeldAt(s) \subseteq Gateways /\ IsFiniteSet(HeldAt(s))
  BY RoamingAssumption, FS_Subset DEF HeldAt
<1>2. ASSUME HeldOnce(s) PROVE Cardinality(HeldAt(s)) <= 1
  <2>1. CASE HeldAt(s) = {}
    BY <2>1, FS_EmptySet
  <2>2. ASSUME NEW g \in HeldAt(s) PROVE Cardinality(HeldAt(s)) = 1
    <3>1. HeldAt(s) = {g}
      BY <1>2, <2>2 DEF HeldOnce, HeldAt
    <3>2. QED
      BY <3>1, FS_Singleton
  <2>3. QED
    BY <2>1, <2>2
<1>3. ASSUME Cardinality(HeldAt(s)) <= 1, NEW g \in HeldAt(s), NEW h \in HeldAt(s)
      PROVE  g = h
  <2>1. Cardinality({g, h}) <= Cardinality(HeldAt(s)) /\ Cardinality(HeldAt(s)) \in Nat
    BY <1>1, <1>3, FS_Subset, FS_CardinalityType
  <2>2. Cardinality({g, h}) \in Nat
    BY <1>1, <1>3, FS_Subset, FS_CardinalityType
  <2>3. ASSUME g # h PROVE Cardinality({g, h}) = 2
    <3>1. Cardinality({g}) = 1 /\ IsFiniteSet({g})
      BY FS_Singleton
    <3>2. Cardinality({g} \cup {h}) = Cardinality({g}) + 1
      BY <2>3, <3>1, FS_AddElement
    <3>3. {g} \cup {h} = {g, h}
      OBVIOUS
    <3>4. QED
      BY <3>1, <3>2, <3>3
  <2>4. QED
    BY <1>3, <2>1, <2>2, <2>3
<1>4. ASSUME Cardinality(HeldAt(s)) <= 1 PROVE HeldOnce(s)
  BY <1>3, <1>4 DEF HeldOnce, HeldAt
<1>5. QED
  BY <1>2, <1>4

LEMMA TablesInit == Init => TablesIInv
<1> SUFFICES ASSUME Init, NEW s \in Trusted PROVE SensorInv(s)
  BY DEF TablesIInv
<1>1. ListedOnce(s) /\ ~Dropping(s) /\ unpair[s].todo = {}
  BY DEF Init, ListedOnce, Dropping, NoJoin, NotUnpairing, Trusted
<1>2. HeldOnce(s)
  BY CountedOnce DEF Init, Trusted
<1>3. AtRest(s) /\ \A m \in Movers : ~Working(m, s)
  BY DEF Init, AtRest, Working
<1>4. QED
  BY <1>1, <1>2, <1>3 DEF SensorInv

LEMMA TablesHold == Spec => []TablesIInv
<1>1. TypeOK /\ TypeOK' /\ BusyInv /\ TablesIInv /\ [Next]_vars => TablesIInv'
  BY StepKeeps DEF Kept, TablesIInv
<1>2. QED
  BY <1>1, TablesInit, RoamingTypeCorrect, BusyInvHolds, PTL DEF Spec

\* Whatever connects, drops, restarts, is paired, unpaired, reloaded or handed
\* over meanwhile: no sensor gets into two tables, and what the coordinator
\* believes of a sensor no task is at work on is what the gateways have stored,
\* unless one of the causes listed befell that sensor.
THEOREM TablesStayTrue == Spec => []TablesTrue
<1>1. TypeOK /\ TablesIInv => TablesTrue
  <2> SUFFICES ASSUME TypeOK, TablesIInv PROVE TablesTrue
    OBVIOUS
  <2>1. OneOwner
    BY CountedOnce DEF OneOwner, TablesIInv, SensorInv
  <2>2. CopiesTrue
    BY DEF CopiesTrue, TablesIInv, SensorInv, Settled, Idle, AtRest, TypeOK
  <2>3. QED
    BY <2>1, <2>2 DEF TablesTrue
<1>2. QED
  BY <1>1, TablesHold, RoamingTypeCorrect, PTL

\* Every step of the coordinator is one SensorOwnership allows: a trusted sensor
\* leaves a table only to be put into one again, or because its user unpairs it.
\* (That it then is put into one is checked, under fairness, as
\* ImplementsOwnership.)
THEOREM OwnershipKept == Spec => Ownership!OwnershipSpec
<1>1. Init => Ownership!OwnershipInit
  <2> SUFFICES ASSUME Init PROVE Ownership!OwnershipInit
    OBVIOUS
  <2>1. ASSUME NEW s \in Sensors
        PROVE  HeldAt(s) \in {{}} \cup {{g} : g \in Gateways}
    <3>1. HeldOnce(s)
      BY CountedOnce DEF Init
    <3>2. CASE HeldAt(s) = {}
      BY <3>2
    <3>3. ASSUME NEW g \in HeldAt(s) PROVE HeldAt(s) = {g} /\ g \in Gateways
      BY <3>1, <3>3 DEF HeldOnce, HeldAt
    <3>4. QED
      BY <3>2, <3>3
  <2>2. InTransit = {} /\ Trusted = Sensors
    BY DEF Init, InTransit, Trusted
  <2>3. QED
    BY <2>1, <2>2 DEF Ownership!OwnershipInit
<1>2. TypeOK /\ TypeOK' /\ BusyInv /\ TablesIInv /\ [Next]_vars
        => [Ownership!OwnershipNext]_(Ownership!ownership)
  <2> SUFFICES ASSUME TypeOK, TypeOK', BusyInv, TablesIInv, [Next]_vars
               PROVE  Ownership!OwnershipNext
    OBVIOUS
  <2>1. Trusted' \subseteq Trusted
    BY TrustShrinks
  <2>2. \A s \in Trusted' : Ownership!Change(s)
    BY StepKeeps DEF Kept
  <2>3. QED
    BY <2>1, <2>2 DEF Ownership!OwnershipNext
<1>3. QED
  BY <1>1, <1>2, TablesHold, RoamingTypeCorrect, BusyInvHolds, PTL
  DEF Spec, Ownership!OwnershipSpec

-------------------------------------------------------------------------------
(* Merging reports (ReportMerging).                                            *)

\* Counting on by k from b, the sensor's counter comes to a.
Ahead(a, b, k) == a = (b + k) % Modulus

LEMMA AheadNext ==
    ASSUME NEW b \in Counters, NEW k \in 0 .. MaxReports, NEW a \in Counters, Ahead(a, b, k)
    PROVE  Ahead((a + 1) % Modulus, b, k + 1)
<1>1. Modulus \in Nat /\ MaxReports \in Nat /\ MaxReports < Modulus \div 2 /\ Modulus > 1
  BY MergingAssumption
<1>2. b \in 0 .. Modulus - 1 /\ k \in 0 .. Modulus - 1
  BY <1>1 DEF Counters
<1>3. CASE b + k < Modulus
  <2>1. a = b + k
    BY <1>1, <1>2, <1>3 DEF Ahead
  <2>2. QED
    BY <2>1 DEF Ahead
<1>4. CASE b + k >= Modulus
  <2> DEFINE c == b + k - Modulus
  <2>1. c \in 0 .. Modulus - 2
    BY <1>1, <1>2, <1>4
  <2>2. (c + Modulus) % Modulus = c /\ (c + 1 + Modulus) % Modulus = c + 1 /\ (c + 1) % Modulus = c + 1
    BY <1>1, <2>1
  <2>3. b + k = c + Modulus /\ b + (k + 1) = c + 1 + Modulus
    BY <1>1, <1>2
  <2> HIDE DEF c
  <2>4. QED
    BY <2>2, <2>3 DEF Ahead
<1>5. QED
  BY <1>1, <1>2, <1>3, <1>4

\* Less than half the range ahead is newer, and not the other way round.
LEMMA AheadNewer ==
    ASSUME NEW b \in Counters, NEW k \in 0 .. MaxReports, NEW a \in Counters, Ahead(a, b, k)
    PROVE  ~Newer(b, a) /\ (k > 0 => Newer(a, b))
<1>1. Modulus \in Nat /\ MaxReports \in Nat /\ MaxReports < Modulus \div 2 /\ Modulus > 1
  BY MergingAssumption
<1>2. /\ b \in 0 .. Modulus - 1 /\ a \in 0 .. Modulus - 1
      /\ k \in 0 .. Modulus - 1 /\ k <= Modulus \div 2 - 1
  BY <1>1 DEF Counters
<1>3. a = b + k \/ a = b + k - Modulus
  <2>1. CASE b + k < Modulus
    BY <1>1, <1>2, <2>1 DEF Ahead
  <2>2. CASE b + k >= Modulus
    <3> DEFINE c == b + k - Modulus
    <3>1. c \in 0 .. Modulus - 1 /\ b + k = c + Modulus
      BY <1>1, <1>2, <2>2
    <3>2. (c + Modulus) % Modulus = c
      BY <1>1, <3>1
    <3>3. QED
      BY <3>1, <3>2 DEF Ahead
  <2>3. QED
    BY <1>1, <1>2, <2>1, <2>2
<1>4. k % Modulus = k /\ (k - Modulus) % Modulus = k
  BY <1>1, <1>2
<1>5. (a - b) % Modulus = k
  <2>1. a - b = k \/ a - b = k - Modulus
    BY <1>1, <1>2, <1>3
  <2>2. QED
    BY <1>4, <2>1
<1>6. (b - a) % Modulus = IF k = 0 THEN 0 ELSE Modulus - k
  <2>1. CASE k = 0
    BY <1>1, <1>2, <1>3, <2>1
  <2>2. CASE k > 0
    <3> DEFINE c == Modulus - k
    <3>1. c \in 0 .. Modulus - 1 /\ (b - a = c - Modulus \/ b - a = c)
      BY <1>1, <1>2, <1>3, <2>2
    <3>2. c % Modulus = c /\ (c - Modulus) % Modulus = c
      BY <1>1, <3>1
    <3> HIDE DEF c
    <3>3. (b - a) % Modulus = c
      BY <3>1, <3>2
    <3>4. QED
      BY <2>2, <3>3 DEF c
  <2>3. QED
    BY <1>2, <2>1, <2>2
<1>7. QED
  <2>1. k > 0 => k \in 1 .. (Modulus \div 2 - 1)
    BY <1>1, <1>2
  <2>2. k > 0 => Modulus - k \notin 1 .. (Modulus \div 2 - 1)
    BY <1>1, <1>2
  <2>3. 0 \notin 1 .. (Modulus \div 2 - 1)
    BY <1>1
  <2>4. QED
    BY <1>2, <1>5, <1>6, <2>1, <2>2, <2>3 DEF Newer

-------------------------------------------------------------------------------
\* The types the order of the stream and the history of a report rest on.
MergeState ==
    /\ reports \in Seq(Reports) /\ Len(reports) <= MaxReports
    /\ counter \in Counters
    /\ owner \in Listeners
    /\ link \in [Listeners -> Seq(Copies)]
    /\ last \in Counters \cup {NoCounter}
    /\ pending \in Seq(Pendings)
    /\ history \in History

Sent == 1 .. Len(reports)
\* What is under way or has a history was sent.
SentInv ==
    /\ \A g \in Listeners : \A i \in DOMAIN link[g] : link[g][i].n \in {0} \cup Sent
    /\ history.out \subseteq Sent /\ history.fromOwner \subseteq Sent
    /\ history.known <= Len(reports)

\* A copy of report n from g is counted among ps: as q, where entry i has it.
Counted(ps, q, i, n, g, own) ==
    /\ q \in Seq(Pendings) /\ i \in DOMAIN q /\ q[i].key = KeyOf(n)
    /\ q[i].delivered = (own \/ (i \in DOMAIN ps /\ ps[i].delivered))
    /\ \A j \in DOMAIN q \ {i} : j \in DOMAIN ps /\ q[j] = ps[j]
    /\ \A j \in DOMAIN ps : j \in DOMAIN q
    /\ \/ /\ i \in DOMAIN ps /\ ps[i].key = KeyOf(n)
          /\ q[i].of = ps[i].of \cup {n}
          /\ q[i].copies = [ps[i].copies EXCEPT ![g] = @ + 1]
       \/ /\ i \notin DOMAIN ps /\ \A j \in DOMAIN ps : ps[j].key # KeyOf(n)
          /\ q[i].of = {n}
          /\ q[i].copies = [h \in Listeners |-> IF h = g THEN 1 ELSE 0]

LEMMA NoteCopyCounts ==
    ASSUME MergeState, NEW ps \in Seq(Pendings), NEW n \in Sent, NEW g \in Listeners,
           NEW own \in BOOLEAN, NEW connected \in BOOLEAN
    PROVE  \E i \in Nat : Counted(ps, NoteCopy(ps, n, g, own, connected), i, n, g, own)
<1> DEFINE key == KeyOf(n)
           fresh == Opened(n, g, own, connected)
           noted == IF \E i \in DOMAIN ps : ps[i].key = key THEN ps ELSE Append(ps, fresh)
           at == CHOOSE i \in DOMAIN noted : noted[i].key = key
           p == OneMore(noted[at], n, g, own)
           q == [noted EXCEPT ![at] = p]
<1>1. q = NoteCopy(ps, n, g, own, connected)
  BY DEF NoteCopy
<1> HIDE DEF p, q
<1>2. key \in Keys /\ n \in Numbers
  <2>1. reports[n] \in Reports /\ n \in Nat /\ Len(reports) \in Nat
    BY LenProperties DEF MergeState, Sent
  <2>2. QED
    BY <2>1, MergingAssumption DEF KeyOf, Keys, Reports, Numbers, Sent, MergeState
<1>3. fresh \in Pendings /\ fresh.key = key
  BY <1>2 DEF Opened, Pendings, MergeState
<1>4. Len(ps) \in Nat /\ DOMAIN ps = 1 .. Len(ps)
  BY LenProperties
<1> HIDE DEF fresh, key
<1>5. /\ noted \in Seq(Pendings) /\ at \in DOMAIN noted /\ noted[at].key = key
      /\ \A j \in DOMAIN ps : j \in DOMAIN noted /\ noted[j] = ps[j]
      /\ \A j \in DOMAIN noted : j \in DOMAIN ps \/ j = Len(ps) + 1
      /\ DOMAIN noted \subseteq Nat
      /\ \/ noted = ps
         \/ /\ \A j \in DOMAIN ps : ps[j].key # key
            /\ at = Len(ps) + 1 /\ noted[at] = fresh
  <2>1. CASE \E i \in DOMAIN ps : ps[i].key = key
    <3>1. noted = ps
      BY <2>1
    <3>2. \E j \in DOMAIN noted : noted[j].key = key
      BY <2>1, <3>1
    <3> HIDE DEF noted
    <3>3. at \in DOMAIN noted /\ noted[at].key = key
      BY <3>2
    <3>4. QED
      BY <1>4, <3>1, <3>3
  <2>2. CASE ~\E i \in DOMAIN ps : ps[i].key = key
    <3>1. noted = Append(ps, fresh)
      BY <2>2
    <3> HIDE DEF noted
    <3>2. /\ noted \in Seq(Pendings) /\ DOMAIN noted = 1 .. Len(ps) + 1
          /\ noted[Len(ps) + 1] = fresh /\ \A j \in 1 .. Len(ps) : noted[j] = ps[j]
      <4>1. /\ Append(ps, fresh) \in Seq(Pendings) /\ Len(Append(ps, fresh)) = Len(ps) + 1
            /\ \A j \in 1 .. Len(ps) : Append(ps, fresh)[j] = ps[j]
            /\ Append(ps, fresh)[Len(ps) + 1] = fresh
        BY <1>3, AppendProperties
      <4>2. DOMAIN Append(ps, fresh) = 1 .. Len(Append(ps, fresh))
        BY <4>1, LenProperties
      <4>3. QED
        BY <3>1, <4>1, <4>2
    <3>3. \E j \in DOMAIN noted : noted[j].key = key
      BY <1>3, <1>4, <3>2
    <3>4. at \in DOMAIN noted /\ noted[at].key = key
      BY <3>3
    <3>5. at = Len(ps) + 1
      BY <1>4, <2>2, <3>2, <3>4
    <3>6. QED
      BY <1>4, <2>2, <3>2, <3>4, <3>5
  <2>3. QED
    BY <2>1, <2>2
<1> HIDE DEF noted, at
<1>6. noted[at] \in Pendings
  BY <1>5
<1>7. /\ p \in Pendings /\ p.key = noted[at].key /\ p.of = noted[at].of \cup {n}
      /\ p.delivered = (own \/ noted[at].delivered)
      /\ p.copies = [noted[at].copies EXCEPT ![g] = @ + 1]
  <2> DEFINE o == noted[at]
             c == [o.copies EXCEPT ![g] = @ + 1]
  <2>1. c \in [Listeners -> Nat] /\ (o.of \cup {n}) \in SUBSET Numbers
        /\ Delivered(o.delivered, own) = (own \/ o.delivered)
        /\ Delivered(o.delivered, own) \in BOOLEAN
    BY <1>2, <1>6 DEF Pendings, Delivered
  <2>2. p = [o EXCEPT !.copies = c, !.delivered = Delivered(o.delivered, own), !.of = o.of \cup {n}]
    BY <1>6 DEF p, OneMore, Pendings
  <2> HIDE DEF o, c
  <2>3. o \in Pendings
    BY <1>6 DEF o
  <2>4. /\ p \in Pendings /\ p.key = o.key /\ p.of = o.of \cup {n}
        /\ p.delivered = Delivered(o.delivered, own) /\ p.copies = c
    BY <2>1, <2>2, <2>3 DEF Pendings
  <2>5. QED
    BY <2>1, <2>4 DEF o, c
<1>8. q = [noted EXCEPT ![at] = p]
  BY DEF q
<1>9. /\ q \in Seq(Pendings) /\ DOMAIN q = DOMAIN noted /\ q[at] = p
      /\ \A j \in DOMAIN q \ {at} : q[j] = noted[j]
  BY <1>5, <1>7, <1>8, ExceptSeq
<1>10. Counted(ps, q, at, n, g, own)
  <2>1. CASE noted = ps
    BY <1>5, <1>7, <1>9, <2>1 DEF Counted, key
  <2>2. CASE noted # ps
    <3>1. /\ at = Len(ps) + 1 /\ at \notin DOMAIN ps /\ noted[at] = fresh
          /\ \A j \in DOMAIN ps : ps[j].key # key
      BY <1>4, <1>5, <2>2
    <3>2. fresh.of = {} /\ fresh.delivered = FALSE /\ fresh.copies = [h \in Listeners |-> 0]
      BY DEF fresh, Opened
    <3>3. p.of = {n} /\ p.delivered = own /\ p.copies = [h \in Listeners |-> IF h = g THEN 1 ELSE 0]
      BY <1>7, <3>1, <3>2
    <3>4. \A j \in DOMAIN q \ {at} : j \in DOMAIN ps /\ q[j] = ps[j]
      BY <1>5, <1>9, <3>1
    <3>5. QED
      BY <1>5, <1>7, <1>9, <3>1, <3>3, <3>4 DEF Counted, key
  <2>3. QED
    BY <2>1, <2>2
<1>11. QED
  BY <1>1, <1>5, <1>10

-------------------------------------------------------------------------------
\* What `settle` leaves pending.
LEMMA RestEntries ==
    ASSUME MergeState, NEW due \in 0 .. Len(pending)
    PROVE  /\ Rest(due) \in Seq(Pendings)
           /\ \A j \in DOMAIN Rest(due) : /\ j \in Nat /\ j + due \in DOMAIN pending
                                          /\ j + due > due
                                          /\ Rest(due)[j] = pending[j + due]
           /\ \A j \in DOMAIN pending : j > due => /\ j - due \in DOMAIN Rest(due)
                                                   /\ Rest(due)[j - due] = pending[j]
<1>1. pending \in Seq(Pendings) /\ Len(pending) \in Nat /\ DOMAIN pending = 1 .. Len(pending)
  BY LenProperties DEF MergeState
<1>2. due \in Nat /\ due <= Len(pending)
  BY <1>1
<1> DEFINE r == SubSeq(pending, due + 1, Len(pending))
<1>3. \A j \in (due + 1) .. Len(pending) : pending[j] \in Pendings
  BY <1>1, <1>2
<1>4. /\ r \in Seq(Pendings)
      /\ Len(r) = IF due + 1 <= Len(pending) THEN Len(pending) - (due + 1) + 1 ELSE 0
      /\ \A j \in 1 .. Len(pending) - (due + 1) + 1 : r[j] = pending[due + 1 + j - 1]
  BY <1>1, <1>2, <1>3, SubSeqProperties
<1> HIDE DEF r
<1>5. Len(r) = Len(pending) - due /\ Len(pending) - (due + 1) + 1 = Len(pending) - due
  <2>1. \A L, d \in Nat : d <= L => /\ (IF d + 1 <= L THEN L - (d + 1) + 1 ELSE 0) = L - d
                                    /\ L - (d + 1) + 1 = L - d
    OBVIOUS
  <2>2. Len(pending) \in Nat /\ due \in Nat /\ due <= Len(pending)
    BY <1>1, <1>2
  <2>3. Len(r) = IF due + 1 <= Len(pending) THEN Len(pending) - (due + 1) + 1 ELSE 0
    BY <1>4
  <2>4. QED
    BY <2>1, <2>2, <2>3
<1>6. DOMAIN r = 1 .. Len(pending) - due
  <2>1. DOMAIN r = 1 .. Len(r)
    BY <1>4, LenProperties
  <2>2. QED
    BY <2>1, <1>5
<1>7. \A j \in 1 .. Len(pending) - due : r[j] = pending[j + due] /\ j + due \in DOMAIN pending
  <2>1. ASSUME NEW j \in 1 .. Len(pending) - due PROVE r[j] = pending[j + due] /\ j + due \in DOMAIN pending
    <3>1. j \in 1 .. Len(pending) - (due + 1) + 1
      BY <1>5
    <3>2. due + 1 + j - 1 = j + due /\ j + due \in 1 .. Len(pending)
      BY <1>1, <1>2
    <3>3. r[j] = pending[due + 1 + j - 1]
      BY <1>4, <3>1
    <3>4. QED
      BY <1>1, <3>2, <3>3
  <2>2. QED
    BY <2>1
<1>8. r = Rest(due)
  BY DEF r, Rest
<1>9. \A j \in DOMAIN r : /\ j \in Nat /\ j + due \in DOMAIN pending /\ j + due > due
                           /\ r[j] = pending[j + due]
  BY <1>1, <1>2, <1>6, <1>7
<1>10. \A j \in DOMAIN pending : j > due => j - due \in DOMAIN r /\ r[j - due] = pending[j]
  <2>1. ASSUME NEW j \in DOMAIN pending, j > due
        PROVE  j - due \in DOMAIN r /\ r[j - due] = pending[j]
    <3>1. j - due \in 1 .. Len(pending) - due /\ (j - due) + due = j
      BY <1>1, <1>2, <2>1
    <3>2. QED
      BY <1>6, <1>7, <3>1
  <2>2. QED
    BY <2>1
<1>11. QED
  BY <1>4, <1>8, <1>9, <1>10

\* The copies a gateway has for the host, and what is left of them.
LEMMA LinkTail ==
    ASSUME MergeState, NEW g \in Listeners, link[g] # <<>>
    PROVE  /\ link[g] \in Seq(Copies) /\ Head(link[g]) \in Copies /\ Head(link[g]) = link[g][1]
           /\ 1 \in DOMAIN link[g] /\ Tail(link[g]) \in Seq(Copies)
           /\ \A i \in DOMAIN Tail(link[g]) : /\ i \in Nat /\ i + 1 \in DOMAIN link[g]
                                              /\ Tail(link[g])[i] = link[g][i + 1]
           /\ \A i \in DOMAIN link[g] \ {1} : /\ i \in Nat /\ i - 1 \in DOMAIN Tail(link[g])
                                              /\ Tail(link[g])[i - 1] = link[g][i]
<1> DEFINE s == link[g]
<1>1. s \in Seq(Copies) /\ s # <<>>
  BY DEF MergeState
<1> HIDE DEF s
<1>2. Len(s) \in Nat /\ Len(s) > 0 /\ DOMAIN s = 1 .. Len(s)
  BY <1>1, EmptySeq, LenProperties
<1>3. Head(s) = s[1] /\ s[1] \in Copies
  BY <1>1, <1>2
<1>4. /\ Tail(s) \in Seq(Copies) /\ Len(Tail(s)) = Len(s) - 1
      /\ \A i \in 1 .. Len(s) - 1 : Tail(s)[i] = s[i + 1]
  BY <1>1, <1>2, HeadTailProperties
<1>5. DOMAIN Tail(s) = 1 .. Len(s) - 1
  BY <1>4, LenProperties
<1>6. QED
  BY <1>1, <1>2, <1>3, <1>4, <1>5 DEF s

LEMMA LinkAppend ==
    ASSUME NEW s \in Seq(Copies), NEW e \in Copies
    PROVE  /\ Append(s, e) \in Seq(Copies) /\ Len(s) \in Nat
           /\ DOMAIN s = 1 .. Len(s) /\ DOMAIN Append(s, e) = 1 .. Len(s) + 1
           /\ \A i \in DOMAIN s : Append(s, e)[i] = s[i]
           /\ Append(s, e)[Len(s) + 1] = e
<1>1. /\ Append(s, e) \in Seq(Copies) /\ Len(Append(s, e)) = Len(s) + 1
      /\ \A j \in 1 .. Len(s) : Append(s, e)[j] = s[j]
      /\ Append(s, e)[Len(s) + 1] = e
  BY AppendProperties
<1>2. QED
  BY <1>1, LenProperties

\* What `process` does with a copy.
ReceivedAs(g, n, own, due, i) ==
    LET duplicate == Duplicate(n)
    IN /\ n \in Sent /\ own \in BOOLEAN /\ due \in 0 .. Len(pending) /\ i \in Nat
       /\ link[g] # <<>> /\ link[g][1].n = n
       /\ link' = [link EXCEPT ![g] = Tail(@)]
       /\ Counted(Rest(due), pending', i, n, g, own)
       /\ history' =
                  [fromOwner |-> history.fromOwner \cup {m \in {n} : own},
                   judged |-> JudgedReports(due),
                   out |-> history.out \cup {m \in {n} : reports[n].alarm /\ ~duplicate},
                   known |-> history.known,
                   haunted |-> \/ history.haunted
                               \/ reports[n].alarm /\ ~duplicate /\ n <= history.known,
                   wrong |-> Verdicts(due)
                                \cup IF duplicate THEN Dropped(n) ELSE Passed(n)]
       /\ last' = IF duplicate \/ ~reports[n].alarm THEN last ELSE reports[n].id
       /\ UNCHANGED <<reports, counter, owner>>

LEMMA ReceiveShape ==
    ASSUME MergeState, SentInv, NEW g \in Listeners, Receive(g)
    PROVE  \E n, own, due, i : ReceivedAs(g, n, own, due, i)
<1> DEFINE n == Head(link[g]).n
           own == Head(link[g]).own
<1>1. link[g] # <<>> /\ n # 0
  BY DEF Receive
<1>2. Head(link[g]) = link[g][1] /\ 1 \in DOMAIN link[g] /\ Head(link[g]) \in Copies
  BY <1>1, LinkTail
<1>3. n \in Sent /\ own \in BOOLEAN
  <2>1. own \in BOOLEAN
    BY <1>2 DEF Copies
  <2>2. link[g][1].n \in {0} \cup Sent
    BY <1>2 DEF SentInv
  <2>3. QED
    BY <1>1, <1>2, <2>1, <2>2
<1> HIDE DEF n, own
<1>4. PICK due \in 0 .. Len(pending), connected \in BOOLEAN :
         /\ pending' = NoteCopy(Rest(due), n, g, own, connected)
         /\ history' =
                  [fromOwner |-> history.fromOwner \cup {m \in {n} : own},
                   judged |-> JudgedReports(due),
                   out |-> history.out \cup {m \in {n} : reports[n].alarm /\ ~Duplicate(n)},
                   known |-> history.known,
                   haunted |-> \/ history.haunted
                               \/ reports[n].alarm /\ ~Duplicate(n) /\ n <= history.known,
                   wrong |-> Verdicts(due)
                                \cup IF Duplicate(n) THEN Dropped(n) ELSE Passed(n)]
  BY DEF Receive, n, own
<1>5. Rest(due) \in Seq(Pendings)
  BY RestEntries
<1>6. PICK i \in Nat : Counted(Rest(due), NoteCopy(Rest(due), n, g, own, connected), i, n, g, own)
  BY <1>3, <1>5, NoteCopyCounts
<1>7. link[g][1].n = n
  BY <1>2 DEF n
<1>8. /\ link' = [link EXCEPT ![g] = Tail(@)]
      /\ last' = IF Duplicate(n) \/ ~reports[n].alarm THEN last ELSE reports[n].id
      /\ UNCHANGED <<reports, counter, owner>>
  BY DEF Receive, n, worldVars
<1>9. ReceivedAs(g, n, own, due, i)
  BY <1>1, <1>3, <1>4, <1>6, <1>7, <1>8 DEF ReceivedAs
<1>10. QED
  BY <1>9

LEMMA MergeNumbers ==
    ASSUME MergeState
    PROVE  /\ Len(reports) \in 0 .. MaxReports /\ DOMAIN reports = Sent /\ Sent \subseteq Numbers
           /\ MaxReports \in Nat /\ Modulus \in Nat /\ Modulus > 1
           /\ \A n \in Sent : reports[n] \in Reports /\ KeyOf(n) \in Keys /\ reports[n].id \in Counters
<1>1. Len(reports) \in Nat /\ Len(reports) <= MaxReports /\ DOMAIN reports = 1 .. Len(reports)
  BY LenProperties DEF MergeState
<1>2. MaxReports \in Nat /\ Modulus \in Nat /\ MaxReports < Modulus \div 2
  BY MergingAssumption
<1>3. \A n \in Sent : reports[n] \in Reports
  BY <1>1 DEF Sent, MergeState
<1>4. \A n \in Sent : reports[n].alarm \in BOOLEAN /\ reports[n].id \in Counters
  BY <1>3 DEF Reports
<1>5. \A n \in Sent : KeyOf(n) \in Keys
  BY <1>4 DEF KeyOf, Keys
<1>6. QED
  BY <1>1, <1>2, <1>3, <1>4, <1>5 DEF Sent, Numbers

LEMMA JudgedType ==
    ASSUME MergeState, NEW due \in 0 .. Len(pending)
    PROVE  JudgedReports(due) \in SUBSET Numbers
<1>1. DOMAIN pending = 1 .. Len(pending) /\ Len(pending) \in Nat
  BY LenProperties DEF MergeState
<1>2. \A i \in 1 .. due : pending[i].of \in SUBSET Numbers
  <2>1. \A i \in 1 .. due : i \in DOMAIN pending
    BY <1>1
  <2>2. \A i \in DOMAIN pending : pending[i] \in Pendings
    BY <1>1 DEF MergeState
  <2>3. \A p \in Pendings : p.of \in SUBSET Numbers
    BY DEF Pendings
  <2>4. QED
    BY <2>1, <2>2, <2>3
<1>3. history.judged \in SUBSET Numbers
  BY DEF MergeState, History
<1>4. QED
  BY <1>2, <1>3 DEF JudgedReports

LEMMA VerdictsType ==
    ASSUME MergeState, NEW due \in 0 .. Len(pending)
    PROVE  Verdicts(due) \in SUBSET Wrongs
<1>1. \A p : Undeserved(p) \subseteq {"unjust", "late", "miscounted", "merged"}
  BY DEF Undeserved
<1>2. history.wrong \in SUBSET Wrongs
  BY DEF MergeState, History
<1>3. QED
  BY <1>1, <1>2 DEF Verdicts, Wrongs

\* One more copy of the last report.
LEMMA TransmitShape ==
    ASSUME MergeState, Transmit
    PROVE  /\ Len(reports) \in Sent /\ Len(reports') = Len(reports) /\ reports' \in Seq(Reports)
           /\ \A n \in Sent : /\ reports'[n].id = reports[n].id /\ reports'[n].alarm = reports[n].alarm
                              /\ reports'[n].copies = IF n = Len(reports) THEN reports[n].copies + 1
                                                      ELSE reports[n].copies
           /\ \E hearing \in SUBSET Listeners :
                 link' = [g \in Listeners |->
                            IF g \in hearing
                            THEN Append(link[g], [n |-> Len(reports), own |-> g = owner])
                            ELSE link[g]]
           /\ link' \in [Listeners -> Seq(Copies)]
           /\ UNCHANGED <<counter, owner, last, pending, history>>
<1> DEFINE n == Len(reports)
           o == reports[n]
           x == [o EXCEPT !.copies = o.copies + 1]
<1>1. n \in Sent /\ n \in Numbers
  BY MergeNumbers DEF Transmit, Sent
<1>2. o \in Reports
  BY <1>1, MergeNumbers
<1>3. reports' = [reports EXCEPT ![n] = x]
  BY DEF Transmit
<1>4. x \in Reports /\ x.id = o.id /\ x.alarm = o.alarm /\ x.copies = o.copies + 1
  <2> HIDE DEF o
  <2>1. QED
    BY <1>2 DEF Reports
<1> HIDE DEF x
<1>5. /\ reports' \in Seq(Reports) /\ Len(reports') = Len(reports)
      /\ \A i \in Sent : reports'[i] = IF i = n THEN x ELSE reports[i]
  <2>1. reports \in Seq(Reports) /\ n \in 1 .. Len(reports)
    BY <1>1 DEF MergeState, Sent
  <2>2. QED
    BY <1>3, <1>4, <2>1, ExceptSeq DEF Sent
<1>6. PICK hearing \in SUBSET Listeners :
         link' = [g \in Listeners |->
                    IF g \in hearing THEN Append(link[g], [n |-> n, own |-> g = owner])
                    ELSE link[g]]
  BY DEF Transmit
<1>7. link' \in [Listeners -> Seq(Copies)]
  <2>1. \A g \in Listeners : [n |-> n, own |-> g = owner] \in Copies /\ link[g] \in Seq(Copies)
    BY <1>1 DEF Copies, MergeState
  <2>2. \A g \in Listeners : Append(link[g], [n |-> n, own |-> g = owner]) \in Seq(Copies)
    BY <2>1, AppendProperties
  <2>3. QED
    BY <1>6, <2>1, <2>2
<1>8. UNCHANGED <<counter, owner, last, pending, history>>
  BY DEF Transmit, trackVars
<1>9. \A i \in Sent : /\ reports'[i].id = reports[i].id /\ reports'[i].alarm = reports[i].alarm
                      /\ reports'[i].copies = IF i = n THEN reports[i].copies + 1 ELSE reports[i].copies
  BY <1>4, <1>5
<1>10. QED
  BY <1>1, <1>5, <1>6, <1>7, <1>8, <1>9

\* A new report.
LEMMA ReportShape ==
    ASSUME MergeState, NEW alarm \in BOOLEAN, Report(alarm)
    PROVE  /\ Len(reports) < MaxReports /\ Len(reports') = Len(reports) + 1 /\ reports' \in Seq(Reports)
           /\ \A n \in Sent : reports'[n] = reports[n]
           /\ reports'[Len(reports) + 1] = [alarm |-> alarm, id |-> counter', copies |-> 0]
           /\ counter' = IF alarm THEN (counter + 1) % Modulus ELSE counter
           /\ counter' \in Counters
           /\ UNCHANGED <<owner, link, last, pending, history>>
<1>1. counter' = IF alarm THEN (counter + 1) % Modulus ELSE counter
  BY DEF Report
<1>2. counter' \in Counters
  <2>1. Modulus \in Nat /\ Modulus > 1 /\ counter \in 0 .. Modulus - 1
    BY MergeNumbers DEF MergeState, Counters
  <2>2. (counter + 1) % Modulus \in 0 .. Modulus - 1
    BY <2>1
  <2>3. QED
    BY <1>1, <2>1, <2>2 DEF Counters
<1> DEFINE r == [alarm |-> alarm, id |-> counter', copies |-> 0]
<1>3. reports' = Append(reports, r)
  BY <1>1 DEF Report
<1>4. r \in Reports
  BY <1>2 DEF Reports
<1> HIDE DEF r
<1>5. /\ reports' \in Seq(Reports) /\ Len(reports') = Len(reports) + 1
      /\ \A n \in Sent : reports'[n] = reports[n]
      /\ reports'[Len(reports) + 1] = r
  BY <1>3, <1>4, AppendProperties DEF Sent, MergeState
<1>6. Len(reports) < MaxReports /\ UNCHANGED <<owner, link, last, pending, history>>
  BY DEF Report, trackVars
<1>7. QED
  BY <1>1, <1>2, <1>5, <1>6 DEF r

\* The sensor starts over.
LEMMA PairAnewShape ==
    ASSUME MergeState, PairAnew
    PROVE  /\ counter' = 0 /\ link' = [link EXCEPT ![owner] = Append(@, [n |-> 0, own |-> TRUE])]
           /\ link' \in [Listeners -> Seq(Copies)]
           /\ history' = [history EXCEPT !.known = Len(reports)]
           /\ UNCHANGED <<reports, owner, last, pending>>
<1>1. [n |-> 0, own |-> TRUE] \in Copies /\ link[owner] \in Seq(Copies) /\ owner \in Listeners
  BY DEF Copies, MergeState
<1>2. Append(link[owner], [n |-> 0, own |-> TRUE]) \in Seq(Copies)
  BY <1>1, AppendProperties
<1>3. link' = [link EXCEPT ![owner] = Append(@, [n |-> 0, own |-> TRUE])]
  BY DEF PairAnew
<1>4. link' \in [Listeners -> Seq(Copies)]
  BY <1>2, <1>3 DEF MergeState
<1>5. QED
  BY <1>3, <1>4 DEF PairAnew, trackVars

\* The reports are judged that `settle` finds old.
LEMMA TickShape ==
    ASSUME MergeState, Tick
    PROVE  /\ \E n \in 1 .. Len(pending) :
                 /\ n \in 0 .. Len(pending) /\ pending' = Rest(n)
                 /\ history' = [history EXCEPT !.judged = JudgedReports(n), !.wrong = Verdicts(n)]
           /\ UNCHANGED <<reports, counter, owner, link, last>>
<1>1. Len(pending) \in Nat
  BY LenProperties DEF MergeState
<1>2. \A n \in 1 .. Len(pending) : n \in 0 .. Len(pending)
  BY <1>1
<1>3. \E n \in 1 .. Len(pending) :
         /\ pending' = Rest(n)
         /\ history' = [history EXCEPT !.judged = JudgedReports(n), !.wrong = Verdicts(n)]
  BY DEF Tick
<1>4. QED
  BY <1>2, <1>3 DEF Tick, worldVars

\* The counter is forgotten, at the pairing or after a long time.
Forgets ==
    /\ last' = NoCounter
    /\ history' = [history EXCEPT !.known = Len(reports), !.haunted = FALSE]
    /\ UNCHANGED <<reports, counter, owner, pending>>
    /\ \/ UNCHANGED link
       \/ \E g \in Listeners : link[g] # <<>> /\ link' = [link EXCEPT ![g] = Tail(@)]

LEMMA ForgetsShape ==
    ASSUME CounterExpires \/ \E g \in Listeners : ReceivePaired(g)
    PROVE  Forgets
<1>1. CASE CounterExpires
  BY <1>1 DEF CounterExpires, ForgetCounter, worldVars, Forgets
<1>2. CASE \E g \in Listeners : ReceivePaired(g)
  BY <1>2 DEF ReceivePaired, ForgetCounter, worldVars, Forgets
<1>3. QED
  BY <1>1, <1>2

\* The sensor is handed over: nothing is pending.
HandsOver ==
    /\ owner' \in Listeners /\ pending' = <<>>
    /\ history' = [history EXCEPT !.judged = JudgedReports(Len(pending))]
    /\ UNCHANGED <<reports, counter, link, last>>

\* Nothing happens that the history or the counters know of.
Stays == UNCHANGED <<reports, counter, owner, link, last, pending, history>>

\* What a step may do, as far as the properties are concerned.
LEMMA MergeSteps ==
    ASSUME MergeState, SentInv, [MergeNext]_mergeVars
    PROVE  \/ \E alarm \in BOOLEAN : Report(alarm)
           \/ Transmit
           \/ PairAnew
           \/ \E g \in Listeners : \E n, own, due, i : ReceivedAs(g, n, own, due, i)
           \/ Tick
           \/ Forgets
           \/ HandsOver
           \/ Stays
<1>1. ASSUME NEW g \in Listeners, Receive(g) PROVE \E n, own, due, i : ReceivedAs(g, n, own, due, i)
  BY <1>1, ReceiveShape
<1>2. ASSUME NEW g \in Listeners, Handover(g) PROVE HandsOver
  BY <1>2 DEF Handover, worldVars, HandsOver
<1>3. ASSUME SeenExpires PROVE Stays
  BY <1>3 DEF SeenExpires, worldVars, Stays
<1>4. ASSUME UNCHANGED mergeVars PROVE Stays
  BY <1>4 DEF mergeVars, worldVars, trackVars, Stays
<1>5. CASE MergeNext
  BY <1>1, <1>2, <1>3, <1>5, ForgetsShape DEF MergeNext
<1>6. QED
  BY <1>4, <1>5

LEMMA MergeStateInit == ASSUME MergeInit PROVE MergeState /\ SentInv
<1>1. Modulus \in Nat /\ MaxReports \in Nat /\ FirstCounters \subseteq 0 .. (Modulus - 1)
  BY MergingAssumption
<1>2. MergeState
  BY <1>1, EmptySeq DEF MergeInit, MergeState, Counters, History
<1>3. SentInv
  BY <1>1, EmptySeq DEF MergeInit, SentInv, Sent
<1>4. QED
  BY <1>2, <1>3

LEMMA MergeStateKept ==
    ASSUME MergeState, SentInv, [MergeNext]_mergeVars
    PROVE  MergeState'
<1> USE DEF MergeState
<1>0. history \in History /\ 0 .. Len(reports) \subseteq 0 .. MaxReports
  <2>1. Len(reports) \in Nat /\ MaxReports \in Nat /\ Len(reports) <= MaxReports
    BY MergeNumbers
  <2>2. QED
    BY <2>1
<1>1. ASSUME NEW alarm \in BOOLEAN, Report(alarm) PROVE MergeState'
  <2>1. Len(reports) \in Nat /\ MaxReports \in Nat
    BY MergeNumbers
  <2>2. /\ Len(reports) < MaxReports /\ Len(reports') = Len(reports) + 1 /\ reports' \in Seq(Reports)
        /\ counter' \in Counters /\ UNCHANGED <<owner, link, last, pending, history>>
    BY <1>1, ReportShape
  <2>3. QED
    BY <2>1, <2>2
<1>2. ASSUME Transmit PROVE MergeState'
  BY <1>2, TransmitShape
<1>3. ASSUME PairAnew PROVE MergeState'
  <2>1. counter' \in Counters
    <3>1. Modulus \in Nat /\ Modulus > 1
      BY MergeNumbers
    <3>2. QED
      BY <1>3, <3>1, PairAnewShape DEF Counters
  <2>2. history' \in History
    <3>1. Len(reports) \in 0 .. MaxReports
      BY MergeNumbers
    <3>2. QED
      BY <1>0, <1>3, <3>1, PairAnewShape DEF History
  <2>3. QED
    BY <1>3, <2>1, <2>2, PairAnewShape
<1>4. ASSUME NEW g \in Listeners, NEW n, NEW own, NEW due, NEW i, ReceivedAs(g, n, own, due, i)
      PROVE  MergeState'
  <2>1. /\ n \in Sent /\ n \in Numbers /\ due \in 0 .. Len(pending) /\ reports[n].id \in Counters
        /\ link[g] # <<>>
    BY <1>4, MergeNumbers DEF ReceivedAs
  <2>2. link' \in [Listeners -> Seq(Copies)]
    <3>1. Tail(link[g]) \in Seq(Copies) /\ link' = [link EXCEPT ![g] = Tail(link[g])]
      BY <1>4, <2>1, LinkTail DEF ReceivedAs
    <3>2. QED
      BY <3>1
  <2>3. last' \in Counters \cup {NoCounter}
    BY <1>4, <2>1 DEF ReceivedAs
  <2>4. pending' \in Seq(Pendings)
    BY <1>4 DEF ReceivedAs, Counted
  <2>5. history' \in History
    <3>1. JudgedReports(due) \in SUBSET Numbers
      BY <2>1, JudgedType
    <3>2. Verdicts(due) \in SUBSET Wrongs
      BY <2>1, VerdictsType
    <3>3. Passed(n) \subseteq {"repeated"} /\ Dropped(n) \subseteq {"dropped", "collided"}
      BY DEF Passed, Dropped
    <3> DEFINE dup == Duplicate(n)
               al == reports[n].alarm
    <3>4. al \in BOOLEAN
      BY <2>1, MergeNumbers DEF Reports
    <3>5. dup \in BOOLEAN
      BY DEF Duplicate, Stale
    <3>6. history' =
                  [fromOwner |-> history.fromOwner \cup {m \in {n} : own},
                   judged |-> JudgedReports(due),
                   out |-> history.out \cup {m \in {n} : al /\ ~dup},
                   known |-> history.known,
                   haunted |-> history.haunted \/ (al /\ ~dup /\ n <= history.known),
                   wrong |-> Verdicts(due) \cup IF dup THEN Dropped(n) ELSE Passed(n)]
      BY <1>4 DEF ReceivedAs
    <3> HIDE DEF dup, al
    <3>7. /\ (history.fromOwner \cup {m \in {n} : own}) \in SUBSET Numbers
          /\ (history.out \cup {m \in {n} : al /\ ~dup}) \in SUBSET Numbers
          /\ history.known \in 0 .. MaxReports
          /\ (history.haunted \/ (al /\ ~dup /\ n <= history.known)) \in BOOLEAN
      BY <1>0, <2>1 DEF History
    <3>8. (Verdicts(due) \cup IF dup THEN Dropped(n) ELSE Passed(n)) \in SUBSET Wrongs
      BY <3>2, <3>3 DEF Wrongs
    <3>9. QED
      BY <3>1, <3>6, <3>7, <3>8 DEF History
  <2>6. UNCHANGED <<reports, counter, owner>>
    BY <1>4 DEF ReceivedAs
  <2>7. QED
    BY <2>2, <2>3, <2>4, <2>5, <2>6
<1>5. ASSUME Tick PROVE MergeState'
  <2>1. PICK n \in 1 .. Len(pending) :
                 /\ n \in 0 .. Len(pending) /\ pending' = Rest(n)
                 /\ history' = [history EXCEPT !.judged = JudgedReports(n), !.wrong = Verdicts(n)]
    BY <1>5, TickShape
  <2>2. pending' \in Seq(Pendings)
    BY <2>1, RestEntries
  <2>3. history' \in History
    BY <1>0, <2>1, JudgedType, VerdictsType DEF History
  <2>4. QED
    BY <1>5, <2>2, <2>3, TickShape
<1>6. ASSUME Forgets PROVE MergeState'
  <2>1. history' \in History
    <3>1. Len(reports) \in 0 .. MaxReports
      BY MergeNumbers
    <3>2. QED
      BY <1>0, <1>6, <3>1 DEF History, Forgets
  <2>2. link' \in [Listeners -> Seq(Copies)]
    <3>1. ASSUME NEW g \in Listeners, link[g] # <<>>, link' = [link EXCEPT ![g] = Tail(@)]
          PROVE  link' \in [Listeners -> Seq(Copies)]
      <4>1. Tail(link[g]) \in Seq(Copies)
        BY <3>1, LinkTail
      <4>2. QED
        BY <3>1, <4>1
    <3>2. QED
      BY <1>6, <3>1 DEF Forgets
  <2>3. QED
    BY <1>6, <2>1, <2>2 DEF Forgets
<1>7. ASSUME HandsOver PROVE MergeState'
  <2>1. history' \in History
    <3>1. Len(pending) \in 0 .. Len(pending)
      BY LenProperties
    <3>2. QED
      BY <1>0, <1>7, <3>1, JudgedType DEF History, HandsOver
  <2>2. pending' \in Seq(Pendings)
    BY <1>7, EmptySeq DEF HandsOver
  <2>3. QED
    BY <1>7, <2>1, <2>2 DEF HandsOver
<1>8. ASSUME Stays PROVE MergeState'
  BY <1>8 DEF Stays
<1>9. QED
  BY <1>1, <1>2, <1>3, <1>4, <1>5, <1>6, <1>7, <1>8, MergeSteps

LEMMA SentKept ==
    ASSUME MergeState, SentInv, [MergeNext]_mergeVars
    PROVE  SentInv'
<1>0. Len(reports) \in Nat /\ Sent = 1 .. Len(reports)
  BY MergeNumbers DEF Sent
<1>1. ASSUME NEW alarm \in BOOLEAN, Report(alarm) PROVE SentInv'
  <2>1. Len(reports') = Len(reports) + 1 /\ UNCHANGED <<link, history>>
    BY <1>1, ReportShape
  <2>2. Sent \subseteq Sent'
    BY <1>0, <2>1 DEF Sent
  <2>3. history.known \in Nat
    BY MergingAssumption DEF MergeState, History
  <2>4. QED
    BY <1>0, <2>1, <2>2, <2>3 DEF SentInv
<1>2. ASSUME Transmit PROVE SentInv'
  <2>1. Sent' = Sent /\ Len(reports') = Len(reports) /\ UNCHANGED history /\ Len(reports) \in Sent
    BY <1>2, TransmitShape DEF Sent
  <2>2. PICK hearing \in SUBSET Listeners :
                 link' = [g \in Listeners |->
                            IF g \in hearing
                            THEN Append(link[g], [n |-> Len(reports), own |-> g = owner])
                            ELSE link[g]]
    BY <1>2, TransmitShape
  <2>3. ASSUME NEW g \in Listeners, NEW i \in DOMAIN link'[g] PROVE link'[g][i].n \in {0} \cup Sent
    <3> DEFINE e == [n |-> Len(reports), own |-> g = owner]
    <3>1. e \in Copies /\ e.n = Len(reports) /\ link[g] \in Seq(Copies)
      BY <2>1, MergeNumbers DEF Copies, MergeState
    <3> HIDE DEF e
    <3>2. CASE g \in hearing
      <4>1. link'[g] = Append(link[g], e)
        BY <2>2, <3>2 DEF e
      <4>2. CASE i \in DOMAIN link[g]
        BY <3>1, <4>1, <4>2, LinkAppend DEF SentInv
      <4>3. CASE i \notin DOMAIN link[g]
        BY <2>1, <3>1, <4>1, <4>3, LinkAppend
      <4>4. QED
        BY <4>2, <4>3
    <3>3. CASE g \notin hearing
      BY <2>2, <3>3 DEF SentInv
    <3>4. QED
      BY <3>2, <3>3
  <2>4. QED
    BY <2>1, <2>3 DEF SentInv
<1>3. ASSUME PairAnew PROVE SentInv'
  <2> DEFINE e == [n |-> 0, own |-> TRUE]
  <2>1. e \in Copies /\ e.n = 0 /\ link[owner] \in Seq(Copies) /\ owner \in Listeners
    BY DEF Copies, MergeState
  <2>2. /\ link' = [link EXCEPT ![owner] = Append(@, e)] /\ UNCHANGED reports
        /\ history' = [history EXCEPT !.known = Len(reports)]
    BY <1>3, PairAnewShape
  <2> HIDE DEF e
  <2>3. ASSUME NEW g \in Listeners, NEW i \in DOMAIN link'[g] PROVE link'[g][i].n \in {0} \cup Sent
    <3>1. CASE g = owner
      <4>1. link'[g] = Append(link[g], e)
        BY <2>2, <3>1 DEF MergeState
      <4>2. CASE i \in DOMAIN link[g]
        BY <2>1, <3>1, <4>1, <4>2, LinkAppend DEF SentInv
      <4>3. CASE i \notin DOMAIN link[g]
        BY <2>1, <3>1, <4>1, <4>3, LinkAppend
      <4>4. QED
        BY <4>2, <4>3
    <3>2. CASE g # owner
      BY <2>2, <3>2 DEF SentInv, MergeState
    <3>3. QED
      BY <3>1, <3>2
  <2>4. history'.out = history.out /\ history'.fromOwner = history.fromOwner /\ history'.known = Len(reports)
    BY <2>2 DEF MergeState, History
  <2>5. QED
    BY <1>0, <2>2, <2>3, <2>4 DEF SentInv, Sent
<1>4. ASSUME NEW g \in Listeners, link[g] # <<>>, link' = [link EXCEPT ![g] = Tail(@)]
      PROVE  \A h \in Listeners : \A i \in DOMAIN link'[h] : link'[h][i].n \in {0} \cup Sent
  <2>1. ASSUME NEW h \in Listeners, NEW i \in DOMAIN link'[h] PROVE link'[h][i].n \in {0} \cup Sent
    <3>1. CASE h = g
      <4>1. link'[h] = Tail(link[g])
        BY <1>4, <3>1 DEF MergeState
      <4>2. QED
        BY <1>4, <3>1, <4>1, LinkTail DEF SentInv
    <3>2. CASE h # g
      BY <1>4, <3>2 DEF SentInv, MergeState
    <3>3. QED
      BY <3>1, <3>2
  <2>2. QED
    BY <2>1
<1>5. ASSUME NEW g \in Listeners, NEW n, NEW own, NEW due, NEW i, ReceivedAs(g, n, own, due, i)
      PROVE  SentInv'
  <2>1. \A h \in Listeners : \A j \in DOMAIN link'[h] : link'[h][j].n \in {0} \cup Sent
    BY <1>4, <1>5 DEF ReceivedAs
  <2>2. n \in Sent /\ UNCHANGED reports
    BY <1>5 DEF ReceivedAs
  <2>3. /\ history'.out \subseteq history.out \cup {n} /\ history'.fromOwner \subseteq history.fromOwner \cup {n}
        /\ history'.known = history.known
    BY <1>5 DEF ReceivedAs
  <2>4. QED
    BY <2>1, <2>2, <2>3 DEF SentInv, Sent
<1>6. ASSUME Tick PROVE SentInv'
  <2>1. PICK n \in 1 .. Len(pending) :
           history' = [history EXCEPT !.judged = JudgedReports(n), !.wrong = Verdicts(n)]
    BY <1>6, TickShape
  <2>2. history'.out = history.out /\ history'.fromOwner = history.fromOwner /\ history'.known = history.known
    BY <2>1 DEF MergeState, History
  <2>3. UNCHANGED <<reports, link>>
    BY <1>6, TickShape
  <2>4. QED
    BY <2>2, <2>3 DEF SentInv, Sent
<1>7. ASSUME Forgets PROVE SentInv'
  <2>1. /\ history'.out = history.out /\ history'.fromOwner = history.fromOwner
        /\ history'.known = Len(reports) /\ UNCHANGED reports
    BY <1>7 DEF Forgets, MergeState, History
  <2>2. \A h \in Listeners : \A i \in DOMAIN link'[h] : link'[h][i].n \in {0} \cup Sent
    BY <1>4, <1>7 DEF Forgets, SentInv
  <2>3. QED
    BY <1>0, <2>1, <2>2 DEF SentInv, Sent
<1>8. ASSUME HandsOver PROVE SentInv'
  <2>1. /\ history'.out = history.out /\ history'.fromOwner = history.fromOwner
        /\ history'.known = history.known /\ UNCHANGED <<reports, link>>
    BY <1>8 DEF HandsOver, MergeState, History
  <2>2. QED
    BY <2>1 DEF SentInv, Sent
<1>9. ASSUME Stays PROVE SentInv'
  BY <1>9 DEF Stays, SentInv, Sent
<1>10. QED
  BY <1>1, <1>2, <1>3, <1>5, <1>6, <1>7, <1>8, <1>9, MergeSteps

-------------------------------------------------------------------------------
\* A later report is ahead of an earlier one by no more events than lie between
\* them, and an alarm by one at least, since the sensor started over.
CountsInv ==
    /\ \A n \in Sent : n > history.known =>
          \E k \in 0 .. (Len(reports) - n) : Ahead(counter, reports[n].id, k)
    /\ \A n, m \in Sent : history.known < n /\ n < m =>
          \E k \in 0 .. (m - n) : /\ Ahead(reports[m].id, reports[n].id, k)
                                  /\ reports[m].alarm => k > 0

LEMMA CountsKept ==
    ASSUME MergeState, SentInv, CountsInv, [MergeNext]_mergeVars
    PROVE  CountsInv'
<1>0. /\ Len(reports) \in Nat /\ Sent = 1 .. Len(reports) /\ history.known \in Nat
      /\ \A n \in Sent : reports[n].id \in Counters
  BY MergeNumbers, MergingAssumption DEF Sent, MergeState, History
<1>1. ASSUME NEW alarm \in BOOLEAN, Report(alarm) PROVE CountsInv'
  <2> DEFINE l == Len(reports)
  <2>1. /\ Len(reports') = l + 1 /\ \A n \in Sent : reports'[n] = reports[n]
        /\ reports'[l + 1] = [alarm |-> alarm, id |-> counter', copies |-> 0]
        /\ counter' = IF alarm THEN (counter + 1) % Modulus ELSE counter
        /\ counter' \in Counters /\ l < MaxReports /\ history' = history
    BY <1>1, ReportShape
  <2> HIDE DEF l
  <2>2. l \in Nat /\ l < MaxReports /\ MaxReports \in Nat /\ Sent = 1 .. l /\ Sent' = 1 .. l + 1
    BY <1>0, <2>1, MergeNumbers DEF Sent, l
  <2>3. ASSUME NEW n \in Sent, n > history.known
        PROVE  \E k \in 0 .. (l + 1 - n) : Ahead(counter', reports[n].id, k) /\ (alarm => k > 0)
    <3>1. PICK k \in 0 .. (l - n) : Ahead(counter, reports[n].id, k)
      BY <2>3 DEF CountsInv, l
    <3>2. n \in Nat /\ n > 0 /\ n <= l /\ k \in Nat /\ k \in 0 .. MaxReports
      BY <2>2
    <3>3. Ahead((counter + 1) % Modulus, reports[n].id, k + 1)
      BY <1>0, <3>1, <3>2, AheadNext DEF MergeState
    <3>4. CASE alarm
      <4>1. k + 1 \in 0 .. (l + 1 - n) /\ k + 1 > 0
        BY <2>2, <3>2
      <4>2. QED
        BY <2>1, <3>3, <3>4, <4>1
    <3>5. CASE ~alarm
      <4>1. k \in 0 .. (l + 1 - n)
        BY <2>2, <3>2
      <4>2. QED
        BY <2>1, <3>1, <3>5, <4>1
    <3>6. QED
      BY <3>4, <3>5
  <2>4. Ahead(counter', counter', 0)
    <3>1. Modulus \in Nat /\ Modulus > 1
      BY MergeNumbers
    <3>2. \A c \in 0 .. Modulus - 1 : c = (c + 0) % Modulus
      BY <3>1
    <3>3. QED
      BY <2>1, <3>2 DEF Ahead, Counters
  <2>5. ASSUME NEW n \in Sent', n > history.known
        PROVE  \E k \in 0 .. (l + 1 - n) : Ahead(counter', reports'[n].id, k)
    <3>1. CASE n \in Sent
      <4>1. PICK k \in 0 .. (l + 1 - n) : Ahead(counter', reports[n].id, k)
        BY <2>3, <2>5, <3>1
      <4>2. QED
        BY <2>1, <3>1, <4>1
    <3>2. CASE n = l + 1
      <4>1. 0 \in 0 .. (l + 1 - n)
        BY <2>2, <3>2
      <4>2. QED
        BY <2>1, <2>4, <3>2, <4>1
    <3>3. QED
      BY <2>2, <3>1, <3>2
  <2>6. ASSUME NEW n \in Sent', NEW m \in Sent', history.known < n, n < m
        PROVE  \E k \in 0 .. (m - n) : /\ Ahead(reports'[m].id, reports'[n].id, k)
                                       /\ reports'[m].alarm => k > 0
    <3>0. n \in Sent
      BY <2>2, <2>6
    <3>1. CASE m \in Sent
      <4>1. PICK k \in 0 .. (m - n) : /\ Ahead(reports[m].id, reports[n].id, k)
                                      /\ reports[m].alarm => k > 0
        BY <2>6, <3>0, <3>1 DEF CountsInv
      <4>2. QED
        BY <2>1, <3>0, <3>1, <4>1
    <3>2. CASE m = l + 1
      <4>1. PICK k \in 0 .. (l + 1 - n) : Ahead(counter', reports[n].id, k) /\ (alarm => k > 0)
        BY <1>0, <2>3, <2>6, <3>0
      <4>2. reports'[m].id = counter' /\ reports'[m].alarm = alarm /\ reports'[n] = reports[n]
        BY <2>1, <3>0, <3>2
      <4>3. k \in 0 .. (m - n)
        BY <2>2, <3>0, <3>2, <4>1
      <4>4. QED
        BY <4>1, <4>2, <4>3
    <3>3. QED
      BY <2>2, <3>1, <3>2
  <2>7. \A n \in Sent' : n > history'.known =>
          \E k \in 0 .. (Len(reports') - n) : Ahead(counter', reports'[n].id, k)
    <3>1. Len(reports') = l + 1 /\ history'.known = history.known
      BY <2>1
    <3>2. ASSUME NEW n \in Sent', n > history'.known
          PROVE  \E k \in 0 .. (Len(reports') - n) : Ahead(counter', reports'[n].id, k)
      <4>1. n > history.known
        BY <3>1, <3>2
      <4>2. PICK k \in 0 .. (l + 1 - n) : Ahead(counter', reports'[n].id, k)
        BY <2>5, <4>1
      <4>3. k \in 0 .. (Len(reports') - n)
        BY <2>2, <3>1, <4>2
      <4>4. QED
        BY <4>2, <4>3
    <3>3. QED
      BY <3>2
  <2>8. \A n, m \in Sent' : history'.known < n /\ n < m =>
          \E k \in 0 .. (m - n) : /\ Ahead(reports'[m].id, reports'[n].id, k)
                                  /\ reports'[m].alarm => k > 0
    BY <2>1, <2>6
  <2>9. QED
    BY <2>7, <2>8 DEF CountsInv
<1>2. ASSUME Transmit PROVE CountsInv'
  <2>1. /\ Sent' = Sent /\ Len(reports') = Len(reports) /\ history' = history /\ counter' = counter
        /\ \A n \in Sent : reports'[n].id = reports[n].id /\ reports'[n].alarm = reports[n].alarm
    BY <1>2, TransmitShape DEF Sent
  <2>2. QED
    BY <2>1 DEF CountsInv
<1>3. ASSUME PairAnew \/ Forgets PROVE CountsInv'
  <2>1. history'.known = Len(reports) /\ UNCHANGED reports
    BY <1>3, PairAnewShape DEF Forgets, MergeState, History
  <2>2. Sent' = Sent /\ \A n \in Sent' : ~(n > history'.known) /\ ~(history'.known < n)
    BY <1>0, <2>1 DEF Sent
  <2>3. QED
    BY <2>2 DEF CountsInv
<1>4. ASSUME NEW g \in Listeners, NEW n, NEW own, NEW due, NEW i, ReceivedAs(g, n, own, due, i)
      PROVE  CountsInv'
  <2>1. history'.known = history.known /\ UNCHANGED <<reports, counter>>
    BY <1>4 DEF ReceivedAs
  <2>2. QED
    BY <2>1 DEF CountsInv, Sent
<1>5. ASSUME Tick \/ HandsOver \/ Stays PROVE CountsInv'
  <2>1. history'.known = history.known /\ UNCHANGED <<reports, counter>>
    BY <1>5, TickShape DEF HandsOver, Stays, MergeState, History
  <2>2. QED
    BY <2>1 DEF CountsInv, Sent
<1>6. QED
  BY <1>1, <1>2, <1>3, <1>4, <1>5, MergeSteps

-------------------------------------------------------------------------------
\* The last counter is the newest alarm's that was passed on since the sensor
\* started over; if there is none, the host forgot it, or is about to.
LastInv ==
    ~history.haunted =>
        \/ \E n \in history.out : /\ n > history.known
                                  /\ \A m \in history.out : m <= n
                                  /\ last = reports[n].id
        \/ /\ \A m \in history.out : m <= history.known
           /\ PairingUnderWay \/ last = NoCounter

\* With it the counters tell a new alarm from an old one.
LEMMA NothingRepeated ==
    ASSUME MergeState, SentInv, CountsInv, LastInv,
           NEW n \in Sent, n > history.known, ~history.haunted, reports[n].alarm, ~Stale(n),
           NEW m \in history.out
    PROVE  m < n
<1>1. /\ Sent \subseteq Nat /\ history.known \in Nat /\ m \in Sent
      /\ \A i \in Sent : reports[i].id \in Counters
      /\ MaxReports \in Nat /\ Len(reports) \in Nat /\ Len(reports) <= MaxReports
  BY MergeNumbers, MergingAssumption DEF Sent, MergeState, History, SentInv
<1>2. CASE \A i \in history.out : i <= history.known
  BY <1>1, <1>2
<1>3. ASSUME NEW q \in history.out, q > history.known, \A i \in history.out : i <= q,
             last = reports[q].id
      PROVE  q < n
  <2>1. q \in Sent /\ reports[q].id \in Counters /\ last # NoCounter
    <3>1. q \in Sent
      BY DEF SentInv
    <3>2. reports[q].id \in 0 .. Modulus - 1 /\ Modulus \in Nat
      BY <1>1, <3>1, MergeNumbers DEF Counters
    <3>3. Modulus \notin 0 .. Modulus - 1
      BY <3>2
    <3>4. QED
      BY <1>1, <1>3, <3>1, <3>2, <3>3 DEF NoCounter
  <2>2. Newer(reports[n].id, reports[q].id)
    BY <1>3, <2>1 DEF Stale
  <2>3. SUFFICES ASSUME n <= q PROVE FALSE
    BY <1>1, <2>1
  <2>4. CASE n = q
    <3>1. Ahead(reports[q].id, reports[q].id, 0)
      <4>1. reports[q].id \in 0 .. Modulus - 1 /\ Modulus \in Nat
        BY <2>1, MergeNumbers DEF Counters
      <4>2. \A c \in 0 .. Modulus - 1 : c = (c + 0) % Modulus
        BY <4>1
      <4>3. QED
        BY <4>1, <4>2 DEF Ahead
    <3>2. ~Newer(reports[q].id, reports[q].id)
      BY <1>1, <2>1, <3>1, AheadNewer
    <3>3. QED
      BY <2>2, <2>4, <3>2
  <2>5. CASE n < q
    <3>1. PICK k \in 0 .. (q - n) : Ahead(reports[q].id, reports[n].id, k)
      BY <1>3, <2>1, <2>5 DEF CountsInv
    <3>2. k \in 0 .. MaxReports
      <4>1. n \in Nat /\ q \in Nat /\ q <= Len(reports)
        BY <1>1, <2>1 DEF Sent
      <4>2. QED
        BY <1>1, <4>1
    <3>3. ~Newer(reports[n].id, reports[q].id)
      BY <1>1, <2>1, <3>1, <3>2, AheadNewer
    <3>4. QED
      BY <2>2, <3>3
  <2>6. n \in Nat /\ q \in Nat
    BY <1>1, <2>1
  <2>7. n = q \/ n < q
    BY <2>3, <2>6
  <2>8. QED
    BY <2>4, <2>5, <2>7
<1>4. QED
  <2>1. CASE \E q \in history.out : /\ q > history.known
                                    /\ \A i \in history.out : i <= q
                                    /\ last = reports[q].id
    <3>1. PICK q \in history.out : q < n /\ \A i \in history.out : i <= q
      BY <1>3, <2>1
    <3>2. q \in Nat
      BY <1>1 DEF SentInv
    <3>3. QED
      BY <1>1, <3>1, <3>2
  <2>2. QED
    BY <1>2, <2>1 DEF LastInv

LEMMA NothingDropped ==
    ASSUME MergeState, SentInv, CountsInv, LastInv,
           NEW n \in Sent, n > history.known, ~history.haunted, reports[n].alarm, Stale(n),
           ~PairingUnderWay
    PROVE  \E m \in history.out : ~(m < n)
<1>1. /\ Sent \subseteq Nat /\ history.known \in Nat
      /\ \A i \in Sent : reports[i].id \in Counters
      /\ MaxReports \in Nat /\ Len(reports) \in Nat /\ Len(reports) <= MaxReports
  BY MergeNumbers, MergingAssumption DEF Sent, MergeState, History
<1>2. last # NoCounter /\ ~Newer(reports[n].id, last)
  BY DEF Stale
<1>3. PICK q \in history.out : q > history.known /\ last = reports[q].id
  BY <1>2 DEF LastInv
<1>4. SUFFICES ASSUME q < n PROVE FALSE
  OBVIOUS
<1>5. q \in Sent
  BY DEF SentInv
<1>6. PICK k \in 0 .. (n - q) : Ahead(reports[n].id, reports[q].id, k) /\ k > 0
  BY <1>3, <1>4, <1>5 DEF CountsInv
<1>7. k \in 0 .. MaxReports
  <2>1. n \in Nat /\ q \in Nat /\ n <= Len(reports)
    BY <1>1, <1>5 DEF Sent
  <2>2. QED
    BY <1>1, <2>1
<1>8. Newer(reports[n].id, reports[q].id)
  BY <1>1, <1>5, <1>6, <1>7, AheadNewer
<1>9. QED
  BY <1>2, <1>3, <1>8

LEMMA LastKept ==
    ASSUME MergeState, SentInv, CountsInv, LastInv, [MergeNext]_mergeVars
    PROVE  LastInv'
<1>0. history.out \subseteq Sent /\ history.known \in Nat /\ Sent \subseteq Nat /\ Len(reports) \in Nat
  BY MergeNumbers, MergingAssumption DEF MergeState, History, SentInv, Sent
<1>1. ASSUME UNCHANGED <<last, history>>, PairingUnderWay => PairingUnderWay',
             \A n \in Sent : reports'[n].id = reports[n].id
      PROVE  LastInv'
  BY <1>0, <1>1 DEF LastInv
<1>2. ASSUME NEW alarm \in BOOLEAN, Report(alarm) PROVE LastInv'
  BY <1>1, <1>2, ReportShape DEF PairingUnderWay
<1>3. ASSUME Transmit PROVE LastInv'
  <2>1. ASSUME PairingUnderWay PROVE PairingUnderWay'
    <3>1. PICK g \in Listeners : \E i \in DOMAIN link[g] : link[g][i].n = 0
      BY <2>1 DEF PairingUnderWay
    <3>2. PICK i \in DOMAIN link[g] : link[g][i].n = 0
      BY <3>1
    <3>3. link'[g] = link[g] \/ \E e \in Copies : link'[g] = Append(link[g], e)
      <4>1. Len(reports) \in Numbers
        BY <1>3, TransmitShape, MergeNumbers
      <4>2. [n |-> Len(reports), own |-> g = owner] \in Copies
        BY <4>1 DEF Copies
      <4>3. QED
        BY <1>3, <4>2, TransmitShape
    <3>4. i \in DOMAIN link'[g] /\ link'[g][i] = link[g][i]
      <4>1. link[g] \in Seq(Copies)
        BY DEF MergeState
      <4>2. QED
        BY <3>3, <4>1, LinkAppend
    <3>5. QED
      BY <3>2, <3>4 DEF PairingUnderWay
  <2>2. UNCHANGED <<last, history>> /\ \A n \in Sent : reports'[n].id = reports[n].id
    BY <1>3, TransmitShape
  <2>3. QED
    BY <1>1, <2>1, <2>2
<1>4. ASSUME PairAnew PROVE LastInv'
  <2> DEFINE e == [n |-> 0, own |-> TRUE]
  <2>1. /\ link' = [link EXCEPT ![owner] = Append(@, e)] /\ owner \in Listeners
        /\ link[owner] \in Seq(Copies) /\ e \in Copies /\ e.n = 0
        /\ history'.out = history.out /\ history'.known = Len(reports)
    BY <1>4, PairAnewShape DEF MergeState, History, Copies
  <2> HIDE DEF e
  <2>2. PairingUnderWay'
    <3>1. link'[owner] = Append(link[owner], e)
      BY <2>1 DEF MergeState
    <3>2. Len(link[owner]) + 1 \in DOMAIN link'[owner] /\ link'[owner][Len(link[owner]) + 1] = e
      BY <2>1, <3>1, LinkAppend
    <3>3. QED
      BY <2>1, <3>2 DEF PairingUnderWay
  <2>3. \A m \in history.out : m <= Len(reports)
    BY <1>0 DEF Sent
  <2>4. QED
    BY <2>1, <2>2, <2>3 DEF LastInv
<1>5. ASSUME Forgets PROVE LastInv'
  <2>1. history'.out = history.out /\ history'.known = Len(reports) /\ last' = NoCounter
    BY <1>5 DEF Forgets, MergeState, History
  <2>2. \A m \in history.out : m <= Len(reports)
    BY <1>0 DEF Sent
  <2>3. QED
    BY <2>1, <2>2 DEF LastInv
<1>6. ASSUME NEW g \in Listeners, NEW n, NEW own, NEW due, NEW i, ReceivedAs(g, n, own, due, i)
      PROVE  LastInv'
  <2>1. n \in Sent /\ n # 0 /\ n \in Nat /\ link[g] # <<>> /\ link[g][1].n = n
        /\ link' = [link EXCEPT ![g] = Tail(@)] /\ UNCHANGED reports
    BY <1>0, <1>6, MergeNumbers DEF ReceivedAs, Sent
  <2>2. ASSUME PairingUnderWay PROVE PairingUnderWay'
    <3>1. PICK h \in Listeners : \E j \in DOMAIN link[h] : link[h][j].n = 0
      BY <2>2 DEF PairingUnderWay
    <3>2. PICK j \in DOMAIN link[h] : link[h][j].n = 0
      BY <3>1
    <3>3. CASE h = g
      <4>1. j # 1
        BY <2>1, <3>2, <3>3
      <4>2. link'[g] = Tail(link[g])
        BY <2>1 DEF MergeState
      <4>3. j - 1 \in DOMAIN link'[g] /\ link'[g][j - 1] = link[g][j]
        <5>1. \A c \in DOMAIN link[g] \ {1} : /\ c - 1 \in DOMAIN Tail(link[g])
                                              /\ Tail(link[g])[c - 1] = link[g][c]
          BY <2>1, LinkTail
        <5>2. QED
          BY <3>2, <3>3, <4>1, <4>2, <5>1
      <4>4. QED
        BY <3>2, <3>3, <4>3 DEF PairingUnderWay
    <3>4. CASE h # g
      <4>1. link'[h] = link[h]
        BY <2>1, <3>4 DEF MergeState
      <4>2. QED
        BY <3>1, <4>1 DEF PairingUnderWay
    <3>5. QED
      BY <3>3, <3>4
  <2>3. CASE reports[n].alarm /\ ~Duplicate(n)
    <3>1. /\ history'.out = history.out \cup {n} /\ history'.known = history.known
          /\ history'.haunted = (history.haunted \/ n <= history.known)
          /\ last' = reports[n].id
      BY <1>6, <2>3 DEF ReceivedAs
    <3>2. SUFFICES ASSUME ~history.haunted, n > history.known PROVE LastInv'
      <4>1. ~history'.haunted => ~history.haunted /\ ~(n <= history.known)
        BY <3>1
      <4>2. ~(n <= history.known) => n > history.known
        BY <1>0, <2>1
      <4>3. QED
        BY <4>1, <4>2 DEF LastInv
    <3>3. ~Stale(n)
      BY <2>3 DEF Duplicate
    <3>4. \A m \in history.out : m < n
      BY <2>1, <2>3, <3>2, <3>3, NothingRepeated
    <3>5. ASSUME NEW m \in history'.out PROVE m <= n
      <4>1. m \in history.out \/ m = n
        BY <3>1
      <4>2. m \in Nat
        BY <1>0, <2>1, <4>1
      <4>3. QED
        BY <2>1, <3>4, <4>1, <4>2
    <3>6. QED
      BY <2>1, <3>1, <3>2, <3>5 DEF LastInv
  <2>4. CASE ~(reports[n].alarm /\ ~Duplicate(n))
    <3>1. /\ history'.out = history.out /\ history'.known = history.known
          /\ history'.haunted = history.haunted /\ last' = last
      BY <1>6, <2>4 DEF ReceivedAs, MergeState, History
    <3>2. QED
      BY <2>1, <2>2, <3>1 DEF LastInv
  <2>5. QED
    BY <2>3, <2>4
<1>7. ASSUME Tick \/ HandsOver \/ Stays PROVE LastInv'
  <2>1. /\ history'.out = history.out /\ history'.known = history.known
        /\ history'.haunted = history.haunted /\ UNCHANGED <<reports, link, last>>
    BY <1>7, TickShape DEF HandsOver, Stays, MergeState, History
  <2>2. QED
    BY <2>1 DEF LastInv, PairingUnderWay
<1>8. QED
  BY <1>2, <1>3, <1>4, <1>5, <1>6, <1>7, MergeSteps

LEMMA StreamKept ==
    ASSUME MergeState, SentInv, CountsInv, LastInv, InOrder, NoneDropped, [MergeNext]_mergeVars
    PROVE  InOrder' /\ NoneDropped'
<1>1. ASSUME history'.wrong = history.wrong PROVE InOrder' /\ NoneDropped'
  BY <1>1 DEF InOrder, NoneDropped
<1>2. ASSUME NEW due PROVE Verdicts(due) \cap {"repeated", "dropped"} = {}
  BY DEF Verdicts, Undeserved, InOrder, NoneDropped
<1>3. ASSUME NEW g \in Listeners, NEW n, NEW own, NEW due, NEW i, ReceivedAs(g, n, own, due, i)
      PROVE  InOrder' /\ NoneDropped'
  <2>1. n \in Sent /\ n \in Nat /\ history.out \subseteq Nat
        /\ history'.wrong = Verdicts(due) \cup IF Duplicate(n) THEN Dropped(n) ELSE Passed(n)
    BY <1>3, MergeNumbers DEF ReceivedAs, Sent, SentInv
  <2>2. ASSUME ~Duplicate(n) PROVE "repeated" \notin Passed(n)
    <3>1. ~Stale(n)
      BY <2>2 DEF Duplicate
    <3>2. SUFFICES ASSUME reports[n].alarm, n > history.known, ~history.haunted,
                          NEW m \in history.out, m >= n
                   PROVE  FALSE
      BY DEF Passed
    <3>3. m < n
      BY <2>1, <3>1, <3>2, NothingRepeated
    <3>4. QED
      BY <2>1, <3>2, <3>3
  <2>3. "dropped" \notin Dropped(n)
    <3>1. SUFFICES ASSUME reports[n].alarm, n > history.known, ~history.haunted, ~PairingUnderWay,
                          Stale(n), \A m \in history.out : m < n
                   PROVE  FALSE
      BY DEF Dropped
    <3>2. QED
      BY <2>1, <3>1, NothingDropped
  <2>4. "dropped" \notin Passed(n) /\ "repeated" \notin Dropped(n)
    BY DEF Passed, Dropped
  <2>5. QED
    BY <1>2, <2>1, <2>2, <2>3, <2>4 DEF InOrder, NoneDropped
<1>4. ASSUME Tick PROVE InOrder' /\ NoneDropped'
  <2>1. \E n : history'.wrong = Verdicts(n)
    BY <1>4, TickShape DEF MergeState, History
  <2>2. QED
    BY <1>2, <2>1 DEF InOrder, NoneDropped
<1>5. ASSUME \/ \E alarm \in BOOLEAN : Report(alarm)
             \/ Transmit \/ PairAnew \/ Forgets \/ HandsOver \/ Stays
      PROVE  history'.wrong = history.wrong
  <2>1. ASSUME NEW alarm \in BOOLEAN, Report(alarm) PROVE history' = history
    BY <2>1, ReportShape
  <2>2. QED
    BY <1>5, <2>1, TransmitShape, PairAnewShape DEF Forgets, HandsOver, Stays, MergeState, History
<1>6. QED
  BY <1>1, <1>3, <1>4, <1>5, MergeSteps

-------------------------------------------------------------------------------
\* One key, one pending report, for reports of that key.
KeyedBy(ps) ==
    /\ \A i, j \in DOMAIN ps : ps[i].key = ps[j].key => i = j
    /\ \A i \in DOMAIN ps : /\ ps[i].of # {} /\ ps[i].of \subseteq Sent
                            /\ \A n \in ps[i].of : KeyOf(n) = ps[i].key

KeysInv == KeyedBy(pending)

LEMMA RestKeyed ==
    ASSUME MergeState, KeysInv, NEW due \in 0 .. Len(pending)
    PROVE  KeyedBy(Rest(due))
<1>1. due \in Nat /\ DOMAIN pending \subseteq Nat
  BY LenProperties DEF MergeState
<1>2. ASSUME NEW i \in DOMAIN Rest(due), NEW j \in DOMAIN Rest(due), Rest(due)[i].key = Rest(due)[j].key
      PROVE  i = j
  <2>1. /\ i \in Nat /\ j \in Nat /\ i + due \in DOMAIN pending /\ j + due \in DOMAIN pending
        /\ Rest(due)[i] = pending[i + due] /\ Rest(due)[j] = pending[j + due]
    BY RestEntries
  <2>2. i + due = j + due
    BY <1>2, <2>1 DEF KeysInv, KeyedBy
  <2>3. QED
    BY <1>1, <2>1, <2>2
<1>3. ASSUME NEW i \in DOMAIN Rest(due)
      PROVE  /\ Rest(due)[i].of # {} /\ Rest(due)[i].of \subseteq Sent
             /\ \A n \in Rest(due)[i].of : KeyOf(n) = Rest(due)[i].key
  <2>1. i + due \in DOMAIN pending /\ Rest(due)[i] = pending[i + due]
    BY RestEntries
  <2>2. QED
    BY <2>1 DEF KeysInv, KeyedBy
<1>4. QED
  BY <1>2, <1>3 DEF KeyedBy

LEMMA CountedKeyed ==
    ASSUME NEW ps, KeyedBy(ps), NEW q, NEW i, NEW n \in Sent, NEW g, NEW own, Counted(ps, q, i, n, g, own)
    PROVE  KeyedBy(q)
<1>1. /\ i \in DOMAIN q /\ q[i].key = KeyOf(n)
      /\ \A j \in DOMAIN q \ {i} : j \in DOMAIN ps /\ q[j] = ps[j]
  BY DEF Counted
<1>2. /\ \A j \in DOMAIN q \ {i} : q[j].key # KeyOf(n)
      /\ n \in q[i].of /\ q[i].of \subseteq Sent /\ \A m \in q[i].of : KeyOf(m) = KeyOf(n)
  <2>1. CASE /\ i \in DOMAIN ps /\ ps[i].key = KeyOf(n)
             /\ q[i].of = ps[i].of \cup {n}
    BY <1>1, <2>1 DEF KeyedBy
  <2>2. CASE /\ i \notin DOMAIN ps /\ \A j \in DOMAIN ps : ps[j].key # KeyOf(n)
             /\ q[i].of = {n}
    BY <1>1, <2>2
  <2>3. QED
    BY <2>1, <2>2 DEF Counted
<1>3. ASSUME NEW a \in DOMAIN q, NEW b \in DOMAIN q, q[a].key = q[b].key PROVE a = b
  BY <1>1, <1>2, <1>3 DEF KeyedBy
<1>4. ASSUME NEW a \in DOMAIN q
      PROVE  q[a].of # {} /\ q[a].of \subseteq Sent /\ \A m \in q[a].of : KeyOf(m) = q[a].key
  <2>1. CASE a = i
    BY <1>1, <1>2, <2>1
  <2>2. CASE a # i
    BY <1>1, <2>2 DEF KeyedBy
  <2>3. QED
    BY <2>1, <2>2
<1>5. QED
  BY <1>3, <1>4 DEF KeyedBy

\* What was sent keeps its key.
LEMMA SameKeys ==
    ASSUME MergeState, NEW ps, KeyedBy(ps), Sent \subseteq Sent',
           \A n \in Sent : reports'[n].id = reports[n].id /\ reports'[n].alarm = reports[n].alarm,
           pending' = ps
    PROVE  KeysInv'
<1>1. \A n \in Sent : KeyOf(n)' = KeyOf(n)
  BY DEF KeyOf
<1>2. \A i \in DOMAIN ps : \A n \in ps[i].of : (KeyOf(n))' = ps[i].key
  <2>1. ASSUME NEW i \in DOMAIN ps, NEW n \in ps[i].of PROVE (KeyOf(n))' = ps[i].key
    <3>1. n \in Sent /\ KeyOf(n) = ps[i].key
      BY DEF KeyedBy
    <3>2. QED
      BY <1>1, <3>1
  <2>2. QED
    BY <2>1
<1>3. QED
  BY <1>2 DEF KeysInv, KeyedBy

LEMMA KeysKept ==
    ASSUME MergeState, SentInv, KeysInv, [MergeNext]_mergeVars
    PROVE  KeysInv'
<1>0. Len(reports) \in Nat
  BY MergeNumbers
<1>1. ASSUME NEW alarm \in BOOLEAN, Report(alarm) PROVE KeysInv'
  <2>1. Sent \subseteq Sent'
    <3>1. Len(reports') = Len(reports) + 1
      BY <1>1, ReportShape
    <3>2. QED
      BY <1>0, <3>1 DEF Sent
  <2>2. QED
    BY <1>1, <2>1, ReportShape, SameKeys DEF KeysInv
<1>2. ASSUME Transmit PROVE KeysInv'
  <2>1. Sent \subseteq Sent'
    BY <1>2, TransmitShape DEF Sent
  <2>2. QED
    BY <1>2, <2>1, TransmitShape, SameKeys DEF KeysInv
<1>3. ASSUME PairAnew \/ Forgets \/ Stays PROVE KeysInv'
  <2>1. UNCHANGED <<reports, pending>>
    BY <1>3, PairAnewShape DEF Forgets, Stays
  <2>2. QED
    BY <2>1, SameKeys DEF Sent, KeysInv
<1>4. ASSUME NEW g \in Listeners, NEW n, NEW own, NEW due, NEW i, ReceivedAs(g, n, own, due, i)
      PROVE  KeysInv'
  <2>1. /\ n \in Sent /\ due \in 0 .. Len(pending) /\ UNCHANGED reports
        /\ Counted(Rest(due), pending', i, n, g, own)
    BY <1>4 DEF ReceivedAs
  <2>2. KeyedBy(pending')
    BY <2>1, RestKeyed, CountedKeyed
  <2>3. QED
    BY <2>1, <2>2, SameKeys DEF Sent
<1>5. ASSUME Tick PROVE KeysInv'
  <2>1. PICK n \in 0 .. Len(pending) : pending' = Rest(n)
    BY <1>5, TickShape
  <2>2. UNCHANGED reports
    BY <1>5, TickShape
  <2>3. KeyedBy(pending')
    BY <2>1, RestKeyed
  <2>4. QED
    BY <2>2, <2>3, SameKeys DEF Sent
<1>6. ASSUME HandsOver PROVE KeysInv'
  BY <1>6 DEF HandsOver, KeysInv, KeyedBy
<1>7. QED
  BY <1>1, <1>2, <1>3, <1>4, <1>5, <1>6, MergeSteps

-------------------------------------------------------------------------------
\* What the owner delivered and nobody judged yet is pending, as delivered.
Open == history.fromOwner \ history.judged
HeldInv ==
    /\ \A n \in Open : \E i \in DOMAIN pending : n \in pending[i].of
    /\ \A i \in DOMAIN pending : pending[i].of \cap Open # {} => pending[i].delivered

\* The same of ps, for the reports of S.
HeldIn(ps, S) ==
    /\ \A n \in S : \E i \in DOMAIN ps : n \in ps[i].of
    /\ \A i \in DOMAIN ps : ps[i].of \cap S # {} => ps[i].delivered

LEMMA RestHeld ==
    ASSUME MergeState, HeldInv, NEW due \in 0 .. Len(pending)
    PROVE  HeldIn(Rest(due), history.fromOwner \ JudgedReports(due))
<1> DEFINE S == history.fromOwner \ JudgedReports(due)
<1>1. DOMAIN pending = 1 .. Len(pending) /\ Len(pending) \in Nat /\ due \in Nat
  BY LenProperties DEF MergeState
<1>2. S \subseteq Open /\ \A n \in S : \A i \in 1 .. due : n \notin pending[i].of
  BY DEF Open, JudgedReports
<1> HIDE DEF S
<1>3. ASSUME NEW n \in S PROVE \E i \in DOMAIN Rest(due) : n \in Rest(due)[i].of
  <2>1. PICK i \in DOMAIN pending : n \in pending[i].of
    BY <1>2 DEF HeldInv
  <2>2. i > due
    BY <1>1, <1>2, <2>1
  <2>3. i - due \in DOMAIN Rest(due) /\ Rest(due)[i - due] = pending[i]
    BY <2>2, RestEntries
  <2>4. QED
    BY <2>1, <2>3
<1>4. ASSUME NEW i \in DOMAIN Rest(due), Rest(due)[i].of \cap S # {} PROVE Rest(due)[i].delivered
  <2>1. i + due \in DOMAIN pending /\ Rest(due)[i] = pending[i + due]
    BY RestEntries
  <2>2. QED
    BY <1>2, <1>4, <2>1 DEF HeldInv
<1>5. QED
  BY <1>3, <1>4 DEF HeldIn, S

LEMMA CountedHeld ==
    ASSUME NEW ps, KeyedBy(ps), NEW S, HeldIn(ps, S),
           NEW q, NEW i, NEW n \in Sent, NEW g, NEW own \in BOOLEAN, Counted(ps, q, i, n, g, own),
           KeyedBy(q), NEW T, \A m \in T : m \in S \/ (m = n /\ own)
    PROVE  HeldIn(q, T)
<1>1. /\ i \in DOMAIN q /\ q[i].key = KeyOf(n) /\ n \in q[i].of
      /\ q[i].delivered = (own \/ (i \in DOMAIN ps /\ ps[i].delivered))
      /\ \A j \in DOMAIN q \ {i} : j \in DOMAIN ps /\ q[j] = ps[j]
      /\ \A j \in DOMAIN ps : j \in DOMAIN q
  BY DEF Counted
<1>2. \A j \in DOMAIN ps : ps[j].key = KeyOf(n) => j = i
  BY DEF Counted, KeyedBy
<1>3. \A j \in DOMAIN ps : ps[j].of \subseteq q[j].of
  <2>1. ASSUME NEW j \in DOMAIN ps, j # i PROVE ps[j].of \subseteq q[j].of
    BY <1>1, <2>1
  <2>2. ASSUME i \in DOMAIN ps PROVE ps[i].of \subseteq q[i].of
    BY <2>2 DEF Counted
  <2>3. QED
    BY <2>1, <2>2
<1>4. ASSUME NEW m \in T PROVE \E j \in DOMAIN q : m \in q[j].of
  <2>1. CASE m \in S
    <3>1. PICK j \in DOMAIN ps : m \in ps[j].of
      BY <2>1 DEF HeldIn
    <3>2. QED
      BY <1>1, <1>3, <3>1
  <2>2. CASE m = n
    BY <1>1, <2>2
  <2>3. QED
    BY <2>1, <2>2
<1>5. ASSUME NEW j \in DOMAIN q, NEW m \in q[j].of, m \in T PROVE q[j].delivered
  <2>1. CASE j # i
    <3>1. j \in DOMAIN ps /\ q[j] = ps[j]
      BY <1>1, <2>1
    <3>2. m # n
      <4>1. KeyOf(m) = ps[j].key
        BY <1>5, <3>1 DEF KeyedBy
      <4>2. QED
        BY <1>2, <2>1, <3>1, <4>1
    <3>3. m \in S
      BY <1>5, <3>2
    <3>4. QED
      BY <1>5, <3>1, <3>3 DEF HeldIn
  <2>2. CASE j = i /\ own
    BY <1>1, <2>2
  <2>3. CASE j = i /\ ~own
    <3>1. m \in S
      BY <1>5, <2>3
    <3>2. PICK l \in DOMAIN ps : m \in ps[l].of
      BY <3>1 DEF HeldIn
    <3>3. ps[l].delivered
      BY <3>1, <3>2 DEF HeldIn
    <3>4. KeyOf(m) = ps[l].key /\ KeyOf(m) = q[i].key
      BY <1>1, <1>5, <2>3, <3>2 DEF KeyedBy
    <3>5. l = i
      BY <1>1, <1>2, <3>2, <3>4
    <3>6. QED
      BY <1>1, <2>3, <3>2, <3>3, <3>5
  <2>4. QED
    BY <2>1, <2>2, <2>3
<1>6. \A j \in DOMAIN q : q[j].of \cap T # {} => q[j].delivered
  BY <1>5
<1>7. QED
  BY <1>4, <1>6 DEF HeldIn

LEMMA HeldKept ==
    ASSUME MergeState, SentInv, KeysInv, HeldInv, [MergeNext]_mergeVars
    PROVE  HeldInv'
<1>1. ASSUME NEW S, HeldIn(pending', S), Open' \subseteq S PROVE HeldInv'
  BY <1>1 DEF HeldIn, HeldInv
<1>2. HeldIn(pending, Open)
  BY DEF HeldIn, HeldInv
<1>3. ASSUME UNCHANGED pending, history'.fromOwner = history.fromOwner, history'.judged = history.judged
      PROVE  HeldInv'
  BY <1>3 DEF HeldInv, Open
<1>4. ASSUME \/ \E alarm \in BOOLEAN : Report(alarm)
             \/ Transmit \/ PairAnew \/ Forgets \/ Stays
      PROVE  HeldInv'
  <2>1. ASSUME NEW alarm \in BOOLEAN, Report(alarm) PROVE UNCHANGED <<history, pending>>
    BY <2>1, ReportShape
  <2>2. UNCHANGED pending /\ history'.fromOwner = history.fromOwner /\ history'.judged = history.judged
    BY <1>4, <2>1, TransmitShape, PairAnewShape DEF Forgets, Stays, MergeState, History
  <2>3. QED
    BY <1>3, <2>2
<1>5. ASSUME NEW g \in Listeners, NEW n, NEW own, NEW due, NEW i, ReceivedAs(g, n, own, due, i)
      PROVE  HeldInv'
  <2>1. /\ n \in Sent /\ own \in BOOLEAN /\ due \in 0 .. Len(pending)
        /\ Counted(Rest(due), pending', i, n, g, own)
        /\ history'.fromOwner = history.fromOwner \cup {m \in {n} : own}
        /\ history'.judged = JudgedReports(due)
    BY <1>5 DEF ReceivedAs
  <2> DEFINE S == history.fromOwner \ JudgedReports(due)
  <2>2. HeldIn(Rest(due), S) /\ KeyedBy(Rest(due))
    BY <2>1, RestHeld, RestKeyed
  <2>3. KeyedBy(pending')
    BY <2>1, <2>2, CountedKeyed
  <2>4. \A m \in Open' : m \in S \/ (m = n /\ own)
    BY <2>1 DEF Open
  <2> HIDE DEF S
  <2>5. HeldIn(pending', Open')
    BY <2>1, <2>2, <2>3, <2>4, CountedHeld
  <2>6. QED
    BY <1>1, <2>5
<1>6. ASSUME Tick PROVE HeldInv'
  <2>1. PICK n \in 0 .. Len(pending) :
           pending' = Rest(n) /\ history' = [history EXCEPT !.judged = JudgedReports(n), !.wrong = Verdicts(n)]
    BY <1>6, TickShape
  <2>2. Open' = history.fromOwner \ JudgedReports(n)
    BY <2>1 DEF Open, MergeState, History
  <2>3. QED
    BY <1>1, <2>1, <2>2, RestHeld
<1>7. ASSUME HandsOver PROVE HeldInv'
  <2>1. Open' = history.fromOwner \ JudgedReports(Len(pending)) /\ pending' = <<>>
    BY <1>7 DEF HandsOver, Open, MergeState, History
  <2>2. DOMAIN pending = 1 .. Len(pending)
    BY LenProperties DEF MergeState
  <2>3. Open' = {}
    BY <2>1, <2>2 DEF HeldInv, Open, JudgedReports
  <2>4. QED
    BY <2>1, <2>3 DEF HeldInv
<1>8. QED
  BY <1>4, <1>5, <1>6, <1>7, MergeSteps

-------------------------------------------------------------------------------
\* The copies of report n that gateway g has for the host.
PlacesOf(s, n) == {i \in DOMAIN s : s[i].n = n}
UnderWay(g, n) == Cardinality(PlacesOf(link[g], n))

LEMMA CopiesFinite ==
    ASSUME NEW s \in Seq(Copies), NEW n
    PROVE  IsFiniteSet(PlacesOf(s, n)) /\ Cardinality(PlacesOf(s, n)) \in Nat
<1>1. DOMAIN s = 1 .. Len(s) /\ Len(s) \in Nat
  BY LenProperties
<1>2. IsFiniteSet(1 .. Len(s))
  BY <1>1, FS_Interval
<1>3. IsFiniteSet(PlacesOf(s, n))
  BY <1>1, <1>2, FS_Subset DEF PlacesOf
<1>4. QED
  BY <1>3, FS_CardinalityType

LEMMA CopiesAppended ==
    ASSUME NEW s \in Seq(Copies), NEW e \in Copies, NEW n
    PROVE  Cardinality(PlacesOf(Append(s, e), n)) =
              IF e.n = n THEN Cardinality(PlacesOf(s, n)) + 1 ELSE Cardinality(PlacesOf(s, n))
<1> DEFINE l == Len(s) + 1
           t == Append(s, e)
<1>1. /\ Len(s) \in Nat /\ DOMAIN s = 1 .. Len(s) /\ DOMAIN t = 1 .. l
      /\ \A i \in DOMAIN s : t[i] = s[i]
      /\ t[l] = e
  BY LinkAppend
<1>2. l \notin DOMAIN s /\ DOMAIN t = DOMAIN s \cup {l}
  BY <1>1
<1> HIDE DEF l, t
<1>3. CASE e.n = n
  <2>1. PlacesOf(t, n) = PlacesOf(s, n) \cup {l} /\ l \notin PlacesOf(s, n)
    BY <1>1, <1>2, <1>3 DEF PlacesOf
  <2>2. QED
    BY <1>3, <2>1, CopiesFinite, FS_AddElement DEF t
<1>4. CASE e.n # n
  <2>1. PlacesOf(t, n) = PlacesOf(s, n)
    BY <1>1, <1>2, <1>4 DEF PlacesOf
  <2>2. QED
    BY <1>4, <2>1 DEF t
<1>5. QED
  BY <1>3, <1>4

LEMMA CopiesTaken ==
    ASSUME MergeState, NEW g \in Listeners, link[g] # <<>>, NEW n
    PROVE  Cardinality(PlacesOf(Tail(link[g]), n)) =
              IF link[g][1].n = n THEN Cardinality(PlacesOf(link[g], n)) - 1
              ELSE Cardinality(PlacesOf(link[g], n))
<1> DEFINE s == link[g]
           t == Tail(s)
           S == PlacesOf(s, n) \ {1}
           T == PlacesOf(t, n)
           f == [i \in S |-> i - 1]
<1>1. /\ s \in Seq(Copies) /\ t \in Seq(Copies) /\ 1 \in DOMAIN s
      /\ \A i \in DOMAIN t : i \in Nat /\ i + 1 \in DOMAIN s /\ t[i] = s[i + 1]
      /\ \A i \in DOMAIN s \ {1} : i \in Nat /\ i - 1 \in DOMAIN t /\ t[i - 1] = s[i]
  BY LinkTail
<1>2. \A i \in DOMAIN t : i + 1 # 1
  <2>1. DOMAIN t = 1 .. Len(t) /\ Len(t) \in Nat
    BY <1>1, LenProperties
  <2>2. QED
    BY <2>1
<1> HIDE DEF s, t
<1>3. f \in Bijection(S, T)
  <2>1. f \in [S -> T]
    BY <1>1 DEF PlacesOf
  <2>2. \A a, b \in S : f[a] = f[b] => a = b
    <3>1. ASSUME NEW a \in S, NEW b \in S, f[a] = f[b] PROVE a = b
      <4>1. a \in Nat /\ b \in Nat /\ a - 1 = b - 1
        BY <1>1, <3>1 DEF PlacesOf
      <4>2. QED
        BY <4>1
    <3>2. QED
      BY <3>1
  <2>3. \A j \in T : \E i \in S : f[i] = j
    <3>1. ASSUME NEW j \in T PROVE \E i \in S : f[i] = j
      <4>1. j \in Nat /\ j + 1 \in DOMAIN s /\ t[j] = s[j + 1] /\ j + 1 # 1 /\ t[j].n = n
        BY <1>1, <1>2 DEF PlacesOf
      <4>2. j + 1 \in S
        BY <4>1 DEF PlacesOf
      <4>3. f[j + 1] = j
        BY <4>1, <4>2
      <4>4. QED
        BY <4>2, <4>3
    <3>2. QED
      BY <3>1
  <2> HIDE DEF f, S, T
  <2>4. QED
    BY <2>1, <2>2, <2>3 DEF Bijection, Injection, Surjection, IsInjective
<1>4. IsFiniteSet(S) /\ Cardinality(S) = IF 1 \in PlacesOf(s, n) THEN Cardinality(PlacesOf(s, n)) - 1
                                         ELSE Cardinality(PlacesOf(s, n))
  BY <1>1, CopiesFinite, FS_RemoveElement
<1>5. Cardinality(T) = Cardinality(S)
  <2> HIDE DEF f, S, T
  <2>1. ExistsBijection(S, T)
    BY <1>3 DEF ExistsBijection
  <2>2. QED
    BY <1>4, <2>1, FS_Bijection
<1>6. 1 \in PlacesOf(s, n) <=> s[1].n = n
  BY <1>1 DEF PlacesOf
<1>7. QED
  BY <1>4, <1>5, <1>6 DEF s, t

\* The copies counted of a report that is alone behind its key, and those under
\* way, were sent.
CopiesInv ==
    /\ \A g \in Listeners, n \in Sent : UnderWay(g, n) <= reports[n].copies
    /\ \A i \in DOMAIN pending, n \in Sent, g \in Listeners :
          pending[i].of = {n} => pending[i].copies[g] + UnderWay(g, n) <= reports[n].copies

\* The same of ps.
WithinSent(ps) ==
    \A i \in DOMAIN ps, n \in Sent, g \in Listeners :
       ps[i].of = {n} => ps[i].copies[g] + UnderWay(g, n) <= reports[n].copies

LEMMA CopiesNumbers ==
    ASSUME MergeState
    PROVE  /\ \A g \in Listeners, n \in Sent : UnderWay(g, n) \in Nat
           /\ \A n \in Sent : reports[n].copies \in Nat
           /\ \A i \in DOMAIN pending, g \in Listeners : pending[i].copies[g] \in Nat
<1>1. \A g \in Listeners : link[g] \in Seq(Copies)
  BY DEF MergeState
<1>2. \A g \in Listeners, n \in Sent : UnderWay(g, n) \in Nat
  BY <1>1, CopiesFinite DEF UnderWay
<1>3. \A n \in Sent : reports[n].copies \in Nat
  BY MergeNumbers DEF Reports
<1>4. \A i \in DOMAIN pending : pending[i] \in Pendings
  BY LenProperties DEF MergeState
<1>5. QED
  BY <1>2, <1>3, <1>4 DEF Pendings

\* What is under way does not change unless a copy is sent or received.
LEMMA CopiesCarried ==
    ASSUME MergeState, MergeState', CopiesInv, NEW ps, WithinSent(ps), pending' = ps, UNCHANGED reports,
           \A g \in Listeners, n \in Sent : UnderWay(g, n)' = UnderWay(g, n)
    PROVE  CopiesInv'
<1>1. Sent' = Sent
  BY DEF Sent
<1>2. QED
  BY <1>1 DEF CopiesInv, WithinSent

LEMMA RestWithin ==
    ASSUME MergeState, CopiesInv, NEW due \in 0 .. Len(pending)
    PROVE  WithinSent(Rest(due))
<1>1. ASSUME NEW i \in DOMAIN Rest(due), NEW n \in Sent, NEW g \in Listeners, Rest(due)[i].of = {n}
      PROVE  Rest(due)[i].copies[g] + UnderWay(g, n) <= reports[n].copies
  <2>1. i + due \in DOMAIN pending /\ Rest(due)[i] = pending[i + due]
    BY RestEntries
  <2>2. QED
    BY <1>1, <2>1 DEF CopiesInv
<1>2. QED
  BY <1>1 DEF WithinSent

LEMMA CopiesKept ==
    ASSUME MergeState, MergeState', SentInv, KeysInv, CopiesInv, [MergeNext]_mergeVars
    PROVE  CopiesInv'
<1>0. /\ Len(reports) \in Nat /\ Sent = 1 .. Len(reports)
      /\ \A g \in Listeners : link[g] \in Seq(Copies)
      /\ WithinSent(pending)
  <2>1. Len(reports) \in Nat /\ Sent = 1 .. Len(reports)
    BY MergeNumbers DEF Sent
  <2>2. \A g \in Listeners : link[g] \in Seq(Copies)
    BY DEF MergeState
  <2>3. WithinSent(pending)
    BY DEF CopiesInv, WithinSent
  <2>4. QED
    BY <2>1, <2>2, <2>3
<1>1. ASSUME NEW alarm \in BOOLEAN, Report(alarm) PROVE CopiesInv'
  <2> DEFINE l == Len(reports) + 1
  <2>1. /\ Len(reports') = l /\ \A n \in Sent : reports'[n] = reports[n]
        /\ reports'[l].copies = 0 /\ UNCHANGED <<link, pending>>
    <3>1. /\ Len(reports') = l /\ \A n \in Sent : reports'[n] = reports[n]
          /\ reports'[l] = [alarm |-> alarm, id |-> counter', copies |-> 0]
          /\ UNCHANGED <<link, pending>>
      BY <1>1, ReportShape
    <3> HIDE DEF l
    <3>2. QED
      BY <3>1
  <2> HIDE DEF l
  <2>2. Sent' = Sent \cup {l} /\ l \notin Sent /\ l # 0
    BY <1>0, <2>1 DEF Sent, l
  <2>3. \A g \in Listeners : \A n : UnderWay(g, n)' = UnderWay(g, n)
    BY <2>1 DEF UnderWay, PlacesOf
  <2>4. \A g \in Listeners : UnderWay(g, l) = 0
    <3>1. \A g \in Listeners : PlacesOf(link[g], l) = {}
      BY <2>2 DEF SentInv, PlacesOf
    <3>2. QED
      BY <3>1, FS_EmptySet DEF UnderWay
  <2>5. \A i \in DOMAIN pending : pending[i].of # {l}
    BY <2>2 DEF KeysInv, KeyedBy
  <2>6. \A g \in Listeners, n \in Sent' : UnderWay(g, n)' <= reports'[n].copies
    <3>1. ASSUME NEW g \in Listeners, NEW n \in Sent' PROVE UnderWay(g, n)' <= reports'[n].copies
      <4>1. CASE n \in Sent
        BY <2>1, <2>3, <4>1 DEF CopiesInv
      <4>2. CASE n = l
        BY <2>1, <2>3, <2>4, <4>2
      <4>3. QED
        BY <2>2, <4>1, <4>2
    <3>2. QED
      BY <3>1
  <2>7. \A i \in DOMAIN pending', n \in Sent', g \in Listeners :
          pending'[i].of = {n} => pending'[i].copies[g] + UnderWay(g, n)' <= reports'[n].copies
    <3>1. ASSUME NEW i \in DOMAIN pending', NEW n \in Sent', NEW g \in Listeners, pending'[i].of = {n}
          PROVE  pending'[i].copies[g] + UnderWay(g, n)' <= reports'[n].copies
      <4>1. n \in Sent
        BY <2>1, <2>2, <2>5, <3>1
      <4>2. QED
        BY <2>1, <2>3, <3>1, <4>1 DEF CopiesInv
    <3>2. QED
      BY <3>1
  <2>8. QED
    BY <2>6, <2>7 DEF CopiesInv
<1>2. ASSUME Transmit PROVE CopiesInv'
  <2> DEFINE l == Len(reports)
  <2>1. /\ l \in Sent /\ Sent' = Sent /\ UNCHANGED pending
        /\ \A n \in Sent : reports'[n].copies = IF n = l THEN reports[n].copies + 1 ELSE reports[n].copies
    BY <1>2, TransmitShape DEF Sent
  <2>2. ASSUME NEW g \in Listeners, NEW n \in Sent
        PROVE  UnderWay(g, n)' = UnderWay(g, n) \/ (n = l /\ UnderWay(g, n)' = UnderWay(g, n) + 1)
    <3> DEFINE e == [n |-> l, own |-> g = owner]
    <3>1. e \in Copies /\ e.n = l
      BY <2>1, MergeNumbers DEF Copies
    <3>2. link'[g] = link[g] \/ link'[g] = Append(link[g], e)
      BY <1>2, TransmitShape
    <3> HIDE DEF e
    <3>3. CASE link'[g] = link[g]
      BY <3>3 DEF UnderWay, PlacesOf
    <3>4. CASE link'[g] = Append(link[g], e)
      <4>1. UnderWay(g, n)' = Cardinality(PlacesOf(Append(link[g], e), n))
        BY <3>4 DEF UnderWay, PlacesOf
      <4>2. Cardinality(PlacesOf(Append(link[g], e), n)) =
               IF e.n = n THEN Cardinality(PlacesOf(link[g], n)) + 1 ELSE Cardinality(PlacesOf(link[g], n))
        BY <1>0, <3>1, CopiesAppended
      <4>3. QED
        BY <3>1, <4>1, <4>2 DEF UnderWay
    <3>5. QED
      BY <3>2, <3>3, <3>4
  <2>3. \A g \in Listeners, n \in Sent : UnderWay(g, n) \in Nat /\ reports[n].copies \in Nat
    BY CopiesNumbers
  <2> HIDE DEF l
  <2>4. \A g \in Listeners, n \in Sent : UnderWay(g, n)' <= reports'[n].copies
    <3>1. ASSUME NEW g \in Listeners, NEW n \in Sent PROVE UnderWay(g, n)' <= reports'[n].copies
      <4>1. UnderWay(g, n) <= reports[n].copies
        BY DEF CopiesInv
      <4>2. QED
        BY <2>1, <2>2, <2>3, <4>1
    <3>2. QED
      BY <3>1
  <2>5. \A i \in DOMAIN pending, n \in Sent, g \in Listeners :
          pending[i].of = {n} => pending[i].copies[g] + UnderWay(g, n)' <= reports'[n].copies
    <3>1. ASSUME NEW i \in DOMAIN pending, NEW n \in Sent, NEW g \in Listeners, pending[i].of = {n}
          PROVE  pending[i].copies[g] + UnderWay(g, n)' <= reports'[n].copies
      <4>1. pending[i].copies[g] + UnderWay(g, n) <= reports[n].copies /\ pending[i].copies[g] \in Nat
        BY <3>1, CopiesNumbers DEF CopiesInv
      <4>2. QED
        BY <2>1, <2>2, <2>3, <4>1
    <3>2. QED
      BY <3>1
  <2>6. QED
    BY <2>1, <2>4, <2>5 DEF CopiesInv
<1>3. ASSUME PairAnew PROVE CopiesInv'
  <2> DEFINE e == [n |-> 0, own |-> TRUE]
  <2>1. e \in Copies /\ e.n = 0 /\ link' = [link EXCEPT ![owner] = Append(@, e)] /\ UNCHANGED <<reports, pending>>
    BY <1>3, PairAnewShape DEF Copies
  <2> HIDE DEF e
  <2>2. ASSUME NEW g \in Listeners, NEW n \in Sent PROVE UnderWay(g, n)' = UnderWay(g, n)
    <3>1. CASE g = owner
      <4>1. link'[g] = Append(link[g], e) /\ e.n # n
        BY <1>0, <2>1, <3>1 DEF MergeState
      <4>2. UnderWay(g, n)' = Cardinality(PlacesOf(Append(link[g], e), n))
        BY <4>1 DEF UnderWay, PlacesOf
      <4>3. QED
        BY <1>0, <2>1, <4>1, <4>2, CopiesAppended DEF UnderWay
    <3>2. CASE g # owner
      <4>1. link'[g] = link[g]
        BY <2>1, <3>2 DEF MergeState
      <4>2. QED
        BY <4>1 DEF UnderWay, PlacesOf
    <3>3. QED
      BY <3>1, <3>2
  <2>3. QED
    BY <1>0, <2>1, <2>2, CopiesCarried
<1>4. ASSUME NEW g \in Listeners, link[g] # <<>>, link' = [link EXCEPT ![g] = Tail(@)],
             NEW h \in Listeners, NEW n
      PROVE  UnderWay(h, n)' = IF h = g /\ link[g][1].n = n THEN UnderWay(h, n) - 1 ELSE UnderWay(h, n)
  <2>1. CASE h = g
    <3>1. link'[h] = Tail(link[g])
      BY <1>4, <2>1 DEF MergeState
    <3>2. UnderWay(h, n)' = Cardinality(PlacesOf(Tail(link[g]), n))
      BY <3>1 DEF UnderWay, PlacesOf
    <3>3. QED
      BY <1>4, <2>1, <3>2, CopiesTaken DEF UnderWay
  <2>2. CASE h # g
    <3>1. link'[h] = link[h]
      BY <1>4, <2>2 DEF MergeState
    <3>2. QED
      BY <2>2, <3>1 DEF UnderWay, PlacesOf
  <2>3. QED
    BY <2>1, <2>2
<1>5. ASSUME NEW g \in Listeners, NEW n, NEW own, NEW due, NEW i, ReceivedAs(g, n, own, due, i)
      PROVE  CopiesInv'
  <2>1. /\ n \in Sent /\ due \in 0 .. Len(pending) /\ link[g] # <<>> /\ link[g][1].n = n
        /\ link' = [link EXCEPT ![g] = Tail(@)] /\ UNCHANGED reports
        /\ Counted(Rest(due), pending', i, n, g, own)
    BY <1>5 DEF ReceivedAs
  <2>2. /\ Sent' = Sent
        /\ \A h \in Listeners, m \in Sent : /\ UnderWay(h, m) \in Nat /\ reports[m].copies \in Nat
                                            /\ UnderWay(h, m)' \in Nat
    <3>1. Sent' = Sent
      BY <2>1 DEF Sent
    <3>2. \A h \in Listeners : link'[h] \in Seq(Copies)
      BY DEF MergeState
    <3>3. \A h \in Listeners, m \in Sent : UnderWay(h, m)' \in Nat
      BY <3>2, CopiesFinite DEF UnderWay
    <3>4. QED
      BY <3>1, <3>3, CopiesNumbers
  <2>3. \A h \in Listeners, m \in Sent :
           UnderWay(h, m)' = IF h = g /\ n = m THEN UnderWay(h, m) - 1 ELSE UnderWay(h, m)
    BY <1>4, <2>1
  <2>4. \A h \in Listeners, m \in Sent : UnderWay(h, m)' <= reports[m].copies
    <3>1. ASSUME NEW h \in Listeners, NEW m \in Sent PROVE UnderWay(h, m)' <= reports[m].copies
      <4>1. UnderWay(h, m) <= reports[m].copies
        BY DEF CopiesInv
      <4>2. QED
        BY <2>2, <2>3, <4>1
    <3>2. QED
      BY <3>1
  <2>5. WithinSent(Rest(due)) /\ KeyedBy(Rest(due))
    BY <2>1, RestWithin, RestKeyed
  <2>6. ASSUME NEW j \in DOMAIN pending', NEW m \in Sent, NEW h \in Listeners, pending'[j].of = {m}
        PROVE  pending'[j].copies[h] + UnderWay(h, m)' <= reports[m].copies
    <3>0. pending'[j].copies[h] \in Nat
      <4>1. pending'[j] \in Pendings
        BY <2>6, LenProperties DEF MergeState
      <4>2. QED
        BY <4>1 DEF Pendings
    <3>1. CASE j # i
      <4>1. j \in DOMAIN Rest(due) /\ pending'[j] = Rest(due)[j]
        BY <2>1, <2>6, <3>1 DEF Counted
      <4>2. pending'[j].copies[h] + UnderWay(h, m) <= reports[m].copies
        BY <2>5, <2>6, <4>1 DEF WithinSent
      <4>3. QED
        BY <2>2, <2>3, <3>0, <4>2
    <3>2. CASE j = i
      <4>1. m = n
        BY <2>1, <2>6, <3>2 DEF Counted
      <4>2. CASE /\ i \in DOMAIN Rest(due) /\ Rest(due)[i].key = KeyOf(n)
                 /\ pending'[i].of = Rest(due)[i].of \cup {n}
                 /\ pending'[i].copies = [Rest(due)[i].copies EXCEPT ![g] = @ + 1]
        <5>1. Rest(due)[i].of = {n}
          BY <2>5, <2>6, <3>2, <4>1, <4>2 DEF KeyedBy
        <5>2. Rest(due)[i].copies[h] + UnderWay(h, n) <= reports[n].copies
          BY <2>1, <2>5, <4>2, <5>1 DEF WithinSent
        <5>3. Rest(due)[i].copies \in [Listeners -> Nat]
          <6>1. Rest(due) \in Seq(Pendings)
            BY <2>1, RestEntries
          <6>2. Rest(due)[i] \in Pendings
            BY <4>2, <6>1, LenProperties
          <6>3. QED
            BY <6>2 DEF Pendings
        <5>4. pending'[j].copies[h] = IF h = g THEN Rest(due)[i].copies[h] + 1 ELSE Rest(due)[i].copies[h]
          BY <3>2, <4>2, <5>3
        <5>5. QED
          BY <2>2, <2>3, <4>1, <5>2, <5>3, <5>4
      <4>3. CASE pending'[i].copies = [x \in Listeners |-> IF x = g THEN 1 ELSE 0]
        <5>1. pending'[j].copies[h] = IF h = g THEN 1 ELSE 0
          BY <3>2, <4>3
        <5>2. UnderWay(h, n) <= reports[n].copies
          BY <2>1 DEF CopiesInv
        <5>3. QED
          BY <2>1, <2>2, <2>3, <4>1, <5>1, <5>2
      <4>4. QED
        BY <2>1, <4>2, <4>3 DEF Counted
    <3>3. QED
      BY <3>1, <3>2
  <2>7. QED
    BY <2>1, <2>2, <2>4, <2>6 DEF CopiesInv
<1>6. ASSUME Tick PROVE CopiesInv'
  <2>1. PICK n \in 0 .. Len(pending) : pending' = Rest(n)
    BY <1>6, TickShape
  <2>2. UNCHANGED <<reports, link>>
    BY <1>6, TickShape
  <2>3. \A g \in Listeners, n1 \in Sent : UnderWay(g, n1)' = UnderWay(g, n1)
    BY <2>2 DEF UnderWay, PlacesOf
  <2>4. WithinSent(Rest(n))
    BY <2>1, RestWithin
  <2>5. QED
    BY <2>1, <2>2, <2>3, <2>4, CopiesCarried
<1>7. ASSUME Forgets PROVE CopiesInv'
  <2>1. UNCHANGED <<reports, pending>>
    BY <1>7 DEF Forgets
  <2>2. CASE UNCHANGED link
    <3>1. \A g \in Listeners, n \in Sent : UnderWay(g, n)' = UnderWay(g, n)
      BY <2>2 DEF UnderWay, PlacesOf
    <3>2. QED
      BY <1>0, <2>1, <3>1, CopiesCarried
  <2>3. ASSUME NEW g \in Listeners, link[g] # <<>>, link' = [link EXCEPT ![g] = Tail(@)] PROVE CopiesInv'
    <3>1. \A h \in Listeners, m \in Sent : UnderWay(h, m)' <= UnderWay(h, m) /\ UnderWay(h, m)' \in Int
      <4>1. ASSUME NEW h \in Listeners, NEW m \in Sent
            PROVE  UnderWay(h, m)' <= UnderWay(h, m) /\ UnderWay(h, m)' \in Int
        <5>1. UnderWay(h, m)' = UnderWay(h, m) - 1 \/ UnderWay(h, m)' = UnderWay(h, m)
          BY <1>4, <2>3
        <5>2. UnderWay(h, m) \in Nat
          BY CopiesNumbers
        <5>3. QED
          BY <5>1, <5>2
      <4>2. QED
        BY <4>1
    <3>2. Sent' = Sent
      BY <2>1 DEF Sent
    <3>3. \A h \in Listeners, m \in Sent : UnderWay(h, m)' <= reports[m].copies
      <4>1. ASSUME NEW h \in Listeners, NEW m \in Sent PROVE UnderWay(h, m)' <= reports[m].copies
        <5>1. UnderWay(h, m) <= reports[m].copies /\ UnderWay(h, m) \in Nat /\ reports[m].copies \in Nat
          BY CopiesNumbers DEF CopiesInv
        <5>2. QED
          BY <3>1, <5>1
      <4>2. QED
        BY <4>1
    <3>4. \A i \in DOMAIN pending, m \in Sent, h \in Listeners :
             pending[i].of = {m} => pending[i].copies[h] + UnderWay(h, m)' <= reports[m].copies
      <4>1. ASSUME NEW i \in DOMAIN pending, NEW m \in Sent, NEW h \in Listeners, pending[i].of = {m}
            PROVE  pending[i].copies[h] + UnderWay(h, m)' <= reports[m].copies
        <5>1. /\ pending[i].copies[h] + UnderWay(h, m) <= reports[m].copies
              /\ UnderWay(h, m) \in Nat /\ reports[m].copies \in Nat /\ pending[i].copies[h] \in Nat
          BY <4>1, CopiesNumbers DEF CopiesInv
        <5>2. QED
          BY <3>1, <5>1
      <4>2. QED
        BY <4>1
    <3>5. QED
      BY <2>1, <3>2, <3>3, <3>4 DEF CopiesInv
  <2>4. QED
    BY <1>7, <2>2, <2>3 DEF Forgets
<1>8. ASSUME HandsOver PROVE CopiesInv'
  <2>1. UNCHANGED <<reports, link>> /\ pending' = <<>>
    BY <1>8 DEF HandsOver
  <2>2. \A g \in Listeners, n \in Sent : UnderWay(g, n)' = UnderWay(g, n)
    BY <2>1 DEF UnderWay, PlacesOf
  <2>3. WithinSent(<<>>)
    BY DEF WithinSent
  <2>4. QED
    BY <2>1, <2>2, <2>3, CopiesCarried
<1>9. ASSUME Stays PROVE CopiesInv'
  <2>1. UNCHANGED <<reports, link, pending>>
    BY <1>9 DEF Stays
  <2>2. \A g \in Listeners, n \in Sent : UnderWay(g, n)' = UnderWay(g, n)
    BY <2>1 DEF UnderWay, PlacesOf
  <2>3. QED
    BY <1>0, <2>1, <2>2, CopiesCarried
<1>10. QED
  BY <1>1, <1>2, <1>3, <1>5, <1>6, <1>7, <1>8, <1>9, MergeSteps

-------------------------------------------------------------------------------
\* No verdict is undeserved but those the histories name.
LEMMA VerdictsDeserved ==
    ASSUME MergeState, KeysInv, HeldInv, CopiesInv, NEW i \in DOMAIN pending
    PROVE  "unjust" \notin Undeserved(pending[i]) /\ "miscounted" \notin Undeserved(pending[i])
<1> DEFINE p == pending[i]
<1>1. p \in Pendings /\ p.of # {} /\ p.of \subseteq Sent
  BY LenProperties DEF MergeState, KeysInv, KeyedBy
<1>2. ASSUME "unjust" \in Undeserved(p) PROVE FALSE
  <2>1. Missed(p) /\ p.of \subseteq history.fromOwner /\ p.of \cap history.judged = {}
    BY <1>2 DEF Undeserved
  <2>2. p.of \cap Open # {}
    BY <1>1, <2>1 DEF Open
  <2>3. p.delivered
    BY <2>2 DEF HeldInv
  <2>4. QED
    BY <2>1, <2>3 DEF Missed
<1>3. ASSUME "miscounted" \in Undeserved(p) PROVE FALSE
  <2>1. /\ Overheard(p, BurstCopies) /\ \A n \in p.of : reports[n].copies < BurstCopies
        /\ ~(Cardinality(p.of) > 1)
    BY <1>3 DEF Undeserved
  <2>2. PICK g \in Listeners : p.copies[g] >= BurstCopies
    BY <2>1 DEF Overheard
  <2>3. PICK n \in p.of : p.of = {n}
    <3>1. IsFiniteSet(p.of)
      <4>1. IsFiniteSet(Sent)
        BY MergeNumbers, FS_Interval DEF Sent
      <4>2. QED
        BY <1>1, <4>1, FS_Subset
    <3>2. PICK n \in p.of : TRUE
      BY <1>1
    <3>3. /\ IsFiniteSet(p.of \ {n})
          /\ Cardinality(p.of \ {n}) = Cardinality(p.of) - 1
          /\ Cardinality(p.of) \in Nat /\ Cardinality(p.of \ {n}) \in Nat
      BY <3>1, <3>2, FS_RemoveElement, FS_CardinalityType
    <3>4. Cardinality(p.of \ {n}) = 0
      BY <2>1, <3>3
    <3>5. p.of \ {n} = {}
      BY <3>3, <3>4, FS_EmptySet
    <3>6. QED
      BY <3>2, <3>5
  <2>4. /\ n \in Sent /\ p.copies[g] + UnderWay(g, n) <= reports[n].copies
        /\ UnderWay(g, n) \in Nat /\ reports[n].copies \in Nat /\ p.copies[g] \in Nat
    BY <1>1, <2>3, CopiesNumbers DEF CopiesInv
  <2>5. BurstCopies \in Nat /\ reports[n].copies < BurstCopies
    BY <2>1, <2>3, MergingAssumption
  <2>6. QED
    BY <2>2, <2>4, <2>5
<1>4. QED
  BY <1>2, <1>3

LEMMA EvidenceKept ==
    ASSUME MergeState, SentInv, KeysInv, HeldInv, CopiesInv, EvidenceTrue, [MergeNext]_mergeVars
    PROVE  EvidenceTrue'
<1>0. DOMAIN pending = 1 .. Len(pending) /\ Len(pending) \in Nat
  BY LenProperties DEF MergeState
<1>1. ASSUME history'.wrong = history.wrong PROVE EvidenceTrue'
  BY <1>1 DEF EvidenceTrue, MissedTrue, BurstTrue
<1>2. ASSUME NEW due \in 0 .. Len(pending) PROVE Verdicts(due) \cap {"unjust", "miscounted"} = {}
  <2>1. \A i \in 1 .. due : i \in DOMAIN pending
    BY <1>0
  <2>2. \A i \in 1 .. due : /\ "unjust" \notin Undeserved(pending[i])
                            /\ "miscounted" \notin Undeserved(pending[i])
    BY <2>1, VerdictsDeserved
  <2>3. QED
    BY <2>2 DEF Verdicts, EvidenceTrue, MissedTrue, BurstTrue
<1>3. ASSUME NEW g \in Listeners, NEW n, NEW own, NEW due, NEW i, ReceivedAs(g, n, own, due, i)
      PROVE  EvidenceTrue'
  <2>1. /\ due \in 0 .. Len(pending)
        /\ history'.wrong = Verdicts(due) \cup IF Duplicate(n) THEN Dropped(n) ELSE Passed(n)
    BY <1>3 DEF ReceivedAs
  <2>2. Passed(n) \subseteq {"repeated"} /\ Dropped(n) \subseteq {"dropped", "collided"}
    BY DEF Passed, Dropped
  <2>3. QED
    BY <1>2, <2>1, <2>2 DEF EvidenceTrue, MissedTrue, BurstTrue
<1>4. ASSUME Tick PROVE EvidenceTrue'
  <2>1. \E n \in 0 .. Len(pending) : history'.wrong = Verdicts(n)
    BY <1>4, TickShape DEF MergeState, History
  <2>2. QED
    BY <1>2, <2>1 DEF EvidenceTrue, MissedTrue, BurstTrue
<1>5. ASSUME \/ \E alarm \in BOOLEAN : Report(alarm)
             \/ Transmit \/ PairAnew \/ Forgets \/ HandsOver \/ Stays
      PROVE  history'.wrong = history.wrong
  <2>1. ASSUME NEW alarm \in BOOLEAN, Report(alarm) PROVE history' = history
    BY <2>1, ReportShape
  <2>2. QED
    BY <1>5, <2>1, TransmitShape, PairAnewShape DEF Forgets, HandsOver, Stays, MergeState, History
<1>6. QED
  BY <1>1, <1>3, <1>4, <1>5, MergeSteps

\* The inductive invariants of the stream and of the evidence.
StreamIInv == MergeState /\ SentInv /\ CountsInv /\ LastInv /\ InOrder /\ NoneDropped
EvidenceIInv == MergeState /\ SentInv /\ KeysInv /\ HeldInv /\ CopiesInv /\ EvidenceTrue

LEMMA MergeInvInit == ASSUME MergeInit PROVE StreamIInv /\ EvidenceIInv
<1>1. MergeState /\ SentInv
  BY MergeStateInit
<1>2. Sent = {} /\ reports = <<>>
  BY EmptySeq DEF MergeInit, Sent
<1>3. CountsInv
  BY <1>2 DEF CountsInv
<1>4. LastInv /\ InOrder /\ NoneDropped /\ EvidenceTrue
  BY DEF MergeInit, LastInv, InOrder, NoneDropped, EvidenceTrue, MissedTrue, BurstTrue
<1>5. KeysInv /\ HeldInv
  BY DEF MergeInit, KeysInv, KeyedBy, HeldInv, Open
<1>6. CopiesInv
  BY <1>2 DEF CopiesInv
<1>7. QED
  BY <1>1, <1>3, <1>4, <1>5, <1>6 DEF StreamIInv, EvidenceIInv

\* The stream of events is in order and says nothing twice, whatever order the
\* gateways' copies of the sensor's reports come in (Tracker::is_duplicate).
THEOREM StreamInOrder == MergeSpec => []InOrder
<1>1. MergeInit => StreamIInv
  BY MergeInvInit
<1>2. StreamIInv /\ [MergeNext]_mergeVars => StreamIInv'
  BY MergeStateKept, SentKept, CountsKept, LastKept, StreamKept DEF StreamIInv
<1>3. StreamIInv => InOrder
  BY DEF StreamIInv
<1>4. QED
  BY <1>1, <1>2, <1>3, PTL DEF MergeSpec

\* And no alarm is dropped as stale unless it, or a newer one, was passed on already
\* (or a pairing is under way, or one from before the counter started over came late).
THEOREM StreamComplete == MergeSpec => []NoneDropped
<1>1. MergeInit => StreamIInv
  BY MergeInvInit
<1>2. StreamIInv /\ [MergeNext]_mergeVars => StreamIInv'
  BY MergeStateKept, SentKept, CountsKept, LastKept, StreamKept DEF StreamIInv
<1>3. StreamIInv => NoneDropped
  BY DEF StreamIInv
<1>4. QED
  BY <1>1, <1>2, <1>3, PTL DEF MergeSpec

\* What the host holds against the owner, it has from what was sent and received
\* (Tracker::note_copy, Tracker::settle).
THEOREM EvidenceStaysTrue == MergeSpec => []EvidenceTrue
<1>1. MergeInit => EvidenceIInv
  BY MergeInvInit DEF EvidenceIInv
<1>2. EvidenceIInv /\ [MergeNext]_mergeVars => EvidenceIInv'
  BY MergeStateKept, SentKept, KeysKept, HeldKept, CopiesKept, EvidenceKept DEF EvidenceIInv
<1>3. EvidenceIInv => EvidenceTrue
  BY DEF EvidenceIInv
<1>4. QED
  BY <1>1, <1>2, <1>3, PTL DEF MergeSpec

-------------------------------------------------------------------------------
(* The types of the rest of the state.  The evidence is a fold over what is     *)
(* judged, a recursion over sets: what the fold computes is shown by a set of   *)
(* the least size for which it fails.                                           *)

\* Among naturals there is a least one.
LEMMA Least ==
    ASSUME NEW T \in SUBSET Nat, T # {}
    PROVE \E n \in T : \A m \in T : n <= m
<1>1. IsWellFoundedOn(OpToRel(<, Nat), Nat)
  BY NatLessThanWellFounded
<1>2. PICK n \in T : \A m \in T : ~(<<m, n>> \in OpToRel(<, Nat))
  BY <1>1, WFMin
<1>3. \A m \in T : ~(m < n)
  <2>1. SUFFICES ASSUME NEW m \in T, m < n PROVE FALSE
    OBVIOUS
  <2>2. m \in Nat /\ n \in Nat
    OBVIOUS
  <2>3. <<m, n>> \in OpToRel(<, Nat)
    BY <2>1, <2>2 DEF OpToRel
  <2>4. QED
    BY <1>2, <2>3
<1>4. QED
  BY <1>3

\* Elements of D, those that are defined by what is smaller in their rest.
Recursive(D, V, more, measure, rest, base, step) ==
    /\ more \in SUBSET D /\ measure \in [D -> Nat] /\ rest \in [more -> D]
    /\ base \in [D -> V] /\ step \in [D \X V -> V]
    /\ \A s \in more : measure[rest[s]] < measure[s]

\* A function may be defined by what it is for an element with a smaller measure.
LEMMA Recursion ==
    ASSUME NEW D, NEW V, NEW more, NEW measure, NEW rest, NEW base, NEW step,
           Recursive(D, V, more, measure, rest, base, step)
    PROVE \E g \in [D -> V] :
              \A s \in D : g[s] = IF s \in more THEN step[<<s, g[rest[s]]>>] ELSE base[s]
<1>0. /\ more \in SUBSET D /\ measure \in [D -> Nat] /\ rest \in [more -> D]
      /\ base \in [D -> V] /\ step \in [D \X V -> V]
      /\ \A s \in more : measure[rest[s]] < measure[s]
  BY DEF Recursive
<1> USE <1>0
<1> DEFINE Right(g, s) == g[s] = IF s \in more THEN step[<<s, g[rest[s]]>>] ELSE base[s]
           Fits(g, n) == g \in [D -> V] /\ \A s \in D : measure[s] <= n => Right(g, s)
<1>1. ASSUME NEW g, NEW h, NEW n \in Nat, NEW m \in Nat, Fits(g, n), Fits(h, m)
      PROVE \A s \in D : measure[s] <= n /\ measure[s] <= m => g[s] = h[s]
  <2> DEFINE T == {k \in Nat : \E s \in D : /\ measure[s] = k /\ k <= n /\ k <= m
                                           /\ g[s] # h[s]}
  <2>1. SUFFICES ASSUME T # {} PROVE FALSE
    OBVIOUS
  <2>2. PICK k \in T : \A j \in T : k <= j
    <3> T \in SUBSET Nat
      OBVIOUS
    <3> HIDE DEF T
    <3> QED
      BY <2>1, Least
  <2>3. PICK s \in D : measure[s] = k /\ k <= n /\ k <= m /\ g[s] # h[s]
    OBVIOUS
  <2>4. Right(g, s) /\ Right(h, s)
    BY <1>1, <2>3
  <2>5. s \in more
    BY <2>3, <2>4
  <2>6. rest[s] \in D /\ measure[rest[s]] \in Nat /\ measure[rest[s]] < k /\ k \in Nat
    BY <2>3, <2>5
  <2>7. measure[rest[s]] \notin T
    BY <2>2, <2>6
  <2>8. g[rest[s]] = h[rest[s]]
    BY <2>3, <2>6, <2>7
  <2>9. g[s] = step[<<s, g[rest[s]]>>] /\ h[s] = step[<<s, h[rest[s]]>>]
    BY <2>4, <2>5
  <2>10. QED
    BY <2>3, <2>8, <2>9
<1>2. ASSUME NEW n \in Nat PROVE \E g : Fits(g, n)
  <2> DEFINE T == {k \in Nat : ~ \E g : Fits(g, k)}
  <2>1. SUFFICES ASSUME T # {} PROVE FALSE
    <3> HIDE DEF Fits
    <3> QED OBVIOUS
  <2>2. PICK k \in T : \A j \in T : k <= j
    <3> T \in SUBSET Nat
      OBVIOUS
    <3> HIDE DEF T
    <3> QED
      BY <2>1, Least
  <2>3. \E h \in [D -> V] : \A s \in D : measure[s] < k => Right(h, s)
    <3>1. CASE k = 0
      <4>1. base \in [D -> V] /\ \A s \in D : ~ measure[s] < k
        BY <3>1
      <4>2. QED
        BY <4>1
    <3>2. CASE k # 0
      <4>1. k - 1 \in Nat /\ ~ (k <= k - 1)
        BY <3>2
      <4>2. k - 1 \notin T
        BY <2>2, <4>1
      <4>3. PICK h : Fits(h, k - 1)
        BY <4>1, <4>2
      <4>4. \A s \in D : measure[s] < k => measure[s] <= k - 1
        BY <4>1
      <4>5. QED
        BY <4>3, <4>4
    <3>3. QED
      BY <3>1, <3>2
  <2>4. PICK h \in [D -> V] : \A s \in D : measure[s] < k => Right(h, s)
    BY <2>3
  <2> DEFINE g == [s \in D |-> IF s \in more THEN step[<<s, h[rest[s]]>>] ELSE base[s]]
  <2>5. g \in [D -> V]
    OBVIOUS
  <2>6. ASSUME NEW s \in D, measure[s] <= k PROVE Right(g, s)
    <3>1. CASE s \notin more
      BY <3>1
    <3>2. CASE s \in more
      <4>1. rest[s] \in D /\ measure[rest[s]] < measure[s]
        BY <3>2
      <4>2. measure[rest[s]] < k
        BY <2>6, <4>1
      <4>3. h[rest[s]] = g[rest[s]]
        BY <2>4, <4>1, <4>2
      <4>4. g[s] = step[<<s, h[rest[s]]>>]
        BY <3>2
      <4>5. QED
        BY <3>2, <4>3, <4>4
    <3>3. QED
      BY <3>1, <3>2
  <2>7. Fits(g, k)
    BY <2>5, <2>6
  <2>8. ~ \E f : Fits(f, k)
    OBVIOUS
  <2>9. QED
    <3> HIDE DEF g, Fits
    <3> QED BY <2>7, <2>8
<1> DEFINE Chosen(n) == CHOOSE g : Fits(g, n)
           G == [s \in D |-> Chosen(measure[s])[s]]
<1>3. \A n \in Nat : Fits(Chosen(n), n)
  <2> HIDE DEF Fits
  <2> QED BY <1>2
<1>4. G \in [D -> V]
  <2>1. \A s \in D : Chosen(measure[s]) \in [D -> V]
    <3> HIDE DEF Chosen
    <3> QED BY <1>3
  <2> HIDE DEF Chosen
  <2>2. QED
    BY <2>1
<1>5. ASSUME NEW s \in D PROVE Right(G, s)
  <2>1. Fits(Chosen(measure[s]), measure[s]) /\ measure[s] \in Nat
    <3> HIDE DEF Fits, Chosen
    <3> QED BY <1>3
  <2>2. Right(Chosen(measure[s]), s)
    <3> HIDE DEF Chosen
    <3> QED BY <2>1
  <2>3. CASE s \notin more
    <3> HIDE DEF Chosen
    <3> QED BY <2>2, <2>3
  <2>4. CASE s \in more
    <3>1. rest[s] \in D /\ measure[rest[s]] < measure[s] /\ measure[rest[s]] \in Nat
      BY <2>4
    <3>2. Fits(Chosen(measure[rest[s]]), measure[rest[s]])
      <4> HIDE DEF Fits, Chosen
      <4> QED BY <1>3, <3>1
    <3>3. Chosen(measure[rest[s]])[rest[s]] = Chosen(measure[s])[rest[s]]
      <4> HIDE DEF Fits, Chosen
      <4> QED BY <1>1, <2>1, <3>1, <3>2
    <3>4. G[rest[s]] = Chosen(measure[s])[rest[s]]
      <4> HIDE DEF Chosen
      <4> QED BY <3>1, <3>3
    <3>5. QED
      <4> HIDE DEF Chosen
      <4> QED BY <2>2, <2>4, <3>4
  <2>5. QED
    BY <2>3, <2>4
<1>6. QED
  <2> HIDE DEF G
  <2> QED BY <1>4, <1>5

\* Finitely many numbers have a largest one.
LEMMA Largest ==
    ASSUME NEW S \in SUBSET Nat, IsFiniteSet(S), S # {}
    PROVE  Max(S) \in S /\ \A i \in S : Max(S) >= i
<1> DEFINE Topped(R) == \E x \in R : \A y \in R : x >= y
           Topless(k) == \E R \in SUBSET Nat : IsFiniteSet(R) /\ R # {} /\ Cardinality(R) = k /\ ~Topped(R)
           T == {k \in Nat : Topless(k)}
<1>1. SUFFICES ASSUME T # {} PROVE FALSE
  <2>1. T = {} => ~Topless(Cardinality(S))
    <3>1. Cardinality(S) \in Nat
      BY FS_CardinalityType
    <3> HIDE DEF Topless
    <3>2. QED
      BY <3>1
  <2>2. ~Topless(Cardinality(S)) => Topped(S)
    <3> HIDE DEF Topped
    <3> QED OBVIOUS
  <2>3. QED
    BY <2>1, <2>2 DEF Max
<1>2. PICK k \in T : \A j \in T : k <= j
  <2>1. T \in SUBSET Nat
    OBVIOUS
  <2> HIDE DEF T
  <2>2. QED
    BY <1>1, <2>1, Least
<1>3. PICK R \in SUBSET Nat : IsFiniteSet(R) /\ R # {} /\ Cardinality(R) = k /\ ~Topped(R)
  <2> HIDE DEF Topped
  <2> QED OBVIOUS
<1>4. PICK x \in R : TRUE
  BY <1>3
<1>5. IsFiniteSet(R \ {x}) /\ Cardinality(R \ {x}) = k - 1
  BY <1>3, <1>4, FS_RemoveElement
<1>6. k - 1 \in Nat /\ ~(k <= k - 1)
  <2>1. Cardinality(R \ {x}) \in Nat
    BY <1>5, FS_CardinalityType
  <2>2. QED
    BY <1>2, <1>5, <2>1
<1>7. R \ {x} = {} \/ Topped(R \ {x})
  <2>1. ~Topless(k - 1)
    <3> HIDE DEF Topless
    <3> QED BY <1>2, <1>6
  <2>2. R \ {x} \in SUBSET Nat
    OBVIOUS
  <2> HIDE DEF Topped
  <2>3. QED
    BY <1>5, <2>1, <2>2
<1>8. Topped(R)
  <2>1. CASE R \ {x} = {}
    BY <1>4, <2>1
  <2>2. CASE Topped(R \ {x})
    <3>1. PICK z \in R \ {x} : \A y \in R \ {x} : z >= y
      BY <2>2
    <3>2. CASE x >= z
      BY <1>4, <3>1, <3>2
    <3>3. CASE ~(x >= z)
      BY <1>4, <3>1, <3>3
    <3>4. QED
      BY <3>2, <3>3
  <2>3. QED
    BY <1>7, <2>1, <2>2
<1>9. QED
  BY <1>3, <1>8

LEMMA LargerOf ==
    ASSUME NEW a \in Int, NEW b \in Int
    PROVE  Max({a, b}) \in {a, b} /\ Max({a, b}) >= a /\ Max({a, b}) >= b
<1>1. \E x \in {a, b} : \A y \in {a, b} : x >= y
  <2>1. CASE a >= b
    BY <2>1
  <2>2. CASE b >= a
    BY <2>2
  <2>3. QED
    BY <2>1, <2>2
<1>2. QED
  BY <1>1 DEF Max

\* Evidence of no more reports than burst_window.
Windows == {e \in Evidences : Len(e.recent) <= BurstWindow}

\* Weighing a report keeps to the window.
LEMMA WeighKeeps ==
    ASSUME NEW e \in Windows, NEW p \in Pendings
    PROVE  Weigh(e, p) \in Windows
<1>1. /\ e.missed \in Nat /\ e.recent \in Seq(BOOLEAN) /\ e.learned \in Nat
      /\ e = [missed |-> e.missed, recent |-> e.recent, learned |-> e.learned]
      /\ Len(e.recent) <= BurstWindow
  BY DEF Windows, Evidences
<1>2. BurstWindow \in Nat /\ IsFiniteSet(Listeners)
  BY MergingAssumption
<1>3. Most(p.copies) \in Nat
  <2> DEFINE C == {p.copies[g] : g \in Listeners}
  <2>1. p.copies \in [Listeners -> Nat]
    BY DEF Pendings
  <2>2. p.copies \in Surjection(Listeners, C)
    BY <2>1 DEF Surjection
  <2>3. IsFiniteSet(C)
    <3> HIDE DEF C
    <3> QED BY <1>2, <2>2, FS_Surjection
  <2>4. C \in SUBSET Nat
    BY <2>1
  <2> HIDE DEF C
  <2>5. IsFiniteSet(C \cup {0})
    BY <2>3, FS_AddElement
  <2>6. {0} \cup C \in SUBSET Nat /\ {0} \cup C # {} /\ {0} \cup C = C \cup {0}
    BY <2>4
  <2>7. Max({0} \cup C) \in {0} \cup C
    <3> DEFINE A == {0} \cup C
    <3> HIDE DEF A
    <3>1. A \in SUBSET Nat /\ A # {} /\ IsFiniteSet(A)
      BY <2>5, <2>6 DEF A
    <3>2. Max(A) \in A
      BY <3>1, Largest
    <3>3. QED
      BY <3>2 DEF A
  <2>8. QED
    BY <2>6, <2>7 DEF Most, C
<1>4. CASE p.delivered
  <2> DEFINE l == IF p.online THEN Max({e.learned, Most(p.copies)}) ELSE e.learned
  <2>1. l \in Nat
    <3> DEFINE k == Most(p.copies)
               c == e.learned
    <3>1. k \in Nat /\ c \in Nat
      BY <1>1, <1>3
    <3> HIDE DEF k, c
    <3>2. k \in Int /\ c \in Int
      BY <3>1
    <3>3. Max({c, k}) \in {c, k}
      BY <3>2, LargerOf
    <3>4. Max({c, k}) \in Nat
      BY <3>1, <3>3
    <3>5. QED
      BY <3>1, <3>4 DEF k, c
  <2>2. Weigh(e, p) = [missed |-> 0, recent |-> <<>>, learned |-> l]
    BY <1>4 DEF Weigh
  <2> HIDE DEF l
  <2>3. Weigh(e, p) \in Evidences /\ Weigh(e, p).recent = <<>>
    BY <2>1, <2>2 DEF Evidences
  <2>4. QED
    BY <1>2, <2>3 DEF Windows
<1>5. CASE ~p.delivered /\ Missed(p)
  <2> DEFINE b == Overheard(p, Bar(e.learned))
             s == Append(e.recent, b)
             m == IF p.online THEN e.missed + 1 ELSE 0
             first == Len(s) - BurstWindow + 1
             from == Max({1, first})
             r == SubSeq(s, from, Len(s))
  <2>1. b \in BOOLEAN
    BY DEF Overheard
  <2>2. m \in Nat
    BY <1>1
  <2> HIDE DEF b
  <2>3. s \in Seq(BOOLEAN)
    BY <1>1, <2>1, AppendProperties
  <2>4. Len(s) \in Nat
    BY <2>3, LenProperties
  <2> HIDE DEF s
  <2>5. first \in Int
    BY <1>2, <2>4
  <2>6. from \in {1, first} /\ from >= 1 /\ from >= first
    <3> HIDE DEF first
    <3> QED BY <2>5, LargerOf
  <2> HIDE DEF from
  <2>7. from \in 1 .. Len(s) + 1 /\ Len(s) \in from - 1 .. Len(s) /\ Len(s) - from + 1 <= BurstWindow
    BY <1>2, <2>4, <2>6
  <2>8. r \in Seq(BOOLEAN) /\ Len(r) <= BurstWindow
    <3>1. from \in Int /\ Len(s) \in Int /\ \A i \in from .. Len(s) : i \in 1 .. Len(s)
      BY <2>4, <2>7
    <3>2. \A i \in from .. Len(s) : s[i] \in BOOLEAN
      BY <2>3, <3>1
    <3>3. r \in Seq(BOOLEAN) /\ Len(r) = IF from <= Len(s) THEN Len(s) - from + 1 ELSE 0
      BY <3>1, <3>2, SubSeqProperties
    <3>4. QED
      BY <1>2, <2>7, <3>3
  <2>9. Weigh(e, p) = [e EXCEPT !.missed = m, !.recent = r]
    BY <1>5 DEF Weigh, LastOf, b, s, from
  <2> HIDE DEF m, r
  <2>10. Weigh(e, p) = [missed |-> m, recent |-> r, learned |-> e.learned]
    BY <1>1, <2>9
  <2>11. Weigh(e, p) \in Evidences /\ Weigh(e, p).recent = r
    BY <1>1, <2>2, <2>8, <2>10 DEF Evidences
  <2>12. QED
    BY <2>7, <2>8, <2>11 DEF Windows
<1>6. CASE ~p.delivered /\ ~Missed(p)
  BY <1>6 DEF Weigh
<1>7. QED
  BY <1>4, <1>5, <1>6

\* So does judging any number of them.
LEMMA WeighingKeeps ==
    ASSUME NEW e \in Windows, NEW ps \in Seq(Pendings)
    PROVE  FoldLeft(Weigh, e, ps) \in Windows
<1> DEFINE S == DOMAIN ps
           D == SUBSET S
           more == D \ {{}}
           rest == [s \in more |-> s \ {Max(s)}]
           measure == [s \in D |-> Cardinality(s)]
           base == [s \in D |-> e]
           step == [x \in D \X Windows |-> IF x[1] \in more THEN Weigh(x[2], ps[Max(x[1])]) ELSE e]
           Body(h) == [s \in D |-> IF s = {} THEN e ELSE Weigh(h[s \ {Max(s)}], ps[Max(s)])]
<1>1. FoldLeft(Weigh, e, ps) = (CHOOSE h : h = Body(h))[S]
  BY DEF FoldLeft, MapThenFoldSet
<1>2. /\ S \in SUBSET Nat /\ IsFiniteSet(S)
      /\ \A i \in S : ps[i] \in Pendings
  <2>1. Len(ps) \in Nat /\ S = 1 .. Len(ps)
    BY LenProperties
  <2>2. IsFiniteSet(1 .. Len(ps))
    BY <2>1, FS_Interval
  <2>3. QED
    BY <2>1, <2>2
<1> HIDE DEF S
<1>3. \A s \in D : IsFiniteSet(s) /\ s \in SUBSET Nat /\ Cardinality(s) \in Nat
  BY <1>2, FS_Subset, FS_CardinalityType
<1>4. ASSUME NEW s \in more
      PROVE  Max(s) \in S /\ Max(s) \in s /\ s \ {Max(s)} \in D /\ Cardinality(s \ {Max(s)}) < Cardinality(s)
  <2>1. s \in D /\ s # {}
    OBVIOUS
  <2>2. Max(s) \in s
    BY <1>3, <2>1, Largest
  <2>3. Cardinality(s \ {Max(s)}) = Cardinality(s) - 1
    BY <1>3, <2>1, <2>2, FS_RemoveElement
  <2>4. Cardinality(s) - 1 < Cardinality(s)
    BY <1>3, <2>1
  <2>5. QED
    BY <2>1, <2>2, <2>3, <2>4
<1>5. \E g \in [D -> Windows] : g = Body(g)
  <2>1. Recursive(D, Windows, more, measure, rest, base, step)
    <3>1. more \in SUBSET D /\ rest \in [more -> D]
      BY <1>4
    <3>2. measure \in [D -> Nat] /\ base \in [D -> Windows]
      BY <1>3
    <3>3. \A s \in more : measure[rest[s]] < measure[s]
      BY <1>4
    <3>4. step \in [D \X Windows -> Windows]
      <4>1. ASSUME NEW x \in D \X Windows PROVE step[x] \in Windows
        <5>1. x[1] \in D /\ x[2] \in Windows
          OBVIOUS
        <5>2. CASE x[1] \in more
          <6>1. ps[Max(x[1])] \in Pendings
            BY <1>2, <1>4, <5>2
          <6>2. Weigh(x[2], ps[Max(x[1])]) \in Windows
            BY <5>1, <6>1, WeighKeeps
          <6>3. QED
            BY <5>2, <6>2
        <5>3. CASE x[1] \notin more
          BY <5>3
        <5>4. QED
          BY <5>2, <5>3
      <4> HIDE DEF D, more
      <4>2. QED
        BY <4>1
    <3> HIDE DEF D, more, rest, measure, base, step
    <3>5. QED
      BY <3>1, <3>2, <3>3, <3>4 DEF Recursive
  <2>2. PICK g \in [D -> Windows] :
            \A s \in D : g[s] = IF s \in more THEN step[<<s, g[rest[s]]>>] ELSE base[s]
    <3> HIDE DEF D, more, rest, measure, base, step
    <3> QED BY <2>1, Recursion
  <2>3. ASSUME NEW s \in D PROVE g[s] = IF s = {} THEN e ELSE Weigh(g[s \ {Max(s)}], ps[Max(s)])
    <3>1. CASE s = {}
      BY <2>2, <3>1
    <3>2. CASE s # {}
      <4>1. s \in more /\ rest[s] = s \ {Max(s)} /\ rest[s] \in D
        BY <1>4, <3>2
      <4>2. g[s] = step[<<s, g[rest[s]]>>] /\ <<s, g[rest[s]]>> \in D \X Windows
        BY <2>2, <4>1
      <4>3. step[<<s, g[rest[s]]>>] = Weigh(g[rest[s]], ps[Max(s)])
        BY <4>1, <4>2
      <4>4. QED
        BY <3>2, <4>1, <4>2, <4>3
    <3>3. QED
      BY <3>1, <3>2
  <2>4. g = [s \in D |-> g[s]]
    BY <2>2
  <2>5. g = Body(g)
    BY <2>3, <2>4
  <2>6. QED
    BY <2>5
<1> DEFINE F == CHOOSE h : h = Body(h)
<1>6. F = Body(F)
  <2> HIDE DEF Body
  <2> QED BY <1>5
<1> HIDE DEF F
<1>7. \A s \in D : F[s] = IF s = {} THEN e ELSE Weigh(F[s \ {Max(s)}], ps[Max(s)])
  BY <1>6
<1> DEFINE Bad(k) == \E s \in D : Cardinality(s) = k /\ F[s] \notin Windows
           T == {k \in Nat : Bad(k)}
<1>8. T = {}
  <2>1. SUFFICES ASSUME T # {} PROVE FALSE
    OBVIOUS
  <2>2. PICK k \in T : \A j \in T : k <= j
    <3>1. T \in SUBSET Nat
      OBVIOUS
    <3> HIDE DEF T
    <3>2. QED
      BY <2>1, <3>1, Least
  <2>3. PICK s \in D : Cardinality(s) = k /\ F[s] \notin Windows
    OBVIOUS
  <2>4. s # {}
    BY <1>7, <2>3
  <2>5. /\ s \ {Max(s)} \in D /\ Max(s) \in S /\ Cardinality(s \ {Max(s)}) < k
        /\ Cardinality(s \ {Max(s)}) \in Nat /\ k \in Nat
    BY <1>3, <1>4, <2>3, <2>4
  <2>6. Cardinality(s \ {Max(s)}) \notin T
    <3> HIDE DEF T
    <3> QED BY <2>2, <2>5
  <2>7. F[s \ {Max(s)}] \in Windows
    BY <2>5, <2>6
  <2>8. Weigh(F[s \ {Max(s)}], ps[Max(s)]) \in Windows
    BY <1>2, <2>5, <2>7, WeighKeeps
  <2>9. QED
    BY <1>7, <2>3, <2>4, <2>8
<1>9. F[S] \in Windows
  <2>1. S \in D /\ Cardinality(S) \in Nat
    BY <1>3
  <2>2. Cardinality(S) \notin T
    BY <1>8
  <2>3. QED
    BY <2>1, <2>2
<1>10. QED
  BY <1>1, <1>9 DEF F

\* The evidence never looks back further than the window, and the memory of the
\* stream is of keys.
RestTyped ==
    /\ acked \subseteq Numbers
    /\ seen \in Seq(Keys)
    /\ evidence \in Windows
    /\ turns \in 0 .. MaxTurns

LEMMA JudgingKeeps ==
    ASSUME MergeState, RestTyped, NEW n \in 0 .. Len(pending)
    PROVE  Judged(n) \in Windows
<1>1. pending \in Seq(Pendings) /\ Len(pending) \in Nat
  BY LenProperties DEF MergeState
<1>2. \A i \in 1 .. n : pending[i] \in Pendings
  BY <1>1
<1>3. SubSeq(pending, 1, n) \in Seq(Pendings)
  BY <1>1, <1>2, SubSeqProperties
<1>4. evidence \in Windows
  BY DEF RestTyped
<1>5. QED
  BY <1>3, <1>4, WeighingKeeps DEF Judged

LEMMA RestTypedInit == ASSUME MergeInit PROVE RestTyped
<1>1. BurstWindow \in Nat /\ MaxTurns \in Nat
  BY MergingAssumption
<1>2. evidence \in Evidences /\ Len(evidence.recent) = 0
  BY EmptySeq DEF MergeInit, Evidences
<1>3. evidence \in Windows
  BY <1>1, <1>2 DEF Windows
<1>4. QED
  BY <1>1, <1>3, EmptySeq DEF MergeInit, RestTyped

LEMMA RestTypedKept ==
    ASSUME MergeState, SentInv, RestTyped, [MergeNext]_mergeVars
    PROVE  RestTyped'
<1>0. /\ MaxTurns \in Nat /\ BurstWindow \in Nat
      /\ acked \subseteq Numbers /\ seen \in Seq(Keys) /\ evidence \in Windows /\ turns \in 0 .. MaxTurns
  BY MergingAssumption DEF RestTyped
<1>1. ASSUME Turn PROVE turns' \in 0 .. MaxTurns
  BY <1>0, <1>1 DEF Turn
<1>2. ASSUME NEW alarm \in BOOLEAN, Report(alarm) PROVE RestTyped'
  BY <1>0, <1>2 DEF Report, trackVars, RestTyped
<1>3. ASSUME Transmit PROVE RestTyped'
  <2>1. Len(reports) \in Numbers
    <3>1. Len(reports) \in Sent
      BY <1>3, TransmitShape
    <3>2. QED
      BY <3>1, MergeNumbers
  <2>2. acked' \subseteq acked \cup {Len(reports)} /\ UNCHANGED <<seen, evidence, turns>>
    BY <1>3 DEF Transmit, trackVars
  <2>3. QED
    BY <1>0, <2>1, <2>2 DEF RestTyped
<1>4. ASSUME PairAnew PROVE RestTyped'
  BY <1>0, <1>1, <1>4 DEF PairAnew, trackVars, RestTyped
<1>5. ASSUME NEW g \in Listeners, Receive(g) PROVE RestTyped'
  <2> DEFINE n == Head(link[g]).n
  <2>1. link[g] # <<>> /\ n # 0
    BY <1>5 DEF Receive
  <2>2. KeyOf(n) \in Keys
    <3>1. Head(link[g]) = link[g][1] /\ 1 \in DOMAIN link[g]
      BY <2>1, LinkTail
    <3>2. n \in Sent
      BY <2>1, <3>1 DEF SentInv
    <3> HIDE DEF n
    <3>3. QED
      BY <3>2, MergeNumbers
  <2>3. seen' = seen \/ seen' = Append(seen, KeyOf(n))
    BY <1>5 DEF Receive
  <2>4. seen' \in Seq(Keys)
    <3> HIDE DEF n
    <3> QED BY <1>0, <2>2, <2>3, AppendProperties
  <2>5. PICK due \in 0 .. Len(pending) : evidence' = Judged(due)
    BY <1>5 DEF Receive
  <2>6. evidence' \in Windows
    BY <2>5, JudgingKeeps
  <2>7. UNCHANGED <<acked, turns>>
    BY <1>5 DEF Receive, worldVars
  <2>8. QED
    BY <1>0, <2>4, <2>6, <2>7 DEF RestTyped
<1>6. ASSUME NEW g \in Listeners, ReceivePaired(g) PROVE RestTyped'
  BY <1>0, <1>6 DEF ReceivePaired, worldVars, RestTyped
<1>7. ASSUME NEW g \in Listeners, Handover(g) PROVE RestTyped'
  <2>1. evidence \in Evidences
    BY <1>0 DEF Windows
  <2>2. evidence' = [missed |-> 0, recent |-> <<>>, learned |-> evidence.learned]
    BY <1>7, <2>1 DEF Handover, Evidences
  <2>3. evidence' \in Evidences /\ Len(evidence'.recent) = 0
    BY <2>1, <2>2, EmptySeq DEF Evidences
  <2>4. evidence' \in Windows
    BY <1>0, <2>3 DEF Windows
  <2>5. UNCHANGED <<acked, seen>> /\ Turn
    BY <1>7 DEF Handover, worldVars
  <2>6. QED
    BY <1>0, <1>1, <2>4, <2>5 DEF RestTyped
<1>8. ASSUME Tick PROVE RestTyped'
  <2>1. PICK n \in 1 .. Len(pending) : evidence' = Judged(n)
    BY <1>8 DEF Tick
  <2>2. n \in 0 .. Len(pending)
    BY LenProperties DEF MergeState
  <2>3. evidence' \in Windows
    BY <2>1, <2>2, JudgingKeeps
  <2>4. UNCHANGED <<acked, seen, turns>>
    BY <1>8 DEF Tick, worldVars
  <2>5. QED
    BY <1>0, <2>3, <2>4 DEF RestTyped
<1>9. ASSUME SeenExpires PROVE RestTyped'
  <2>1. seen # <<>> /\ seen' = Tail(seen) /\ UNCHANGED <<acked, evidence, turns>>
    BY <1>9 DEF SeenExpires, worldVars
  <2>2. Tail(seen) \in Seq(Keys)
    BY <1>0, <2>1, HeadTailProperties
  <2>3. QED
    BY <1>0, <2>1, <2>2 DEF RestTyped
<1>10. ASSUME CounterExpires PROVE RestTyped'
  BY <1>0, <1>1, <1>10 DEF CounterExpires, worldVars, RestTyped
<1>11. CASE UNCHANGED mergeVars
  BY <1>0, <1>11 DEF mergeVars, worldVars, trackVars, RestTyped
<1>12. CASE MergeNext
  BY <1>2, <1>3, <1>4, <1>5, <1>6, <1>7, <1>8, <1>9, <1>10, <1>12 DEF MergeNext
<1>13. QED
  BY <1>11, <1>12

\* Every variable keeps its type: the evidence looks back no further than
\* burst_window (the VecDeque of Tracker::settle), and one report has one entry
\* among the pending ones.
THEOREM MergeTypeCorrect == MergeSpec => []MergeTypeOK
<1> DEFINE Typed == MergeState /\ SentInv /\ KeysInv /\ RestTyped
<1>1. MergeInit => Typed
  BY MergeInvInit, RestTypedInit DEF EvidenceIInv
<1>2. Typed /\ [MergeNext]_mergeVars => Typed'
  BY MergeStateKept, SentKept, KeysKept, RestTypedKept
<1>3. Typed => MergeTypeOK
  BY DEF MergeState, KeysInv, KeyedBy, RestTyped, Windows, MergeTypeOK
<1>4. QED
  BY <1>1, <1>2, <1>3, PTL DEF MergeSpec
===============================================================================
