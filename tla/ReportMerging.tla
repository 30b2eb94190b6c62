----------------------------- MODULE ReportMerging -----------------------------
(***************************************************************************)
(* How the coordinator of src/src/roaming/mod.rs merges what several       *)
(* gateways hear of one sensor into one stream of events, and what it      *)
(* concludes about the sensor's owner (Tracker, process, settle).          *)
(*                                                                         *)
(* The sensor numbers its events with a counter of a few bits and repeats  *)
(* a report until it is answered; heartbeats repeat the counter of the     *)
(* last event.  Each gateway passes on the copies it hears in order, but   *)
(* with any delay: a link may stall, a relay may buffer.                   *)
(*                                                                         *)
(* Signal strengths are left out: they may call for a handover any time.   *)
(* So is which gateways are connected: a gateway may come and go at any    *)
(* time, and the host may or may not know.                                 *)
(***************************************************************************)
EXTENDS Integers, Sequences, FiniteSets, SequencesExt, FiniteSetsExt

CONSTANTS
    Listeners,      \* the roaming gateways of the network
    Modulus,        \* the range of the counter (2^16)
    FirstCounters,  \* bounds where it may stand when the host starts
    MaxReports,     \* bounds the reports sent
    MaxTurns,       \* bounds pairings, handovers and lapses of the counter's memory
    HealthyCopies,  \* the most copies a sensor sends of a report once answered
    AllCopies,      \* the copies it sends of a report that is never answered
    BurstCopies,    \* RoamingConfig::burst_copies
    BurstWindow     \* RoamingConfig::burst_window

ASSUME MergingAssumption ==
    /\ IsFiniteSet(Listeners)
    /\ {Modulus, MaxReports, MaxTurns, HealthyCopies, AllCopies,
        BurstCopies, BurstWindow} \subseteq Nat
    /\ FirstCounters \subseteq 0..(Modulus - 1)
    /\ MaxReports < Modulus \div 2

VARIABLES
    reports,    \* the reports sent: alarm or heartbeat, counter, copies
    counter,    \* the sensor's counter
    acked,      \* reports the sensor's owner has heard
    owner,      \* the gateway that holds the sensor
    link,       \* link[g]: what gateway g heard and the host has not
    seen,       \* Tracker::seen, in the order of entry
    last,       \* Tracker::counters: the last counter delivered
    pending,    \* Tracker::pending, in the order of `first`
    evidence,   \* Tracker::evidence
    turns,      \* pairings, handovers and lapses so far
    history     \* what became of the reports; see History

worldVars == <<reports, counter, acked>>
trackVars == <<seen, last, pending, evidence>>
mergeVars == <<worldVars, owner, link, trackVars, turns, history>>

Numbers == 1..MaxReports
Counters == 0..(Modulus - 1)
NoCounter == Modulus

Reports == [alarm : BOOLEAN, id : Counters, copies : Nat]

\* A copy of report n, from the owner itself (a 0x5319) or overheard; the event
\* of the sensor's pairing is no report (n = 0).
Copies == [n : {0} \cup Numbers, own : BOOLEAN]

\* ReportKey: reports with one key are one report to the host.
Keys == [alarm : BOOLEAN, id : Counters]
KeyOf(n) == [alarm |-> reports[n].alarm, id |-> reports[n].id]

Pendings == [key : Keys, owner : Listeners, online : BOOLEAN, delivered : BOOLEAN,
             copies : [Listeners -> Nat],
             of : SUBSET Numbers]   \* history: the reports behind the key

Evidences == [missed : Nat, recent : Seq(BOOLEAN), learned : Nat]

Wrongs == {"repeated", "dropped", "collided", "unjust", "late", "miscounted", "merged"}

\* The history of the reports, for the properties only.
History == [
    fromOwner : SUBSET Numbers, \* those the owner delivered a copy of
    judged : SUBSET Numbers,    \* those a verdict was given on
    out : SUBSET Numbers,       \* the alarms passed on
    known : 0..MaxReports,      \* those sent before the sensor started over or
                                \* the host forgot its counter
    haunted : BOOLEAN,          \* one of these was passed on after that
    wrong : SUBSET Wrongs]

MergeTypeOK ==
    /\ reports \in Seq(Reports) /\ Len(reports) <= MaxReports
    /\ counter \in Counters
    /\ acked \subseteq Numbers
    /\ owner \in Listeners
    /\ link \in [Listeners -> Seq(Copies)]
    /\ seen \in Seq(Keys)
    /\ last \in Counters \cup {NoCounter}
    /\ pending \in Seq(Pendings)
    /\ evidence \in Evidences
    /\ Len(evidence.recent) <= BurstWindow
    /\ \A i, j \in DOMAIN pending : pending[i].key = pending[j].key => i = j
    /\ turns \in 0..MaxTurns
    /\ history \in History

MergeInit ==
    /\ reports = <<>>
    /\ counter \in FirstCounters
    /\ acked = {}
    /\ owner \in Listeners
    /\ link = [g \in Listeners |-> <<>>]
    /\ seen = <<>>
    /\ last = NoCounter
    /\ pending = <<>>
    /\ evidence = [missed |-> 0, recent |-> <<>>, learned |-> 0]
    /\ turns = 0
    /\ history = [fromOwner |-> {}, judged |-> {}, out |-> {}, known |-> 0,
                  haunted |-> FALSE, wrong |-> {}]

-------------------------------------------------------------------------------
(* The sensor and the gateways' radios.  Events count up; heartbeats do not. *)

Report(alarm) ==
    LET next == IF alarm THEN (counter + 1) % Modulus ELSE counter
    IN /\ Len(reports) < MaxReports
       /\ counter' = next
       /\ reports' = Append(reports, [alarm |-> alarm, id |-> next, copies |-> 0])
       /\ UNCHANGED <<acked, owner, link, trackVars, turns, history>>

Turn ==
    /\ turns < MaxTurns
    /\ turns' = turns + 1

\* One more copy of the last report, heard by some of the gateways.
Transmit ==
    LET n == Len(reports)
    IN /\ n > 0
       /\ reports[n].copies < (IF n \in acked THEN HealthyCopies ELSE AllCopies)
       /\ \E hearing \in SUBSET Listeners :
             /\ link' = [g \in Listeners |->
                           IF g \in hearing
                           THEN Append(link[g], [n |-> n, own |-> g = owner])
                           ELSE link[g]]
             /\ acked' = IF owner \in hearing THEN acked \cup {n} ELSE acked
       /\ reports' = [reports EXCEPT ![n].copies = @ + 1]
       /\ UNCHANGED <<counter, owner, trackVars, turns, history>>

\* The sensor is paired again, at the gateway that has it, and starts over.
PairAnew ==
    /\ Turn
    /\ counter' = 0
    /\ link' = [link EXCEPT ![owner] = Append(@, [n |-> 0, own |-> TRUE])]
    /\ history' = [history EXCEPT !.known = Len(reports)]
    /\ UNCHANGED <<reports, acked, owner, trackVars>>

-------------------------------------------------------------------------------
(* The evidence (Tracker::note_copy, Tracker::settle). *)

Most(copies) == Max({0} \cup {copies[g] : g \in Listeners})

\* The copies that make a burst.
Bar(learned) == Max({BurstCopies, learned + 1})

LastOf(s, n) == SubSeq(s, Max({1, Len(s) - n + 1}), Len(s))

\* Another gateway than the owner overheard k copies of the report, or more.
Overheard(p, k) == \E g \in Listeners \ {p.owner} : p.copies[g] >= k

\* Only other gateways had the report.
Missed(p) == ~p.delivered /\ Overheard(p, 1)

\* What a report whose copies are in says of the owner.
Weigh(e, p) ==
    IF p.delivered
    THEN [missed |-> 0, recent |-> <<>>,
          learned |-> IF p.online THEN Max({e.learned, Most(p.copies)})
                      ELSE e.learned]
    ELSE IF Missed(p)
    THEN [e EXCEPT !.missed = IF p.online THEN @ + 1 ELSE 0,
                   !.recent = LastOf(Append(@, Overheard(p, Bar(e.learned))),
                                     BurstWindow)]
    ELSE e

\* Judging the first n pending reports, those `settle` old.
Judged(n) == FoldLeft(Weigh, evidence, SubSeq(pending, 1, n))

\* The history records a verdict that is not deserved: the owner is blamed for
\* missing what it delivered, or for what may be a burst (whatever the bar has
\* learned) where few copies were sent.
Undeserved(p) ==
    LET blamed == Missed(p) /\ p.online /\ p.of \subseteq history.fromOwner
        burst == Missed(p) /\ Overheard(p, BurstCopies)
        few == \A n \in p.of : reports[n].copies < BurstCopies
    IN {w \in {"late", "unjust"} :
          blamed /\ (w = "late" <=> p.of \cap history.judged # {})}
       \cup
       {w \in {"merged", "miscounted"} :
          burst /\ few /\ (w = "merged" <=> Cardinality(p.of) > 1)}

Verdicts(n) == history.wrong \cup UNION {Undeserved(pending[i]) : i \in 1..n}

JudgedReports(n) == history.judged \cup UNION {pending[i].of : i \in 1..n}

Rest(n) == SubSeq(pending, n + 1, Len(pending))

\* Mutation of Delivered: the latest copy decides who delivered the report.
DeliveredLatest(before, own) == own

\* One copy from the owner itself is enough.
Delivered(before, own) == before \/ own

\* The Pending of a report no copy was counted of yet.
Opened(n, g, own, connected) ==
    [key |-> KeyOf(n), owner |-> IF own THEN g ELSE owner, online |-> connected,
     delivered |-> FALSE, copies |-> [h \in Listeners |-> 0], of |-> {}]

\* One more copy, of report n from gateway g, is counted in p.
OneMore(p, n, g, own) ==
    [p EXCEPT !.copies[g] = @ + 1,
              !.delivered = Delivered(@, own),
              !.of = @ \cup {n}]

\* One copy of report n, from gateway g, is counted among the pending reports ps.
NoteCopy(ps, n, g, own, connected) ==
    LET noted == IF \E i \in DOMAIN ps : ps[i].key = KeyOf(n) THEN ps
                 ELSE Append(ps, Opened(n, g, own, connected))
        at == CHOOSE i \in DOMAIN noted : noted[i].key = KeyOf(n)
    IN [noted EXCEPT ![at] = OneMore(@, n, g, own)]

\* tick: the reports whose copies are all in are judged.
Tick ==
    /\ \E n \in 1..Len(pending) :
          /\ evidence' = Judged(n)
          /\ pending' = Rest(n)
          /\ history' = [history EXCEPT !.judged = JudgedReports(n),
                                        !.wrong = Verdicts(n)]
    /\ UNCHANGED <<worldVars, owner, link, seen, last, turns>>

-------------------------------------------------------------------------------
(* The stream (Tracker::is_duplicate, process). *)

\* Mutation of Newer: the counters are compared as they are.
NewerPlain(a, b) == a > b

\* a is ahead of b by less than half the range.
Newer(a, b) == (a - b) % Modulus \in 1..(Modulus \div 2 - 1)

\* Mutation of Stale: a replay is told by its window alone.
StaleNever(n) == FALSE

\* The counter says that the event is not newer than the last one delivered.
Stale(n) ==
    /\ reports[n].alarm
    /\ last # NoCounter
    /\ ~Newer(reports[n].id, last)

Duplicate(n) == (\E i \in DOMAIN seen : seen[i] = KeyOf(n)) \/ Stale(n)

\* The host does not know yet that the sensor was paired again.
PairingUnderWay == \E g \in Listeners : \E i \in DOMAIN link[g] : link[g][i].n = 0

\* What the history makes of report n passed on or dropped.
Passed(n) ==
    {w \in {"repeated"} : /\ reports[n].alarm
                          /\ n > history.known
                          /\ ~history.haunted
                          /\ \E m \in history.out : m >= n}
Dropped(n) ==
    {w \in {"dropped", "collided"} :
                         /\ reports[n].alarm
                         /\ n > history.known
                         /\ ~history.haunted
                         /\ ~PairingUnderWay
                         /\ w = "dropped" <=> Stale(n)
                         /\ \A m \in history.out : m < n}

\* process: the head of what gateway g has for the host is merged, after the
\* reports that are due have been judged.
Receive(g) ==
    LET n == Head(link[g]).n
        own == Head(link[g]).own
        duplicate == Duplicate(n)
    IN /\ link[g] # <<>>
       /\ n # 0
       /\ link' = [link EXCEPT ![g] = Tail(@)]
       /\ \E due \in 0..Len(pending), connected \in BOOLEAN :
             /\ evidence' = Judged(due)
             /\ pending' = NoteCopy(Rest(due), n, g, own, connected)
             /\ history' =
                  [fromOwner |-> history.fromOwner \cup {m \in {n} : own},
                   judged |-> JudgedReports(due),
                   out |-> history.out \cup {m \in {n} : reports[n].alarm /\ ~duplicate},
                   known |-> history.known,
                   haunted |-> \/ history.haunted
                               \/ reports[n].alarm /\ ~duplicate /\ n <= history.known,
                   wrong |-> Verdicts(due)
                                \cup IF duplicate THEN Dropped(n) ELSE Passed(n)]
       /\ seen' = IF duplicate THEN seen ELSE Append(seen, KeyOf(n))
       /\ last' = IF duplicate \/ ~reports[n].alarm THEN last ELSE reports[n].id
       /\ UNCHANGED <<worldVars, owner, turns>>

\* The counter is forgotten; what is still under way may be taken for new.
ForgetCounter ==
    /\ last' = NoCounter
    /\ history' = [history EXCEPT !.known = Len(reports), !.haunted = FALSE]

\* process: the sensor was paired again.
ReceivePaired(g) ==
    /\ link[g] # <<>>
    /\ Head(link[g]).n = 0
    /\ link' = [link EXCEPT ![g] = Tail(@)]
    /\ ForgetCounter
    /\ UNCHANGED <<worldVars, owner, seen, pending, evidence, turns>>

\* dedup_window after a report was delivered, copies are new to the host.
SeenExpires ==
    /\ seen # <<>>
    /\ seen' = Tail(seen)
    /\ UNCHANGED <<worldVars, owner, link, last, pending, evidence,
                   turns, history>>

\* COUNTER_MEMORY, far longer than dedup_window, after the last event.
CounterExpires ==
    /\ last # NoCounter
    /\ \A i \in DOMAIN seen : ~seen[i].alarm
    /\ Turn
    /\ ForgetCounter
    /\ UNCHANGED <<worldVars, owner, link, seen, pending, evidence>>

\* The sensor is handed over (RoamingHandover); everything is measured afresh.
Handover(to) ==
    /\ Turn
    /\ to # owner
    /\ owner' = to
    /\ pending' = <<>>
    /\ evidence' = [evidence EXCEPT !.missed = 0, !.recent = <<>>]
    /\ history' = [history EXCEPT !.judged = JudgedReports(Len(pending))]
    /\ UNCHANGED <<worldVars, link, seen, last>>

-------------------------------------------------------------------------------
MergeNext ==
    \/ \E alarm \in BOOLEAN : Report(alarm)
    \/ Transmit
    \/ PairAnew
    \/ \E g \in Listeners :
          \/ Receive(g) \/ ReceivePaired(g)
          \/ Handover(g)
    \/ Tick
    \/ SeenExpires
    \/ CounterExpires

MergeSpec == MergeInit /\ [][MergeNext]_mergeVars

-------------------------------------------------------------------------------
(* Properties. *)

\* The stream is in order and says nothing twice: whatever order the gateways'
\* copies come in, no alarm is passed on after a newer one or after itself,
\* unless one from before the counter was forgotten came late and set it.
InOrder == "repeated" \notin history.wrong

\* And it loses nothing it need not: an alarm whose number is behind the last one
\* is dropped only when it, or a newer one, was passed on already (with the same
\* exception, and while the host has not heard of a pairing that is under way).
\* One dropped because the window still holds the number of an alarm from before
\* the counter started over ("collided") is not meant here.
NoneDropped == "dropped" \notin history.wrong

\* The owner is never blamed for missing a report it delivered, as long as its
\* copies came in before it was judged.
MissedTrue == "unjust" \notin history.wrong

\* No report is taken for a burst that was sent in fewer copies, unless the
\* host took several reports for one.
BurstTrue == "miscounted" \notin history.wrong

\* The evidence for a handover is drawn from what was sent and received.
EvidenceTrue == MissedTrue /\ BurstTrue
===============================================================================
