---------------------------- MODULE RoamingHandover ----------------------------
(***************************************************************************)
(* The coordinator of src/src/roaming/mod.rs: several gateways share one   *)
(* network identity, each sensor is meant to be in the table of exactly    *)
(* one of them (its owner), and the coordinator moves sensors by deleting  *)
(* at the old owner and adding at the new one.                             *)
(*                                                                         *)
(* The truth is what each gateway keeps in its NVRAM (`nv`).  The          *)
(* coordinator acts on copies of those tables, which several tasks read    *)
(* and overwrite: a connecting gateway's, a reload's, a handover's, an     *)
(* unpairing's.  Each takes the state lock for one step and lets it go     *)
(* before it talks to a gateway, so the steps below interleave freely.     *)
(*                                                                         *)
(* All gateways here can roam.  Whether the evidence calls for a move      *)
(* (`decide`), and when, is left open: any sensor may be moved to any      *)
(* eligible gateway at any time.                                           *)
(***************************************************************************)
EXTENDS Naturals, FiniteSets, Sequences, SequencesExt

CONSTANTS
    Gateways,    \* the gateways of the network
    Sensors,     \* the sensors
    NoGateway,   \* no owner recorded
    Movers,      \* tasks that run a handover; bounds how many run at once
    NoMove,      \* the task is idle
    Lossy,       \* gateways where a command may fail or lose its reply
    Roving,      \* gateways whose connection comes and goes
    MaxUpsets    \* bounds how often a gateway restarts unannounced or a user
                 \* pairs or unpairs a sensor

VARIABLES
    nv,       \* nv[g]: the sensors in the NVRAM table of gateway g
    linked,   \* gateways with an engine in the engines map
    known,    \* gateways in State::gateways
    online,   \* known gateways marked online
    table,    \* table[g]: the coordinator's copy of nv[g]
    busy,     \* sensors marked as being handed over
    owners,   \* owners[s]: the owner recorded last
    move,     \* move[m]: the handover task m runs
    join,     \* join[g]: the gateway_connected task of g
    reload,   \* reload[g]: the refresh_table task of g
    unpair,   \* unpair[s]: the request to unpair s
    upsets,   \* restarts, pairings and unpairings so far
    doubt     \* history: doubt[s] is the first thing that went wrong for s

moveVars == <<busy, move>>
joinVars == <<linked, known, online, join>>
unpairVars == <<unpair, upsets>>
vars == <<nv, linked, known, online, table, busy, owners, move, join, reload,
          unpair, upsets, doubt>>

Moves == [sensor : Sensors, from : Gateways, to : Gateways,
          blind : BOOLEAN,   \* Reason::NotAcked: the old owner seems dead
          back : BOOLEAN,    \* `from` is kept: the delete there was confirmed
          step : {"decided", "deleting", "adding", "restoring", "added",
                  "recording", "failed"}]

ASSUME RoamingAssumption ==
    /\ IsFiniteSet(Gateways) /\ IsFiniteSet(Sensors)
    /\ NoMove \notin Moves
    /\ NoGateway \notin Gateways
    /\ Roving \subseteq Lossy
    /\ Lossy \subseteq Gateways
    /\ MaxUpsets \in Nat

\* A duplicate found on connecting: (sensor, who keeps it, who forgets it).
Drops == [sensor : Sensors, keep : Gateways, at : Gateways]

Joins == [step : {"idle", "reading", "read", "settling", "dropped", "recording"},
          seen : SUBSET Sensors,
          drops : Seq(Drops)]

\* The task is at work on the first of its duplicates.
InDrop(j) == j.step \in {"dropped", "recording"}

NoJoin == [step |-> "idle", seen |-> {}, drops |-> <<>>]

Reloads == [step : {"idle", "wanted", "read"}, seen : SUBSET Sensors]

NoReload == [step |-> "idle", seen |-> {}]

Unpairings == [active : BOOLEAN, todo : SUBSET Gateways]

NotUnpairing == [active |-> FALSE, todo |-> {}]

\* What the code does not put right by itself:
Causes == {
    "skipped",     \* the sensor was added elsewhere, its delete not confirmed
    "lost",        \* a command reported as failed was carried out
    "refused",     \* an undo, a duplicate's or an unpaired sensor's delete failed
    "overwritten", \* a copy was overwritten with what no longer holds, or in
                   \* the middle of a handover
    "unlisted",    \* the entry to move from copy to copy was not there
    "paired",      \* paired while a gateway keeps or lists it or a task carries it
    "unpaired"     \* unpaired while a gateway keeps it or a task carries it
    }

TypeOK ==
    /\ nv \in [Gateways -> SUBSET Sensors]
    /\ linked \in SUBSET Gateways
    /\ known \in SUBSET Gateways
    /\ online \in SUBSET known
    /\ table \in [Gateways -> SUBSET Sensors]
    /\ busy \in SUBSET Sensors
    /\ owners \in [Sensors -> Gateways \cup {NoGateway}]
    /\ move \in [Movers -> Moves \cup {NoMove}]
    /\ join \in [Gateways -> Joins]
    /\ \A g \in Gateways : InDrop(join[g]) => join[g].drops # <<>>
    /\ reload \in [Gateways -> Reloads]
    /\ unpair \in [Sensors -> Unpairings]
    /\ upsets \in 0..MaxUpsets
    /\ doubt \in [Sensors -> Causes \cup {"none"}]

HeldAt(s) == {g \in Gateways : s \in nv[g]}

\* The host starts: nothing is connected, the owners file says whatever it
\* says, and a paired sensor is in one gateway's table.
Init ==
    /\ nv \in [Gateways -> SUBSET Sensors]
    /\ \A s \in Sensors : Cardinality(HeldAt(s)) <= 1
    /\ linked = {}
    /\ known = {}
    /\ online = {}
    /\ table = [g \in Gateways |-> {}]
    /\ busy = {}
    /\ owners \in [Sensors -> Gateways \cup {NoGateway}]
    /\ move = [m \in Movers |-> NoMove]
    /\ join = [g \in Gateways |-> NoJoin]
    /\ reload = [g \in Gateways |-> NoReload]
    /\ unpair = [s \in Sensors |-> NotUnpairing]
    /\ upsets = 0
    /\ doubt = [s \in Sensors |-> "none"]

-------------------------------------------------------------------------------
(* Commands to a gateway. *)

With(g, s) == [nv EXCEPT ![g] = @ \cup {s}]
Without(g, s) == [nv EXCEPT ![g] = @ \ {s}]

CanFail(g) == g \in Lossy \/ g \notin linked

\* A command that turns nv into `done`: acknowledged; or reported as failed,
\* when it may have been carried out all the same.
Command(g, done, ok) ==
    \/ /\ ok
       /\ g \in linked
       /\ nv' = done
    \/ /\ ~ok
       /\ CanFail(g)
       /\ nv' = nv \/ (g \in linked /\ nv' = done)

\* The history records the first cause for doubt, so that the properties can
\* say that without one nothing goes wrong.
Doubt(S, cause) ==
    doubt' = [s \in Sensors |->
                IF s \in S /\ doubt[s] = "none" THEN cause ELSE doubt[s]]
DoubtIf(cond, s, cause) == Doubt({r \in {s} : cond}, cause)

\* A failed command was carried out after all; or was not, which matters where
\* the code goes on regardless.
DoubtFailure(ok, s, matters, cause) ==
    IF nv' # nv THEN DoubtIf(~ok, s, "lost")
    ELSE DoubtIf(~ok /\ matters, s, cause)

Disagree(A, B) == (A \ B) \cup (B \ A)

\* Overwriting the copy of g with what was read of it: stale by now, or read
\* in the middle of a handover.
Overwrites(g, seen) ==
    Disagree(seen, nv[g]) \cup (busy \cap Disagree(seen, table[g]))

-------------------------------------------------------------------------------
(* Deciding on a handover (State::consider). *)

Holders(s) == {g \in known : s \in table[g]}

\* owner_of: a gateway whose copy lists s, an online one if there is one.
OwnerOf(s) ==
    IF Holders(s) \cap online # {} THEN Holders(s) \cap online ELSE Holders(s)

\* decide found a gateway that may take the sensor over.
Decide(m, s) ==
    /\ move[m] = NoMove
    /\ busy' = busy \cup {s}
    /\ \E owner \in OwnerOf(s), to \in online, blind \in BOOLEAN :
          /\ to # owner
          /\ move' = [move EXCEPT ![m] =
                        [sensor |-> s, from |-> owner, to |-> to, blind |-> blind,
                         back |-> FALSE, step |-> "decided"]]
    /\ UNCHANGED <<nv, joinVars, table, owners, reload, unpairVars, doubt>>

\* Mutation of Consider: the busy set is not looked at.
ConsiderBusy(m, s) == Decide(m, s)

Consider(m, s) == s \notin busy /\ Decide(m, s)

-------------------------------------------------------------------------------
(* Handing a sensor over (do_handover, then the rest of handover). *)

At(m, step) == move[m] # NoMove /\ move[m].step = step
GoTo(m, step) == move' = [move EXCEPT ![m].step = step]

\* do_handover looks the sensor and both engines up.  An old owner that is
\* offline is not asked to delete the sensor.
Start(m) ==
    LET h == move[m]
        reachable == h.from \in online \cap linked
        able == Holders(h.sensor) # {} /\ h.to \in linked
    IN /\ At(m, "decided")
       /\ GoTo(m, IF ~able THEN "failed"
                  ELSE IF reachable THEN "deleting" ELSE "adding")
       /\ DoubtIf(able /\ ~reachable /\ h.sensor \in nv[h.from], h.sensor,
                  "skipped")
       /\ UNCHANGED <<nv, joinVars, table, busy, owners, reload, unpairVars>>

\* Delete at the old owner.  Without a confirmation the handover is given up,
\* unless nobody answers the sensor anyway.
Delete(m) ==
    LET h == move[m]
    IN /\ At(m, "deleting")
       /\ \E ok \in BOOLEAN :
             /\ Command(h.from, Without(h.from, h.sensor), ok)
             /\ move' = [move EXCEPT
                           ![m].step = IF ok \/ h.blind THEN "adding" ELSE "failed",
                           ![m].back = ok]
             /\ DoubtFailure(ok, h.sensor, h.blind, "skipped")
       /\ UNCHANGED <<joinVars, table, busy, owners, reload, unpairVars>>

\* Mutation of Add: a failed add is not undone.
AddUnrestored(m) ==
    LET h == move[m]
    IN /\ At(m, "adding")
       /\ \E ok \in BOOLEAN :
             /\ Command(h.to, With(h.to, h.sensor), ok)
             /\ GoTo(m, IF ok THEN "added" ELSE "failed")
             /\ DoubtFailure(ok, h.sensor, FALSE, "lost")
       /\ UNCHANGED <<joinVars, table, busy, owners, reload, unpairVars>>

\* Add at the new owner; if that fails and the old one gave the sensor up, put
\* it back there.
Add(m) ==
    LET h == move[m]
    IN /\ At(m, "adding")
       /\ \E ok \in BOOLEAN :
             /\ Command(h.to, With(h.to, h.sensor), ok)
             /\ GoTo(m, IF ok THEN "added"
                        ELSE IF h.back THEN "restoring" ELSE "failed")
             /\ DoubtFailure(ok, h.sensor, FALSE, "lost")
       /\ UNCHANGED <<joinVars, table, busy, owners, reload, unpairVars>>

Restore(m) ==
    LET h == move[m]
    IN /\ At(m, "restoring")
       /\ \E ok \in BOOLEAN :
             /\ Command(h.from, With(h.from, h.sensor), ok)
             /\ DoubtFailure(ok, h.sensor, TRUE, "refused")
       /\ GoTo(m, "failed")
       /\ UNCHANGED <<joinVars, table, busy, owners, reload, unpairVars>>

\* Mutation of Finish: the old owner's copy keeps the entry.
FinishKept(m) ==
    LET h == move[m]
        s == h.sensor
        listed == s \in table[h.from]
    IN /\ At(m, "added")
       /\ busy' = busy \ {s}
       /\ table' = IF listed
                   THEN [table EXCEPT ![h.to] = IF h.to \in known THEN @ \cup {s} ELSE @]
                   ELSE table
       /\ GoTo(m, "recording")
       /\ DoubtIf(~listed, s, "unlisted")
       /\ UNCHANGED <<nv, joinVars, owners, reload, unpairVars>>

\* The copies are updated: the entry is moved from one to the other, if the
\* old owner's copy still has it.
Finish(m) ==
    LET h == move[m]
        s == h.sensor
        listed == s \in table[h.from]
    IN /\ At(m, "added")
       /\ busy' = busy \ {s}
       /\ table' = IF listed
                   THEN [table EXCEPT ![h.from] = @ \ {s},
                                      ![h.to] = IF h.to \in known THEN @ \cup {s} ELSE @]
                   ELSE table
       /\ GoTo(m, "recording")
       /\ DoubtIf(~listed, s, "unlisted")
       /\ UNCHANGED <<nv, joinVars, owners, reload, unpairVars>>

\* set_owner, under a lock of its own.
Record(m) ==
    /\ At(m, "recording")
    /\ owners' = [owners EXCEPT ![move[m].sensor] = move[m].to]
    /\ move' = [move EXCEPT ![m] = NoMove]
    /\ UNCHANGED <<nv, joinVars, table, busy, reload, unpairVars, doubt>>

\* Mutation of GiveUp: the error leaves before the sensor is unmarked.
GiveUpBusy(m) ==
    /\ At(m, "failed")
    /\ move' = [move EXCEPT ![m] = NoMove]
    /\ UNCHANGED <<nv, joinVars, table, busy, owners, reload, unpairVars, doubt>>

GiveUp(m) ==
    /\ At(m, "failed")
    /\ busy' = busy \ {move[m].sensor}
    /\ move' = [move EXCEPT ![m] = NoMove]
    /\ UNCHANGED <<nv, joinVars, table, owners, reload, unpairVars, doubt>>

-------------------------------------------------------------------------------
(* A gateway connects (gateway_connected) and disconnects. *)

\* Its session registers an engine, in place of an older session's if there
\* is one, and starts reading what the gateway is and holds.
Connect(g) ==
    /\ g \in Roving \/ g \notin linked
    /\ join[g] = NoJoin
    /\ linked' = linked \cup {g}
    /\ join' = [join EXCEPT ![g].step = "reading"]
    /\ UNCHANGED <<nv, known, online, table, moveVars, owners, reload, unpairVars,
                   doubt>>

JoinFails(g) ==
    /\ join[g].step = "reading"
    /\ CanFail(g)
    /\ join' = [join EXCEPT ![g] = NoJoin]
    /\ UNCHANGED <<nv, linked, known, online, table, moveVars, owners, reload,
                   unpairVars, doubt>>

\* The probe times out: the gateway is taken for a stock dongle and forgotten.
JoinForgets(g) ==
    /\ join[g].step = "reading"
    /\ CanFail(g)
    /\ known' = known \ {g}
    /\ online' = online \ {g}
    /\ table' = [table EXCEPT ![g] = {}]
    /\ join' = [join EXCEPT ![g] = NoJoin]
    /\ Doubt(table[g] \cap busy, "overwritten")
    /\ UNCHANGED <<nv, linked, moveVars, owners, reload, unpairVars>>

\* The table has been read.
JoinRead(g) ==
    /\ join[g].step = "reading"
    /\ g \in linked
    /\ join' = [join EXCEPT ![g].step = "read", ![g].seen = nv[g]]
    /\ UNCHANGED <<nv, linked, known, online, table, moveVars, owners, reload,
                   unpairVars, doubt>>

\* The sensors another online gateway lists too: the owner recorded last keeps
\* such a sensor, failing that the gateway that was there first.
Duplicates(g, seen) ==
    {IF owners[p[1]] = g
     THEN [sensor |-> p[1], keep |-> g, at |-> p[2]]
     ELSE [sensor |-> p[1], keep |-> p[2], at |-> g] :
        p \in {q \in seen \X (online \ {g}) : q[1] \in table[q[2]]}}

\* The gateway is entered with the table as it was read.
JoinStore(g) ==
    LET seen == join[g].seen
    IN /\ join[g].step = "read"
       /\ known' = known \cup {g}
       /\ online' = online \cup {g}
       /\ table' = [table EXCEPT ![g] = seen]
       /\ \E drops \in SetToSeqs(Duplicates(g, seen)) :
             join' = [join EXCEPT ![g] = [step |-> "settling", seen |-> {},
                                          drops |-> drops]]
       /\ Doubt(Overwrites(g, seen), "overwritten")
       /\ UNCHANGED <<nv, linked, moveVars, owners, reload, unpairVars>>

\* The next duplicate is deleted where it is to go ...
Drop(g) ==
    LET d == Head(join[g].drops)
    IN /\ join[g].step = "settling"
       /\ join[g].drops # <<>>
       /\ \E ok \in BOOLEAN :
             /\ Command(d.at, Without(d.at, d.sensor), ok)
             /\ join' = [join EXCEPT
                           ![g].step = IF ok THEN "dropped" ELSE "settling",
                           ![g].drops = IF ok THEN @ ELSE Tail(@)]
             /\ DoubtFailure(ok, d.sensor, TRUE, "refused")
       /\ UNCHANGED <<linked, known, online, table, moveVars, owners, reload,
                      unpairVars>>

\* ... then in the copy of that table ...
DropListed(g) ==
    LET d == Head(join[g].drops)
    IN /\ join[g].step = "dropped"
       /\ table' = [table EXCEPT ![d.at] = @ \ {d.sensor}]
       /\ join' = [join EXCEPT ![g].step = "recording"]
       /\ UNCHANGED <<nv, linked, known, online, moveVars, owners, reload,
                      unpairVars, doubt>>

\* ... and the one that keeps it is recorded.
DropRecorded(g) ==
    LET d == Head(join[g].drops)
    IN /\ join[g].step = "recording"
       /\ owners' = [owners EXCEPT ![d.sensor] = d.keep]
       /\ join' = [join EXCEPT ![g].step = "settling", ![g].drops = Tail(@)]
       /\ UNCHANGED <<nv, linked, known, online, table, moveVars, reload,
                      unpairVars, doubt>>

Joined(g) ==
    /\ join[g].step = "settling"
    /\ join[g].drops = <<>>
    /\ join' = [join EXCEPT ![g] = NoJoin]
    /\ UNCHANGED <<nv, linked, known, online, table, moveVars, owners, reload,
                   unpairVars, doubt>>

\* Its connection is gone.  Its copy stays, and so does a gateway_connected
\* that is still at work for it.
Disconnect(g) ==
    /\ g \in Roving \cap linked
    /\ linked' = linked \ {g}
    /\ online' = online \ {g}
    /\ UNCHANGED <<nv, known, table, moveVars, owners, join, reload, unpairVars,
                   doubt>>

-------------------------------------------------------------------------------
(* Reloading a gateway's table (refresh_table). *)

\* Some task carries s along in what it read or decided.
InFlight(s) ==
    \/ \E m \in Movers : move[m] # NoMove /\ move[m].sensor = s
    \/ \E g \in Gateways :
          \/ s \in join[g].seen \cup reload[g].seen
          \/ \E i \in DOMAIN join[g].drops : join[g].drops[i].sensor = s

Upset ==
    /\ upsets < MaxUpsets
    /\ upsets' = upsets + 1

\* check_flags found the flags gone.
Restarted(g) ==
    /\ g \in online \cap linked
    /\ reload[g] = NoReload
    /\ reload' = [reload EXCEPT ![g].step = "wanted"]
    /\ Upset
    /\ UNCHANGED <<nv, joinVars, table, moveVars, owners, unpair, doubt>>

\* A user pairs a sensor at a gateway, which reports it.  The gateway it was
\* paired at before, if any, still has it.
Pair(s, g) ==
    /\ g \in online \cap linked
    /\ s \notin nv[g]
    /\ reload[g] = NoReload
    /\ nv' = With(g, s)
    /\ reload' = [reload EXCEPT ![g].step = "wanted"]
    /\ DoubtIf(HeldAt(s) # {} \/ InFlight(s) \/ \E h \in Gateways : s \in table[h],
               s, "paired")
    /\ Upset
    /\ UNCHANGED <<joinVars, table, moveVars, owners, unpair>>

ReloadRead(g) ==
    /\ reload[g].step = "wanted"
    /\ g \in linked
    /\ reload' = [reload EXCEPT ![g] = [step |-> "read", seen |-> nv[g]]]
    /\ UNCHANGED <<nv, joinVars, table, moveVars, owners, unpairVars, doubt>>

ReloadFails(g) ==
    /\ reload[g].step = "wanted"
    /\ CanFail(g)
    /\ reload' = [reload EXCEPT ![g] = NoReload]
    /\ Doubt(Disagree(table[g], nv[g]), "overwritten")
    /\ UNCHANGED <<nv, joinVars, table, moveVars, owners, unpairVars>>

\* The copy is overwritten with what was read.
ReloadStore(g) ==
    /\ reload[g].step = "read"
    /\ table' = IF g \in known THEN [table EXCEPT ![g] = reload[g].seen] ELSE table
    /\ reload' = [reload EXCEPT ![g] = NoReload]
    /\ Doubt(Overwrites(g, reload[g].seen), "overwritten")
    /\ UNCHANGED <<nv, joinVars, moveVars, owners, unpairVars>>

-------------------------------------------------------------------------------
(* Unpairing a sensor (unpair_sensor, then remove_sensor). *)

Unpair(s) ==
    /\ unpair[s] = NotUnpairing
    /\ unpair' = [unpair EXCEPT ![s] = [active |-> TRUE, todo |-> linked]]
    /\ Upset
    /\ UNCHANGED <<nv, joinVars, table, moveVars, owners, reload, doubt>>

\* Deleted at one gateway after the other; failures are ignored.
UnpairAt(s, g) ==
    /\ g \in unpair[s].todo
    /\ \E ok \in BOOLEAN :
          /\ Command(g, Without(g, s), ok)
          /\ DoubtFailure(ok, s, TRUE, "refused")
    /\ unpair' = [unpair EXCEPT ![s].todo = @ \ {g}]
    /\ UNCHANGED <<joinVars, table, moveVars, owners, reload, upsets>>

\* Mutation of Unpaired: the entry is left in the copies.
UnpairedKept(s) ==
    /\ unpair[s].active
    /\ unpair[s].todo = {}
    /\ busy' = busy \ {s}
    /\ owners' = [owners EXCEPT ![s] = NoGateway]
    /\ unpair' = [unpair EXCEPT ![s] = NotUnpairing]
    /\ DoubtIf(HeldAt(s) # {} \/ InFlight(s), s, "unpaired")
    /\ UNCHANGED <<nv, joinVars, table, move, reload, upsets>>

Unpaired(s) ==
    /\ unpair[s].active
    /\ unpair[s].todo = {}
    /\ table' = [g \in Gateways |-> table[g] \ {s}]
    /\ busy' = busy \ {s}
    /\ owners' = [owners EXCEPT ![s] = NoGateway]
    /\ unpair' = [unpair EXCEPT ![s] = NotUnpairing]
    /\ DoubtIf(HeldAt(s) # {} \/ InFlight(s), s, "unpaired")
    /\ UNCHANGED <<nv, joinVars, move, reload, upsets>>

-------------------------------------------------------------------------------
MoveStep(m) ==
    \/ Start(m)
    \/ Delete(m)
    \/ Add(m)
    \/ Restore(m)
    \/ Finish(m)
    \/ Record(m)
    \/ GiveUp(m)

JoinStep(g) ==
    \/ JoinFails(g)
    \/ JoinForgets(g)
    \/ JoinRead(g)
    \/ JoinStore(g)
    \/ Drop(g)
    \/ DropListed(g)
    \/ DropRecorded(g)
    \/ Joined(g)

Next ==
    \/ \E m \in Movers, s \in Sensors : Consider(m, s)
    \/ \E m \in Movers : MoveStep(m)
    \/ \E g \in Gateways : Connect(g) \/ JoinStep(g) \/ Disconnect(g)
    \/ \E g \in Gateways :
          Restarted(g) \/ ReloadRead(g) \/ ReloadFails(g) \/ ReloadStore(g)
    \/ \E s \in Sensors, g \in Gateways : Pair(s, g) \/ UnpairAt(s, g)
    \/ \E s \in Sensors : Unpair(s) \/ Unpaired(s)

Spec == Init /\ [][Next]_vars

\* A task that runs a handover goes on: every command it waits for ends (the
\* engine implements CommandService), and the state lock is never held for long.
Fairness ==
    /\ \A m \in Movers : WF_vars(MoveStep(m))
    /\ \A g \in Gateways :
          /\ WF_vars(JoinStep(g))
          /\ WF_vars(ReloadRead(g) \/ ReloadFails(g) \/ ReloadStore(g))
    /\ \A s \in Sensors :
          WF_vars(Unpaired(s) \/ \E g \in Gateways : UnpairAt(s, g))

FairSpec == Spec /\ Fairness

-------------------------------------------------------------------------------
(* Properties. *)

\* Sensors nothing went wrong for that the code does not put right.
Trusted == {s \in Sensors : doubt[s] = "none"}

\* Task m is between deciding on a handover of s and unmarking s.
Working(m, s) ==
    move[m] # NoMove /\ move[m].sensor = s /\ move[m].step # "recording"

\* What `busy` is for: no two handovers of one sensor run at once.  (Unpairing
\* unmarks a sensor whatever task is at work on it; that is a doubt.)
OneHandover ==
    \A s \in Trusted, m, n \in Movers :
        Working(m, s) /\ Working(n, s) => m = n

\* "... so two gateways never own a sensor at once" (roaming/mod.rs:19-21), as
\* far as it goes: whatever connects, drops, is paired, reloaded or handed over
\* meanwhile, it takes one of the causes listed to put a sensor in two tables.
OneOwner == \A s \in Trusted : Cardinality(HeldAt(s)) <= 1

Dropping(s) ==
    \E g \in Gateways :
        \E i \in DOMAIN join[g].drops : join[g].drops[i].sensor = s

Settled(s) ==
    /\ \A m \in Movers : ~Working(m, s)
    /\ ~Dropping(s)
    /\ ~unpair[s].active

\* The coordinator's copies are right: for a sensor no task is at work on, what
\* it believes of every gateway it knows is what that gateway has in NVRAM.
\* With it, no sensor is lost: one that some copy lists is in some table.
CopiesTrue ==
    \A s \in Trusted, g \in known :
        Settled(s) /\ reload[g] = NoReload => (s \in table[g] <=> s \in nv[g])

\* No upset leaves a sensor with two gateways, or the coordinator wrong about it.
TablesTrue == OneOwner /\ CopiesTrue

\* A handover ends, and with it the mark that keeps the sensor from being
\* handed over again, however the commands fail.
BusyEnds == \A s \in Sensors : s \in busy ~> s \notin busy

\* A trusted sensor that is between its old and its new owner.
InTransit == {s \in Trusted :
                 /\ HeldAt(s) = {}
                 /\ \E m \in Movers :
                       move[m] # NoMove /\ move[m].sensor = s
                       /\ move[m].step \in {"adding", "restoring"} /\ move[m].back}

\* The coordinator keeps the promise of SensorOwnership: a trusted sensor is
\* never in two tables, leaves one only to be put into one again, and then is.
Ownership == INSTANCE SensorOwnership
               WITH holders <- [s \in Sensors |-> HeldAt(s)],
                    moving <- InTransit,
                    trusted <- Trusted

ImplementsOwnership == Ownership!OwnershipSpec /\ Ownership!Retaken
===============================================================================
