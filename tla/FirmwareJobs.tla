------------------------------ MODULE FirmwareJobs ------------------------------
(***************************************************************************)
(* Firmware jobs of src/src/firmware/mod.rs and relay.rs: installing,      *)
(* restoring and relay updates, one at a time.                             *)
(*                                                                         *)
(* A request checks, takes the job slot and spawns a task.  The task       *)
(* changes "the job in the slot" as it goes on, without looking whether    *)
(* that is still its own.  A USB dongle is taken from its session by       *)
(* reserving its device node; users move dongles between nodes meanwhile.  *)
(*                                                                         *)
(* Module Maintenance puts the jobs together with sensor updates.          *)
(***************************************************************************)
EXTENDS Integers

CONSTANTS
    Dongles,    \* USB dongles
    Relays,     \* bridged relays
    Nodes,      \* device nodes
    Nobody,     \* no dongle, or no node
    Targets,    \* bounds the gateways jobs are started for
    MaxJobs,    \* bounds the jobs
    MaxMoves    \* bounds how often dongles are plugged in or unplugged

ASSUME JobsAssumption ==
    /\ MaxJobs \in Nat /\ MaxMoves \in Nat
    /\ Dongles \cap Relays = {}
    /\ Targets \subseteq Dongles \cup Relays
    /\ Nobody \notin Dongles \cup Nodes

VARIABLES
    slot,       \* Firmware::job
    begun,      \* Firmware::next_id
    asking,     \* requests between their checks and the slot
    task,       \* task[j]: where the task of job j is
    release,    \* Firmware::release: the job that downloaded it
    cancelling, \* jobs cancelled whose release is still to be dropped
    reserved,   \* the reservation held by a task: node and job
    at,         \* at[n]: the dongle on node n
    engine,     \* engine[d]: the node of dongle d's session
    moves,      \* how often dongles were moved
    traced      \* history; see Traces

jobVars == <<slot, begun, asking, task, release, cancelling, reserved>>
dongleVars == <<at, engine, moves>>
firmwareVars == <<jobVars, dongleVars, traced>>

Ids == 1..MaxJobs
NoId == 0

\* JobKind and Step.
Kinds == {"install", "restore", "relay"}
Active == {"download", "backup", "review", "flash", "replug", "restart"}
Over == {"done", "failed", "cancelled"}

NoJob == [id |-> NoId, step |-> "none"]
Jobs == [id : Ids, kind : Kinds \ {"relay"}, dongle : Dongles, path : Nodes,
         step : Active \cup Over]
        \cup [id : Ids, kind : {"relay"}, dongle : Relays, path : {Nobody},
              step : Active \cup Over]
JobActive == slot.step \in Active

Requests == [kind : Kinds \ {"relay"}, dongle : Dongles, path : Nodes]
            \cup [kind : {"relay"}, dongle : Relays, path : {Nobody}]

\* Where a task may be, and the step its job is then in.
StepAt == [download |-> "download", claim |-> "backup", backup |-> "backup",
           confirmed |-> "flash", lookup |-> "flash", reclaim |-> "flash",
           write |-> "flash", replug |-> "replug",
           upload |-> "flash", restart |-> "restart"]
Working == DOMAIN StepAt
Places == Working \cup {"none", "ended"}

NoReservation == [node |-> Nobody, by |-> NoId]

\* For the properties only.
Traces == [
    sure : BOOLEAN,         \* the job's dongle has stayed where the job looked it up
    strayed : BOOLEAN]      \* a job touched another dongle although it had

FirmwareTypeOK ==
    /\ slot \in Jobs \cup {NoJob}
    /\ begun \in 0..MaxJobs
    /\ asking \subseteq Requests
    /\ task \in [Ids -> Places]
    /\ release \in Ids \cup {NoId}
    /\ cancelling \subseteq Ids
    /\ reserved \in [node : Nodes \cup {Nobody}, by : Ids \cup {NoId}]
    /\ at \in [Nodes -> Dongles \cup {Nobody}]
    /\ engine \in [Dongles -> Nodes \cup {Nobody}]
    /\ moves \in 0..MaxMoves
    /\ traced \in Traces

FirmwareInit ==
    /\ slot = NoJob
    /\ begun = 0
    /\ asking = {}
    /\ task = [j \in Ids |-> "none"]
    /\ release = NoId
    /\ cancelling = {}
    /\ reserved = NoReservation
    /\ at \in [Nodes -> Dongles \cup {Nobody}]
    /\ \A m, n \in Nodes : at[m] = at[n] /\ at[m] # Nobody => m = n
    /\ engine = [d \in Dongles |-> Nobody]
    /\ moves = 0
    /\ traced = [sure |-> FALSE, strayed |-> FALSE]

-------------------------------------------------------------------------------
(* Users and their dongles; sessions, as LocalDongles provides them. *)

Plug(d, n) ==
    /\ moves < MaxMoves
    /\ at[n] = Nobody
    /\ \A m \in Nodes : at[m] # d
    /\ at' = [at EXCEPT ![n] = d]
    /\ moves' = moves + 1
    /\ UNCHANGED <<jobVars, engine, traced>>

Unplug(n) ==
    /\ moves < MaxMoves
    /\ at[n] # Nobody
    /\ at' = [at EXCEPT ![n] = Nobody]
    /\ traced' = [traced EXCEPT !.sure = @ /\ slot.dongle # at[n]]
    /\ moves' = moves + 1
    /\ UNCHANGED <<jobVars, engine>>

Attach(n) ==
    /\ at[n] # Nobody
    /\ reserved.node # n
    /\ engine[at[n]] # n
    /\ engine' = [engine EXCEPT ![at[n]] = n]
    /\ UNCHANGED <<jobVars, at, moves, traced>>

Detach(d) ==
    /\ engine[d] # Nobody
    /\ at[engine[d]] # d \/ reserved.node = engine[d]
    /\ engine' = [engine EXCEPT ![d] = Nobody]
    /\ UNCHANGED <<jobVars, at, moves, traced>>

-------------------------------------------------------------------------------
(* Starting a job. *)

Sure(d, n) == n # Nobody /\ at[n] = d

\* begin, up to the slot: the dongle is connected, as the right kind of gateway,
\* and no sensor update is running (`updating`).
Ask(kind, d, updating) ==
    /\ ~updating
    /\ IF kind = "relay" THEN d \in Relays ELSE d \in Dongles /\ engine[d] # Nobody
    /\ asking' = asking \cup
         {[kind |-> kind, dongle |-> d, path |-> IF kind = "relay" THEN Nobody ELSE engine[d]]}
    /\ UNCHANGED <<slot, begun, task, release, cancelling, reserved, dongleVars, traced>>

Take(r) ==
    LET id == begun + 1
    IN /\ begun < MaxJobs
       /\ begun' = id
       /\ slot' = [id |-> id, kind |-> r.kind, dongle |-> r.dongle, path |-> r.path,
                   step |-> IF r.kind = "restore" THEN "flash" ELSE "download"]
       /\ task' = [task EXCEPT ![id] = IF r.kind = "restore" THEN "lookup" ELSE "download"]
       /\ traced' = [traced EXCEPT !.sure = Sure(r.dongle, r.path)]

\* Mutation of Begin: the slot is taken without looking into it.
BeginAnyway(r) ==
    /\ r \in asking
    /\ asking' = asking \ {r}
    /\ Take(r)
    /\ UNCHANGED <<release, cancelling, reserved, dongleVars>>

\* begin, the slot: refused while a job is active.
Begin(r) ==
    /\ r \in asking
    /\ asking' = asking \ {r}
    /\ IF JobActive THEN UNCHANGED <<begun, slot, task, traced>> ELSE Take(r)
    /\ UNCHANGED <<release, cancelling, reserved, dongleVars>>

\* Firmware::update
Step(step) == slot' = [slot EXCEPT !.step = step]

Goes(j, from, to) ==
    /\ task[j] = from
    /\ task' = [task EXCEPT ![j] = to]

Reserve(n, j) == reserved' = [node |-> n, by |-> j]
Free(j) == reserved' = IF reserved.by = j THEN NoReservation ELSE reserved

-------------------------------------------------------------------------------
(* Install: download and backup (prepare). *)

Downloaded(j) ==
    /\ Goes(j, "download", "claim")
    /\ slot.kind # "relay"
    /\ release' = j
    /\ Step("backup")
    /\ Reserve(slot.path, j)
    /\ UNCHANGED <<begun, asking, cancelling, dongleVars, traced>>

\* LocalDongles::reserve: the session on the node is over.
NoSession(n) == \A d \in Dongles : engine[d] # n

Held(j) ==
    /\ Goes(j, "claim", "backup") \/ Goes(j, "reclaim", "write")
    /\ NoSession(reserved.node)
    /\ UNCHANGED <<slot, begun, asking, release, cancelling, reserved, dongleVars, traced>>

\* The dongle the job meets on its node is not its own, though that has not moved.
Strays == traced.strayed \/ (traced.sure /\ at[reserved.node] # slot.dongle)

\* The whole chip is read and saved, and the job is in review.
BackUp(j) ==
    /\ Goes(j, "backup", "ended")
    /\ at[reserved.node] # Nobody
    /\ Step("review")
    /\ Free(j)
    /\ traced' = [traced EXCEPT !.strayed = Strays]
    /\ UNCHANGED <<begun, asking, release, cancelling, dongleVars>>

InReview == slot.step = "review"

\* confirm: the job goes on; its task takes the release.
Confirm ==
    /\ InReview
    /\ Step("flash")
    /\ task' = [task EXCEPT ![slot.id] = "confirmed"]
    /\ UNCHANGED <<begun, asking, release, cancelling, reserved, dongleVars, traced>>

\* cancel, up to its second lock, and from there.
Cancel ==
    /\ InReview
    /\ Step("cancelled")
    /\ cancelling' = cancelling \cup {slot.id}
    /\ UNCHANGED <<begun, asking, task, release, reserved, dongleVars, traced>>

CancelDrops(j) ==
    /\ j \in cancelling
    /\ cancelling' = cancelling \ {j}
    /\ release' = NoId
    /\ UNCHANGED <<slot, begun, asking, task, reserved, dongleVars, traced>>

-------------------------------------------------------------------------------
(* Writing (write, await_replug). *)

\* confirm: the task has the release, or there is none and it fails.
TakeRelease(j) ==
    /\ IF release # NoId
       THEN Goes(j, "confirmed", "lookup") /\ UNCHANGED slot
       ELSE Goes(j, "confirmed", "ended") /\ Step("failed")
    /\ release' = NoId
    /\ UNCHANGED <<begun, asking, cancelling, reserved, dongleVars, traced>>

\* Mutation of PathNow: the node is where it was when the job began.
PathThen == slot.path

\* The node the dongle's session has now, if it has one.
PathNow == IF engine[slot.dongle] # Nobody THEN engine[slot.dongle] ELSE slot.path

Lookup(j) ==
    /\ Goes(j, "lookup", "reclaim")
    /\ slot' = [slot EXCEPT !.path = PathNow]
    /\ Reserve(PathNow, j)
    /\ traced' = [traced EXCEPT
         !.sure = IF engine[slot.dongle] # Nobody
                  THEN Sure(slot.dongle, engine[slot.dongle]) ELSE @]
    /\ UNCHANGED <<begun, asking, release, cancelling, dongleVars>>

\* The node is written and checked: the dongle answers ("done"), only its USB
\* chip does ("failed"), or it does not ("replug").
Write(j) ==
    /\ \E end \in {"done", "failed", "replug"} :
          /\ Goes(j, "write", IF end = "replug" THEN "replug" ELSE "ended")
          /\ Step(end)
    /\ at[reserved.node] # Nobody
    /\ Free(j)
    /\ traced' = [traced EXCEPT !.strayed = Strays]
    /\ UNCHANGED <<begun, asking, release, cancelling, dongleVars>>

\* await_replug: the dongle is attached again, or REPLUG_TIMEOUT has passed.
Replugged(j) ==
    /\ Goes(j, "replug", "ended")
    /\ engine[slot.dongle] # Nobody
    /\ IF slot.step = "replug" THEN Step("done") ELSE UNCHANGED slot
    /\ UNCHANGED <<begun, asking, release, cancelling, reserved, dongleVars, traced>>

ReplugTimesOut(j) ==
    /\ Goes(j, "replug", "ended")
    /\ UNCHANGED <<slot, begun, asking, release, cancelling, reserved, dongleVars, traced>>

-------------------------------------------------------------------------------
(* Relays (run_relay_update), and failures. *)

Uploading(j) ==
    /\ Goes(j, "download", "upload")
    /\ slot.kind = "relay"
    /\ Step("flash")
    /\ UNCHANGED <<begun, asking, release, cancelling, reserved, dongleVars, traced>>

Uploaded(j) ==
    /\ Goes(j, "upload", "restart")
    /\ Step("restart")
    /\ UNCHANGED <<begun, asking, release, cancelling, reserved, dongleVars, traced>>

Restarted(j) ==
    /\ Goes(j, "restart", "ended")
    /\ Step("done")
    /\ UNCHANGED <<begun, asking, release, cancelling, reserved, dongleVars, traced>>

\* A step fails or times out: fail, and the reservation is dropped.
Fails(j) ==
    /\ task[j] \in Working \ {"confirmed", "replug"}
    /\ Goes(j, task[j], "ended")
    /\ Step("failed")
    /\ Free(j)
    /\ UNCHANGED <<begun, asking, release, cancelling, dongleVars, traced>>

-------------------------------------------------------------------------------
TaskStep(j) ==
    \/ Downloaded(j) \/ Held(j) \/ BackUp(j)
    \/ TakeRelease(j) \/ Lookup(j) \/ Write(j) \/ Replugged(j) \/ ReplugTimesOut(j)
    \/ Uploading(j) \/ Uploaded(j) \/ Restarted(j)
    \/ Fails(j)

FirmwareNext(updating) ==
    \/ \E d \in Dongles, n \in Nodes : Plug(d, n)
    \/ \E n \in Nodes : Unplug(n) \/ Attach(n)
    \/ \E d \in Dongles : Detach(d)
    \/ \E kind \in Kinds, d \in Targets : Ask(kind, d, updating)
    \/ \E r \in asking : Begin(r)
    \/ Confirm \/ Cancel
    \/ \E j \in Ids : TaskStep(j) \/ CancelDrops(j)

-------------------------------------------------------------------------------
(* Properties. *)

\* A job and its task go together: a task that calls update or fail changes its
\* own job, in the step it believes it is in, for nothing ends or replaces a job
\* under its task; and an active job that waits for no user has a task.
TaskOwnsSlot ==
    /\ \A j \in Ids : task[j] \in Working => slot.id = j /\ slot.step = StepAt[task[j]]
    /\ slot.step \in Active \ {"review", "replug"} => task[slot.id] \in Working

\* While a job works on a dongle it has the node to itself; a reservation is
\* the working task's, and none outlives its task.
NodeHeldAlone ==
    /\ reserved.by # NoId =>
          task[reserved.by] \in {"claim", "backup", "reclaim", "write"}
    /\ \A j \in Ids : task[j] \in {"backup", "write"} =>
          reserved = [node |-> slot.path, by |-> j] /\ \A d \in Dongles : engine[d] # slot.path

\* As long as the job's dongle stays where the job looked it up, that dongle is
\* the one that is backed up and written, even after it was moved before.
OwnDongle == ~traced.strayed

\* A job works on its own dongle, and nobody else does.
JobAlone == NodeHeldAlone /\ OwnDongle
===============================================================================
