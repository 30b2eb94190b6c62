------------------------------ MODULE SensorUpdates ------------------------------
(***************************************************************************)
(* Sensor updates over the air (src/src/firmware/sensors.rs).              *)
(*                                                                         *)
(* A request checks, takes the slot and spawns a worker.  The worker turns *)
(* the gateway's update flag on, runs until the sensors are done or it is  *)
(* cancelled, and puts the flag back.  A cancelled update counts as over   *)
(* at once, so the next may begin while its worker still tidies up.        *)
(*                                                                         *)
(* What is offered and sent to the sensors (ows-host's Ota) is left out.   *)
(***************************************************************************)
EXTENDS Integers

CONSTANTS
    Gateways,   \* the gateways that can update sensors
    MaxUpdates  \* bounds the updates

ASSUME UpdatesAssumption == MaxUpdates \in Nat

VARIABLES
    update,     \* Firmware::sensor_job
    offered,    \* the updates begun so far
    wanted,     \* requests between their checks and the slot
    stopping,   \* a cancel has found an update active and is to notify
    permit,     \* Firmware::sensor_cancel
    worker,     \* worker[u]: the worker of update u
    listener,   \* Engine::ota_listener of each gateway
    flag,       \* each gateway's update flag
    flagged     \* history; see Flagged

updateVars == <<update, offered, wanted, stopping, permit, worker, listener, flag, flagged>>

UpdateIds == 1..MaxUpdates
NoUpdateId == 0

\* SensorStep
UpdateActive == update.step \in {"download", "running"}
NoUpdate == [id |-> NoUpdateId, step |-> "none"]
Updates == [id : UpdateIds, gateway : Gateways,
            step : {"download", "running", "done", "failed", "cancelled"}]

\* A worker: where it is, `before` and `res`.
Idle == [at |-> "none"]
Tidying == {"withdraw", "probeAgain", "putBack", "report"}
Workers == [at : {"download", "probe", "flagOn", "loop", "ended"} \cup Tidying,
            gateway : Gateways, before : BOOLEAN, ok : BOOLEAN]
AtWork(u) == worker[u].at \notin {"none", "ended"}

\* For the properties only.
Flagged == [
    first : [Gateways -> BOOLEAN],  \* the flags before any update
    failed : SUBSET Gateways,       \* where a command failed
    shared : SUBSET UpdateIds,      \* updates that met the worker of a cancelled one
    cut : SUBSET UpdateIds]         \* updates that stopped for a cancel

UpdatesTypeOK ==
    /\ update \in Updates \cup {NoUpdate}
    /\ offered \in 0..MaxUpdates
    /\ wanted \subseteq Gateways
    /\ stopping \in BOOLEAN
    /\ permit \in BOOLEAN
    /\ worker \in [UpdateIds -> Workers \cup {Idle}]
    /\ listener \in [Gateways -> UpdateIds \cup {NoUpdateId}]
    /\ flag \in [Gateways -> BOOLEAN]
    /\ flagged \in Flagged

UpdatesInit ==
    /\ update = NoUpdate
    /\ offered = 0
    /\ wanted = {}
    /\ stopping = FALSE
    /\ permit = FALSE
    /\ worker = [u \in UpdateIds |-> Idle]
    /\ listener = [g \in Gateways |-> NoUpdateId]
    /\ flag \in [Gateways -> BOOLEAN]
    /\ flagged = [first |-> flag, failed |-> {}, shared |-> {}, cut |-> {}]

-------------------------------------------------------------------------------
(* Users. *)

\* start_sensor_update, up to the slot: the gateway is connected, and no firmware
\* job is active (`flashing`).
AskUpdate(g, flashing) ==
    /\ ~flashing
    /\ wanted' = wanted \cup {g}
    /\ UNCHANGED <<update, offered, stopping, permit, worker, listener, flag, flagged>>

TakeUpdate(g) ==
    LET id == offered + 1
        met == {u \in UpdateIds : AtWork(u)} \cap (flagged.cut \cup flagged.shared)
    IN /\ offered < MaxUpdates
       /\ offered' = id
       /\ update' = [id |-> id, gateway |-> g, step |-> "download"]
       /\ worker' = [worker EXCEPT ![id] = [at |-> "download", gateway |-> g,
                                            before |-> FALSE, ok |-> TRUE]]
       /\ flagged' = [flagged EXCEPT !.shared =
                         IF met = {} THEN @ ELSE @ \cup met \cup {id}]

\* Mutation of BeginUpdate: the slot is taken without looking into it.
BeginUpdateAnyway(g) ==
    /\ g \in wanted
    /\ wanted' = wanted \ {g}
    /\ TakeUpdate(g)
    /\ UNCHANGED <<stopping, permit, listener, flag>>

\* start_sensor_update, the slot: refused while an update is active.
BeginUpdate(g) ==
    /\ g \in wanted
    /\ wanted' = wanted \ {g}
    /\ IF UpdateActive THEN UNCHANGED <<update, offered, worker, flagged>> ELSE TakeUpdate(g)
    /\ UNCHANGED <<stopping, permit, listener, flag>>

\* cancel_sensor_update: an update must be active; the worker is notified.
AskCancel ==
    /\ UpdateActive
    /\ stopping' = TRUE
    /\ UNCHANGED <<update, offered, wanted, permit, worker, listener, flag, flagged>>

Notify ==
    /\ stopping
    /\ stopping' = FALSE
    /\ permit' = TRUE
    /\ UNCHANGED <<update, offered, wanted, worker, listener, flag, flagged>>

-------------------------------------------------------------------------------
(* The worker (run_sensor_update, and what start_sensor_update spawns). *)

\* update_sensors changes the update in the slot, whichever it is.
ShowStep(step) == update' = [update EXCEPT !.step = step]

Moves(u, from, to) ==
    /\ worker[u].at = from
    /\ worker' = [worker EXCEPT ![u].at = to]

MovesFailed(u, from, to) ==
    /\ worker[u].at = from
    /\ worker' = [worker EXCEPT ![u].at = to, ![u].ok = FALSE]

\* A command to the gateway of update u failed.
CommandFails(u) == flagged' = [flagged EXCEPT !.failed = @ \cup {worker[u].gateway}]

Fetched(u) ==
    /\ Moves(u, "download", "probe") \/ MovesFailed(u, "download", "report")
    /\ UNCHANGED <<update, offered, wanted, stopping, permit, listener, flag, flagged>>

\* The flags are read and the gateway's packets subscribed to.
Probe(u) ==
    LET g == worker[u].gateway
    IN /\ \/ /\ worker[u].at = "probe"
             /\ worker' = [worker EXCEPT ![u].at = "flagOn", ![u].before = flag[g]]
             /\ listener' = [listener EXCEPT ![g] = u]
             /\ UNCHANGED flagged
          \/ /\ MovesFailed(u, "probe", "report")
             /\ CommandFails(u)
             /\ UNCHANGED listener
       /\ UNCHANGED <<update, offered, wanted, stopping, permit, flag>>

\* The update flag goes on; a command reported as failed may have worked.
FlagOn(u) ==
    LET g == worker[u].gateway
    IN /\ \/ /\ Moves(u, "flagOn", "loop")
             /\ flag' = [flag EXCEPT ![g] = TRUE]
             /\ ShowStep("running")
             /\ UNCHANGED flagged
          \/ /\ MovesFailed(u, "flagOn", "withdraw")
             /\ \E f \in {flag[g], TRUE} : flag' = [flag EXCEPT ![g] = f]
             /\ CommandFails(u)
             /\ UNCHANGED update
       /\ UNCHANGED <<offered, wanted, stopping, permit, listener>>

\* The loop ends: all is done, or a write fails, the gateway refuses the offer
\* or someone else took the subscription.
LoopEnds(u) ==
    /\ \/ Moves(u, "loop", "withdraw") \/ MovesFailed(u, "loop", "withdraw")
    /\ UNCHANGED <<update, offered, wanted, stopping, permit, listener, flag, flagged>>

\* The loop is notified of a cancel.
LoopCancelled(u) ==
    /\ Moves(u, "loop", "withdraw")
    /\ permit
    /\ permit' = FALSE
    /\ ShowStep("cancelled")
    /\ flagged' = [flagged EXCEPT !.cut = @ \cup {u}]
    /\ UNCHANGED <<offered, wanted, stopping, listener, flag>>

\* Tidying up: unsubscribe and withdraw the offers, read the flags, put them back.
Withdraw(u) ==
    /\ Moves(u, "withdraw", "probeAgain")
    /\ listener' = [listener EXCEPT ![worker[u].gateway] = NoUpdateId]
    /\ UNCHANGED <<update, offered, wanted, stopping, permit, flag, flagged>>

\* Mutation of Restored: the flag is just turned off.
RestoredOff(u) == FALSE

\* The update flag goes back to what it was before the update.
Restored(u) == worker[u].before

ProbeAgain(u) ==
    LET asBefore == flag[worker[u].gateway] = Restored(u)
    IN /\ \/ /\ Moves(u, "probeAgain", IF asBefore THEN "report" ELSE "putBack")
             /\ UNCHANGED flagged
          \/ /\ Moves(u, "probeAgain", "report")
             /\ CommandFails(u)
       /\ UNCHANGED <<update, offered, wanted, stopping, permit, listener, flag>>

PutBack(u) ==
    LET g == worker[u].gateway
    IN /\ Moves(u, "putBack", "report")
       /\ \/ /\ flag' = [flag EXCEPT ![g] = Restored(u)]
             /\ UNCHANGED flagged
          \/ /\ \E f \in {flag[g], Restored(u)} : flag' = [flag EXCEPT ![g] = f]
             /\ CommandFails(u)
       /\ UNCHANGED <<update, offered, wanted, stopping, permit, listener>>

\* The results are shown and the update is over.
ReportBack(u) ==
    /\ Moves(u, "report", "ended")
    /\ IF ~worker[u].ok THEN ShowStep("failed")
       ELSE IF update.step = "running" THEN ShowStep("done")
       ELSE UNCHANGED update
    /\ UNCHANGED <<offered, wanted, stopping, permit, listener, flag, flagged>>

-------------------------------------------------------------------------------
WorkerStep(u) ==
    \/ Fetched(u) \/ Probe(u) \/ FlagOn(u)
    \/ LoopEnds(u) \/ LoopCancelled(u)
    \/ Withdraw(u) \/ ProbeAgain(u) \/ PutBack(u) \/ ReportBack(u)

UpdatesNext(flashing, connected) ==
    \/ \E g \in connected : AskUpdate(g, flashing)
    \/ \E g \in wanted : BeginUpdate(g)
    \/ AskCancel \/ Notify
    \/ \E u \in UpdateIds : WorkerStep(u)

-------------------------------------------------------------------------------
(* Properties. *)

\* An update whose worker is at work is the one in the slot and still active,
\* except one that was cancelled and tidies up, and those that met one.
WorkerOwnsSlot ==
    \A u \in UpdateIds \ flagged.shared :
        AtWork(u) => update.id = u /\ (UpdateActive \/ u \in flagged.cut)

\* After the updates the gateways' flags are what they were, unless a command
\* failed or two updates met.
FlagPutBack ==
    (\A u \in UpdateIds : ~AtWork(u)) =>
        \A g \in Gateways \ flagged.failed :
            flag[g] = flagged.first[g] \/ flagged.shared # {}
===============================================================================
