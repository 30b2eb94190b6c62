------------------------------- MODULE Maintenance -------------------------------
(***************************************************************************)
(* Firmware jobs and sensor updates together: each must not start while    *)
(* the other is active.                                                    *)
(***************************************************************************)
EXTENDS FirmwareJobs, SensorUpdates, FiniteSets

CONSTANT MaxStarts   \* bounds the jobs and updates started, taken together

VARIABLE raced   \* history: a job and an update were being started at once

maintenanceVars == <<firmwareVars, updateVars, raced>>

ASSUME MaintenanceAssumption ==
    /\ Gateways \subseteq Dongles \cup Relays
    /\ MaxStarts \in Nat

TypeOK ==
    /\ FirmwareTypeOK
    /\ UpdatesTypeOK
    /\ raced \in BOOLEAN

Init ==
    /\ FirmwareInit
    /\ UpdatesInit
    /\ raced = FALSE

\* Mutation of Updating: a sensor update is not looked for.
UpdatingNot == FALSE

\* What a firmware request sees of sensor updates, and the other way round.
Updating == UpdateActive
Flashing == JobActive

Connected == {g \in Gateways : g \in Relays \/ (g \in Dongles /\ engine[g] # Nobody)}

Started == begun + Cardinality(asking) + offered + Cardinality(wanted)

Next ==
    /\ \/ FirmwareNext(Updating) /\ UNCHANGED updateVars
       \/ UpdatesNext(Flashing, Connected) /\ UNCHANGED firmwareVars
    /\ Started' <= MaxStarts
    /\ raced' = (raced \/ (asking' # {} /\ wanted' # {}))

Spec == Init /\ [][Next]_maintenanceVars

-------------------------------------------------------------------------------
(* Properties. *)

\* No firmware job runs while sensors are updated, unless the two were started
\* at the same moment, or an update met the worker of a cancelled one, which may
\* end it too early.
NotBoth == JobActive /\ UpdateActive => raced \/ flagged.shared # {}
===============================================================================
