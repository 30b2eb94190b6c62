---------------------------- MODULE SensorOwnership ----------------------------
(***************************************************************************)
(* What roaming promises of the gateways' sensor tables: a sensor is held  *)
(* by at most one gateway (its owner, the only one that ACKs it); it       *)
(* changes hands by being released first and taken next; and once released *)
(* it is taken again, by a new owner or by the old one.                    *)
(*                                                                         *)
(* The promise is kept for the trusted sensors.  It is silent about a      *)
(* sensor from the moment something happens to it that the coordinator     *)
(* cannot see through (a lost reply, an owner out of reach, ...).          *)
(***************************************************************************)
CONSTANTS Sensors, Gateways

VARIABLES
    holders,   \* holders[s]: the gateways whose table holds s
    moving,    \* sensors released by one gateway and to be taken by another
    trusted    \* sensors the promise is kept for

ownership == <<holders, moving, trusted>>

OwnershipInit ==
    /\ holders \in [Sensors -> {{}} \cup {{g} : g \in Gateways}]
    /\ moving = {}
    /\ trusted = Sensors

Keeps(s) ==
    /\ holders'[s] = holders[s]
    /\ s \in moving' <=> s \in moving

\* A gateway gives a sensor up for another one to take, if a user who unpairs it
\* has not made the gateway do so already.
Release(s) ==
    /\ holders'[s] = {}
    /\ s \notin moving
    /\ s \in moving'

Take(s) ==
    /\ s \in moving
    /\ s \notin moving'
    /\ \E g \in Gateways : holders'[s] = {g}

\* A user pairs a sensor no gateway has, or unpairs one at rest.
Enter(s) ==
    /\ holders[s] = {}
    /\ \E g \in Gateways : holders'[s] = {g}
    /\ s \notin moving
    /\ s \notin moving'

Leave(s) ==
    /\ holders[s] # {}
    /\ holders'[s] = {}
    /\ s \notin moving
    /\ s \notin moving'

Change(s) == Keeps(s) \/ Release(s) \/ Take(s) \/ Enter(s) \/ Leave(s)

OwnershipNext ==
    /\ trusted' \subseteq trusted
    /\ \A s \in trusted' : Change(s)

OwnershipSpec == OwnershipInit /\ [][OwnershipNext]_ownership

\* A released sensor does not stay released.
Retaken == \A s \in Sensors : s \in moving /\ s \in trusted ~> s \notin moving \/ s \notin trusted
===============================================================================
