----------------------------- MODULE MCMaintenance -----------------------------
(* Small instances of Maintenance for TLC. *)
EXTENDS Maintenance, TLC

NodeSymmetry == Permutations(Nodes)
===============================================================================
