---------------------------- MODULE MCSensorRegistry ----------------------------
(* Small instances of SensorRegistry for TLC. *)
EXTENDS SensorRegistry, TLC

Symmetry == Permutations(Sensors)
===============================================================================
