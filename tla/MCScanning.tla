------------------------------- MODULE MCScanning -------------------------------
(* Small instances of Scanning for TLC. *)
EXTENDS Scanning, TLC

Symmetry == Permutations(Dongles)
===============================================================================
