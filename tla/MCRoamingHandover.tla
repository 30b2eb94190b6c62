--------------------------- MODULE MCRoamingHandover ---------------------------
(* Small instances of RoamingHandover for TLC. *)
EXTENDS RoamingHandover, TLC

Symmetry == Permutations(Gateways) \cup Permutations(Movers)
===============================================================================
