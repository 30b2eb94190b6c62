--------------------------- MODULE MCKeypadController ---------------------------
(* Small instances of KeypadController for TLC. *)
EXTENDS KeypadController, TLC

\* Keypads are interchangeable; the run checks only invariants.
Symmetry == Permutations(Keypads)
===============================================================================
