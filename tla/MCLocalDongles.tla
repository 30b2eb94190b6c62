----------------------------- MODULE MCLocalDongles -----------------------------
(* Small instances of LocalDongles for TLC. *)
EXTENDS LocalDongles, TLC

TaskNodeSymmetry == Permutations(Tasks) \cup Permutations(Nodes)
===============================================================================
