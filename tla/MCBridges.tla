------------------------------- MODULE MCBridges -------------------------------
(* Small instances of Bridges for TLC. *)
EXTENDS Bridges
===============================================================================
