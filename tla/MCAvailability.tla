---------------------------- MODULE MCAvailability ----------------------------
(* Small instances of Availability for TLC. *)
EXTENDS Availability
===============================================================================
