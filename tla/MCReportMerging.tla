---------------------------- MODULE MCReportMerging ----------------------------
(* Small instances of ReportMerging for TLC. *)
EXTENDS ReportMerging, TLC

GatewaySymmetry == Permutations(Listeners)
===============================================================================
