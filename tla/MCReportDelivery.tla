---------------------------- MODULE MCReportDelivery ----------------------------
(* Values for TLC: three reports, a black box of one beside the one in hand,
   batches of two. *)
EXTENDS ReportDelivery, TLC

CONSTANTS c1, c2

MCCalls == {c1, c2}
MCTimes == 1..4
MCSymmetry == Permutations(MCCalls)
================================================================================
