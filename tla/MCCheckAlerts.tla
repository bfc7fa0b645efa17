----------------------------- MODULE MCCheckAlerts -----------------------------
(* Values for TLC: two evaluations at once. *)
EXTENDS CheckAlerts, TLC

CONSTANTS t1, t2

MCTasks == {t1, t2}
MCSymmetry == Permutations(MCTasks)
================================================================================
