----------------------------- MODULE MCProbeExpiry -----------------------------
(* Values for TLC: two evaluations and two reports at once. *)
EXTENDS ProbeExpiry

CONSTANTS i1, i2, t1, t2

MCIngests == {i1, i2}
MCTasks == {t1, t2}
================================================================================
