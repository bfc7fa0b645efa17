---------------------------- MODULE MCProbeUpdates ----------------------------
(* Values for TLC. *)
EXTENDS ProbeUpdates
===============================================================================
