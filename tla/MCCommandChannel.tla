---------------------------- MODULE MCCommandChannel ----------------------------
(* Values for TLC. *)
EXTENDS CommandChannel
================================================================================
