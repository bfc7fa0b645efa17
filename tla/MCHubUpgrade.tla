----------------------------- MODULE MCHubUpgrade -----------------------------
(* Values for TLC. *)
EXTENDS HubUpgrade
===============================================================================
