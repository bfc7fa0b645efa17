----------------------------- MODULE MCCheckConfig ----------------------------
(* Values for TLC: a switch and a gateway, not linked yet, and a printer made  *)
(* later.                                                                      *)
EXTENDS CheckConfig

MCFirstLink == [c \in First |-> NoCheck]
===============================================================================
