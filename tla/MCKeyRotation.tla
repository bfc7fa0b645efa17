----------------------------- MODULE MCKeyRotation -----------------------------
(* Values for TLC. *)
EXTENDS KeyRotation

\* What follows once requests crossed isn't explored: every property is about
\* what happens unless they do.
Uncrossed == ~crossed
================================================================================
