------------------------------- MODULE CommandLog -------------------------------
(***************************************************************************)
(* What the command channel promises, without saying how commands and      *)
(* results travel.  What the hub has recorded of a command only goes       *)
(* forward, and it is "done" only if it ran.  Nobody cancels a command     *)
(* that ran, but one that is cancelled may run: it may have been on its    *)
(* way.  A command runs again only after the probe went down.              *)
(* CommandChannel implements this.                                         *)
(***************************************************************************)
EXTENDS Naturals

CONSTANT MaxCommands     \* bound: commands in a behaviour

Commands == 1..MaxCommands

VARIABLES
  recorded,    \* what the hub's database has of each command
  ran,         \* how often each ran
  downs        \* how often the probe went down

logVars == <<recorded, ran, downs>>

LogInit ==
  /\ recorded = [c \in Commands |-> "none"]
  /\ ran = [c \in Commands |-> 0]
  /\ downs = 0

\* What is recorded of some commands becomes something else.
Turn(some, what) == recorded' = [c \in Commands |-> IF c \in some THEN what ELSE recorded[c]]

Queue(c) ==
  /\ recorded[c] = "none"
  /\ Turn({c}, "queued")
  /\ UNCHANGED <<ran, downs>>

\* Only while it was never sent.
Cancel(c) ==
  /\ recorded[c] = "queued"
  /\ Turn({c}, "cancelled")
  /\ UNCHANGED <<ran, downs>>

Send(some) ==
  /\ \A c \in some : recorded[c] = "queued"
  /\ Turn(some, "delivered")
  /\ UNCHANGED <<ran, downs>>

\* What the probe hears of was marked as sent, or was cancelled just before.
Run(some) ==
  /\ \A c \in some : recorded[c] \in {"delivered", "done", "cancelled"} /\ ran[c] <= downs
  /\ ran' = [c \in Commands |-> IF c \in some THEN ran[c] + 1 ELSE ran[c]]
  /\ UNCHANGED <<recorded, downs>>

Complete(some) ==
  /\ \A c \in some : recorded[c] = "delivered" /\ ran[c] > 0
  /\ Turn(some, "done")
  /\ UNCHANGED <<ran, downs>>

GoDown ==
  /\ downs' = downs + 1
  /\ UNCHANGED <<recorded, ran>>

LogNext ==
  \/ \E c \in Commands : Queue(c) \/ Cancel(c)
  \/ \E some \in SUBSET Commands : Send(some) \/ Run(some) \/ Complete(some)
  \/ GoDown

LogSpec == LogInit /\ [][LogNext]_logVars
================================================================================
