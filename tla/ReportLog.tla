------------------------------- MODULE ReportLog -------------------------------
(***************************************************************************)
(* What report delivery promises, without saying how: the probe makes      *)
(* numbered reports and holds each until it either confirms it (the hub    *)
(* has it) or gives it up; the hub's record of them only ever grows at its *)
(* newest end.  ReportDelivery implements this.                            *)
(***************************************************************************)
EXTENDS Integers

CONSTANT MaxReports     \* bound: how many reports a behaviour makes

Reports == 1..MaxReports

VARIABLES
  made,        \* how many reports the probe has made
  held,        \* the reports it still has to deliver
  confirmed,   \* the ones it let go of because the hub has them
  stored       \* the reports in the hub's database

logVars == <<made, held, confirmed, stored>>

LogInit ==
  /\ made = 0
  /\ held = {}
  /\ confirmed = {}
  /\ stored = {}

Make ==
  /\ made < MaxReports
  /\ made' = made + 1
  /\ held' = held \union {made + 1}
  /\ UNCHANGED <<confirmed, stored>>

\* The hub takes a report only as its newest.  The probe may have given the
\* report up by then: a request it stopped waiting for can still arrive.
Store(n) ==
  /\ \A m \in stored : m < n
  /\ stored' = stored \union {n}
  /\ UNCHANGED <<made, held, confirmed>>

\* The one way to let go of a report as delivered: the hub has it.
Confirm(n) ==
  /\ n \in held \intersect stored
  /\ held' = held \ {n}
  /\ confirmed' = confirmed \union {n}
  /\ UNCHANGED <<made, stored>>

\* Refused for good, over the buffer's limits, revoked, or lost in a crash.
GiveUp(gone) ==
  /\ held' = held \ gone
  /\ UNCHANGED <<made, confirmed, stored>>

LogNext ==
  \/ Make
  \/ \E n \in 1..made : Store(n) \/ Confirm(n)
  \/ \E gone \in SUBSET held : GiveUp(gone)

LogSpec == LogInit /\ [][LogNext]_logVars
================================================================================
