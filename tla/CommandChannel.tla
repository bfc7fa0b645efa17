----------------------------- MODULE CommandChannel -----------------------------
(***************************************************************************)
(* One probe's commands: people queue and cancel them, the hub puts them   *)
(* in its answers to the probe's reports and polls (service/commands.rs,   *)
(* service/poll.rs, ingest.rs), the probe runs each and says so in its     *)
(* next report (probe/commands.rs, poller.rs, main.rs).  Every await of    *)
(* the hub between two accesses to its database is a place where another   *)
(* request may run.                                                        *)
(*                                                                         *)
(* The commands are those of one kind, numbered in the order of their      *)
(* creation: there are fewer kinds than a message takes commands, so those *)
(* of other kinds neither hold these back nor are held back by them.  What *)
(* becomes of a report on its way is ReportDelivery's; here it arrives or  *)
(* is lost.                                                                *)
(***************************************************************************)
EXTENDS Naturals, FiniteSets

CONSTANTS
  MaxCommands,     \* bound: commands in a behaviour
  Users,           \* people who click at once
  Polls,           \* bound: polls on the hub at once
  MaxFaults        \* bound: requests lost or given up, crashes, failures

ASSUME BoundsAssumption ==
  MaxCommands \in Nat /\ MaxFaults \in Nat

\* A poll is not the report, and there may be none.
ASSUME NamesAssumption == Polls \cap {"report", "none"} = {}

Commands == 1..MaxCommands
Requests == Polls \union {"report"}

VARIABLES
  cmd,        \* probe_commands: each command's state
  expired,    \* those past their expires_at
  user,       \* what each person's click is about to queue
  req,        \* the requests the hub works on: a stage and a list of commands
  waiter,     \* the probe's entry in CommandWaiters.held
  permits,    \* the polls whose Notify was notified
  \* The probe.
  done,       \* the commands it remembers having run
  results,    \* results for its next report
  outbox,     \* results in reports not delivered yet
  asking,     \* the poll it waits for
  polled,     \* commands from the poller to the loop
  faults,
  runs,       \* history: how often each command was run
  crashes     \* history: how often the probe went down

hubVars == <<cmd, expired, user, req, waiter, permits>>
probeVars == <<done, results, outbox, asking, polled>>
vars == <<hubVars, probeVars, faults, runs, crashes>>

Away == [stage |-> "away", list |-> {}]

Init ==
  /\ cmd = [c \in Commands |-> "none"]
  /\ expired = {}
  /\ user = [u \in Users |-> 0]
  /\ req = [r \in Requests |-> Away]
  /\ waiter = "none"
  /\ permits = {}
  /\ done = {} /\ results = {} /\ outbox = {} /\ asking = "none" /\ polled = {}
  /\ faults = 0
  /\ runs = [c \in Commands |-> 0]
  /\ crashes = 0
At(r, stage) == req[r].stage = stage
Goes(r, stage, list) == req' = [req EXCEPT ![r] = [stage |-> stage, list |-> list]]

-----------------------------------------------------------------------------
(***************************************************************************)
(* People.                                                                 *)
(***************************************************************************)

Waiting == {"queued", "delivered"}

\* The commands that wait and haven't expired.  (Wrong on purpose: only those
\* never sent.)
PendingUnsent == {c \in Commands : cmd[c] = "queued" /\ c \notin expired}
Pending == {c \in Commands : cmd[c] \in Waiting /\ c \notin expired}

\* queue: the same command that waits already is returned, and nothing changes.
Click(u) ==
  /\ user[u] = 0
  /\ Pending = {}
  /\ \E c \in Commands :
       /\ \A d \in Commands : cmd[d] = "none" <=> d >= c
       /\ user' = [user EXCEPT ![u] = c]
       /\ cmd' = [cmd EXCEPT ![c] = "clicked"]
  /\ UNCHANGED <<expired, req, waiter, permits, probeVars, faults, runs, crashes>>

\* create_command
Create(u) ==
  /\ user[u] # 0 /\ cmd[user[u]] = "clicked"
  /\ cmd' = [cmd EXCEPT ![user[u]] = "queued"]
  /\ UNCHANGED <<expired, user, req, waiter, permits, probeVars, faults, runs, crashes>>

\* CommandWaiters::wake: the poll that is held, if one is.
Wake(u) ==
  /\ user[u] # 0 /\ cmd[user[u]] # "clicked"
  /\ user' = [user EXCEPT ![u] = 0]
  /\ permits' = permits \union {p \in {waiter} : p \in Polls /\ At(p, "held")}
  /\ UNCHANGED <<cmd, expired, req, waiter, probeVars, faults, runs, crashes>>

\* cancel_command: only one that was never sent.
Cancel ==
  /\ \E c \in Commands :
       /\ cmd[c] = "queued"
       /\ cmd' = [cmd EXCEPT ![c] = "cancelled"]
  /\ UNCHANGED <<expired, user, req, waiter, permits, probeVars, faults, runs, crashes>>

Expire ==
  /\ \E c \in Commands : cmd[c] \in Waiting /\ expired' = expired \union {c}
  /\ UNCHANGED <<cmd, user, req, waiter, permits, probeVars, faults, runs, crashes>>
-----------------------------------------------------------------------------
(***************************************************************************)
(* The hub's answers.                                                      *)
(***************************************************************************)

\* complete_command: one that still waits, expired or not.  (Wrong on purpose:
\* not when it expired.)
CompletesInTime(c) == cmd[c] \in Waiting /\ c \notin expired
Completes(c) == cmd[c] \in Waiting

\* record_results
RecordResults ==
  /\ At("report", "saved")
  /\ cmd' = [c \in Commands |->
              IF c \in req["report"].list /\ Completes(c) THEN "done" ELSE cmd[c]]
  /\ Goes("report", "arrived", {})
  /\ UNCHANGED <<expired, user, waiter, permits, probeVars, faults, runs, crashes>>

\* to_send reads what waits.  With nothing to send, a report and a poll that was
\* held already are answered, and a poll is held.
ReadPending(r) ==
  /\ At(r, "arrived") \/ At(r, "woken")
  /\ CASE Pending # {} -> Goes(r, "listed", Pending)
       [] Pending = {} /\ r \in Polls /\ At(r, "arrived") -> Goes(r, "holding", {})
       [] OTHER -> Goes(r, "answered", {})
  /\ UNCHANGED <<cmd, expired, user, waiter, permits, probeVars, faults, runs, crashes>>

\* mark_commands_delivered: those not cancelled meanwhile; the answer has all.
\* (Wrong on purpose: what became of them meanwhile is written over.)
MarkAll(r) ==
  /\ At(r, "listed")
  /\ cmd' = [c \in Commands |-> IF c \in req[r].list THEN "delivered" ELSE cmd[c]]
  /\ Goes(r, "answered", req[r].list)
  /\ UNCHANGED <<expired, user, waiter, permits, probeVars, faults, runs, crashes>>
MarkDelivered(r) ==
  /\ At(r, "listed")
  /\ cmd' = [c \in Commands |->
              IF c \in req[r].list /\ cmd[c] = "queued"
              THEN "delivered" ELSE cmd[c]]
  /\ Goes(r, "answered", req[r].list)
  /\ UNCHANGED <<expired, user, waiter, permits, probeVars, faults, runs, crashes>>

\* hold: the probe's earlier poll is released, one is held at a time.
Hold(p) ==
  /\ At(p, "holding")
  /\ Goes(p, "held", {})
  /\ waiter' = p
  /\ permits' = permits \union {q \in {waiter} : q \in Polls /\ At(q, "held")}
  /\ UNCHANGED <<cmd, expired, user, probeVars, faults, runs, crashes>>

\* MAX_HELD polls of other probes are held: not held, asked again later.
HoldFull(p) ==
  /\ At(p, "holding") /\ waiter = "none"
  /\ Goes(p, "answered", {})
  /\ UNCHANGED <<cmd, expired, user, waiter, permits, probeVars, faults, runs, crashes>>

\* Notified, or HOLD_SECS are over.  (An entry's generation tells its poll from
\* a later one.)
EndHold(p) ==
  /\ At(p, "held")
  /\ Goes(p, "woken", {})
  /\ waiter' = IF waiter = p THEN "none" ELSE waiter
  /\ permits' = permits \ {p}
  /\ UNCHANGED <<cmd, expired, user, probeVars, faults, runs, crashes>>
-----------------------------------------------------------------------------
(***************************************************************************)
(* The probe.                                                              *)
(***************************************************************************)

\* A cycle's report takes the results that wait.
Report ==
  /\ req["report"] = Away
  /\ outbox' = outbox \union results
  /\ results' = {}
  /\ Goes("report", "saved", outbox')
  /\ UNCHANGED <<cmd, expired, user, waiter, permits, done, asking, polled, faults, runs, crashes>>

\* receive: runs what it doesn't remember.  (Wrong on purpose: it runs all.)
ReceiveAll(list) == list
New(list) == list \ done

Receive(list) ==
  /\ done' = done \union list
  /\ results' = results \union New(list)
  /\ runs' = [c \in Commands |-> IF c \in New(list) THEN runs[c] + 1 ELSE runs[c]]

\* The answer to the report: its results were delivered.
HearReport ==
  /\ At("report", "answered")
  /\ outbox' = {}
  /\ Receive(req["report"].list)
  /\ Goes("report", "away", {})
  /\ UNCHANGED <<cmd, expired, user, waiter, permits, asking, polled, faults, crashes>>

\* The poller asks, and hands what it hears to the loop.  (Polls are alike.)
Poll(p) ==
  /\ asking = "none" /\ req[p] = Away
  /\ p = CHOOSE q \in Polls : req[q] = Away
  /\ asking' = p
  /\ Goes(p, "arrived", {})
  /\ UNCHANGED <<cmd, expired, user, waiter, permits, done, results, outbox, polled, faults, runs, crashes>>

HearPoll(p) ==
  /\ At(p, "answered") /\ asking = p
  /\ asking' = "none"
  /\ polled' = polled \union req[p].list
  /\ Goes(p, "away", {})
  /\ UNCHANGED <<cmd, expired, user, waiter, permits, done, results, outbox, faults, runs, crashes>>

\* Between two reports the loop runs what the poller got.
RunPolled ==
  /\ req["report"] = Away /\ polled # {}
  /\ polled' = {}
  /\ Receive(polled)
  /\ UNCHANGED <<hubVars, outbox, asking, faults, crashes>>
-----------------------------------------------------------------------------
(***************************************************************************)
(* Faults.                                                                 *)
(***************************************************************************)

Fault == faults < MaxFaults /\ faults' = faults + 1

\* A report isn't heard of, or its answer isn't: it is sent again, with its
\* results.
LoseReport ==
  /\ Fault
  /\ req["report"] # Away /\ Goes("report", "away", {})
  /\ UNCHANGED <<cmd, expired, user, waiter, permits, probeVars, runs, crashes>>

\* A report is gone with its results: refused, pruned, or dropped by the hub
\* after the save (its retry gets 409).
LoseResults ==
  /\ Fault
  /\ outbox # {} /\ outbox' = {}
  /\ Goes("report", "away", {})
  /\ UNCHANGED <<cmd, expired, user, waiter, permits, done, results, asking, polled, runs, crashes>>

\* The probe gives a poll up; the hub still holds it.
GiveUpPoll ==
  /\ Fault
  /\ asking # "none" /\ asking' = "none"
  /\ UNCHANGED <<hubVars, done, results, outbox, polled, runs, crashes>>

\* The hub notices that nobody waits for a poll: its entry among the held stays.
DropPoll(p) ==
  /\ req[p] # Away /\ asking # p
  /\ Goes(p, "away", {})
  /\ permits' = permits \ {p}
  /\ UNCHANGED <<cmd, expired, user, waiter, probeVars, faults, runs, crashes>>

\* A click's request is dropped or fails before it wakes anyone.
DropClick(u) ==
  /\ Fault
  /\ user[u] # 0 /\ user' = [user EXCEPT ![u] = 0]
  /\ cmd' = IF cmd[user[u]] = "clicked"
            THEN [cmd EXCEPT ![user[u]] = "none"] ELSE cmd
  /\ UNCHANGED <<expired, req, waiter, permits, probeVars, runs, crashes>>

\* The probe stops and starts again: reports on disk are left.
RestartProbe ==
  /\ Fault
  /\ done' = {} /\ results' = {} /\ polled' = {} /\ asking' = "none"
  /\ outbox' \in {outbox, {}}
  /\ req' = [req EXCEPT !["report"] = Away]
  /\ crashes' = crashes + 1
  /\ UNCHANGED <<cmd, expired, user, waiter, permits, runs>>

\* The hub stops and starts again: what is in its database is left.
RestartHub ==
  /\ Fault
  /\ req' = [r \in Requests |-> Away]
  /\ waiter' = "none" /\ permits' = {} /\ asking' = "none"
  /\ user' = [u \in Users |-> 0]
  /\ cmd' = [c \in Commands |-> IF cmd[c] = "clicked" THEN "none" ELSE cmd[c]]
  /\ UNCHANGED <<expired, done, results, outbox, polled, runs, crashes>>
-----------------------------------------------------------------------------
UserStep(u) == Create(u) \/ Wake(u)
PollStep(p) == ReadPending(p) \/ MarkDelivered(p) \/ Hold(p) \/ EndHold(p) \/ DropPoll(p)
ReportStep == RecordResults \/ ReadPending("report") \/ MarkDelivered("report") \/ HearReport
PollerStep == \E p \in Polls : Poll(p) \/ HearPoll(p)

Next ==
  \/ \E u \in Users : Click(u) \/ UserStep(u) \/ DropClick(u)
  \/ \E p \in Polls : PollStep(p) \/ HoldFull(p)
  \/ Cancel \/ Expire
  \/ Report \/ ReportStep \/ PollerStep \/ RunPolled
  \/ LoseReport \/ LoseResults \/ GiveUpPoll \/ RestartProbe \/ RestartHub

Spec == Init /\ [][Next]_vars

\* Requests and the probe's loops go on.  A hold ends after HOLD_SECS.
Fairness ==
  /\ \A u \in Users : WF_vars(UserStep(u))
  /\ \A p \in Polls : WF_vars(PollStep(p))
  /\ WF_vars(Report) /\ WF_vars(ReportStep) /\ WF_vars(PollerStep) /\ WF_vars(RunPolled)

FairSpec == Spec /\ Fairness
-----------------------------------------------------------------------------
Stages == {"away", "saved", "arrived", "listed", "holding", "held", "woken", "answered"}

TypeOK ==
  /\ cmd \in [Commands -> Waiting \union {"none", "clicked", "done", "cancelled"}]
  /\ expired \in SUBSET Commands
  /\ user \in [Users -> 0..MaxCommands]
  /\ req \in [Requests -> [stage : Stages, list : SUBSET Commands]]
  /\ waiter \in Polls \union {"none"}
  /\ permits \in SUBSET Polls
  /\ done \in SUBSET Commands /\ results \in SUBSET Commands /\ outbox \in SUBSET Commands
  /\ polled \in SUBSET Commands /\ asking \in Polls \union {"none"}
  /\ faults \in 0..MaxFaults /\ crashes \in 0..MaxFaults
  /\ runs \in [Commands -> 0..(1 + MaxFaults)]

\* Delivery is at least once, and more than once only for a probe that restarted
\* in between (common/commands.rs).
RunsNeedRestarts == \A c \in Commands : runs[c] <= 1 + crashes

\* What the database has of each command: nothing of a click on its way there.
Recorded == [c \in Commands |-> IF cmd[c] = "clicked" THEN "none" ELSE cmd[c]]

\* The promise CommandLog states.
Log == INSTANCE CommandLog WITH recorded <- Recorded, ran <- runs, downs <- crashes

\* What the hub records of a command only goes forward, "done" only if it ran,
\* and one that ran is never cancelled, however requests, answers and results
\* are lost, late and repeated (mark_delivered, complete, cancel).
ImplementsCommandLog == Log!LogSpec

\* Whatever was sent and sent again, a command the hub still waits for either
\* never ran, or its result is on its way, unless something failed.
ResultOnItsWay ==
  faults = 0 =>
    \A c \in Commands : runs[c] > 0 /\ cmd[c] \in Waiting => c \in results \union outbox

\* A command comes to be run, or to be cancelled or to expire, whatever happens
\* to polls, reports and answers in between; a lost wake or poll only delays it.
CommandsArrive ==
  \A c \in Commands :
    cmd[c] = "queued" ~> runs[c] > 0 \/ c \in expired \/ cmd[c] = "cancelled"

\* What was run is known to have been, unless something failed.
ResultsArrive ==
  [](faults = 0) => \A c \in Commands : runs[c] > 0 ~> cmd[c] \in {"done", "cancelled"}
================================================================================
