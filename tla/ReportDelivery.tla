----------------------------- MODULE ReportDelivery -----------------------------
(***************************************************************************)
(* One probe delivering its reports to the hub: the probe's monitoring     *)
(* loop as far as delivery goes (probe/src/main.rs), its outbox and black  *)
(* box (outbox.rs, storage.rs), the requests on their way, and the hub's   *)
(* ingest (hub/src/service/ingest.rs, hub/src/ingest.rs, save_report).     *)
(*                                                                         *)
(* A report is known by its number in the order the probe makes them; its  *)
(* content is left out, its timestamp kept.  The table pending_reports is  *)
(* the set of the numbers in it: a report is queued in the cycle that made *)
(* it, so row order is number order.                                       *)
(***************************************************************************)
EXTENDS Integers, FiniteSets

CONSTANTS
  MaxReports,      \* bound: reports made in a behaviour
  MaxBuffered,     \* MAX_BUFFERED_REPORTS
  FlushBatch,      \* FLUSH_BATCH
  Times,           \* the timestamps the probe's clock can show
  ClockStepsBack,  \* whether that clock may be set back
  Calls,           \* bound: HTTP requests that can be under way at once
  NoCall

ASSUME BoundsAssumption ==
  /\ MaxReports \in Nat
  /\ MaxBuffered \in Nat
  /\ FlushBatch \in Nat \ {0}

ASSUME ClockAssumption == Times \subseteq Nat /\ ClockStepsBack \in BOOLEAN

ASSUME CallsAssumption == NoCall \notin Calls

VARIABLES
  made,       \* number of reports made
  stamp,      \* their timestamps
  fate,       \* history: what became of each report, as the probe sees it
  pc,         \* where the probe's loop is
  current,    \* the report of this cycle, while it is only in memory
  blackbox,   \* pending_reports, on disk
  batch,      \* the rows this flush still has to send
  enrolled,   \* enrollment.json exists, on disk
  calls,      \* the requests under way
  awaited,    \* the one the probe waits for
  active,     \* the hub's record says the probe is active (not revoked)
  stored,     \* the reports in the hub's database
  followed    \* those whose follow-ups (heartbeat, results, alerts) were done

reportVars == <<made, stamp, fate>>
probeVars == <<pc, current, blackbox, batch, enrolled>>
netVars == <<calls, awaited>>
hubVars == <<active, stored, followed>>
vars == <<reportVars, probeVars, netVars, hubVars>>

Reports == 1..MaxReports
NoReport == 0

Fates == {"unmade", "held", "delivered", "rejected", "pruned", "revoked", "lost"}

\* idle: between cycles.  direct and flush: in Outbox::submit, delivering.
\* revoked, cleared: acting on a revocation.  waiting: in wait_for_enrollment.
Places == {"idle", "built", "direct", "flush", "revoked", "cleared", "waiting", "down"}

\* A request the hub works on, and how one ends.
Working == {"sent", "checked", "saved"}
Answers == {"stored", "not_newer", "refused", "revoked", "failed", "lost"}
Free == [stage |-> "free", rep |-> NoReport]
CallRecord == [stage : Working \union Answers, rep : Reports] \union {Free}

\* The reports the probe still has to deliver, and those on their way.
Held == {n \in Reports : fate[n] = "held"}
Reps == {calls[c].rep : c \in {d \in Calls : calls[d] # Free}}
-----------------------------------------------------------------------------
Init ==
  /\ made = 0
  /\ stamp = [n \in Reports |-> 0]
  /\ fate = [n \in Reports |-> "unmade"]
  /\ pc = "idle"
  /\ current = NoReport
  /\ blackbox = {}
  /\ batch = {}
  /\ enrolled = TRUE
  /\ calls = [c \in Calls |-> Free]
  /\ awaited = NoCall
  /\ active = TRUE
  /\ stored = {}
  /\ followed = {}

(***************************************************************************)
(* The probe.                                                              *)
(***************************************************************************)

\* A cycle: run the checks, build and stamp the report, sign and seal it.  No
\* two cycles start at the same instant.
BuildReport ==
  /\ pc = "idle"
  /\ made < MaxReports
  /\ \E t \in Times :
       /\ \A n \in 1..made : stamp[n] # t /\ (ClockStepsBack \/ stamp[n] < t)
       /\ stamp' = [stamp EXCEPT ![made + 1] = t]
  /\ made' = made + 1
  /\ fate' = [fate EXCEPT ![made + 1] = "held"]
  /\ current' = made + 1
  /\ pc' = "built"
  /\ UNCHANGED <<blackbox, batch, enrolled, netVars, hubVars>>

\* BlackBox::prune keeps the newest rows, at most MaxBuffered of them.  How
\* many are too old is left open; row age follows row order while the clock
\* only moves forward.
Prunings ==
  {kept \in SUBSET blackbox :
     /\ Cardinality(kept) <= MaxBuffered
     /\ ClockStepsBack \/ \A n \in kept, m \in blackbox \ kept : m < n}

\* BlackBox::oldest(FLUSH_BATCH)
Oldest(rows) ==
  {first \in SUBSET rows :
     /\ \A n \in first, m \in rows \ first : n < m
     /\ Cardinality(first) = IF Cardinality(rows) < FlushBatch
                             THEN Cardinality(rows) ELSE FlushBatch}

\* Nothing waits: the fast path is taken.  (Wrong on purpose: it always is.)
Always(kept) == TRUE
NoBacklog(kept) == kept = {}

\* Outbox::submit up to the first delivery: prune, then the fast path if
\* nothing waits, else join the back of the queue and flush.
Submit ==
  /\ pc = "built"
  /\ \E kept \in Prunings :
       /\ fate' = [n \in Reports |-> IF n \in blackbox \ kept THEN "pruned" ELSE fate[n]]
       /\ \/ /\ NoBacklog(kept)
             /\ pc' = "direct"
             /\ blackbox' = kept
             /\ UNCHANGED <<batch, current>>
          \/ /\ ~NoBacklog(kept)
             /\ pc' = "flush"
             /\ blackbox' = kept \union {current}
             /\ batch' \in Oldest(kept \union {current})
             /\ current' = NoReport
  /\ UNCHANGED <<made, stamp, enrolled, netVars, hubVars>>

\* The report `submit` or `flush` hands to ReportSender::deliver next.
NextToDeliver(n) ==
  \/ pc = "direct" /\ n = current
  \/ pc = "flush" /\ n \in batch /\ \A m \in batch : n <= m

Deliver(c) ==
  /\ awaited = NoCall
  /\ calls[c] = Free
  /\ \E n \in Reports :
       /\ NextToDeliver(n)
       /\ calls' = [calls EXCEPT ![c] = [stage |-> "sent", rep |-> n]]
  /\ awaited' = c
  /\ UNCHANGED <<reportVars, probeVars, hubVars>>

\* What `classify` makes of an answer that says why.
Heard(c, answers) ==
  /\ awaited = c
  /\ calls[c].stage \in answers
  /\ calls' = [calls EXCEPT ![c] = Free]
  /\ awaited' = NoCall

\* The report is dropped from wherever it was, and the flush goes on.
LetGo(n, why) ==
  /\ fate' = [fate EXCEPT ![n] = why]
  /\ blackbox' = blackbox \ {n}
  /\ current' = NoReport

\* The answers that count as delivered.  (Wrong on purpose: a 500 does too.)
AcceptedOrFailed == {"stored", "not_newer", "failed"}
Accepted == {"stored", "not_newer"}

Delivered(c) ==
  /\ Heard(c, Accepted)
  /\ LetGo(calls[c].rep, "delivered")
  /\ batch' = batch \ {calls[c].rep}
  /\ pc' = IF batch' = {} THEN "idle" ELSE "flush"
  /\ UNCHANGED <<made, stamp, enrolled, hubVars>>

Rejected(c) ==
  /\ Heard(c, {"refused"})
  /\ LetGo(calls[c].rep, "rejected")
  /\ batch' = batch \ {calls[c].rep}
  /\ pc' = IF batch' = {} THEN "idle" ELSE "flush"
  /\ UNCHANGED <<made, stamp, enrolled, hubVars>>

Revoked(c) ==
  /\ Heard(c, {"revoked"})
  /\ LetGo(calls[c].rep, "revoked")
  /\ batch' = {}
  /\ pc' = "revoked"
  /\ UNCHANGED <<made, stamp, enrolled, hubVars>>

\* The client stops waiting (its 10 s are over, the connection failed, or a
\* 5xx, 408 or 429 came back): the request may still be on its way.
StopWaiting(c) ==
  /\ awaited' = NoCall
  /\ calls' = [calls EXCEPT ![c] = IF @.stage \in Working THEN @ ELSE Free]

\* Wrong on purpose: a flush tries the same report again at once.
RetryAtOnce(c) ==
  /\ awaited = c
  /\ StopWaiting(c)
  /\ UNCHANGED <<reportVars, probeVars, hubVars>>

\* What a retry leaves in the black box.
Written(c) == blackbox \union {calls[c].rep}

\* Keep the report (the fast path writes it down now) and end the submit.
Retry(c) ==
  /\ awaited = c
  /\ StopWaiting(c)
  /\ blackbox' = Written(c)
  /\ batch' = {}
  /\ current' = NoReport
  /\ pc' = "idle"
  /\ UNCHANGED <<reportVars, enrolled, hubVars>>

\* Revoked: forget the queue, then move enrollment.json aside and wait.  If it
\* can't be moved the probe goes on at its normal pace.
ClearQueue ==
  /\ pc = "revoked"
  /\ fate' = [n \in Reports |-> IF n \in blackbox THEN "revoked" ELSE fate[n]]
  /\ blackbox' = {}
  /\ pc' = "cleared"
  /\ UNCHANGED <<made, stamp, current, batch, enrolled, netVars, hubVars>>

SetAside ==
  /\ pc = "cleared"
  /\ \/ enrolled' = FALSE /\ pc' = "waiting"
     \/ enrolled' = enrolled /\ pc' = "idle"
  /\ UNCHANGED <<reportVars, current, blackbox, batch, netVars, hubVars>>

Resume ==
  /\ pc = "waiting"
  /\ enrolled
  /\ pc' = "idle"
  /\ UNCHANGED <<reportVars, current, blackbox, batch, enrolled, netVars, hubVars>>

\* The process ends anywhere: what was only in memory is gone.
Crash ==
  /\ pc # "down"
  /\ pc' = "down"
  /\ fate' = [n \in Reports |-> IF n = current THEN "lost" ELSE fate[n]]
  /\ current' = NoReport
  /\ batch' = {}
  /\ IF awaited \in Calls THEN StopWaiting(awaited) ELSE UNCHANGED netVars
  /\ UNCHANGED <<made, stamp, blackbox, enrolled, hubVars>>

Restart ==
  /\ pc = "down"
  /\ pc' = IF enrolled THEN "idle" ELSE "waiting"
  /\ UNCHANGED <<reportVars, current, blackbox, batch, enrolled, netVars, hubVars>>
-----------------------------------------------------------------------------
(***************************************************************************)
(* The hub, one step per await between which another request can run.      *)
(***************************************************************************)

Proceed(c, stage) == calls' = [calls EXCEPT ![c] = [stage |-> stage, rep |-> @.rep]]

\* The answer reaches the probe only if it still waits for this request.
Answer(c, answer) ==
  IF awaited = c THEN Proceed(c, answer) ELSE calls' = [calls EXCEPT ![c] = Free]

\* 400, 401, 403 unknown or unsigned, 422: refused for good.
Refuse(c) ==
  /\ calls[c].stage = "sent"
  /\ Answer(c, "refused")
  /\ UNCHANGED <<reportVars, probeVars, awaited, hubVars>>

\* Opened, verified, and its record read: active, or a signed 403.
CheckRecord(c) ==
  /\ calls[c].stage = "sent"
  /\ IF active
     THEN Proceed(c, "checked")
     ELSE Answer(c, "revoked")
  /\ UNCHANGED <<reportVars, probeVars, awaited, hubVars>>

\* The statement's condition.  (Wrong on purpose: equally old is let in again;
\* only what is there already is kept out.)
OnlyTheSame(n) == n \in stored
Older(n) == \E m \in stored : stamp[m] > stamp[n]
NotNewer(n) == \E m \in stored : stamp[m] >= stamp[n]

\* save_report: the check and the insert are one statement.
SaveReport(c) ==
  /\ calls[c].stage = "checked"
  /\ \/ /\ ~NotNewer(calls[c].rep)
        /\ stored' = stored \union {calls[c].rep}
        /\ Proceed(c, "saved")
     \/ /\ NotNewer(calls[c].rep)
        /\ Answer(c, "not_newer")
        /\ UNCHANGED stored
  /\ UNCHANGED <<reportVars, probeVars, awaited, active, followed>>

\* Everything after the save, and the signed answer.
FollowUp(c) ==
  /\ calls[c].stage = "saved"
  /\ followed' = followed \union {calls[c].rep}
  /\ Answer(c, "stored")
  /\ UNCHANGED <<reportVars, probeVars, awaited, active, stored>>

\* A storage failure before the save: 500.
Fail(c) ==
  /\ calls[c].stage \in {"sent", "checked"}
  /\ Answer(c, "failed")
  /\ UNCHANGED <<reportVars, probeVars, awaited, hubVars>>

\* The network or a stopping hub loses a request or its answer, at any stage:
\* the handler isn't run to its end for a connection that is gone.
Lose(c) ==
  /\ calls[c].stage \in Working \union {"stored", "not_newer", "refused", "revoked"}
  /\ Answer(c, "lost")
  /\ UNCHANGED <<reportVars, probeVars, awaited, hubVars>>

\* An administrator revokes the probe; someone enrolls it again with a code.
RevokeProbe ==
  /\ active
  /\ active' = FALSE
  /\ UNCHANGED <<reportVars, probeVars, netVars, stored, followed>>

EnrollAgain ==
  /\ ~active \/ ~enrolled
  /\ active' = TRUE
  /\ enrolled' = TRUE
  /\ UNCHANGED <<reportVars, pc, current, blackbox, batch, netVars, stored, followed>>
-----------------------------------------------------------------------------
HubStep(c) == Refuse(c) \/ CheckRecord(c) \/ SaveReport(c) \/ FollowUp(c) \/ Fail(c)

Hear(c) == Delivered(c) \/ Rejected(c) \/ Revoked(c) \/ Retry(c)

Next ==
  \/ BuildReport \/ Submit
  \/ ClearQueue \/ SetAside \/ Resume
  \/ Crash \/ Restart
  \/ RevokeProbe \/ EnrollAgain
  \/ \E c \in Calls : Deliver(c) \/ Hear(c) \/ HubStep(c) \/ Lose(c)

Spec == Init /\ [][Next]_vars

\* The loop runs while the process does, its client gives up after 10 s, and
\* every request ends.  Nothing is assumed of the network: Lose, Fail and
\* Refuse may always come instead of an acceptance.
Fairness ==
  /\ WF_vars(Submit)
  /\ WF_vars(\E c \in Calls : Deliver(c))
  /\ WF_vars(\E c \in Calls : Hear(c))
  /\ \A c \in Calls : WF_vars(HubStep(c))

FairSpec == Spec /\ Fairness
-----------------------------------------------------------------------------
TypeOK ==
  /\ made \in 0..MaxReports
  /\ stamp \in [Reports -> Nat]
  /\ fate \in [Reports -> Fates]
  /\ pc \in Places
  /\ current \in Reports \union {NoReport}
  /\ blackbox \in SUBSET Reports
  /\ batch \in SUBSET Reports
  /\ enrolled \in BOOLEAN
  /\ calls \in [Calls -> CallRecord]
  /\ awaited \in Calls \union {NoCall}
  /\ active \in BOOLEAN
  /\ stored \in SUBSET Reports
  /\ followed \in SUBSET Reports

\* Once the hub has a report it is deleted, and only then as delivered: no
\* report the outbox let go of as delivered (200, or 409) is missing on the hub.
\* Holds while the clock moves forward; see the run with ClockStepsBack.
DeliveredIsStored == \A n \in Reports : fate[n] = "delivered" => n \in stored

\* A new report never jumps ahead of the backlog: nothing under way to the hub,
\* nor anything it has stored, is newer than a report still to be delivered,
\* whatever timed out, crashed or arrived late.
OldestFirst == \A n \in Held : \A m \in stored \union Reps : m <= n

\* Every report made is in exactly one place: on disk, in memory for its own
\* cycle, or settled.  None is kept after it was settled, none is forgotten.
EachAccountedFor ==
  /\ Held = blackbox \union ({current} \ {NoReport})
  /\ current \notin blackbox

\* The follow-ups of a report (alerts, command results, heartbeat) run at most
\* once, however often it is sent: while one request does them, no other
\* request for it can come to them, before or after.
FollowedUpOnce ==
  \A c \in Calls : calls[c].stage = "saved" =>
    /\ calls[c].rep \in stored \ followed
    /\ \A d \in Calls \ {c} : calls[d].stage = "saved" => calls[d].rep # calls[c].rep

\* The black box can't grow for ever: prune runs before the new report joins,
\* so it holds at most one more than MAX_BUFFERED_REPORTS.
BufferBounded == Cardinality(blackbox) <= MaxBuffered + 1

\* The promise ReportLog states.
Log == INSTANCE ReportLog WITH
  held <- Held,
  confirmed <- {n \in Reports : fate[n] = "delivered"}

\* Delivery implements the promise: reports are stored in order, once each, and
\* one is confirmed only when the hub has it.
ImplementsLog == Log!LogSpec

\* A long backlog can't stall monitoring: a submit comes to an end whatever the
\* hub and the network do (outbox.rs on FLUSH_BATCH).
SubmitReturns == (pc \in {"direct", "flush"}) ~> (pc \notin {"direct", "flush"})
================================================================================
