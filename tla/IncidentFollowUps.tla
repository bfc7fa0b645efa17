---------------------------- MODULE IncidentFollowUps ----------------------------
(***************************************************************************)
(* A check's incidents from opening to recovery, and what is said about    *)
(* them while nobody acknowledges them: the sweep that reminds and         *)
(* escalates (service/followups.rs) beside the evaluation that opens,      *)
(* changes and closes them (alerts/engine.rs, incidents.rs), and the       *)
(* routing rules that say who hears what (notify.rs, model.rs).            *)
(*                                                                         *)
(* One check: its incidents come one after the other, so the sweep's list  *)
(* is one incident long, and no other's error ends the sweep before its    *)
(* turn.  A notification is told once it is handed to the dispatcher.      *)
(* Every await between two accesses to the database is a place where       *)
(* another task may run.                                                   *)
(***************************************************************************)
EXTENDS Integers, Sequences, FiniteSetsExt

CONSTANTS
  RuleSets,       \* the routing rules people may save: sequences of rules
  Channels,       \* where alerts go
  Care,           \* what never happens: "quiet" (silences, windows),
                  \* "overlap" (an evaluation and a sweep at once)
  MaxIncidents,   \* bound: incidents of the check
  MaxTime,        \* bound: the clock, in a rule's shortest interval
  MaxFaults       \* bound: failures and restarts

Troubles == {"Warning", "Down"}
Kinds == Troubles \union {"Recovered"}

\* A RouteRule: the alerts it takes, where to, and the follow-ups (0: never).
Rules == [kinds : SUBSET Kinds, channels : SUBSET Channels, stop : BOOLEAN,
          every : Nat, after : Nat, escalateTo : SUBSET Channels]

ASSUME RulesAssumption == \A saved \in RuleSets : saved \in Seq(Rules)
ASSUME BoundsAssumption ==
  /\ MaxIncidents \in Nat /\ MaxTime \in Nat /\ MaxFaults \in Nat
  /\ Care \subseteq {"quiet", "overlap"}

VARIABLES
  rows,       \* the incidents in the database, oldest first
  confirmed,  \* the check's status as people were told (its alert state)
  deleted,    \* the check was deleted
  quiet,      \* what covers the check: nothing, a silence or a maintenance window
  rules,      \* the routing rules
  clock,
  eval,       \* the evaluation under way
  sweep,      \* the follow-up sweep under way
  faults,
  told        \* history: what was said about each incident

world == <<deleted, quiet, rules, clock, faults>>
vars == <<rows, confirmed, world, eval, sweep, told>>

Ids == 1..MaxIncidents
Idle == [stage |-> "idle"]
Untold == [escalations |-> 0, reminders |-> 0, late |-> 0, heard |-> 0, lost |-> FALSE,
           woken |-> {}, uninformed |-> {}]
-----------------------------------------------------------------------------
(***************************************************************************)
(* Routing: model.rs.                                                      *)
(***************************************************************************)

Takes(rule, kind) == kind \in rule.kinds

\* The rules an alert matches, up to the first of them that says stop.
Matching(kind) ==
  {rules[n] : n \in {n \in DOMAIN rules :
     /\ Takes(rules[n], kind)
     /\ \A m \in 1..(n - 1) : ~(Takes(rules[m], kind) /\ rules[m].stop)}}

Route(kind) == UNION {rule.channels : rule \in Matching(kind)}

\* The shortest reminder, to every reminding rule's channels; the earliest
\* escalation, to every escalating rule's.
Reminding(kind) == {rule \in Matching(kind) : rule.every # 0}
Escalating(kind) == {rule \in Matching(kind) : rule.after # 0}

FollowUp(kind) ==
  [every |-> IF Reminding(kind) = {} THEN 0 ELSE Min({r.every : r \in Reminding(kind)}),
   after |-> IF Escalating(kind) = {} THEN 0 ELSE Min({r.after : r \in Escalating(kind)}),
   escalateTo |-> UNION {r.escalateTo : r \in Escalating(kind)}]

\* alert_kind: the alert an incident is about, as it stands.
AlertKind(row) == row.status
-----------------------------------------------------------------------------
Init ==
  /\ rows = <<>>
  /\ confirmed = "Up"
  /\ deleted = FALSE
  /\ quiet = "no"
  /\ rules \in RuleSets
  /\ clock = 0
  /\ eval = Idle
  /\ sweep = Idle
  /\ faults = 0
  /\ told = [i \in Ids |-> Untold]

Open == {i \in DOMAIN rows : ~rows[i].closed}

\* What keeps an evaluation and a sweep from running at once: nothing in the
\* code, Care where a property needs it.
MayBegin == "overlap" \in Care => eval = Idle /\ sweep = Idle
-----------------------------------------------------------------------------
(***************************************************************************)
(* The check's news (evaluate_check_alert, on_check_news).                 *)
(***************************************************************************)

\* Its status changed.  In a window the news is held back.  A recovery ends the
\* check's silence.
Judge(news) ==
  /\ eval = Idle
  /\ MayBegin
  /\ ~deleted
  /\ news # confirmed
  /\ quiet # "window"
  /\ news # "Up" => Open # {} \/ Len(rows) < MaxIncidents
  /\ eval' = [stage |-> "judged", news |-> news, silenced |-> quiet = "silence"]
  /\ quiet' = IF news = "Up" THEN "no" ELSE quiet
  /\ UNCHANGED <<rows, confirmed, deleted, rules, clock, faults, sweep, told>>

\* open_incident_of, and the reference to it an alert carries.
FindIncident ==
  /\ eval.stage = "judged"
  /\ eval' = [stage |-> "found", news |-> eval.news, silenced |-> eval.silenced, open |-> Open,
              escalated |-> {AlertKind(rows[i]) : i \in {i \in Open : rows[i].escalated}}]
  /\ UNCHANGED <<rows, confirmed, world, sweep, told>>

NewIncident ==
  [status |-> eval.news, opened |-> clock, closed |-> FALSE, acknowledged |-> FALSE,
   announced |-> ~eval.silenced, since |-> clock, escalated |-> FALSE]

\* A recovery closes the open incident; Warning or Down changes it or opens one.
OpensIncident == eval.news # "Up" /\ eval.open = {}

RecordIncident ==
  /\ eval.stage = "found"
  /\ OpensIncident => Len(rows) < MaxIncidents
  /\ eval' = [stage |-> "recorded", news |-> eval.news, silenced |-> eval.silenced,
              open |-> eval.open, escalated |-> eval.escalated]
  /\ rows' = IF OpensIncident THEN Append(rows, NewIncident)
             ELSE [i \in DOMAIN rows |->
                     IF i \notin eval.open THEN rows[i]
                     ELSE IF eval.news = "Up" THEN [rows[i] EXCEPT !.closed = TRUE]
                     ELSE [rows[i] EXCEPT !.status = eval.news]]
  /\ UNCHANGED <<confirmed, world, sweep, told>>

\* The channels of a recovery: the rules', and those the incident was escalated to.
RecoveryTo == Route("Recovered") \union UNION {FollowUp(kind).escalateTo : kind \in eval.escalated}

\* The alert, if it isn't silenced, and the state kept.
Notify ==
  /\ eval.stage = "recorded"
  /\ told' = [i \in Ids |->
       IF eval.news = "Up" /\ i \in eval.open /\ ~eval.silenced
       THEN [told[i] EXCEPT !.woken = {}, !.uninformed = told[i].woken \ RecoveryTo]
       ELSE told[i]]
  /\ confirmed' = eval.news
  /\ eval' = Idle
  /\ UNCHANGED <<rows, world, sweep>>
-----------------------------------------------------------------------------
(***************************************************************************)
(* The sweep (followups::sweep).                                           *)
(***************************************************************************)

\* Wrong on purpose: closed ones are listed too; only outages are.
UnacknowledgedOrClosed == {i \in DOMAIN rows : ~rows[i].acknowledged /\ rows[i].announced}
UnacknowledgedOutages ==
  {i \in DOMAIN rows : ~rows[i].closed /\ ~rows[i].acknowledged /\ rows[i].announced
                       /\ rows[i].status = "Down"}
Unacknowledged ==
  {i \in DOMAIN rows : ~rows[i].closed /\ ~rows[i].acknowledged /\ rows[i].announced}

Reached(now, since, limit) == limit # 0 /\ now - since >= limit
EscalationDue(row, now) ==
  ~row.escalated /\ Reached(now, row.opened, FollowUp(AlertKind(row)).after)
ReminderDue(row, now) == Reached(now, row.since, FollowUp(AlertKind(row)).every)

\* The incidents as they stand, and the time: both hold to the end of the sweep.
ListIncidents ==
  /\ sweep = Idle
  /\ MayBegin
  /\ \E i \in Unacknowledged :
       sweep' = [stage |-> "listed", id |-> i, now |-> clock, row |-> rows[i]]
  /\ UNCHANGED <<rows, confirmed, world, eval, told>>

\* The rules, read later.  With them, what was listed is due something, or nothing.
ReadRules ==
  /\ sweep.stage = "listed"
  /\ LET escalate == EscalationDue(sweep.row, sweep.now)
         remind == ReminderDue(sweep.row, sweep.now)
     IN sweep' = IF ~escalate /\ ~remind THEN Idle
                 ELSE [stage |-> "ruled", id |-> sweep.id, now |-> sweep.now,
                       escalate |-> escalate, remind |-> remind,
                       escalateTo |-> FollowUp(AlertKind(sweep.row)).escalateTo]
  /\ UNCHANGED <<rows, confirmed, world, eval, told>>

SweepTo(stage) == sweep' = IF stage = "idle" THEN Idle ELSE [sweep EXCEPT !.stage = stage]

\* Nothing is sent while a silence or a window covers it.
AskQuiet ==
  /\ sweep.stage = "ruled"
  /\ SweepTo(IF quiet # "no" THEN "idle" ELSE IF sweep.escalate THEN "escalating" ELSE "reminding")
  /\ UNCHANGED <<rows, confirmed, world, eval, told>>

AfterEscalation == IF sweep.remind THEN "reminding" ELSE "idle"

\* Recorded before it is sent, and only once.
RecordEscalation ==
  /\ sweep.stage = "escalating"
  /\ rows' = [rows EXCEPT ![sweep.id].escalated = TRUE]
  /\ SweepTo(IF rows[sweep.id].escalated THEN AfterEscalation ELSE "escalated")
  /\ UNCHANGED <<confirmed, world, eval, told>>

\* The incident is over, or someone is on it.
Over(row) == row.closed \/ row.acknowledged
Late == IF Over(rows[sweep.id]) THEN 1 ELSE 0

EscalationTold(said) ==
  [said EXCEPT !.escalations = @ + 1, !.late = @ + Late, !.woken = @ \union sweep.escalateTo]

SendEscalation ==
  /\ sweep.stage = "escalated"
  /\ told' = [told EXCEPT ![sweep.id] = EscalationTold(@)]
  /\ SweepTo(AfterEscalation)
  /\ UNCHANGED <<rows, confirmed, world, eval>>

\* last_reminded_at.  (Wrong on purpose: it stays as it was.)
NotReminded(row) == row
Reminded(row) == [row EXCEPT !.since = sweep.now]

RecordReminder ==
  /\ sweep.stage = "reminding"
  /\ rows' = [rows EXCEPT ![sweep.id] = Reminded(@)]
  /\ SweepTo("reminded")
  /\ UNCHANGED <<confirmed, world, eval, told>>

ReminderTold(said) ==
  [said EXCEPT !.reminders = @ + 1, !.late = @ + Late, !.heard = sweep.now]

SendReminder ==
  /\ sweep.stage = "reminded"
  /\ told' = [told EXCEPT ![sweep.id] = ReminderTold(@)]
  /\ SweepTo("idle")
  /\ UNCHANGED <<rows, confirmed, world, eval>>
-----------------------------------------------------------------------------
(***************************************************************************)
(* People, time, failures.                                                 *)
(***************************************************************************)

Acknowledge ==
  /\ \E i \in Open :
       /\ ~rows[i].acknowledged
       /\ rows' = [rows EXCEPT ![i].acknowledged = TRUE]
  /\ UNCHANGED <<confirmed, world, eval, sweep, told>>

\* delete_check closes its incident; nobody is told.
DeleteCheck ==
  /\ ~deleted
  /\ deleted' = TRUE
  /\ rows' = [i \in DOMAIN rows |-> [rows[i] EXCEPT !.closed = TRUE]]
  /\ UNCHANGED <<confirmed, quiet, rules, clock, faults, eval, sweep, told>>

\* A silence or a window begins or ends.
Quieten ==
  /\ quiet' \in {"no", "silence", "window"} \ {quiet}
  /\ "quiet" \notin Care
  /\ UNCHANGED <<rows, confirmed, deleted, rules, clock, faults, eval, sweep, told>>

SaveRules ==
  /\ rules' \in RuleSets \ {rules}
  /\ UNCHANGED <<rows, confirmed, deleted, quiet, clock, faults, eval, sweep, told>>

Tick ==
  /\ clock < MaxTime
  /\ clock' = clock + 1
  /\ UNCHANGED <<rows, confirmed, deleted, quiet, rules, faults, eval, sweep, told>>

Fault ==
  /\ faults < MaxFaults
  /\ faults' = faults + 1
  /\ UNCHANGED <<rows, confirmed, deleted, quiet, rules, clock>>

\* What was recorded and isn't sent is lost: an escalation for good, a reminder
\* until the next.
LostTold(said) ==
  IF sweep.stage = "escalated" THEN [said EXCEPT !.lost = TRUE]
  ELSE [said EXCEPT !.heard = sweep.now]

SweepEnds ==
  /\ sweep' = Idle
  /\ told' = IF sweep.stage \in {"escalated", "reminded"}
             THEN [told EXCEPT ![sweep.id] = LostTold(@)] ELSE told

\* A database error ends the sweep, or the evaluation; or the incident isn't
\* recorded and the alert goes out without it.
SweepFails == sweep # Idle /\ SweepEnds /\ Fault /\ UNCHANGED eval

EvaluationFails ==
  /\ eval # Idle
  /\ \/ eval' = Idle
     \/ /\ eval.stage = "found"
        /\ eval' = [eval EXCEPT !.stage = "recorded", !.open = {}, !.escalated = {}]
  /\ Fault
  /\ UNCHANGED <<sweep, told>>

RestartHub ==
  /\ eval # Idle \/ sweep # Idle
  /\ eval' = Idle
  /\ SweepEnds
  /\ Fault

Evaluate == FindIncident \/ RecordIncident \/ Notify
Sweep ==
  \/ ListIncidents \/ ReadRules \/ AskQuiet \/ RecordEscalation \/ SendEscalation
  \/ RecordReminder \/ SendReminder

Next ==
  \/ \E news \in Troubles \union {"Up"} : Judge(news)
  \/ Evaluate \/ Sweep
  \/ Acknowledge \/ DeleteCheck \/ Quieten \/ SaveRules \/ Tick
  \/ SweepFails \/ EvaluationFails \/ RestartHub

Spec == Init /\ [][Next]_vars

\* The loop sweeps again and again, every few seconds, and its awaits end.
FairSpec == Spec /\ WF_vars(Sweep)
-----------------------------------------------------------------------------
Times == 0..MaxTime
Row == [status : Troubles, opened : Times, closed : BOOLEAN, acknowledged : BOOLEAN,
        announced : BOOLEAN, since : Times, escalated : BOOLEAN]
Evaluations ==
  [stage : {"judged"}, news : Troubles \union {"Up"}, silenced : BOOLEAN]
    \union [stage : {"found", "recorded"}, news : Troubles \union {"Up"}, silenced : BOOLEAN,
            open : SUBSET Ids, escalated : SUBSET Troubles]
SweepStages == {"ruled", "escalating", "escalated", "reminding", "reminded"}
Listings == [stage : {"listed"}, id : Ids, now : Times, row : Row]
Sweeps ==
  [stage : SweepStages, id : Ids, now : Times, escalate : BOOLEAN, remind : BOOLEAN,
   escalateTo : SUBSET Channels]

\* At most one incident of a check is open, and what is listed is a row.
TypeOK ==
  /\ rows \in Seq(Row) /\ Len(rows) \in 0..MaxIncidents
  /\ confirmed \in Troubles \union {"Up"}
  /\ deleted \in BOOLEAN
  /\ quiet \in {"no", "silence", "window"}
  /\ rules \in RuleSets
  /\ clock \in Times /\ faults \in 0..MaxFaults
  /\ eval \in {Idle} \union Evaluations
  /\ sweep \in {Idle} \union Listings \union Sweeps
  /\ sweep # Idle => sweep.id \in DOMAIN rows
  /\ Cardinality(Open) <= 1

Intervals == (UNION {{saved[n].every : n \in DOMAIN saved} : saved \in RuleSets}) \ {0}

\* Nobody is told more than the rules ask, whatever the hub's restarts, failed
\* sweeps and edits of the rules: an incident is escalated once, and it is
\* reminded of at most once in the shortest interval any of the rules had since
\* it opened (followups.rs:7, D-69: a restart repeats nothing).
NoMoreThanAsked ==
  \A i \in DOMAIN rows :
    /\ told[i].escalations <= 1
    /\ told[i].reminders > 0 =>
         \E every \in Intervals : told[i].reminders * every <= clock - rows[i].opened

\* Acknowledging stops both, and so does recovery (followups.rs:4 and
\* docs/guide/alerting.md:101).  Not at once: a sweep that listed the incident
\* before may still escalate once and remind once.  That is all.
StopsWhenOver == \A i \in DOMAIN rows : told[i].late <= 2

\* What the rules ask for now, of an incident as its people heard of it.
Asks(i) == FollowUp(AlertKind(rows[i]))
EscalationOwed(i) ==
  Reached(clock, rows[i].opened, Asks(i).after) /\ told[i].escalations = 0 /\ ~told[i].lost
ReminderOwed(i) ==
  /\ Reached(clock, rows[i].opened, Asks(i).every)
  /\ Reached(clock, told[i].heard, Asks(i).every)

Owed(i) ==
  /\ i \in Open /\ ~rows[i].acknowledged /\ rows[i].announced
  /\ quiet = "no"
  /\ EscalationOwed(i) \/ ReminderOwed(i)

\* Nobody is forgotten: who is owed an escalation or a reminder hears it, unless
\* the outage ends, someone takes it, or it is silenced first, or the rules no
\* longer ask.  Two cases are left out: what was recorded when the sweep failed or
\* the hub restarted is never said (`lost`; a reminder, until the next); and the
\* rules are edited for ever, each time between a sweep's list and its rules.
NobodyForgotten == <>[][FALSE]_rules => \A i \in Ids : Owed(i) ~> ~Owed(i)

\* "When it recovers, the escalation's channels hear that too, so whoever was
\* woken knows it's over" (docs/guide/alerting.md): a recovery people are told
\* of reaches every channel its incident was escalated to.
WokenHearItIsOver == \A i \in Ids : told[i].uninformed = {}
================================================================================
