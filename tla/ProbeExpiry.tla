------------------------------ MODULE ProbeExpiry ------------------------------
(***************************************************************************)
(* One probe going silent and coming back, on the hub: the heartbeat, the  *)
(* expiry sweep and its background evaluations (liveness.rs, engine.rs),   *)
(* the turns they share with the evaluation of reports (Turn), and what    *)
(* the ingest of a report does about them (ingest.rs, state.rs,            *)
(* incidents.rs).  Every await between two accesses to the database is a   *)
(* place where another task may run.                                       *)
(*                                                                         *)
(* Time is one bit: whether the last heartbeat is older than the timeout.  *)
(***************************************************************************)
EXTENDS Naturals, Sequences, Functions

CONSTANTS
  Ingests,      \* bound: reports being ingested at once
  Tasks,        \* bound: background evaluations at once
  MaxFaults     \* bound: failed storage calls, dropped requests, restarts

ASSUME FaultsAssumption == MaxFaults \in Nat

VARIABLES
  heartbeat,    \* probe_heartbeats.status
  stale,        \* its last_seen_at is older than the timeout
  alertState,   \* the alert_states row under probe_expiry_key
  incident,     \* the probe's "stopped reporting" incident is open
  quiet,        \* a silence or a maintenance window covers the probe
  ingest,       \* how far the ingest of each report under way is
  task,         \* how far each background evaluation is
  turns,        \* the turns taken for the probe, in order (IN_ORDER)
  faults,
  recorded,     \* history: expiry alerts recorded since the last re-arming
  announced     \* history: an expiry alert was sent since the last heartbeat

dbVars == <<heartbeat, stale, alertState, incident, quiet>>
vars == <<dbVars, ingest, task, turns, faults, recorded, announced>>

\* report: evaluating a report's alerts.  listed: in a sweep's list.  waiting:
\* for its turn.  The rest: what an expiry evaluation has done in its turn.
TaskStages == {"free", "report", "listed", "waiting", "checked", "opened", "recorded"}
IngestStages == {"free", "saved", "heard", "rearmed", "closed"}

Init ==
  /\ heartbeat = "active"
  /\ stale = FALSE
  /\ alertState = "none"
  /\ incident = FALSE
  /\ quiet = FALSE
  /\ ingest = [i \in Ingests |-> "free"]
  /\ task = [t \in Tasks |-> "free"]
  /\ turns = <<>>
  /\ faults = 0
  /\ recorded = 0
  /\ announced = FALSE
-----------------------------------------------------------------------------
(***************************************************************************)
(* A report, after save_report.  Every step's failure is only logged.      *)
(***************************************************************************)

Ingesting(i, from, to) ==
  /\ ingest[i] = from
  /\ ingest' = [ingest EXCEPT ![i] = to]

Arrive(i) ==
  /\ Ingesting(i, "free", "saved")
  /\ UNCHANGED <<dbVars, task, turns, faults, recorded, announced>>

RecordHeartbeat(i) ==
  /\ Ingesting(i, "saved", "heard")
  /\ heartbeat' = "active"
  /\ stale' = FALSE
  /\ announced' = FALSE
  /\ UNCHANGED <<alertState, incident, quiet, task, turns, faults, recorded>>

\* Wrong on purpose: nothing re-arms the alert.
RearmNever(i) ==
  /\ Ingesting(i, "heard", "rearmed")
  /\ UNCHANGED <<dbVars, task, turns, faults, recorded, announced>>

\* rearm_probe_expiry_alert: does nothing if the probe never alerted.
Rearm(i) ==
  /\ Ingesting(i, "heard", "rearmed")
  /\ alertState' = IF alertState = "none" THEN "none" ELSE "active"
  /\ recorded' = 0
  /\ UNCHANGED <<heartbeat, stale, incident, quiet, task, turns, faults, announced>>

\* on_probe_reporting
CloseIncident(i) ==
  /\ Ingesting(i, "rearmed", "closed")
  /\ incident' = FALSE
  /\ UNCHANGED <<heartbeat, stale, alertState, quiet, task, turns, faults, recorded, announced>>

\* spawn_in_order: the turn is taken here.
SpawnInOrder(i) ==
  /\ Ingesting(i, "closed", "free")
  /\ \E t \in Tasks :
       /\ task[t] = "free"
       /\ task' = [task EXCEPT ![t] = "report"]
       /\ turns' = Append(turns, t)
  /\ UNCHANGED <<dbVars, faults, recorded, announced>>

\* A step fails and the next one goes on, or the request is dropped.
IngestFault(i) ==
  /\ faults < MaxFaults
  /\ faults' = faults + 1
  /\ \/ Ingesting(i, "saved", "heard")
     \/ Ingesting(i, "heard", "rearmed")
     \/ Ingesting(i, "rearmed", "closed")
     \/ ingest[i] # "free" /\ ingest' = [ingest EXCEPT ![i] = "free"]
  /\ UNCHANGED <<dbVars, task, turns, recorded, announced>>
-----------------------------------------------------------------------------
(***************************************************************************)
(* The sweep and its evaluations.                                          *)
(***************************************************************************)

TimePasses ==
  /\ ~stale
  /\ stale' = TRUE
  /\ UNCHANGED <<heartbeat, alertState, incident, quiet, ingest, task, turns, faults, recorded, announced>>

\* Wrong on purpose: only a newly expired probe is listed.
SweepNewlyExpired ==
  /\ heartbeat = "active" /\ stale
  /\ heartbeat' = "expired"
  /\ \E t \in Tasks : task[t] = "free" /\ task' = [task EXCEPT ![t] = "listed"]
  /\ UNCHANGED <<stale, alertState, incident, quiet, ingest, turns, faults, recorded, announced>>

\* sweep_expired_probes: every expired probe is listed, alerted or not.
Sweep ==
  /\ heartbeat = "expired" \/ stale
  /\ heartbeat' = "expired"
  /\ \E t \in Tasks : task[t] = "free" /\ task' = [task EXCEPT ![t] = "listed"]
  /\ UNCHANGED <<stale, alertState, incident, quiet, ingest, turns, faults, recorded, announced>>

Evaluating(t, from, to) ==
  /\ task[t] = from
  /\ task' = [task EXCEPT ![t] = to]

\* Turn::take, when the evaluation's loop comes to this probe.
TakeTurn(t) ==
  /\ Evaluating(t, "listed", "waiting")
  /\ turns' = Append(turns, t)
  /\ UNCHANGED <<dbVars, ingest, faults, recorded, announced>>

\* Turn::wait is over.  (Wrong on purpose: nobody waits.)
NobodyWaits(t) == TRUE
ItsTurn(t) == turns # <<>> /\ Head(turns) = t

\* Dropping the turn lets the next one go.
DropTurn(t) == turns' = IF turns # <<>> /\ Head(turns) = t THEN Tail(turns) ELSE turns

\* should_send_alert, probe_is_quiet.
ShouldSend == alertState # "expired" /\ ~quiet

Check(t) ==
  /\ ItsTurn(t)
  /\ \/ /\ ShouldSend
        /\ Evaluating(t, "waiting", "checked")
        /\ UNCHANGED turns
     \/ /\ ~ShouldSend
        /\ Evaluating(t, "waiting", "free")
        /\ DropTurn(t)
  /\ UNCHANGED <<dbVars, ingest, faults, recorded, announced>>

\* on_probe_expired: opened, unless it is open.
OpenIncident(t) ==
  /\ Evaluating(t, "checked", "opened")
  /\ incident' = TRUE
  /\ UNCHANGED <<heartbeat, stale, alertState, quiet, ingest, turns, faults, recorded, announced>>

\* update_alert_state, before sending.
Record(t) ==
  /\ Evaluating(t, "opened", "recorded")
  /\ alertState' = "expired"
  /\ recorded' = recorded + 1
  /\ UNCHANGED <<heartbeat, stale, incident, quiet, ingest, turns, faults, announced>>

Notify(t) ==
  /\ Evaluating(t, "recorded", "free")
  /\ DropTurn(t)
  /\ announced' = TRUE
  /\ UNCHANGED <<dbVars, ingest, faults, recorded>>

\* evaluate_alerts_for_report: a check's alerts, modelled in CheckAlerts.
EvaluateReport(t) ==
  /\ ItsTurn(t)
  /\ Evaluating(t, "report", "free")
  /\ DropTurn(t)
  /\ UNCHANGED <<dbVars, ingest, faults, recorded, announced>>

\* The incident can't be recorded: the evaluation goes on without one.  Any
\* other failure ends it, and drops its turn; one met at another probe ends it
\* before it comes to this one.
EvaluationFault(t) ==
  /\ faults < MaxFaults
  /\ faults' = faults + 1
  /\ \/ Evaluating(t, "checked", "opened") /\ UNCHANGED turns
     \/ /\ task[t] \in {"waiting", "report"} => ItsTurn(t)
        /\ task[t] # "free"
        /\ task' = [task EXCEPT ![t] = "free"]
        /\ DropTurn(t)
  /\ UNCHANGED <<dbVars, ingest, recorded, announced>>
-----------------------------------------------------------------------------
\* People open and close silences and windows.
ChangeQuiet ==
  /\ quiet' = ~quiet
  /\ UNCHANGED <<heartbeat, stale, alertState, incident, ingest, task, turns, faults, recorded, announced>>

\* The hub stops and starts again: only the database is left.
RestartHub ==
  /\ faults < MaxFaults
  /\ faults' = faults + 1
  /\ ingest' = [i \in Ingests |-> "free"]
  /\ task' = [t \in Tasks |-> "free"]
  /\ turns' = <<>>
  /\ UNCHANGED <<dbVars, recorded, announced>>

IngestStep(i) == RecordHeartbeat(i) \/ Rearm(i) \/ CloseIncident(i) \/ SpawnInOrder(i)

TaskStep(t) ==
  TakeTurn(t) \/ Check(t) \/ OpenIncident(t) \/ Record(t) \/ Notify(t) \/ EvaluateReport(t)

Next ==
  \/ TimePasses \/ Sweep \/ ChangeQuiet \/ RestartHub
  \/ \E i \in Ingests : Arrive(i) \/ IngestStep(i) \/ IngestFault(i)
  \/ \E t \in Tasks : TaskStep(t) \/ EvaluationFault(t)

Spec == Init /\ [][Next]_vars

\* The sweep runs every 10 s, requests and background tasks go on.  Nothing is
\* assumed of the probe.
Fairness ==
  /\ WF_vars(Sweep)
  /\ \A i \in Ingests : WF_vars(IngestStep(i))
  /\ \A t \in Tasks : WF_vars(TaskStep(t))

FairSpec == Spec /\ Fairness
-----------------------------------------------------------------------------
TypeOK ==
  /\ heartbeat \in {"active", "expired"}
  /\ alertState \in {"none", "expired", "active"}
  /\ stale \in BOOLEAN /\ incident \in BOOLEAN /\ quiet \in BOOLEAN /\ announced \in BOOLEAN
  /\ ingest \in [Ingests -> IngestStages]
  /\ task \in [Tasks -> TaskStages]
  /\ turns \in Seq(Tasks) /\ IsInjective(turns)
  /\ faults \in 0..MaxFaults
  /\ recorded \in Nat

\* One alert for one outage, though every sweep evaluates every expired probe
\* and evaluations overlap: between two recorded alerts the probe was re-armed
\* by a report (D-63, D-108).
AlertedOnce == recorded <= 1

\* A probe that stays silent is alerted about after its last report, however
\* that report raced with the alerts of the outage before, unless something
\* failed.
SilenceAnnounced == <>[](stale /\ ~quiet) /\ [](faults = 0) => <>[]announced

\* A probe that keeps reporting ends up armed for its next outage, with no
\* incident open, whatever raced or failed before.
Settles ==
  <>[]~stale /\ []<>(\E i \in Ingests : ingest[i] = "saved")
    => <>[](heartbeat = "active" /\ alertState # "expired" /\ ~incident)
================================================================================
