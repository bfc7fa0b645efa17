------------------------------ MODULE CheckAlerts ------------------------------
(***************************************************************************)
(* The alerts and incidents of one check, on the hub: the evaluation of    *)
(* each report in the background, in turn (alerts/engine.rs), the flap     *)
(* suppression (alerts/flap.rs), silences and maintenance windows, the     *)
(* check's incident (incidents.rs), and the check's deletion (checks.rs).  *)
(*                                                                         *)
(* A report is one result's status.  Every await between two accesses to   *)
(* the database is a place where another task may run.                     *)
(***************************************************************************)
EXTENDS Integers, Sequences, Functions

CONSTANTS
  FailAfter, RecoverAfter,   \* AlertAfter of the check
  MaxReports,                \* bound: reports in a behaviour
  Tasks,                     \* bound: evaluations at once
  MaxFaults                  \* bound: failures and restarts

ASSUME PolicyAssumption == FailAfter \in Nat \ {0} /\ RecoverAfter \in Nat \ {0}

ASSUME BoundsAssumption == MaxReports \in Nat /\ MaxFaults \in Nat

Confirmable == {"Up", "Warning", "Down"}
Statuses == Confirmable \union {"Unknown"}
Scopes == {"check", "wider"}

FlapStates == [confirmed : Confirmable, streak : Nat]
Fine == [confirmed |-> "Up", streak |-> 0]

VARIABLES
  state,       \* the check's row in alert_states
  incident,    \* the status of its open incident, "none" without one
  silences,    \* the scopes of the silences over it
  window,      \* a maintenance window over it is open
  deletion,    \* how far delete_check is
  task,        \* the evaluations under way
  turns,       \* their order (IN_ORDER)
  arrived,     \* reports so far
  faults,
  due,         \* history: the flap state all results in turn call for
  last, run,   \* history: the latest of them, and how many like it in a row,
               \* since a window or the first
  told,        \* history: what people were last told
  repeated,    \* history: they were told it again
  silencedOnce, \* history: something was silenced
  muted        \* history: what the check's silence was made in

dbVars == <<state, incident, silences>>
results == <<due, last, run>>
history == <<results, told, repeated, silencedOnce, muted>>
vars == <<dbVars, window, deletion, task, turns, arrived, faults, history>>

FreeTask == [stage |-> "free"]
Stages == {"saved", "queued", "judged", "unsilenced", "recorded", "notified"}
-----------------------------------------------------------------------------
(***************************************************************************)
(* Flap suppression: flap::next and flap::held.                            *)
(***************************************************************************)

Needed(status) == IF status = "Up" THEN RecoverAfter ELSE FailAfter

\* Wrong on purpose: one more result than asked for.
IsNewsLate(flap, status) ==
  status # flap.confirmed /\ flap.streak >= Needed(status)

IsNews(flap, status) ==
  status # flap.confirmed /\ flap.streak + 1 >= Needed(status)

FlapNext(flap, status) ==
  IF status = flap.confirmed \/ IsNews(flap, status)
  THEN [confirmed |-> status, streak |-> 0]
  ELSE [confirmed |-> flap.confirmed, streak |-> flap.streak + 1]

FlapHeld(flap, status) == [confirmed |-> flap.confirmed, streak |-> Needed(status) - 1]

\* The state after one more result, and whether it is news: news found in a
\* window is held back.
After(flap, status, inWindow) ==
  IF status = "Unknown" THEN flap
  ELSE IF inWindow /\ IsNews(flap, status) THEN FlapHeld(flap, status)
  ELSE FlapNext(flap, status)

\* (Wrong on purpose: news in a window is told.)
TellsInWindow(flap, status, inWindow) ==
  status # "Unknown" /\ IsNews(flap, status)

Tells(flap, status, inWindow) ==
  status # "Unknown" /\ ~inWindow /\ IsNews(flap, status)
-----------------------------------------------------------------------------
Init ==
  /\ state = Fine
  /\ incident = "none"
  /\ silences = {}
  /\ window = FALSE
  /\ deletion = "no"
  /\ task = [t \in Tasks |-> FreeTask]
  /\ turns = <<>>
  /\ arrived = 0
  /\ faults = 0
  /\ due = Fine
  /\ last = "Up"
  /\ run = 0
  /\ told = "Up"
  /\ repeated = FALSE
  /\ silencedOnce = FALSE
  /\ muted = "no"

\* Ingest: the check is among the probe's checks, its result is judged, marked
\* and saved.  The probe sends one report at a time, but it gives a request up
\* after 10 s while the hub may still work on it: others may be saved meanwhile.
Report ==
  /\ arrived < MaxReports
  /\ deletion = "no"
  /\ arrived' = arrived + 1
  /\ \E status \in Statuses, t \in Tasks :
       /\ task[t] = FreeTask
       /\ task' = [task EXCEPT ![t] =
                    [stage |-> "saved", status |-> status, inWindow |-> window]]
  /\ UNCHANGED <<dbVars, window, deletion, turns, faults, history>>

Advance(t, from, to) ==
  /\ task[t].stage = from
  /\ task' = [task EXCEPT ![t].stage = to]

\* spawn_in_order: its evaluation takes a turn, the ingest's last step but one.
\* The turns, not the saves, put the results in order.
SpawnInOrder(t) ==
  /\ Advance(t, "saved", "queued")
  /\ turns' = Append(turns, t)
  /\ due' = After(due, task[t].status, task[t].inWindow)
  /\ last' = task[t].status
  /\ run' = IF task[t].inWindow \/ task[t].status = "Unknown" THEN 0
            ELSE IF task[t].status = last THEN run + 1 ELSE 1
  /\ UNCHANGED <<dbVars, window, deletion, arrived, faults, told, repeated, silencedOnce, muted>>

\* Nothing is being evaluated, and nothing ever failed.
Idle == \A t \in Tasks : task[t] = FreeTask
Undisturbed == Idle /\ faults = 0

\* Turn::wait is over.  (Wrong on purpose: nobody waits.)
NobodyWaits(t) == TRUE
ItsTurn(t) == turns # <<>> /\ Head(turns) = t

\* The end of an evaluation lets the next one go.
DropTurn(t) ==
  /\ task' = [task EXCEPT ![t] = FreeTask]
  /\ turns' = IF turns # <<>> /\ Head(turns) = t THEN Tail(turns) ELSE turns

\* is_silenced, then flap_state: what is read here is used to the end.
Judge(t) ==
  /\ task[t].stage = "queued"
  /\ ItsTurn(t)
  /\ task' = [task EXCEPT ![t] =
               [stage |-> "judged",
                after |-> After(state, @.status, @.inWindow),
                news |-> IF Tells(state, @.status, @.inWindow) THEN @.status ELSE "none",
                silenced |-> silences # {}]]
  /\ UNCHANGED <<dbVars, window, deletion, turns, arrived, faults, history>>

\* A recovery ends the check's own silence.  (Wrong on purpose: it doesn't.)
Keeps(t) == silences
Leaves(t) == IF task[t].news = "Up" THEN silences \ {"check"} ELSE silences

ClearSilence(t) ==
  /\ Advance(t, "judged", "unsilenced")
  /\ silences' = Leaves(t)
  /\ UNCHANGED <<state, incident, window, deletion, turns, arrived, faults, history>>

\* on_check_news: told or not, the incident follows.  (Wrong on purpose: a
\* warning turning into an outage leaves it as it is.)
FollowsUnlessOpen(news) ==
  CASE news = "none" -> incident
    [] news = "Up" -> "none"
    [] OTHER -> IF incident = "none" THEN news ELSE incident
Follows(news) ==
  CASE news = "none" -> incident
    [] news = "Up" -> "none"
    [] OTHER -> news

RecordIncident(t) ==
  /\ Advance(t, "unsilenced", "recorded")
  /\ incident' = Follows(task[t].news)
  /\ UNCHANGED <<state, silences, window, deletion, turns, arrived, faults, history>>

IsTold(t) == task[t].news # "none" /\ ~task[t].silenced

\* The alert, if it isn't silenced.
Notify(t) ==
  /\ Advance(t, "recorded", "notified")
  /\ told' = IF IsTold(t) THEN task[t].news ELSE told
  /\ repeated' = (repeated \/ (IsTold(t) /\ task[t].news = told))
  /\ UNCHANGED <<dbVars, window, deletion, turns, arrived, faults, results, silencedOnce, muted>>

\* keep: what was read before is replaced.
Keep(t) ==
  /\ task[t].stage = "notified"
  /\ state' = task[t].after
  /\ DropTurn(t)
  /\ UNCHANGED <<incident, silences, window, deletion, arrived, faults, history>>

\* An incident or an alert that fails is logged and the evaluation goes on; any
\* other failure ends it.  A request dropped after the save never evaluates.
EvaluationFault(t) ==
  /\ faults < MaxFaults
  /\ faults' = faults + 1
  /\ \/ Advance(t, "unsilenced", "recorded") /\ UNCHANGED turns
     \/ Advance(t, "recorded", "notified") /\ UNCHANGED turns
     \/ task[t].stage = "queued" /\ ItsTurn(t) /\ DropTurn(t)
     \/ task[t].stage \in Stages \ {"queued"} /\ DropTurn(t)
  /\ UNCHANGED <<dbVars, window, deletion, arrived, history>>
-----------------------------------------------------------------------------
\* A recovery has ended the silences it saw, and not yet the incident.
Recovering == \E t \in Tasks : task[t].stage = "unsilenced" /\ task[t].news = "Up"

\* What people see when they silence the check: an open incident is an outage.
Outage == IF incident = "none" THEN "no" ELSE IF Recovering THEN "ending" ELSE "outage"

\* A silence is made, or it is removed or runs out.
Silence ==
  /\ \E scope \in Scopes :
       /\ scope = "check" => deletion = "no"
       /\ silences' = silences \union {scope}
       /\ muted' = IF scope = "check" THEN Outage ELSE muted
  /\ silencedOnce' = TRUE
  /\ UNCHANGED <<state, incident, window, deletion, task, turns, arrived, faults, results, told,
                 repeated>>

EndSilence ==
  /\ \E scope \in silences : silences' = silences \ {scope}
  /\ UNCHANGED <<state, incident, window, deletion, task, turns, arrived, faults, history>>

OpenOrCloseWindow ==
  /\ window' = ~window
  /\ UNCHANGED <<dbVars, deletion, task, turns, arrived, faults, history>>

\* delete_check: the row, its silence, its incident.
Deleting(from, to) == deletion = from /\ deletion' = to

DeleteCheck ==
  /\ \/ Deleting("no", "row") /\ UNCHANGED <<silences, incident>>
     \/ /\ Deleting("row", "silence")
        /\ silences' = silences \ {"check"}
        /\ UNCHANGED incident
     \/ /\ Deleting("silence", "done")
        /\ incident' = "none"
        /\ UNCHANGED silences
  /\ UNCHANGED <<state, window, task, turns, arrived, faults, history>>

\* The hub stops and starts again: evaluations not finished are gone.
RestartHub ==
  /\ faults < MaxFaults
  /\ faults' = faults + 1
  /\ task' = [t \in Tasks |-> FreeTask]
  /\ turns' = <<>>
  /\ UNCHANGED <<dbVars, window, deletion, arrived, history>>

Evaluate(t) ==
  SpawnInOrder(t) \/ Judge(t) \/ ClearSilence(t) \/ RecordIncident(t) \/ Notify(t) \/ Keep(t)

Next ==
  \/ Report \/ Silence \/ EndSilence \/ OpenOrCloseWindow \/ DeleteCheck \/ RestartHub
  \/ \E t \in Tasks : Evaluate(t) \/ EvaluationFault(t)

Spec == Init /\ [][Next]_vars
-----------------------------------------------------------------------------
Waiting == {"saved", "queued"}
WaitingTask == [stage : Waiting, status : Statuses, inWindow : BOOLEAN]
StartedTask == [stage : Stages \ Waiting, after : FlapStates,
                news : Confirmable \union {"none"}, silenced : BOOLEAN]

TypeOK ==
  /\ state \in FlapStates /\ due \in FlapStates
  /\ incident \in {"none", "Warning", "Down"}
  /\ silences \in SUBSET Scopes
  /\ window \in BOOLEAN /\ silencedOnce \in BOOLEAN /\ repeated \in BOOLEAN
  /\ muted \in {"no", "outage", "ending"}
  /\ deletion \in {"no", "row", "silence", "done"}
  /\ task \in [Tasks -> {FreeTask} \union WaitingTask \union StartedTask]
  /\ turns \in Seq(Tasks) /\ IsInjective(turns)
  /\ arrived \in 0..MaxReports /\ faults \in 0..MaxFaults
  /\ last \in Statuses /\ run \in Nat /\ told \in Confirmable

\* No result is lost and none is counted twice when reports are evaluated one
\* upon the other: the state is what the results call for, in the order of their
\* turns (D-63).  That is the order of their saves unless two requests of the
\* probe overlap.
FollowsResults == Undisturbed => state = due

\* The open incident is the outage that was confirmed, told or not (D-67).
IncidentFollowsState ==
  Undisturbed /\ deletion = "no" =>
    incident = IF state.confirmed = "Up" THEN "none" ELSE state.confirmed

\* Enough equal results in a row always end confirmed, whatever mix of warnings,
\* outages and windows came before (flap.rs, three_statuses_keep_their_promises).
EnoughIsConfirmed ==
  run >= FailAfter /\ run >= RecoverAfter => due.confirmed = last

\* Windows only delay: without silences people know exactly what is confirmed,
\* and were told it once.  Held news comes out or is forgotten.
ToldWhatIsConfirmed ==
  faults = 0 /\ ~silencedOnce => ~repeated /\ (Idle => told = state.confirmed)

\* A check's silence made during an outage ends with it, so it can't hide the
\* next one (D-33): once the outage is over and judged, the silence is gone.
\* Only one made in the recovery's last moment, after clear_silence_on_recovery
\* and before the incident's end, outlives it ("ending").
SilenceEndsWithOutage ==
  Undisturbed /\ muted = "outage" /\ "check" \in silences => state.confirmed # "Up"
================================================================================
