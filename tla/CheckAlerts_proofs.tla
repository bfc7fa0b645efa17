--------------------------- MODULE CheckAlerts_proofs ---------------------------
(***************************************************************************)
(* Proofs about CheckAlerts, for any AlertAfter and any number of reports, *)
(* evaluations and faults.  Enough equal results are confirmed because a   *)
(* run of them never outruns the streak.  The state follows the results    *)
(* because those that wait for their turn are a chain of flap states, from *)
(* the state kept to the one all results call for.                         *)
(***************************************************************************)
EXTENDS CheckAlerts, TLAPS

\* A run of results that isn't confirmed yet is part of the streak, and the
\* streak is too short for them.
RunWithinStreak ==
  /\ due \in FlapStates /\ last \in Statuses /\ run \in Nat
  /\ run > 0 => last # "Unknown"
  /\ run > 0 /\ due.confirmed # last => run <= due.streak /\ run < Needed(last)

InTurn == Stages \ {"saved"}
Acting == Stages \ {"saved", "queued"}

\* Turns are held by the evaluations that took one, and an evaluation acts only
\* in its own.
Turns ==
  /\ \A k \in DOMAIN turns : task[turns[k]].stage \in InTurn
  /\ \A t \in Tasks : task[t].stage \in Acting => turns # <<>> /\ Head(turns) = t

IInv == TypeOK /\ RunWithinStreak /\ Turns
-----------------------------------------------------------------------------
LEMMA NeededType == \A status \in Statuses : Needed(status) \in Nat \ {0}
BY PolicyAssumption DEF Needed

\* Flap suppression stays among the flap states.
LEMMA AfterType ==
  ASSUME NEW flap \in FlapStates, NEW status \in Statuses, NEW inWindow \in BOOLEAN
  PROVE  After(flap, status, inWindow) \in FlapStates
<1>1. flap.confirmed \in Confirmable /\ flap.streak \in Nat
  BY DEF FlapStates
<1>2. Needed(status) - 1 \in Nat
  BY NeededType
<1>3. status # "Unknown" => status \in Confirmable
  BY DEF Statuses
<1> QED BY <1>1, <1>2, <1>3 DEF After, FlapNext, FlapHeld, FlapStates

-----------------------------------------------------------------------------
(***************************************************************************)
(* Turns are taken at the end of a queue and given up at its head, and no  *)
(* task is in it twice.  What both do to such a sequence.                  *)
(***************************************************************************)
\* A sequence of different elements, one taken from its head.
LEMMA TailFacts ==
  ASSUME NEW S, NEW s \in Seq(S), s # <<>>, IsInjective(s)
  PROVE  /\ Tail(s) \in Seq(S)
         /\ IsInjective(Tail(s))
         /\ Head(s) \in S
         /\ \A k \in DOMAIN Tail(s) : k + 1 \in DOMAIN s /\ Tail(s)[k] = s[k + 1]
         /\ \A k \in DOMAIN Tail(s) : Tail(s)[k] # Head(s)
<1>1. /\ Len(s) \in Nat \ {0}
      /\ DOMAIN s = 1..Len(s)
      /\ Head(s) = s[1]
      /\ Tail(s) \in Seq(S)
      /\ DOMAIN Tail(s) = 1..(Len(s) - 1)
      /\ \A k \in 1..(Len(s) - 1) : Tail(s)[k] = s[k + 1]
  OBVIOUS
<1>2. \A k \in 1..(Len(s) - 1) : k + 1 \in 1..Len(s) /\ k + 1 # 1
  BY <1>1
<1>3. \A j, k \in 1..Len(s) : s[j] = s[k] => j = k
  BY <1>1 DEF IsInjective
<1>4. IsInjective(Tail(s))
  <2>1. SUFFICES ASSUME NEW j \in 1..(Len(s) - 1), NEW k \in 1..(Len(s) - 1), Tail(s)[j] = Tail(s)[k]
                 PROVE  j = k
    BY <1>1 DEF IsInjective
  <2>2. s[j + 1] = s[k + 1]
    BY <1>1, <2>1
  <2>3. j + 1 = k + 1
    BY <1>2, <1>3, <2>2
  <2> QED BY <2>3, <1>1
<1>5. \A k \in 1..(Len(s) - 1) : s[k + 1] # s[1]
  BY <1>1, <1>2, <1>3
<1> QED BY <1>1, <1>2, <1>4, <1>5

\* One more at its end: r is s, then e.
NotIn(e, s) == \A k \in DOMAIN s : s[k] # e
Longer(r, s, e) ==
  /\ r # <<>>
  /\ s # <<>> => Head(r) = Head(s)
  /\ \A k \in DOMAIN r : r[k] = e \/ (k \in DOMAIN s /\ r[k] = s[k])

LEMMA AppendFacts ==
  ASSUME NEW S, NEW s \in Seq(S), NEW e \in S, IsInjective(s), NotIn(e, s)
  PROVE  /\ Append(s, e) \in Seq(S)
         /\ IsInjective(Append(s, e))
         /\ Longer(Append(s, e), s, e)
<1>1. /\ Len(s) \in Nat
      /\ DOMAIN s = 1..Len(s)
      /\ Append(s, e) \in Seq(S)
      /\ DOMAIN Append(s, e) = 1..(Len(s) + 1)
      /\ \A k \in 1..Len(s) : Append(s, e)[k] = s[k]
      /\ Append(s, e)[Len(s) + 1] = e
      /\ Len(Append(s, e)) = Len(s) + 1
  OBVIOUS
<1>2. \A k \in 1..(Len(s) + 1) : k = Len(s) + 1 \/ k \in 1..Len(s)
  BY <1>1
<1>3. IsInjective(Append(s, e))
  <2>1. SUFFICES ASSUME NEW j \in 1..(Len(s) + 1), NEW k \in 1..(Len(s) + 1),
                        Append(s, e)[j] = Append(s, e)[k]
                 PROVE  j = k
    BY <1>1 DEF IsInjective
  <2> QED BY <1>1, <1>2, <2>1 DEF IsInjective, NotIn
<1>4. s # <<>> => Head(Append(s, e)) = Head(s)
  BY <1>1
<1>5. Append(s, e) # <<>>
  BY <1>1
<1>6. \A k \in DOMAIN Append(s, e) :
        Append(s, e)[k] = e \/ (k \in DOMAIN s /\ Append(s, e)[k] = s[k])
  BY <1>1, <1>2
<1> QED BY <1>1, <1>3, <1>4, <1>5, <1>6 DEF Longer
-----------------------------------------------------------------------------
\* The stages of a task's record.
LEMMA TaskTypes ==
  ASSUME TypeOK, NEW t \in Tasks
  PROVE  /\ task[t].stage \in Stages \union {"free"}
         /\ task[t].stage = "free" => task[t] = FreeTask
         /\ task[t].stage \in Waiting => task[t] \in WaitingTask
         /\ task[t].stage \in Acting => task[t] \in StartedTask
<1>1. task[t] \in {FreeTask} \union WaitingTask \union StartedTask
  BY DEF TypeOK
<1>2. CASE task[t] = FreeTask
  BY <1>2 DEF FreeTask, Waiting, Acting, Stages
<1>3. CASE task[t] \in WaitingTask
  BY <1>3 DEF WaitingTask, Waiting, Acting, Stages
<1>4. CASE task[t] \in StartedTask
  BY <1>4 DEF StartedTask, Waiting, Acting, Stages
<1> QED BY <1>1, <1>2, <1>3, <1>4

\* What one more result in turn does to the run and the streak.
LEMMA RunKept ==
  ASSUME TypeOK, RunWithinStreak, NEW t \in Tasks, SpawnInOrder(t)
  PROVE  RunWithinStreak'
<1>1. PICK status \in Statuses, inWindow \in BOOLEAN :
        /\ due' = After(due, status, inWindow)
        /\ last' = status
        /\ run' = IF inWindow \/ status = "Unknown" THEN 0
                  ELSE IF status = last THEN run + 1 ELSE 1
  <2>1. task[t].status \in Statuses /\ task[t].inWindow \in BOOLEAN
    BY TaskTypes DEF SpawnInOrder, Advance, Waiting, WaitingTask
  <2> QED BY <2>1 DEF SpawnInOrder
<1>2. due' \in FlapStates /\ last' \in Statuses /\ run' \in Nat
  BY <1>1, AfterType DEF RunWithinStreak
<1>3. Needed(status) \in Nat \ {0}
  BY NeededType
<1>4. due.streak \in Nat /\ due.confirmed \in Confirmable /\ run \in Nat
  BY DEF RunWithinStreak, FlapStates
<1>5. CASE inWindow \/ status = "Unknown"
  BY <1>1, <1>2, <1>5 DEF RunWithinStreak
<1>6. CASE ~inWindow /\ status # "Unknown"
  <2>1. due' = FlapNext(due, status)
    BY <1>1, <1>6 DEF After
  <2>2. CASE status = due.confirmed \/ IsNews(due, status)
    <3>1. due'.confirmed = last'
      BY <1>1, <2>1, <2>2 DEF FlapNext
    <3> QED BY <1>1, <1>2, <1>6, <3>1 DEF RunWithinStreak
  <2>3. CASE status # due.confirmed /\ due.streak + 1 < Needed(status)
    <3>1. due'.streak = due.streak + 1
      BY <1>3, <1>4, <2>1, <2>3 DEF FlapNext, IsNews
    <3>2. run' <= due.streak + 1
      BY <1>1, <1>4, <1>6, <2>3 DEF RunWithinStreak
    <3>3. run' < Needed(last')
      BY <1>1, <1>2, <1>3, <1>4, <2>3, <3>2
    <3> QED BY <1>1, <1>2, <1>6, <3>1, <3>2, <3>3 DEF RunWithinStreak
  <2> QED BY <1>3, <1>4, <2>2, <2>3 DEF IsNews
<1> QED BY <1>5, <1>6

LEMMA RunAlwaysKept ==
  ASSUME TypeOK, RunWithinStreak, [Next]_vars
  PROVE  RunWithinStreak'
<1>1. ASSUME NEW t \in Tasks, SpawnInOrder(t)
      PROVE  RunWithinStreak'
  BY <1>1, RunKept
<1>2. CASE UNCHANGED <<due, last, run>>
  BY <1>2 DEF RunWithinStreak
<1> QED
  BY <1>1, <1>2 DEF Next, vars, history, results, Evaluate, Report, Silence, EndSilence,
    OpenOrCloseWindow, DeleteCheck, RestartHub, Judge, ClearSilence, RecordIncident, Notify, Keep,
    EvaluationFault
-----------------------------------------------------------------------------
\* A step that moves one task to a stage.
StageSet(t, to) ==
  /\ task'[t].stage = to
  /\ \A u \in Tasks \ {t} : task'[u] = task[u]

LEMMA TurnTaken ==
  ASSUME TypeOK, Turns, NEW t \in Tasks, task[t].stage = "saved", StageSet(t, "queued"),
         turns' = Append(turns, t)
  PROVE  turns' \in Seq(Tasks) /\ IsInjective(turns') /\ Turns'
<1>1. NotIn(t, turns)
  BY DEF Turns, NotIn, InTurn
<1>2. turns \in Seq(Tasks) /\ IsInjective(turns)
  BY DEF TypeOK
<1>3. turns' \in Seq(Tasks) /\ IsInjective(turns') /\ Longer(turns', turns, t)
  BY <1>1, <1>2, AppendFacts, Zenon
<1>4. \A k \in DOMAIN turns : turns[k] \in Tasks
  BY <1>2
<1>5. \A k \in DOMAIN turns' : task'[turns'[k]].stage \in InTurn
  BY <1>3, <1>4 DEF Turns, InTurn, Stages, Longer, StageSet
<1>6. \A u \in Tasks : task'[u].stage \in Acting => turns' # <<>> /\ Head(turns') = u
  BY <1>3 DEF Turns, Acting, Longer, StageSet
<1> QED BY <1>3, <1>5, <1>6 DEF Turns

LEMMA TurnDropped ==
  ASSUME TypeOK, Turns, NEW t \in Tasks, ItsTurn(t), StageSet(t, "free"), turns' = Tail(turns)
  PROVE  turns' \in Seq(Tasks) /\ IsInjective(turns') /\ Turns'
<1>1. turns \in Seq(Tasks) /\ IsInjective(turns) /\ turns # <<>> /\ Head(turns) = t
  BY DEF TypeOK, ItsTurn
<1>2. /\ turns' \in Seq(Tasks) /\ IsInjective(turns')
      /\ \A k \in DOMAIN turns' : k + 1 \in DOMAIN turns /\ turns'[k] = turns[k + 1]
      /\ \A k \in DOMAIN turns' : turns'[k] # t
  BY <1>1, TailFacts, Zenon
<1>3. \A k \in DOMAIN turns : turns[k] \in Tasks
  BY <1>1
<1>4. \A k \in DOMAIN turns' : task'[turns'[k]].stage \in InTurn
  BY <1>2, <1>3 DEF Turns, StageSet
<1>5. \A u \in Tasks : task'[u].stage \notin Acting
  BY <1>1 DEF Turns, StageSet, Acting, Stages
<1> QED BY <1>2, <1>4, <1>5 DEF Turns

LEMMA TurnKept ==
  ASSUME TypeOK, Turns, NEW t \in Tasks, NEW to \in Stages \union {"free"}, StageSet(t, to),
         turns' = turns,
         task[t].stage \in InTurn => to \in InTurn,
         to \in Acting => ItsTurn(t)
  PROVE  turns' \in Seq(Tasks) /\ IsInjective(turns') /\ Turns'
<1>1. turns \in Seq(Tasks) /\ \A k \in DOMAIN turns : turns[k] \in Tasks
  BY DEF TypeOK
<1>2. \A k \in DOMAIN turns' : task'[turns'[k]].stage \in InTurn
  BY <1>1 DEF Turns, StageSet
<1>3. \A u \in Tasks : task'[u].stage \in Acting => turns' # <<>> /\ Head(turns') = u
  BY DEF Turns, ItsTurn, StageSet
<1> QED BY <1>2, <1>3 DEF Turns, TypeOK

\* Who acts is at the head, and dropping its turn removes it; who has no turn
\* drops none.
LEMMA Dropping ==
  ASSUME TypeOK, Turns, NEW t \in Tasks, DropTurn(t)
  PROVE  /\ StageSet(t, "free")
         /\ task'[t] = FreeTask
         /\ ItsTurn(t) => turns' = Tail(turns)
         /\ task[t].stage \in Acting => ItsTurn(t)
         /\ task[t].stage \notin InTurn => turns' = turns
<1>1. task' = [task EXCEPT ![t] = FreeTask] /\ task \in [Tasks -> {FreeTask} \union WaitingTask \union StartedTask]
  BY DEF DropTurn, TypeOK
<1>2. StageSet(t, "free") /\ task'[t] = FreeTask
  BY <1>1 DEF StageSet, FreeTask
<1>3. turns # <<>> => 1 \in DOMAIN turns /\ Head(turns) = turns[1]
  BY DEF TypeOK
<1> QED BY <1>2, <1>3 DEF DropTurn, ItsTurn, Turns

\* A task that goes on keeps its record, but for the stage.
LEMMA Advancing ==
  ASSUME TypeOK, NEW t \in Tasks, NEW from \in Stages, NEW to \in Stages, Advance(t, from, to)
  PROVE  /\ StageSet(t, to)
         /\ task[t].stage = from
         /\ from = "saved" /\ to = "queued" =>
              /\ task'[t] \in WaitingTask
              /\ task'[t].status = task[t].status
              /\ task'[t].inWindow = task[t].inWindow
         /\ from \in Acting /\ to \in Acting =>
              /\ task'[t] \in StartedTask /\ task'[t].after = task[t].after
              /\ task'[t].news = task[t].news /\ task'[t].silenced = task[t].silenced
<1>1. task[t].stage = from /\ task'[t] = [task[t] EXCEPT !.stage = to]
      /\ \A u \in Tasks \ {t} : task'[u] = task[u]
  BY DEF Advance, TypeOK
<1>2. task[t].stage = "saved" => task[t] \in WaitingTask
  BY TaskTypes DEF Waiting
<1>3. task[t].stage \in Acting => task[t] \in StartedTask
  BY TaskTypes
<1>4. CASE from = "saved" /\ to = "queued"
  BY <1>1, <1>2, <1>4 DEF StageSet, WaitingTask, Waiting, Acting
<1>5. CASE from \in Acting /\ to \in Acting
  BY <1>1, <1>3, <1>5 DEF StageSet, StartedTask, Acting, Waiting, Stages
<1>6. CASE task[t] = FreeTask \/ ~((from = "saved" /\ to = "queued") \/ (from \in Acting /\ to \in Acting))
  BY <1>1, <1>6, TaskTypes DEF StageSet, FreeTask, WaitingTask, StartedTask
<1> QED BY <1>4, <1>5, <1>6
-----------------------------------------------------------------------------
TasksOK == task \in [Tasks -> {FreeTask} \union WaitingTask \union StartedTask]
TurnsOK == turns \in Seq(Tasks) /\ IsInjective(turns) /\ Turns

LEMMA OneTaskMoves ==
  ASSUME TypeOK, NEW t \in Tasks, NEW r \in {FreeTask} \union WaitingTask \union StartedTask,
         task' = [task EXCEPT ![t] = r]
  PROVE  TasksOK' /\ StageSet(t, r.stage)
BY DEF TypeOK, TasksOK, StageSet

LEMMA AdvanceKeeps ==
  ASSUME TypeOK, NEW t \in Tasks, NEW from \in Stages, NEW to \in Stages, Advance(t, from, to),
         (from = "saved" /\ to = "queued") \/ (from \in Acting /\ to \in Acting)
  PROVE  TasksOK'
<1>1. task'[t] \in {FreeTask} \union WaitingTask \union StartedTask
  BY Advancing
<1>2. task' = [task EXCEPT ![t] = task'[t]]
  BY DEF Advance, TypeOK
<1> QED BY <1>1, <1>2 DEF TypeOK, TasksOK

\* An evaluation that ends, waiting for its turn only if it is its turn.
LEMMA EndKeeps ==
  ASSUME TypeOK, Turns, NEW t \in Tasks, task[t].stage = "queued" => ItsTurn(t), DropTurn(t)
  PROVE  TasksOK' /\ TurnsOK'
<1>1. TasksOK' /\ StageSet(t, "free")
  BY Dropping, OneTaskMoves DEF DropTurn
<1>2. CASE ItsTurn(t)
  BY <1>1, <1>2, Dropping, TurnDropped DEF TurnsOK
<1>3. CASE ~ItsTurn(t)
  <2>1. task[t].stage \notin InTurn
    BY <1>3, Dropping, TaskTypes DEF InTurn, Acting
  <2> QED BY <1>1, <2>1, Dropping, TurnKept DEF TurnsOK, Acting, Stages
<1> QED BY <1>2, <1>3

LEMMA ReportKeeps ==
  ASSUME TypeOK, Turns, Report
  PROVE  TasksOK' /\ TurnsOK'
<1>1. PICK status \in Statuses, t \in Tasks :
        /\ task[t] = FreeTask
        /\ task' = [task EXCEPT ![t] = [stage |-> "saved", status |-> status, inWindow |-> window]]
  BY DEF Report
<1>2. [stage |-> "saved", status |-> status, inWindow |-> window] \in WaitingTask
  BY DEF WaitingTask, Waiting, TypeOK
<1>3. TasksOK' /\ StageSet(t, "saved")
  <2>1. task'[t].stage = "saved" /\ \A u \in Tasks \ {t} : task'[u] = task[u]
    BY <1>1 DEF TypeOK
  <2>2. TasksOK'
    BY <1>1, <1>2 DEF TypeOK, TasksOK
  <2> QED BY <2>1, <2>2 DEF StageSet
<1>4. task[t].stage = "free" /\ turns' = turns
  BY <1>1 DEF FreeTask, Report
<1> QED BY <1>3, <1>4, TurnKept DEF InTurn, Acting, Stages, TurnsOK

\* What Judge makes of its task.
LEMMA JudgeFacts ==
  ASSUME TypeOK, NEW t \in Tasks, Judge(t)
  PROVE  /\ TasksOK' /\ StageSet(t, "judged")
         /\ task'[t].after = After(state, task[t].status, task[t].inWindow)
         /\ task'[t].news = IF Tells(state, task[t].status, task[t].inWindow)
                            THEN task[t].status ELSE "none"
         /\ task'[t].silenced = (silences # {})
<1> DEFINE r == [stage |-> "judged",
                 after |-> After(state, task[t].status, task[t].inWindow),
                 news |-> IF Tells(state, task[t].status, task[t].inWindow)
                          THEN task[t].status ELSE "none",
                 silenced |-> silences # {}]
<1>1. task' = [task EXCEPT ![t] = r]
  BY DEF Judge
<1>2. task[t].status \in Statuses /\ task[t].inWindow \in BOOLEAN
  BY TaskTypes DEF Judge, Waiting, WaitingTask
<1>3. After(state, task[t].status, task[t].inWindow) \in FlapStates
  BY <1>2, AfterType DEF TypeOK
<1>4. (IF Tells(state, task[t].status, task[t].inWindow) THEN task[t].status ELSE "none")
        \in Confirmable \union {"none"}
  BY <1>2 DEF Tells, Statuses
<1>5. r \in StartedTask
  BY <1>3, <1>4 DEF StartedTask, Waiting, Stages
<1>6. task'[t] = r
  BY <1>1 DEF TypeOK
<1> QED BY <1>1, <1>5, <1>6, OneTaskMoves

LEMMA TasksKept ==
  ASSUME TypeOK, Turns, [Next]_vars
  PROVE  TasksOK' /\ TurnsOK'
<1>1. CASE Report
  BY <1>1, ReportKeeps
<1>2. ASSUME NEW t \in Tasks, SpawnInOrder(t)
      PROVE  TasksOK' /\ TurnsOK'
  <2>1. StageSet(t, "queued") /\ task[t].stage = "saved" /\ TasksOK'
    BY <1>2, Advancing, AdvanceKeeps DEF SpawnInOrder, Stages
  <2> QED BY <1>2, <2>1, TurnTaken DEF SpawnInOrder, TurnsOK
<1>3. ASSUME NEW t \in Tasks, Judge(t)
      PROVE  TasksOK' /\ TurnsOK'
  <2>1. StageSet(t, "judged") /\ TasksOK' /\ turns' = turns /\ ItsTurn(t)
    BY <1>3, JudgeFacts DEF Judge
  <2> QED BY <2>1, TurnKept DEF TurnsOK, InTurn, Stages
<1>4. ASSUME NEW t \in Tasks, NEW from \in Acting, NEW to \in Acting,
             Advance(t, from, to), UNCHANGED turns
      PROVE  TasksOK' /\ TurnsOK'
  <2>1. StageSet(t, to) /\ task[t].stage = from /\ TasksOK'
    BY <1>4, Advancing, AdvanceKeeps DEF Acting
  <2>2. ItsTurn(t)
    BY <2>1 DEF Turns, ItsTurn
  <2> QED BY <1>4, <2>1, <2>2, TurnKept DEF TurnsOK, InTurn, Acting
<1>5. ASSUME NEW t \in Tasks, ClearSilence(t) \/ RecordIncident(t) \/ Notify(t)
      PROVE  TasksOK' /\ TurnsOK'
  BY <1>4, <1>5 DEF ClearSilence, RecordIncident, Notify, Acting, Stages
<1>6. ASSUME NEW t \in Tasks, Keep(t)
      PROVE  TasksOK' /\ TurnsOK'
  BY <1>6, EndKeeps DEF Keep
<1>7. ASSUME NEW t \in Tasks, EvaluationFault(t)
      PROVE  TasksOK' /\ TurnsOK'
  <2>1. CASE \/ Advance(t, "unsilenced", "recorded") /\ UNCHANGED turns
             \/ Advance(t, "recorded", "notified") /\ UNCHANGED turns
    BY <1>4, <2>1 DEF Acting, Stages
  <2>2. CASE (task[t].stage = "queued" => ItsTurn(t)) /\ DropTurn(t)
    BY <2>2, EndKeeps
  <2> QED BY <1>7, <2>1, <2>2 DEF EvaluationFault
<1>8. CASE RestartHub
  <2>1. turns' \in Seq(Tasks) /\ DOMAIN turns' = {} /\ IsInjective(turns')
    BY <1>8 DEF RestartHub, IsInjective
  <2>2. TasksOK' /\ \A t \in Tasks : task'[t].stage = "free"
    BY <1>8 DEF RestartHub, TasksOK, FreeTask
  <2> QED BY <2>1, <2>2 DEF TurnsOK, Turns, Acting, Stages
<1>9. CASE UNCHANGED <<task, turns>>
  BY <1>9 DEF TypeOK, TasksOK, TurnsOK, Turns
<1> QED
  BY <1>1, <1>2, <1>3, <1>5, <1>6, <1>7, <1>8, <1>9
  DEF Next, vars, Evaluate, Silence, EndSilence, OpenOrCloseWindow, DeleteCheck

LEMMA TypesKept ==
  ASSUME TypeOK, Turns, RunWithinStreak, [Next]_vars
  PROVE  TypeOK'
<1>1. TasksOK' /\ TurnsOK'
  BY TasksKept
<1>2. due' \in FlapStates /\ last' \in Statuses /\ run' \in Nat
  BY RunAlwaysKept DEF RunWithinStreak, TypeOK
<1>3. state' \in FlapStates
  <2>1. ASSUME NEW t \in Tasks, Keep(t)
        PROVE  state' \in FlapStates
    <3>1. task[t] \in StartedTask
      BY <2>1, TaskTypes DEF Keep, Acting, Stages
    <3> QED BY <2>1, <3>1 DEF Keep, StartedTask
  <2>2. CASE UNCHANGED state
    BY <2>2 DEF TypeOK
  <2> QED
    BY <2>1, <2>2 DEF Next, vars, dbVars, Evaluate, Report, Silence, EndSilence, OpenOrCloseWindow,
      DeleteCheck, RestartHub, SpawnInOrder, Judge, ClearSilence, RecordIncident, Notify,
      EvaluationFault
<1>4. ASSUME NEW t \in Tasks, task[t].stage \in Acting
      PROVE  task[t].news \in Confirmable \union {"none"}
  BY <1>4, TaskTypes DEF StartedTask
<1>5. incident' \in {"none", "Warning", "Down"}
  <2>1. ASSUME NEW t \in Tasks, RecordIncident(t)
        PROVE  incident' \in {"none", "Warning", "Down"}
    <3>1. task[t].news \in Confirmable \union {"none"}
      BY <1>4, <2>1 DEF RecordIncident, Advance, Acting, Stages
    <3> QED BY <2>1, <3>1 DEF RecordIncident, Follows, Confirmable, TypeOK
  <2>2. CASE UNCHANGED incident \/ incident' = "none"
    BY <2>2 DEF TypeOK
  <2> QED
    BY <2>1, <2>2 DEF Next, vars, dbVars, Evaluate, Report, Silence, EndSilence, OpenOrCloseWindow,
      DeleteCheck, RestartHub, SpawnInOrder, Judge, ClearSilence, Keep, Notify, EvaluationFault
<1>6. told' \in Confirmable
  <2>1. ASSUME NEW t \in Tasks, Notify(t)
        PROVE  told' \in Confirmable
    <3>1. task[t].news \in Confirmable \union {"none"}
      BY <1>4, <2>1 DEF Notify, Advance, Acting, Stages
    <3> QED BY <2>1, <3>1 DEF Notify, IsTold, TypeOK
  <2>2. CASE UNCHANGED told
    BY <2>2 DEF TypeOK
  <2> QED
    BY <2>1, <2>2 DEF Next, vars, history, Evaluate, Report, Silence, EndSilence, OpenOrCloseWindow,
      DeleteCheck, RestartHub, SpawnInOrder, Judge, ClearSilence, RecordIncident, Keep, EvaluationFault
<1>7. silences' \in SUBSET Scopes /\ deletion' \in {"no", "row", "silence", "done"}
  BY DEF Next, vars, dbVars, Evaluate, Report, Silence, EndSilence, OpenOrCloseWindow,
    DeleteCheck, Deleting, RestartHub, SpawnInOrder, Judge, ClearSilence, Leaves, RecordIncident, Keep,
    Notify, EvaluationFault, TypeOK
<1>8. /\ window' \in BOOLEAN /\ silencedOnce' \in BOOLEAN /\ repeated' \in BOOLEAN
      /\ muted' \in {"no", "outage", "ending"}
  BY DEF Outage, Next, vars, dbVars, history, Evaluate, Report, Silence, EndSilence, OpenOrCloseWindow,
    DeleteCheck, RestartHub, SpawnInOrder, Judge, ClearSilence, RecordIncident, Keep,
    Notify, EvaluationFault, TypeOK
<1>9. arrived' \in 0..MaxReports /\ faults' \in 0..MaxFaults
  BY BoundsAssumption DEF Next, vars, Evaluate, Report, Silence, EndSilence, OpenOrCloseWindow,
    DeleteCheck, RestartHub, SpawnInOrder, Judge, ClearSilence, RecordIncident, Keep,
    Notify, EvaluationFault, TypeOK
<1> QED
  BY <1>1, <1>2, <1>3, <1>5, <1>6, <1>7, <1>8, <1>9 DEF TypeOK, TasksOK, TurnsOK

LEMMA InitHolds == Init => IInv
<1> SUFFICES ASSUME Init PROVE IInv
  OBVIOUS
<1>1. turns \in Seq(Tasks) /\ DOMAIN turns = {} /\ IsInjective(turns)
  BY DEF Init, IsInjective
<1>2. TasksOK /\ \A t \in Tasks : task[t].stage = "free"
  BY DEF Init, TasksOK, FreeTask
<1>3. state \in FlapStates /\ due \in FlapStates
  BY DEF Init, Fine, FlapStates, Confirmable
<1>4. /\ incident \in {"none", "Warning", "Down"} /\ silences \in SUBSET Scopes
      /\ window \in BOOLEAN /\ silencedOnce \in BOOLEAN /\ repeated \in BOOLEAN
      /\ muted \in {"no", "outage", "ending"}
      /\ deletion \in {"no", "row", "silence", "done"}
      /\ last \in Statuses /\ run \in Nat /\ told \in Confirmable
  BY DEF Init, Statuses, Confirmable
<1>5. arrived \in 0..MaxReports /\ faults \in 0..MaxFaults
  BY BoundsAssumption DEF Init
<1>6. TypeOK
  BY <1>1, <1>2, <1>3, <1>4, <1>5 DEF TypeOK, TasksOK
<1>7. RunWithinStreak
  BY <1>3, <1>4 DEF Init, RunWithinStreak
<1>8. Turns
  BY <1>1, <1>2 DEF Turns, Acting, Stages
<1> QED BY <1>6, <1>7, <1>8 DEF IInv

LEMMA Invariant == Spec => []IInv
<1>1. IInv /\ [Next]_vars => IInv'
  BY TypesKept, TasksKept, RunAlwaysKept DEF IInv, TurnsOK, TypeOK
<1> QED BY InitHolds, <1>1, PTL DEF Spec
-----------------------------------------------------------------------------
\* The state is always what its comments say; no evaluation has two turns.
THEOREM TypeCorrect == Spec => []TypeOK
<1>1. IInv => TypeOK
  BY DEF IInv
<1> QED BY Invariant, <1>1, PTL

\* For any AlertAfter, enough equal results in a row end confirmed, whatever
\* mix of warnings, outages, unknown results and windows came before them.
THEOREM Promise == Spec => []EnoughIsConfirmed
<1>1. ASSUME RunWithinStreak, run >= FailAfter, run >= RecoverAfter
      PROVE  due.confirmed = last
  <2>1. run \in Nat /\ FailAfter \in Nat \ {0} /\ RecoverAfter \in Nat \ {0}
    BY <1>1, PolicyAssumption DEF RunWithinStreak
  <2>2. run > 0 /\ ~(run < Needed(last))
    BY <1>1, <2>1 DEF Needed
  <2> QED BY <1>1, <2>2 DEF RunWithinStreak
<1>2. IInv => EnoughIsConfirmed
  BY <1>1 DEF IInv, EnoughIsConfirmed
<1> QED BY Invariant, <1>2, PTL
-----------------------------------------------------------------------------
\* The results that wait are a chain of flap states f from the state kept, or
\* from what the one at the head has judged, to what is due: one link for each
\* turn.
Result(flap, t) == After(flap, task[t].status, task[t].inWindow)

Chain(f) ==
  /\ turns = <<>> \/ task[turns[1]].stage = "queued" => f[0] = state
  /\ turns # <<>> /\ task[turns[1]].stage # "queued" => f[1] = task[turns[1]].after
  /\ \A k \in 1..Len(turns) : task[turns[k]].stage = "queued" => f[k] = Result(f[k - 1], turns[k])
  /\ due = f[Len(turns)]

Chains == [Nat -> FlapStates]
Linked == faults = 0 => \E f \in Chains : Chain(f)

\* The queue, by its indices.
LEMMA QueueFacts ==
  ASSUME TypeOK, Turns
  PROVE  /\ Len(turns) \in Nat
         /\ turns # <<>> <=> Len(turns) > 0
         /\ turns # <<>> => Head(turns) = turns[1]
         /\ \A k \in 1..Len(turns) : turns[k] \in Tasks /\ task[turns[k]].stage \in InTurn
         /\ \A k \in 1..Len(turns) : k # 1 => turns[k] # turns[1]
         /\ \A k \in 1..Len(turns) : k # 1 => task[turns[k]].stage = "queued"
<1>1. /\ turns \in Seq(Tasks) /\ Len(turns) \in Nat /\ DOMAIN turns = 1..Len(turns)
      /\ turns # <<>> <=> Len(turns) > 0
      /\ turns # <<>> => Head(turns) = turns[1]
      /\ \A k \in 1..Len(turns) : turns[k] \in Tasks
  BY DEF TypeOK
<1>2. \A k \in 1..Len(turns) : task[turns[k]].stage \in InTurn
  BY <1>1 DEF Turns
<1>3. \A k \in 1..Len(turns) : k # 1 => turns[k] # turns[1]
  BY <1>1 DEF TypeOK, IsInjective
<1>4. \A k \in 1..Len(turns) : k # 1 => task[turns[k]].stage = "queued"
  BY <1>1, <1>2, <1>3 DEF Turns, InTurn, Acting
<1> QED BY <1>1, <1>2, <1>3, <1>4

LEMMA ChainReport ==
  ASSUME TypeOK, Turns, NEW f \in Chains, Chain(f), Report
  PROVE  Chain(f)'
<1>1. PICK t \in Tasks : task[t] = FreeTask /\ \A u \in Tasks \ {t} : task'[u] = task[u]
  BY DEF Report, TypeOK
<1>2. UNCHANGED <<turns, state, due>>
  BY DEF Report, dbVars, history, results
<1>3. \A k \in 1..Len(turns) : turns[k] \in Tasks \ {t}
  BY <1>1, QueueFacts DEF FreeTask, InTurn, Stages
<1>4. turns # <<>> => 1 \in 1..Len(turns)
  BY QueueFacts
<1>5. turns # <<>> => task'[turns[1]] = task[turns[1]]
  BY <1>1, <1>3, <1>4
<1>6. \A k \in 1..Len(turns) : task'[turns[k]].stage = "queued" => f[k] = Result(f[k - 1], turns[k])'
  BY <1>1, <1>2, <1>3 DEF Chain, Result
<1> QED BY <1>2, <1>5, <1>6 DEF Chain

LEMMA ChainSpawn ==
  ASSUME TypeOK, Turns, NEW f \in Chains, Chain(f), NEW t \in Tasks, SpawnInOrder(t)
  PROVE  \E g \in Chains : Chain(g)'
<1>0. PICK n \in Nat, d \in FlapStates : n = Len(turns) /\ d = Result(due, t)
  <2>1. Result(due, t) \in FlapStates
    BY TaskTypes, AfterType DEF SpawnInOrder, Advance, Waiting, WaitingTask, TypeOK, Result
  <2> QED BY <2>1, QueueFacts
<1> DEFINE g == [f EXCEPT ![n + 1] = d]
<1>1. /\ StageSet(t, "queued") /\ task[t].stage = "saved"
      /\ task'[t].status = task[t].status /\ task'[t].inWindow = task[t].inWindow
  BY Advancing DEF SpawnInOrder, Stages
<1>2. turns' = Append(turns, t) /\ state' = state /\ due' = d
  BY <1>0 DEF SpawnInOrder, dbVars, Result
<1>3. /\ Len(turns') = n + 1 /\ turns'[n + 1] = t /\ turns' # <<>> /\ n \in Nat
      /\ \A k \in 1..n : turns'[k] = turns[k]
  BY <1>2, <1>0 DEF TypeOK
<1>4. g \in Chains /\ g[n + 1] = d /\ \A k \in 0..n : g[k] = f[k]
  BY <1>3, <1>0 DEF Chains
<1>6. \A k \in 1..n : turns[k] \in Tasks \ {t}
  BY <1>1, <1>0, QueueFacts DEF InTurn
<1>7. d = Result(f[n], t)
  BY <1>0 DEF Chain
<1>8. task'[turns'[1]].stage = "queued" => g[0] = state'
  BY <1>1, <1>2, <1>3, <1>4, <1>6, <1>0, QueueFacts DEF Chain, StageSet
<1>9. task'[turns'[1]].stage # "queued" => g[1] = task'[turns'[1]].after
  BY <1>1, <1>2, <1>3, <1>4, <1>6, <1>0, QueueFacts DEF Chain, StageSet
<1>10. ASSUME NEW k \in 1..(n + 1), task'[turns'[k]].stage = "queued"
       PROVE  g[k] = Result(g[k - 1], turns[k])'
  <2>1. CASE k = n + 1
    BY <1>1, <1>3, <1>4, <1>7, <2>1 DEF Result
  <2>2. CASE k \in 1..n
    <3>1. task'[turns'[k]] = task[turns[k]]
      BY <1>1, <1>3, <1>6, <2>2 DEF StageSet
    <3>2. g[k] = f[k] /\ g[k - 1] = f[k - 1]
      BY <1>3, <1>4, <2>2
    <3> QED BY <1>3, <1>10, <1>0, <2>2, <3>1, <3>2 DEF Chain, Result
  <2> QED BY <1>3, <2>1, <2>2
<1>11. Chain(g)'
  <2> HIDE DEF g
  <2> QED BY <1>2, <1>3, <1>4, <1>8, <1>9, <1>10 DEF Chain
<1> QED BY <1>4, <1>11

\* A step of the one at the head, with what it has judged, f[1].
LEMMA ChainHead ==
  ASSUME TypeOK, Turns, NEW f \in Chains, Chain(f), NEW t \in Tasks, ItsTurn(t),
         NEW to \in Acting, StageSet(t, to), task'[t].after = f[1],
         UNCHANGED <<turns, state, due>>
  PROVE  Chain(f)'
<1>1. turns # <<>> /\ turns[1] = t /\ 1 \in 1..Len(turns) /\ task[t].stage # "saved"
  BY QueueFacts DEF ItsTurn, InTurn
<1>2. task'[t].stage = to /\ to # "queued" /\ to # "saved"
  BY DEF StageSet, Acting
<1>3. \A u \in Tasks \ {t} : task'[u] = task[u]
  BY DEF StageSet
<1>4. \A k \in 1..Len(turns) : turns[k] \in Tasks
  BY QueueFacts
<1>5. \A k \in 1..Len(turns) : task'[turns[k]].stage = "queued" => f[k] = Result(f[k - 1], turns[k])'
  BY <1>2, <1>3, <1>4 DEF Chain, Result
<1> QED BY <1>1, <1>2, <1>5 DEF Chain, Result

LEMMA ChainJudge ==
  ASSUME TypeOK, Turns, NEW f \in Chains, Chain(f), NEW t \in Tasks, Judge(t)
  PROVE  Chain(f)'
<1>1. turns # <<>> /\ turns[1] = t /\ 1 \in 1..Len(turns) /\ task[t].stage = "queued" /\ ItsTurn(t)
  BY QueueFacts DEF ItsTurn, Judge
<1>2. f[0] = state /\ f[1] = Result(f[0], t)
  BY <1>1 DEF Chain
<1>3. StageSet(t, "judged") /\ task'[t].after = Result(state, t)
  BY JudgeFacts DEF Result
<1>4. UNCHANGED <<turns, state, due>>
  BY DEF Judge, dbVars, history, results
<1> QED BY <1>1, <1>2, <1>3, <1>4, ChainHead DEF Acting, Stages

LEMMA ChainAdvance ==
  ASSUME TypeOK, Turns, NEW f \in Chains, Chain(f), NEW t \in Tasks,
         ClearSilence(t) \/ RecordIncident(t) \/ Notify(t)
  PROVE  Chain(f)'
<1>1. PICK from \in Acting, to \in Acting : Advance(t, from, to)
  BY DEF ClearSilence, RecordIncident, Notify, Acting, Stages
<1>2. StageSet(t, to) /\ task'[t].after = task[t].after /\ task[t].stage = from
  BY <1>1, Advancing DEF Acting
<1>3. ItsTurn(t)
  BY <1>2 DEF Turns, ItsTurn
<1>4. turns # <<>> /\ turns[1] = t /\ task[t].stage # "queued"
  BY <1>2, <1>3, QueueFacts DEF ItsTurn, Acting
<1>5. task'[t].after = f[1]
  BY <1>2, <1>4 DEF Chain
<1>6. UNCHANGED <<turns, state, due>>
  BY DEF ClearSilence, RecordIncident, Notify, dbVars, history, results
<1> QED BY <1>2, <1>3, <1>5, <1>6, ChainHead

\* The head's result is kept: the chain is one link shorter.
LEMMA ChainKeep ==
  ASSUME TypeOK, Turns, NEW f \in Chains, Chain(f), NEW t \in Tasks, Keep(t)
  PROVE  \E g \in Chains : Chain(g)'
<1> DEFINE g == [k \in Nat |-> f[k + 1]]
<1>0. g \in Chains /\ \A k \in Nat : g[k] = f[k + 1]
  BY DEF Chains
<1>1. PICK n \in Nat : n = Len(turns)
  BY QueueFacts
<1>2. task[t].stage = "notified" /\ ItsTurn(t) /\ StageSet(t, "free") /\ turns' = Tail(turns)
  BY Dropping DEF Keep, Acting, Stages
<1>3. n > 0 /\ turns[1] = t
  BY <1>1, <1>2, QueueFacts DEF ItsTurn
<1>4. state' = f[1] /\ due' = due
  BY <1>1, <1>2, <1>3, QueueFacts DEF Keep, Chain, history, results
<1>5. /\ Len(turns') = n - 1 /\ (turns' = <<>> <=> n = 1)
      /\ \A k \in 1..(n - 1) : turns'[k] = turns[k + 1]
  <2>1. turns \in Seq(Tasks) /\ turns # <<>>
    BY <1>2 DEF TypeOK, ItsTurn
  <2>2. /\ Tail(turns) \in Seq(Tasks) /\ Len(Tail(turns)) = n - 1
        /\ \A k \in 1..(n - 1) : Tail(turns)[k] = turns[k + 1]
    BY <1>1, <2>1
  <2>3. \A s \in Seq(Tasks) : s = <<>> <=> Len(s) = 0
    OBVIOUS
  <2>4. turns' = <<>> <=> n - 1 = 0
    BY <1>2, <2>2, <2>3, Zenon
  <2> QED BY <1>1, <1>2, <2>2, <2>4
<1>6. \A k \in 1..(n - 1) : k + 1 \in 1..n /\ k + 1 # 1
  BY <1>1
<1>7. \A k \in 1..(n - 1) : turns[k + 1] \in Tasks \ {t} /\ task[turns[k + 1]].stage = "queued"
  BY <1>1, <1>3, <1>6, QueueFacts
<1>8. \A k \in 1..(n - 1) : task'[turns'[k]] = task[turns[k + 1]] /\ task'[turns'[k]].stage = "queued"
  BY <1>2, <1>5, <1>7 DEF StageSet
<1>9. turns' # <<>> => task'[turns'[1]].stage = "queued"
  BY <1>1, <1>3, <1>5, <1>8
<1>10. g[0] = state'
  BY <1>0, <1>4
<1>11. ASSUME NEW k \in 1..(n - 1)
       PROVE  g[k] = Result(g[k - 1], turns[k])'
  <2>1. f[k + 1] = Result(f[k], turns[k + 1])
    <3>1. k + 1 \in 1..Len(turns) /\ (k + 1) - 1 = k
      BY <1>1, <1>6
    <3> QED BY <1>7, <3>1 DEF Chain
  <2>2. g[k] = f[k + 1] /\ g[k - 1] = f[k]
    BY <1>0, <1>1
  <2> QED BY <1>8, <2>1, <2>2 DEF Result
<1>12. g[n - 1] = f[n]
  BY <1>0, <1>1, <1>3
<1>13. Chain(g)'
  <2> HIDE DEF g
  <2>1. due' = g[Len(turns')]
    BY <1>1, <1>4, <1>5, <1>12 DEF Chain
  <2> QED BY <1>5, <1>9, <1>10, <1>11, <2>1 DEF Chain
<1> QED BY <1>0, <1>13

\* Without a fault so far there is none in the step.
LEMMA NothingFailed ==
  ASSUME TypeOK, [Next]_vars, faults' = 0
  PROVE  faults = 0 /\ ~RestartHub /\ \A t \in Tasks : ~EvaluationFault(t)
<1>1. faults \in Nat
  BY BoundsAssumption DEF TypeOK
<1>2. faults = 0
  BY <1>1 DEF Next, vars, Evaluate, Report, Silence, EndSilence, OpenOrCloseWindow,
    DeleteCheck, RestartHub, SpawnInOrder, Judge, ClearSilence, RecordIncident, Keep,
    Notify, EvaluationFault
<1> QED BY <1>1, <1>2 DEF EvaluationFault, RestartHub

LEMMA LinkedKept ==
  ASSUME TypeOK, Turns, Linked, [Next]_vars
  PROVE  Linked'
<1> SUFFICES ASSUME faults' = 0
             PROVE  \E g \in Chains : Chain(g)'
  BY DEF Linked
<1>1. faults = 0 /\ \A t \in Tasks : ~EvaluationFault(t)
  BY NothingFailed
<1>2. ~RestartHub
  BY NothingFailed
<1>4. PICK f \in Chains : Chain(f)
  BY <1>1 DEF Linked
<1>5. CASE Report
  BY <1>4, <1>5, ChainReport
<1>6. ASSUME NEW t \in Tasks, Evaluate(t)
      PROVE  \E g \in Chains : Chain(g)'
  BY <1>4, <1>6, ChainSpawn, ChainJudge, ChainAdvance, ChainKeep DEF Evaluate
<1>7. CASE UNCHANGED <<state, task, turns, due>>
  <2>1. Chain(f)'
    BY <1>4, <1>7 DEF Chain, Result
  <2> QED BY <2>1
<1> QED
  BY <1>1, <1>2, <1>5, <1>6, <1>7 DEF Next, vars, dbVars, history, results, Silence, EndSilence,
    OpenOrCloseWindow, DeleteCheck
-----------------------------------------------------------------------------
\* No result is lost, counted twice or evaluated out of turn, for any AlertAfter,
\* any number of reports and evaluations, requests that overlap, and whatever
\* windows, silences and deletions come between: unless something failed, the
\* state ends as the results, in the order of their turns, call for.
THEOREM ResultsInOrder == Spec => []FollowsResults
<1>1. Init => Linked
  <2> SUFFICES ASSUME Init PROVE \E f \in Chains : Chain(f)
    BY DEF Linked
  <2>1. [k \in Nat |-> Fine] \in Chains
    BY DEF Chains, Fine, FlapStates, Confirmable
  <2>2. turns = <<>> /\ Len(turns) = 0 /\ \A t \in Tasks : task[t].stage = "free"
    BY DEF Init, FreeTask
  <2>3. Chain([k \in Nat |-> Fine])
    BY <2>2 DEF Chain, Init
  <2> QED BY <2>1, <2>3
<1>2. IInv /\ Linked /\ [Next]_vars => Linked'
  BY LinkedKept DEF IInv
<1>3. IInv /\ Linked => FollowsResults
  <2> SUFFICES ASSUME IInv, Linked, Undisturbed
               PROVE  state = due
    BY DEF FollowsResults
  <2>1. \A t \in Tasks : task[t].stage = "free"
    BY DEF Undisturbed, Idle, FreeTask
  <2>2. turns = <<>> /\ Len(turns) = 0
    BY <2>1, QueueFacts DEF IInv, InTurn, Stages
  <2> QED BY <2>1, <2>2 DEF Undisturbed, Linked, Chain
<1> QED BY Invariant, <1>1, <1>2, <1>3, PTL DEF Spec
-----------------------------------------------------------------------------
(***************************************************************************)
(* The incident, the people and the check's silence follow the state, each *)
(* at its own step of an evaluation.                                       *)
(***************************************************************************)
Shown(status) == IF status = "Up" THEN "none" ELSE status

\* What an evaluation found is news exactly if it changes what is confirmed.
NewsIsChange ==
  \A t \in Tasks : task[t].stage \in Acting =>
    task[t].news = IF task[t].after.confirmed = state.confirmed THEN "none"
                   ELSE task[t].after.confirmed

\* The incident is ahead of the state from its record to Keep.
IncidentInStep ==
  deletion = "no" =>
    /\ \A t \in Tasks : task[t].stage \in {"recorded", "notified"} =>
         incident = Shown(task[t].after.confirmed)
    /\ (\A t \in Tasks : task[t].stage \notin {"recorded", "notified"}) =>
         incident = Shown(state.confirmed)

\* People are told between the alert and Keep, and never what they know.
ToldInStep ==
  ~silencedOnce =>
    /\ ~repeated
    /\ silences = {} /\ \A t \in Tasks : task[t].stage \in Acting => ~task[t].silenced
    /\ \A t \in Tasks : task[t].stage = "notified" => told = task[t].after.confirmed
    /\ (\A t \in Tasks : task[t].stage # "notified") => told = state.confirmed

\* A silence that saw an outage, or the evaluation that is about to keep it, is
\* gone before the recovery goes any further.
MutedInStep ==
  muted = "outage" /\ "check" \in silences =>
    /\ \/ state.confirmed # "Up"
       \/ \E t \in Tasks : task[t].stage \in {"recorded", "notified"}
    /\ \A t \in Tasks : task[t].stage \in Acting \ {"judged"} => task[t].after.confirmed # "Up"

Followed ==
  faults = 0 => NewsIsChange /\ IncidentInStep /\ ToldInStep /\ MutedInStep
\* Only the one at the head acts.
LEMMA ActsAlone ==
  ASSUME Turns, NEW t \in Tasks, ItsTurn(t) \/ task[t].stage \in Acting
  PROVE  \A u \in Tasks \ {t} : task[u].stage \notin Acting
BY DEF Turns, ItsTurn

\* News is what flap suppression confirms anew.
LEMMA TellsChange ==
  ASSUME NEW flap \in FlapStates, NEW status \in Statuses, NEW inWindow \in BOOLEAN
  PROVE  (IF Tells(flap, status, inWindow) THEN status ELSE "none") =
           IF After(flap, status, inWindow).confirmed = flap.confirmed THEN "none"
           ELSE After(flap, status, inWindow).confirmed
BY DEF FlapStates, After, Tells, IsNews, FlapNext, FlapHeld

Unmoved == UNCHANGED <<state, incident, silences, deletion, told, repeated, silencedOnce, muted>>
InStep == NewsIsChange /\ IncidentInStep /\ ToldInStep /\ MutedInStep

\* A step of tasks that don't act.
LEMMA InStepApart ==
  ASSUME InStep, Unmoved,
         \A u \in Tasks : \/ task'[u] = task[u]
                          \/ task[u].stage \notin Acting /\ task'[u].stage \notin Acting
  PROVE  InStep'
<1> USE DEF InStep, Unmoved, Acting, Stages
<1>1. NewsIsChange'
  BY DEF NewsIsChange
<1>2. IncidentInStep'
  BY DEF IncidentInStep
<1>3. ToldInStep'
  BY DEF ToldInStep
<1>4. MutedInStep'
  BY DEF MutedInStep
<1> QED BY <1>1, <1>2, <1>3, <1>4

LEMMA InStepJudge ==
  ASSUME TypeOK, Turns, InStep, NEW t \in Tasks, Judge(t)
  PROVE  InStep'
<1>1. Unmoved /\ task[t].stage = "queued" /\ ItsTurn(t)
  BY DEF Judge, Unmoved, dbVars, history
<1>2. /\ StageSet(t, "judged")
      /\ task'[t].after = After(state, task[t].status, task[t].inWindow)
      /\ task'[t].news = IF Tells(state, task[t].status, task[t].inWindow)
                         THEN task[t].status ELSE "none"
      /\ task'[t].silenced = (silences # {})
  BY JudgeFacts
<1>3. task[t].status \in Statuses /\ task[t].inWindow \in BOOLEAN /\ state \in FlapStates
  BY <1>1, TaskTypes DEF Waiting, WaitingTask, TypeOK
<1>4. task'[t].news = IF task'[t].after.confirmed = state.confirmed THEN "none"
                      ELSE task'[t].after.confirmed
  BY <1>2, <1>3, TellsChange
<1>5. /\ task'[t].stage = "judged"
      /\ \A u \in Tasks \ {t} : task[u].stage \notin Acting /\ task'[u] = task[u]
  BY <1>1, <1>2, ActsAlone DEF StageSet
<1> USE DEF InStep, Unmoved, Acting, Stages
<1>6. NewsIsChange'
  BY <1>1, <1>4, <1>5 DEF NewsIsChange
<1>7. IncidentInStep'
  BY <1>1, <1>5 DEF IncidentInStep
<1>8. ToldInStep'
  BY <1>1, <1>2, <1>5 DEF ToldInStep
<1>9. MutedInStep'
  BY <1>1, <1>5 DEF MutedInStep
<1> QED BY <1>6, <1>7, <1>8, <1>9

\* What an evaluation that goes on has found stays.
LEMMA ActorAdvances ==
  ASSUME TypeOK, Turns, NEW t \in Tasks, NEW from \in Acting, NEW to \in Acting,
         Advance(t, from, to)
  PROVE  /\ task[t].stage = from /\ task'[t].stage = to
         /\ task'[t].after = task[t].after /\ task'[t].news = task[t].news
         /\ task'[t].silenced = task[t].silenced
         /\ \A u \in Tasks \ {t} : task[u].stage \notin Acting /\ task'[u] = task[u]
         /\ task[t].news \in Confirmable \union {"none"}
         /\ task[t].after.confirmed \in Confirmable
<1>1. /\ StageSet(t, to) /\ task[t].stage = from
      /\ task'[t].after = task[t].after /\ task'[t].news = task[t].news
      /\ task'[t].silenced = task[t].silenced
  BY Advancing DEF Acting
<1>2. task[t] \in StartedTask
  BY <1>1, TaskTypes
<1> QED BY <1>1, <1>2, ActsAlone DEF StageSet, StartedTask, FlapStates

LEMMA InStepClear ==
  ASSUME TypeOK, Turns, InStep, NEW t \in Tasks, ClearSilence(t)
  PROVE  InStep'
<1>1. /\ task[t].stage = "judged" /\ task'[t].stage = "unsilenced"
      /\ task'[t].after = task[t].after /\ task'[t].news = task[t].news
      /\ task'[t].silenced = task[t].silenced
      /\ \A u \in Tasks \ {t} : task[u].stage \notin Acting /\ task'[u] = task[u]
  BY ActorAdvances DEF ClearSilence, Acting, Stages
<1>2. UNCHANGED <<state, incident, deletion, told, repeated, silencedOnce, muted>>
  BY DEF ClearSilence, history
<1>3. silences' = IF task[t].news = "Up" THEN silences \ {"check"} ELSE silences
  BY DEF ClearSilence, Leaves
<1> USE DEF InStep, Acting, Stages
<1>4. NewsIsChange'
  BY <1>1, <1>2 DEF NewsIsChange
<1>5. IncidentInStep'
  BY <1>1, <1>2 DEF IncidentInStep
<1>6. ToldInStep'
  BY <1>1, <1>2, <1>3 DEF ToldInStep
<1>7. MutedInStep'
  <2> SUFFICES ASSUME muted = "outage", "check" \in silences'
               PROVE  /\ state.confirmed # "Up"
                      /\ \A u \in Tasks : task'[u].stage \in Acting \ {"judged"} =>
                            task'[u].after.confirmed # "Up"
    BY <1>2 DEF MutedInStep
  <2>1. task[t].news # "Up" /\ state.confirmed # "Up"
    BY <1>1, <1>3 DEF MutedInStep
  <2>2. task[t].after.confirmed # "Up"
    BY <1>1, <2>1 DEF NewsIsChange
  <2> QED BY <1>1, <2>1, <2>2
<1> QED BY <1>4, <1>5, <1>6, <1>7

LEMMA InStepRecord ==
  ASSUME TypeOK, Turns, InStep, NEW t \in Tasks, RecordIncident(t)
  PROVE  InStep'
<1>1. /\ task[t].stage = "unsilenced" /\ task'[t].stage = "recorded"
      /\ task'[t].after = task[t].after /\ task'[t].news = task[t].news
      /\ task'[t].silenced = task[t].silenced
      /\ \A u \in Tasks \ {t} : task[u].stage \notin Acting /\ task'[u] = task[u]
      /\ task[t].news \in Confirmable \union {"none"}
  BY ActorAdvances DEF RecordIncident, Acting, Stages
<1>2. UNCHANGED <<state, silences, deletion, told, repeated, silencedOnce, muted>>
  BY DEF RecordIncident, history
<1>3. incident' = Follows(task[t].news)
  BY DEF RecordIncident
<1> USE DEF InStep, Acting, Stages
<1>4. NewsIsChange'
  BY <1>1, <1>2 DEF NewsIsChange
<1>5. IncidentInStep'
  <2>1. deletion = "no" => incident = Shown(state.confirmed)
    BY <1>1 DEF IncidentInStep
  <2>2. /\ task[t].news = IF task[t].after.confirmed = state.confirmed THEN "none"
                          ELSE task[t].after.confirmed
        /\ task[t].after.confirmed # "none"
    BY <1>1, ActorAdvances DEF NewsIsChange, RecordIncident, Confirmable
  <2>3. deletion = "no" => incident' = Shown(task[t].after.confirmed)
    <3>1. CASE task[t].news = "none"
      BY <1>3, <2>1, <2>2, <3>1 DEF Follows, Shown
    <3>2. CASE task[t].news # "none"
      <4>1. task[t].news = task[t].after.confirmed
        BY <2>2, <3>2
      <4> QED BY <1>3, <3>2, <4>1 DEF Follows, Shown
    <3> QED BY <3>1, <3>2
  <2> QED BY <1>1, <1>2, <2>3 DEF IncidentInStep
<1>6. ToldInStep'
  BY <1>1, <1>2 DEF ToldInStep
<1>7. MutedInStep'
  BY <1>1, <1>2 DEF MutedInStep
<1> QED BY <1>4, <1>5, <1>6, <1>7

LEMMA InStepNotify ==
  ASSUME TypeOK, Turns, InStep, NEW t \in Tasks, Notify(t)
  PROVE  InStep'
<1>1. /\ task[t].stage = "recorded" /\ task'[t].stage = "notified"
      /\ task'[t].after = task[t].after /\ task'[t].news = task[t].news
      /\ task'[t].silenced = task[t].silenced
      /\ \A u \in Tasks \ {t} : task[u].stage \notin Acting /\ task'[u] = task[u]
      /\ task[t].after.confirmed \in Confirmable
  BY ActorAdvances DEF Notify, Acting, Stages
<1>2. UNCHANGED <<state, incident, silences, deletion, silencedOnce, muted>>
  BY DEF Notify, dbVars
<1>3. /\ told' = IF task[t].news # "none" /\ ~task[t].silenced THEN task[t].news ELSE told
      /\ repeated' = (repeated \/ (task[t].news # "none" /\ ~task[t].silenced /\ task[t].news = told))
  BY DEF Notify, IsTold
<1> USE DEF InStep, Acting, Stages
<1>4. NewsIsChange'
  BY <1>1, <1>2 DEF NewsIsChange
<1>5. IncidentInStep'
  BY <1>1, <1>2 DEF IncidentInStep
<1>6. ToldInStep'
  <2>1. ~silencedOnce => ~repeated /\ ~task[t].silenced /\ told = state.confirmed
    BY <1>1 DEF ToldInStep
  <2>2. task[t].news = IF task[t].after.confirmed = state.confirmed THEN "none"
                       ELSE task[t].after.confirmed
    BY <1>1 DEF NewsIsChange
  <2>3. ~silencedOnce => told' = task[t].after.confirmed /\ ~repeated'
    BY <1>1, <1>3, <2>1, <2>2 DEF Confirmable
  <2> QED BY <1>1, <1>2, <2>3 DEF ToldInStep
<1>7. MutedInStep'
  BY <1>1, <1>2 DEF MutedInStep
<1> QED BY <1>4, <1>5, <1>6, <1>7

LEMMA InStepKeep ==
  ASSUME TypeOK, Turns, InStep, NEW t \in Tasks, Keep(t)
  PROVE  InStep'
<1>1. /\ task[t].stage = "notified" /\ task'[t].stage = "free" /\ state' = task[t].after
      /\ \A u \in Tasks \ {t} : task[u].stage \notin Acting /\ task'[u] = task[u]
  BY Dropping, ActsAlone DEF Keep, StageSet, Acting, Stages
<1>2. UNCHANGED <<incident, silences, deletion, told, repeated, silencedOnce, muted>>
  BY DEF Keep, history
<1> USE DEF InStep, Acting, Stages
<1>3. NewsIsChange'
  BY <1>1 DEF NewsIsChange
<1>4. IncidentInStep'
  BY <1>1, <1>2 DEF IncidentInStep
<1>5. ToldInStep'
  BY <1>1, <1>2 DEF ToldInStep
<1>6. MutedInStep'
  BY <1>1, <1>2 DEF MutedInStep
<1> QED BY <1>3, <1>4, <1>5, <1>6

\* People's silences and the check's deletion.
LEMMA InStepPeople ==
  ASSUME TypeOK, Turns, InStep, Silence \/ EndSilence \/ DeleteCheck
  PROVE  InStep'
<1>1. UNCHANGED <<state, task, told, repeated>>
  BY DEF Silence, EndSilence, DeleteCheck, history
<1>2. NewsIsChange'
  BY <1>1 DEF InStep, NewsIsChange
<1>3. CASE Silence
  <2>1. PICK scope \in Scopes :
          /\ scope = "check" => deletion = "no"
          /\ silences' = silences \union {scope}
          /\ muted' = IF scope = "check" THEN Outage ELSE muted
    BY <1>3 DEF Silence
  <2>2. UNCHANGED <<incident, deletion>> /\ silencedOnce' = TRUE
    BY <1>3 DEF Silence
  <2>3. IncidentInStep' /\ ToldInStep'
    BY <1>1, <2>2 DEF InStep, IncidentInStep, ToldInStep
  <2>4. ASSUME scope = "check"
        PROVE  MutedInStep'
    <3> SUFFICES ASSUME Outage = "outage" PROVE MutedInStep'
      BY <2>1, <2>4 DEF MutedInStep
    <3>1. incident # "none" /\ deletion = "no" /\ ~Recovering
      BY <2>1, <2>4 DEF Outage
    <3>2. \/ state.confirmed # "Up"
          \/ \E t \in Tasks : task[t].stage \in {"recorded", "notified"}
      BY <3>1 DEF InStep, IncidentInStep, Shown
    <3>3. \A t \in Tasks : task[t].stage \in {"recorded", "notified"} => task[t].after.confirmed # "Up"
      BY <3>1 DEF InStep, IncidentInStep, Shown
    <3>4. ASSUME NEW t \in Tasks, task[t].stage = "unsilenced"
          PROVE  task[t].after.confirmed # "Up"
      <4>1. task[t].news # "Up"
        BY <3>1, <3>4 DEF Recovering
      <4>2. \A u \in Tasks : task[u].stage \notin {"recorded", "notified"}
        BY <3>4, ActsAlone DEF Acting, Stages
      <4>3. state.confirmed # "Up"
        BY <3>2, <4>2
      <4>4. task[t].news = IF task[t].after.confirmed = state.confirmed THEN "none"
                           ELSE task[t].after.confirmed
        BY <3>4 DEF InStep, NewsIsChange, Acting, Stages
      <4> QED BY <4>1, <4>3, <4>4
    <3>5. \A t \in Tasks : task[t].stage \in Acting \ {"judged"} => task[t].after.confirmed # "Up"
      BY <3>3, <3>4 DEF Acting, Stages
    <3> QED BY <1>1, <3>2, <3>5 DEF MutedInStep
  <2>5. ASSUME scope # "check"
        PROVE  MutedInStep'
    <3>1. muted' = muted /\ ("check" \in silences' => "check" \in silences)
      BY <2>1, <2>5
    <3> QED BY <1>1, <3>1 DEF InStep, MutedInStep
  <2> QED BY <1>2, <2>3, <2>4, <2>5 DEF InStep
<1>4. CASE EndSilence
  <2>1. silences' \subseteq silences /\ UNCHANGED <<incident, deletion, repeated, silencedOnce, muted>>
    BY <1>4 DEF EndSilence, history
  <2>2. IncidentInStep' /\ ToldInStep' /\ MutedInStep'
    BY <1>1, <2>1 DEF InStep, IncidentInStep, ToldInStep, MutedInStep
  <2> QED BY <1>2, <2>2 DEF InStep
<1>5. CASE DeleteCheck
  <2>1. silences' \subseteq silences /\ deletion' # "no" /\ UNCHANGED <<repeated, silencedOnce, muted>>
    BY <1>5 DEF DeleteCheck, Deleting, history
  <2>2. IncidentInStep' /\ ToldInStep' /\ MutedInStep'
    BY <1>1, <2>1 DEF InStep, IncidentInStep, ToldInStep, MutedInStep
  <2> QED BY <1>2, <2>2 DEF InStep
<1> QED BY <1>3, <1>4, <1>5

LEMMA FollowedKept ==
  ASSUME TypeOK, Turns, Followed, [Next]_vars
  PROVE  Followed'
<1> SUFFICES ASSUME faults' = 0 PROVE InStep'
  BY DEF Followed, InStep
<1>1. ~RestartHub /\ (\A t \in Tasks : ~EvaluationFault(t)) /\ InStep
  BY NothingFailed DEF Followed, InStep
<1>2. CASE Report
  <2>1. PICK t \in Tasks : /\ task[t] = FreeTask /\ task'[t].stage = "saved"
                          /\ \A u \in Tasks \ {t} : task'[u] = task[u]
    BY <1>2 DEF Report, TypeOK
  <2>2. Unmoved
    BY <1>2 DEF Report, Unmoved, dbVars, history
  <2> QED BY <1>1, <2>1, <2>2, InStepApart DEF Acting, Stages, FreeTask
<1>3. ASSUME NEW t \in Tasks, SpawnInOrder(t)
      PROVE  InStep'
  <2>1. StageSet(t, "queued") /\ task[t].stage = "saved"
    BY <1>3, Advancing DEF SpawnInOrder, Stages
  <2>2. Unmoved
    BY <1>3 DEF SpawnInOrder, Unmoved, dbVars, history
  <2> QED BY <1>1, <2>1, <2>2, InStepApart DEF Acting, Stages, StageSet
<1>4. ASSUME NEW t \in Tasks, Evaluate(t)
      PROVE  InStep'
  BY <1>1, <1>3, <1>4, InStepJudge, InStepClear, InStepRecord, InStepNotify, InStepKeep
     DEF Evaluate
<1>5. CASE Silence \/ EndSilence \/ DeleteCheck
  BY <1>1, <1>5, InStepPeople
<1>6. CASE OpenOrCloseWindow \/ UNCHANGED vars
  BY <1>1, <1>6, InStepApart DEF OpenOrCloseWindow, Unmoved, vars, dbVars, history
<1> QED BY <1>1, <1>2, <1>4, <1>5, <1>6 DEF Next

LEMMA FollowedAlways == Spec => [](IInv /\ Followed)
<1>1. Init => Followed
  BY DEF Init, Followed, NewsIsChange, IncidentInStep, ToldInStep, MutedInStep, FreeTask, Acting,
         Stages, Fine, Shown
<1>2. IInv /\ Followed /\ [Next]_vars => Followed'
  BY FollowedKept DEF IInv
<1> QED BY Invariant, <1>1, <1>2, PTL DEF Spec

\* Unless something failed, the open incident is the confirmed outage whenever
\* no evaluation is under way, told or silenced, whatever the order of requests.
THEOREM IncidentFollows == Spec => []IncidentFollowsState
<1>1. IInv /\ Followed => IncidentFollowsState
  BY DEF Followed, IncidentInStep, IncidentFollowsState, Undisturbed, Idle, FreeTask, Shown
<1> QED BY <1>1, FollowedAlways, PTL

\* Without silences and failures people know what is confirmed and are never
\* told it twice: news that a window held back comes out once, or is forgotten.
THEOREM PeopleKnow == Spec => []ToldWhatIsConfirmed
<1>1. IInv /\ Followed => ToldWhatIsConfirmed
  BY DEF Followed, ToldInStep, ToldWhatIsConfirmed, Undisturbed, Idle, FreeTask
<1> QED BY <1>1, FollowedAlways, PTL

\* A check's silence made while its incident was open is gone once the recovery
\* is judged, whatever evaluation was under way when it was made.  The exception
\* is the moment between the recovery's end of the silences it found and its end
\* of the incident.
THEOREM SilenceEnds == Spec => []SilenceEndsWithOutage
<1>1. IInv /\ Followed => SilenceEndsWithOutage
  BY DEF Followed, MutedInStep, SilenceEndsWithOutage, Undisturbed, Idle, FreeTask
<1> QED BY <1>1, FollowedAlways, PTL
================================================================================
