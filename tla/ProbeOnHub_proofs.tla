---------------------------- MODULE ProbeOnHub_proofs ----------------------------
(***************************************************************************)
(* Proofs about what the hub keeps of one probe, in two parts: that it     *)
(* went silent (ProbeExpiry) and what it checks (CheckConfig).  They share *)
(* no state and no lemma.                                                  *)
(*                                                                         *)
(* One alert for one outage rests on the turns: who has read "not alerted  *)
(* yet" is at their head until it has recorded and sent.                   *)
(*                                                                         *)
(* That links make no loop is said of sets, without walking along them     *)
(* (Loopless); what walks compute follows from it by an induction over     *)
(* sets of numbers (Upwards).                                              *)
(***************************************************************************)
EXTENDS ProbeExpiry, CheckConfig, FiniteSetTheorems, TLAPS

(***************************************************************************)
(* ProbeExpiry: for any number of reports, evaluations and faults.         *)
(***************************************************************************)

InTurn == {"report", "waiting", "checked", "opened", "recorded"}
Acting == {"checked", "opened", "recorded"}

\* Turns are held by the tasks that took one, and an evaluation acts only in
\* its own.
Turns ==
  /\ \A k \in DOMAIN turns : task[turns[k]] \in InTurn
  /\ \A t \in Tasks : task[t] \in Acting => turns # <<>> /\ Head(turns) = t

\* What a recorded alert means for the next reader, and for one that has read.
Recorded ==
  /\ recorded > 0 => alertState = "expired"
  /\ \A t \in Tasks : task[t] \in {"checked", "opened"} => recorded = 0

IInv == TypeOK /\ Turns /\ Recorded /\ AlertedOnce
-----------------------------------------------------------------------------
(***************************************************************************)
(* Turns are taken at the end of a queue and given up at its head, and no  *)
(* task is in it twice.  What both do to such a sequence.                  *)
(***************************************************************************)
\* A sequence of different elements, one taken from its head.
LEMMA TailFacts ==
  ASSUME NEW S, NEW s \in Seq(S), s # <<>>, IsInjective(s)
  PROVE  /\ Tail(s) \in Seq(S)
         /\ IsInjective(Tail(s))
         /\ Head(s) \in S
         /\ \A k \in DOMAIN Tail(s) : k + 1 \in DOMAIN s /\ Tail(s)[k] = s[k + 1]
         /\ \A k \in DOMAIN Tail(s) : Tail(s)[k] # Head(s)
<1>1. /\ Len(s) \in Nat \ {0}
      /\ DOMAIN s = 1..Len(s)
      /\ Head(s) = s[1]
      /\ Tail(s) \in Seq(S)
      /\ DOMAIN Tail(s) = 1..(Len(s) - 1)
      /\ \A k \in 1..(Len(s) - 1) : Tail(s)[k] = s[k + 1]
  OBVIOUS
<1>2. \A k \in 1..(Len(s) - 1) : k + 1 \in 1..Len(s) /\ k + 1 # 1
  BY <1>1
<1>3. \A j, k \in 1..Len(s) : s[j] = s[k] => j = k
  BY <1>1 DEF IsInjective
<1>4. IsInjective(Tail(s))
  <2>1. SUFFICES ASSUME NEW j \in 1..(Len(s) - 1), NEW k \in 1..(Len(s) - 1), Tail(s)[j] = Tail(s)[k]
                 PROVE  j = k
    BY <1>1 DEF IsInjective
  <2>2. s[j + 1] = s[k + 1]
    BY <1>1, <2>1
  <2>3. j + 1 = k + 1
    BY <1>2, <1>3, <2>2
  <2> QED BY <2>3, <1>1
<1>5. \A k \in 1..(Len(s) - 1) : s[k + 1] # s[1]
  BY <1>1, <1>2, <1>3
<1> QED BY <1>1, <1>2, <1>4, <1>5

\* One more at its end: r is s, then e.
NotIn(e, s) == \A k \in DOMAIN s : s[k] # e
Longer(r, s, e) ==
  /\ r # <<>>
  /\ s # <<>> => Head(r) = Head(s)
  /\ \A k \in DOMAIN r : r[k] = e \/ (k \in DOMAIN s /\ r[k] = s[k])

LEMMA AppendFacts ==
  ASSUME NEW S, NEW s \in Seq(S), NEW e \in S, IsInjective(s), NotIn(e, s)
  PROVE  /\ Append(s, e) \in Seq(S)
         /\ IsInjective(Append(s, e))
         /\ Longer(Append(s, e), s, e)
<1>1. /\ Len(s) \in Nat
      /\ DOMAIN s = 1..Len(s)
      /\ Append(s, e) \in Seq(S)
      /\ DOMAIN Append(s, e) = 1..(Len(s) + 1)
      /\ \A k \in 1..Len(s) : Append(s, e)[k] = s[k]
      /\ Append(s, e)[Len(s) + 1] = e
      /\ Len(Append(s, e)) = Len(s) + 1
  OBVIOUS
<1>2. \A k \in 1..(Len(s) + 1) : k = Len(s) + 1 \/ k \in 1..Len(s)
  BY <1>1
<1>3. IsInjective(Append(s, e))
  <2>1. SUFFICES ASSUME NEW j \in 1..(Len(s) + 1), NEW k \in 1..(Len(s) + 1),
                        Append(s, e)[j] = Append(s, e)[k]
                 PROVE  j = k
    BY <1>1 DEF IsInjective
  <2> QED BY <1>1, <1>2, <2>1 DEF IsInjective, NotIn
<1>4. s # <<>> => Head(Append(s, e)) = Head(s)
  BY <1>1
<1>5. Append(s, e) # <<>>
  BY <1>1
<1>6. \A k \in DOMAIN Append(s, e) :
        Append(s, e)[k] = e \/ (k \in DOMAIN s /\ Append(s, e)[k] = s[k])
  BY <1>1, <1>2
<1> QED BY <1>1, <1>3, <1>4, <1>5, <1>6 DEF Longer

\* A task that has none takes a turn: SpawnInOrder and TakeTurn.
LEMMA TurnTaken ==
  ASSUME TypeOK, Turns, NEW t \in Tasks, task[t] \notin InTurn,
         NEW to \in {"report", "waiting"}, task' = [task EXCEPT ![t] = to],
         turns' = Append(turns, t)
  PROVE  turns' \in Seq(Tasks) /\ IsInjective(turns') /\ Turns'
<1>1. NotIn(t, turns)
  BY DEF Turns, NotIn
<1>2. turns \in Seq(Tasks) /\ IsInjective(turns)
  BY DEF TypeOK
<1>3. turns' \in Seq(Tasks) /\ IsInjective(turns') /\ Longer(turns', turns, t)
  BY <1>1, <1>2, AppendFacts, Zenon
<1>4. \A u \in Tasks : task'[u] = IF u = t THEN to ELSE task[u]
  BY DEF TypeOK
<1>5. \A k \in DOMAIN turns : turns[k] \in Tasks
  BY <1>2
<1>6. \A k \in DOMAIN turns' : task'[turns'[k]] \in InTurn
  BY <1>3, <1>4, <1>5 DEF Turns, InTurn, Longer
<1>7. \A u \in Tasks : task'[u] \in Acting => turns' # <<>> /\ Head(turns') = u
  BY <1>3, <1>4 DEF Turns, Acting, Longer
<1> QED BY <1>3, <1>6, <1>7 DEF Turns

\* The task at the head ends and drops its turn.
LEMMA TurnDropped ==
  ASSUME TypeOK, Turns, NEW t \in Tasks, ItsTurn(t), task' = [task EXCEPT ![t] = "free"],
         DropTurn(t)
  PROVE  turns' \in Seq(Tasks) /\ IsInjective(turns') /\ Turns'
<1>1. turns \in Seq(Tasks) /\ IsInjective(turns) /\ turns # <<>> /\ Head(turns) = t
  BY DEF TypeOK, ItsTurn
<1>2. turns' = Tail(turns)
  BY <1>1 DEF DropTurn
<1>3. /\ turns' \in Seq(Tasks) /\ IsInjective(turns')
      /\ \A k \in DOMAIN turns' : k + 1 \in DOMAIN turns /\ turns'[k] = turns[k + 1]
      /\ \A k \in DOMAIN turns' : turns'[k] # t
  BY <1>1, <1>2, TailFacts, Zenon
<1>4. \A u \in Tasks : task'[u] = IF u = t THEN "free" ELSE task[u]
  BY DEF TypeOK
<1>5. \A k \in DOMAIN turns : turns[k] \in Tasks
  BY <1>1
<1>6. \A k \in DOMAIN turns' : task'[turns'[k]] \in InTurn
  BY <1>3, <1>4, <1>5 DEF Turns
<1>7. \A u \in Tasks : task'[u] \notin Acting
  BY <1>1, <1>4 DEF Turns, Acting
<1> QED BY <1>3, <1>6, <1>7 DEF Turns

\* A task that isn't in its turn has no turn to drop.
LEMMA NothingDropped ==
  ASSUME TypeOK, Turns, NEW t \in Tasks, task[t] \notin InTurn, DropTurn(t)
  PROVE  turns' = turns
<1>1. turns \in Seq(Tasks) /\ (turns # <<>> => 1 \in DOMAIN turns /\ Head(turns) = turns[1])
  BY DEF TypeOK
<1> QED BY <1>1 DEF Turns, DropTurn

\* A task goes on in the turn it has, or in none: it acts only at the head.
LEMMA TurnKept ==
  ASSUME TypeOK, Turns, NEW t \in Tasks, NEW to \in TaskStages,
         task' = [task EXCEPT ![t] = to], turns' = turns,
         task[t] \in InTurn => to \in InTurn,
         to \in Acting => ItsTurn(t)
  PROVE  turns' \in Seq(Tasks) /\ IsInjective(turns') /\ Turns'
<1>1. \A u \in Tasks : task'[u] = IF u = t THEN to ELSE task[u]
  BY DEF TypeOK
<1>2. turns \in Seq(Tasks) /\ \A k \in DOMAIN turns : turns[k] \in Tasks
  BY DEF TypeOK
<1>3. \A k \in DOMAIN turns' : task'[turns'[k]] \in InTurn
  BY <1>1, <1>2 DEF Turns
<1>4. \A u \in Tasks : task'[u] \in Acting => turns' # <<>> /\ Head(turns') = u
  BY <1>1 DEF Turns, ItsTurn
<1> QED BY <1>3, <1>4 DEF Turns, TypeOK
-----------------------------------------------------------------------------
LEMMA InitHolds == Init => IInv
<1> SUFFICES ASSUME Init PROVE IInv
  OBVIOUS
<1>1. turns \in Seq(Tasks) /\ DOMAIN turns = {} /\ IsInjective(turns)
  BY DEF Init, IsInjective
<1>2. TypeOK
  <2>1. ingest \in [Ingests -> IngestStages] /\ task \in [Tasks -> TaskStages]
    BY DEF Init, TaskStages, IngestStages
  <2>2. faults \in 0..MaxFaults /\ recorded \in Nat
    BY FaultsAssumption DEF Init
  <2> QED BY <1>1, <2>1, <2>2, Zenon DEF Init, TypeOK
<1>3. Turns /\ Recorded /\ AlertedOnce
  BY <1>1 DEF Init, Turns, Recorded, AlertedOnce, Acting
<1> QED BY <1>2, <1>3 DEF IInv

\* The steps of a task, and of what starts one, keep the turns.
LEMMA TurnsKept ==
  ASSUME TypeOK, Turns, [Next]_vars
  PROVE  turns' \in Seq(Tasks) /\ IsInjective(turns') /\ Turns'
<1> USE DEF InTurn, Acting, TaskStages
<1>1. CASE \E i \in Ingests : SpawnInOrder(i)
  <2>1. PICK t \in Tasks : task[t] = "free" /\ task' = [task EXCEPT ![t] = "report"]
                          /\ turns' = Append(turns, t)
    BY <1>1 DEF SpawnInOrder
  <2> QED BY <2>1, TurnTaken
<1>2. CASE \E t \in Tasks : TakeTurn(t)
  BY <1>2, TurnTaken DEF TakeTurn, Evaluating
<1>3. ASSUME NEW t \in Tasks, Check(t)
      PROVE  turns' \in Seq(Tasks) /\ IsInjective(turns') /\ Turns'
  <2>1. CASE ShouldSend
    BY <1>3, <2>1, TurnKept DEF Check, Evaluating
  <2>2. CASE ~ShouldSend
    BY <1>3, <2>2, TurnDropped DEF Check, Evaluating
  <2> QED BY <2>1, <2>2
<1>4. ASSUME NEW t \in Tasks, OpenIncident(t) \/ Record(t)
      PROVE  turns' \in Seq(Tasks) /\ IsInjective(turns') /\ Turns'
  <2>1. ItsTurn(t)
    BY <1>4 DEF OpenIncident, Record, Evaluating, Turns, ItsTurn
  <2> QED BY <1>4, <2>1, TurnKept DEF OpenIncident, Record, Evaluating
<1>5. ASSUME NEW t \in Tasks, Notify(t) \/ EvaluateReport(t)
      PROVE  turns' \in Seq(Tasks) /\ IsInjective(turns') /\ Turns'
  <2>1. ItsTurn(t)
    BY <1>5 DEF Notify, EvaluateReport, Evaluating, Turns, ItsTurn
  <2> QED BY <1>5, <2>1, TurnDropped DEF Notify, EvaluateReport, Evaluating
<1>6. ASSUME NEW t \in Tasks, EvaluationFault(t)
      PROVE  turns' \in Seq(Tasks) /\ IsInjective(turns') /\ Turns'
  <2>1. CASE Evaluating(t, "checked", "opened") /\ UNCHANGED turns
    <3>1. ItsTurn(t)
      BY <2>1 DEF Evaluating, Turns, ItsTurn
    <3> QED BY <2>1, <3>1, TurnKept DEF Evaluating
  <2>2. CASE /\ task[t] \in {"waiting", "report"} => ItsTurn(t)
             /\ task[t] # "free"
             /\ task' = [task EXCEPT ![t] = "free"]
             /\ DropTurn(t)
    <3>1. CASE task[t] \in InTurn
      <4>1. ItsTurn(t)
        BY <2>2, <3>1 DEF Turns, ItsTurn
      <4> QED BY <2>2, <4>1, TurnDropped
    <3>2. CASE task[t] \notin InTurn
      <4>1. turns' = turns
        BY <2>2, <3>2, NothingDropped
      <4> QED BY <2>2, <3>2, <4>1, TurnKept
    <3> QED BY <3>1, <3>2
  <2> QED BY <1>6, <2>1, <2>2 DEF EvaluationFault
<1>7. CASE Sweep
  <2>1. PICK t \in Tasks : task[t] = "free" /\ task' = [task EXCEPT ![t] = "listed"]
    BY <1>7 DEF Sweep
  <2> QED BY <1>7, <2>1, TurnKept DEF Sweep
<1>8. CASE RestartHub
  BY <1>8 DEF RestartHub, Turns, IsInjective
<1>9. CASE UNCHANGED <<task, turns>>
  BY <1>9 DEF Turns, TypeOK
<1> QED
  BY <1>1, <1>2, <1>3, <1>4, <1>5, <1>6, <1>7, <1>8, <1>9
  DEF Next, vars, TimePasses, ChangeQuiet, Arrive, IngestStep, IngestFault, Ingesting, TaskStep,
      RecordHeartbeat, Rearm, CloseIncident

LEMMA TypesKept ==
  ASSUME TypeOK, Turns, [Next]_vars
  PROVE  TypeOK'
<1>1. turns' \in Seq(Tasks) /\ IsInjective(turns')
  BY TurnsKept
<1> USE FaultsAssumption DEF TypeOK, TaskStages, IngestStages
<1>2. faults' \in 0..MaxFaults /\ recorded' \in Nat
  BY DEF Next, vars, TimePasses, Sweep, ChangeQuiet, RestartHub, Arrive, IngestStep, IngestFault,
    RecordHeartbeat, Rearm, CloseIncident, SpawnInOrder, TaskStep, TakeTurn, Check, OpenIncident,
    Record, Notify, EvaluateReport, EvaluationFault
<1>3. /\ heartbeat' \in {"active", "expired"}
      /\ alertState' \in {"none", "expired", "active"}
      /\ stale' \in BOOLEAN /\ incident' \in BOOLEAN /\ quiet' \in BOOLEAN /\ announced' \in BOOLEAN
  BY DEF Next, vars, dbVars, TimePasses, Sweep, ChangeQuiet, RestartHub, Arrive, IngestStep,
    IngestFault, RecordHeartbeat, Rearm, CloseIncident, SpawnInOrder, TaskStep, TakeTurn, Check,
    OpenIncident, Record, Notify, EvaluateReport, EvaluationFault
<1>4. ingest' \in [Ingests -> IngestStages]
  BY DEF Next, vars, TimePasses, Sweep, ChangeQuiet, RestartHub, Arrive, IngestStep, IngestFault,
    Ingesting, RecordHeartbeat, Rearm, CloseIncident, SpawnInOrder, TaskStep, TakeTurn, Check,
    OpenIncident, Record, Notify, EvaluateReport, EvaluationFault
<1>5. task' \in [Tasks -> TaskStages]
  BY DEF Next, vars, TimePasses, Sweep, ChangeQuiet, RestartHub, Arrive, IngestStep, IngestFault,
    RecordHeartbeat, Rearm, CloseIncident, SpawnInOrder, TaskStep, Evaluating, TakeTurn, Check,
    OpenIncident, Record, Notify, EvaluateReport, EvaluationFault
<1> QED BY <1>1, <1>2, <1>3, <1>4, <1>5

\* The reader of "not alerted yet" is alone until it has recorded: whoever
\* reads next finds the alert recorded, or the probe re-armed.
LEMMA RecordedKept ==
  ASSUME IInv, [Next]_vars
  PROVE  Recorded' /\ AlertedOnce'
<1> USE DEF IInv, Recorded, AlertedOnce
<1>1. task \in [Tasks -> TaskStages] /\ recorded \in Nat
  BY DEF TypeOK
<1>2. ASSUME NEW t \in Tasks, Record(t)
      PROVE  Recorded' /\ AlertedOnce'
  <2>1. recorded = 0 /\ recorded' = 1 /\ alertState' = "expired"
    BY <1>2 DEF Record, Evaluating
  <2>2. \A u \in Tasks : u # t => task[u] \notin Acting
    BY <1>2 DEF Record, Evaluating, Turns, Acting
  <2>3. \A u \in Tasks : task'[u] = IF u = t THEN "recorded" ELSE task[u]
    BY <1>1, <1>2 DEF Record, Evaluating
  <2> QED BY <2>1, <2>2, <2>3 DEF Acting
<1>3. ASSUME NEW t \in Tasks, Check(t)
      PROVE  Recorded' /\ AlertedOnce'
  BY <1>1, <1>3 DEF Check, Evaluating, ShouldSend, dbVars
<1>4. CASE \E i \in Ingests : Rearm(i)
  BY <1>4 DEF Rearm
<1>5. ASSUME NEW t \in Tasks,
             TakeTurn(t) \/ OpenIncident(t) \/ Notify(t) \/ EvaluateReport(t) \/ EvaluationFault(t)
      PROVE  Recorded' /\ AlertedOnce'
  BY <1>1, <1>5 DEF TakeTurn, OpenIncident, Notify, EvaluateReport, EvaluationFault, Evaluating, dbVars
<1>6. CASE Sweep \/ RestartHub \/ (\E i \in Ingests : SpawnInOrder(i))
  BY <1>1, <1>6 DEF Sweep, RestartHub, SpawnInOrder, dbVars
<1>7. CASE UNCHANGED <<alertState, task, recorded>>
  BY <1>7
<1> QED
  BY <1>2, <1>3, <1>4, <1>5, <1>6, <1>7
  DEF Next, vars, dbVars, TimePasses, ChangeQuiet, Arrive, IngestStep, IngestFault, TaskStep,
      RecordHeartbeat, CloseIncident

LEMMA StepKeeps == IInv /\ [Next]_vars => IInv'
BY TurnsKept, TypesKept, RecordedKept DEF IInv

LEMMA Invariant == Spec => []IInv
BY InitHolds, StepKeeps, PTL DEF Spec
-----------------------------------------------------------------------------
\* The state is always what its comments say; no task ever holds two turns.
THEOREM TypeCorrect == Spec => []TypeOK
<1>1. IInv => TypeOK
  BY DEF IInv
<1> QED BY Invariant, <1>1, PTL

\* One alert for one outage: however many sweeps, reports, evaluations, faults
\* and restarts there are, two expiry alerts are never recorded without a
\* re-arming between them.
THEOREM OneAlert == Spec => []AlertedOnce
<1>1. IInv => AlertedOnce
  BY DEF IInv
<1> QED BY Invariant, <1>1, PTL
-----------------------------------------------------------------------------
(***************************************************************************)
(* CheckConfig: for any checks, links, editors, edits and failures.        *)
(***************************************************************************)

\* The links as a function.
Links == [c \in Checks |-> checks[c].dependsOn]

\* Links make no loop: of every set of checks, one is behind none of the others.
\* (Said of any links f; it needs no walk along them.)
Loopless(f) == \A T \in SUBSET Checks : T # {} => \E c \in T : f[c] \notin T

\* ... without those that an edit which was overtaken wrote.
Sound == [c \in Checks |-> IF c \in unchecked THEN NoCheck ELSE Links[c]]

\* An edit under way that links its check, and that none has overtaken; and the
\* links once it is written.
Linking(e) == edit[e] # NoEdit /\ edit[e].after.dependsOn # NoCheck /\ e \notin outdated
Linked(e) == [Sound EXCEPT ![edit[e].check] = edit[e].after.dependsOn]

\* What is saved, and what is about to be, has the secret it needs.
SecretsInv ==
  /\ EnabledHasSecret
  /\ \A e \in Editors : edit[e] # NoEdit =>
       (edit[e].check \in Secretive /\ edit[e].after.enabled => edit[e].after.secret # NoSecret)

\* Links go from checks that are there to checks that are; an edit under way is
\* of checks that are there, or were.
Once(c) == c = NoCheck \/ checks[c].is # "new"
LinksInv ==
  /\ \A c \in Checks : checks[c].dependsOn # NoCheck => There(c) /\ There(checks[c].dependsOn)
  /\ \A e \in Editors : edit[e] # NoEdit =>
       Once(edit[e].check) /\ Once(edit[e].after.dependsOn) /\ edit[e].after.is = "there"

\* Among those links there is no loop, nor is there one once such an edit is
\* written, whichever comes first: it overtakes the others.
LoopsInv ==
  /\ Loopless(Sound)
  /\ \A e \in Editors : Linking(e) => Loopless(Linked(e))

ConfigInv == ConfigTypeOK /\ SecretsInv /\ LinksInv
-----------------------------------------------------------------------------
(***************************************************************************)
(* Induction, for sets of numbers.                                         *)
(***************************************************************************)
\* A nonempty set of numbers has a least one.
LEMMA LeastNumber ==
  ASSUME NEW S \in SUBSET Nat, S # {}
  PROVE  \E b \in S : \A c \in S : b <= c
<1> DEFINE Under(b) == {c \in S : c < b}
           T == {Under(b) : b \in S}
<1>1. T \subseteq FiniteSubsetsOf(Nat) /\ T # {}
  <2>1. ASSUME NEW b \in S
        PROVE  Under(b) \in SUBSET Nat /\ IsFiniteSet(Under(b))
    <3>1. IsFiniteSet(0..(b - 1))
      BY FS_Interval
    <3>2. ASSUME NEW c \in Under(b)
          PROVE  c \in 0..(b - 1)
      <4>1. b \in Nat /\ c \in Nat /\ c < b
        OBVIOUS
      <4> QED BY <4>1
    <3> QED BY <3>1, <3>2, FS_Subset
  <2> QED BY <2>1 DEF FiniteSubsetsOf
<1>2. PICK X \in T : \A Y \in T : <<Y, X>> \notin StrictSubsetOrdering(Nat)
  BY <1>1, FS_StrictSubsetOrderingWellFounded, WFMin, Zenon
<1>3. PICK b \in S : X = Under(b)
  OBVIOUS
<1>4. ASSUME NEW c \in S, c < b
      PROVE  FALSE
  <2>1. Under(c) \in SUBSET Nat /\ Under(b) \in SUBSET Nat
    OBVIOUS
  <2>2. ASSUME NEW x \in Under(c)
        PROVE  x \in Under(b)
    <3>1. x \in Nat /\ c \in Nat /\ b \in Nat /\ x \in S /\ x < c
      OBVIOUS
    <3> QED BY <1>4, <3>1
  <2>3. c \in Under(b) /\ c \notin Under(c)
    BY <1>4
  <2>4. <<Under(c), Under(b)>> \in StrictSubsetOrdering(Nat)
    BY <2>1, <2>2, <2>3 DEF StrictSubsetOrdering
  <2> QED BY <1>2, <1>3, <2>4
<1>5. \A c \in S : b <= c
  BY <1>4
<1> QED BY <1>5

\* A set that holds a, and the next of each it holds below b, holds a..b.
LEMMA Upwards ==
  ASSUME NEW a \in Nat, NEW b \in Nat, NEW S, a \in S,
         \A n \in a..(b - 1) : n \in S => n + 1 \in S
  PROVE  \A n \in a..b : n \in S
<1> DEFINE Out == {n \in a..b : n \notin S}
<1>1. SUFFICES ASSUME Out # {} PROVE FALSE
  OBVIOUS
<1>2. Out \in SUBSET Nat
  OBVIOUS
<1>3. PICK l \in Out : \A c \in Out : l <= c
  <2> HIDE DEF Out
  <2> QED BY <1>1, <1>2, LeastNumber
<1>4. l # a /\ l \in a..b /\ l \in Nat
  OBVIOUS
<1>5. l - 1 \in a..(b - 1) /\ l - 1 \in a..b /\ ~(l <= l - 1)
  BY <1>4
<1>6. l - 1 \in S
  BY <1>3, <1>5
<1>7. (l - 1) + 1 \in S
  BY <1>5, <1>6
<1>8. (l - 1) + 1 = l
  BY <1>4
<1> QED BY <1>7, <1>8
-----------------------------------------------------------------------------
(***************************************************************************)
(* The way up from a check.                                                *)
(***************************************************************************)
Places == 0..Cardinality(Checks)
Nodes == Checks \union {NoCheck}
Above(x) == IF x = NoCheck THEN NoCheck ELSE checks[x].dependsOn

LEMMA PlacesFacts == Cardinality(Checks) \in Nat
BY FS_CardinalityType, ChecksAssumption

\* Up is what its recursive definition says.
LEMMA UpFacts ==
  ASSUME ConfigTypeOK, NEW c \in Checks
  PROVE  /\ Up(c) \in [Places -> Nodes]
         /\ Up(c)[0] = c
         /\ \A n \in Places \ {0} : Up(c)[n] = Above(Up(c)[n - 1])
<1> DEFINE Walk(k, g) == /\ g \in [0..k -> Nodes]
                         /\ g[0] = c
                         /\ \A n \in 1..k : g[n] = Above(g[n - 1])
           S == {k \in Nat : \E g : Walk(k, g)}
           N == Cardinality(Checks)
<1>1. \A x \in Nodes : Above(x) \in Nodes
  BY DEF ConfigTypeOK, CheckRecords, Above, Nodes
<1>2. N \in Nat
  BY PlacesFacts
<1>3. 0 \in S
  <2>1. Walk(0, [n \in 0..0 |-> c])
    BY DEF Nodes
  <2> QED BY <2>1
<1>4. ASSUME NEW k \in Nat, k \in S
      PROVE  k + 1 \in S
  <2>1. PICK g : Walk(k, g)
    BY <1>4
  <2> DEFINE h == [n \in 0..(k + 1) |-> IF n = k + 1 THEN Above(g[k]) ELSE g[n]]
  <2>2. Above(g[k]) \in Nodes
    BY <1>1, <2>1
  <2>3. ASSUME NEW n \in 0..(k + 1)
        PROVE  h[n] \in Nodes
    BY <2>1, <2>2
  <2>4. h \in [0..(k + 1) -> Nodes]
    BY <2>3
  <2>5. h[0] = c
    BY <2>1
  <2>6. ASSUME NEW n \in 1..(k + 1)
        PROVE  h[n] = Above(h[n - 1])
    <3>1. h[n - 1] = g[n - 1] /\ n - 1 \in 0..k
      OBVIOUS
    <3>2. CASE n = k + 1
      BY <3>1, <3>2
    <3>3. CASE n # k + 1
      <4>1. n \in 1..k /\ h[n] = g[n]
        BY <3>3
      <4> QED BY <2>1, <3>1, <4>1
    <3> QED BY <3>2, <3>3
  <2> HIDE DEF h
  <2>7. Walk(k + 1, h)
    BY <2>4, <2>5, <2>6
  <2> QED BY <2>7
<1>5. N \in S
  <2> HIDE DEF S
  <2>1. \A n \in 0..(N - 1) : n \in S => n + 1 \in S
    BY <1>2, <1>4
  <2>2. \A n \in 0..N : n \in S
    BY <1>2, <1>3, <2>1, Upwards
  <2> QED BY <1>2, <2>2
<1>6. PICK g : Walk(N, g)
  BY <1>5
<1> DEFINE Body(f) == [n \in 0..N |-> IF n = 0 THEN c ELSE IF f[n - 1] = NoCheck THEN NoCheck
                                      ELSE checks[f[n - 1]].dependsOn]
<1>7. g = Body(g)
  <2>1. DOMAIN g = 0..N /\ g = [n \in 0..N |-> g[n]]
    BY <1>6
  <2>2. ASSUME NEW n \in 0..N
        PROVE  g[n] = IF n = 0 THEN c ELSE IF g[n - 1] = NoCheck THEN NoCheck
                      ELSE checks[g[n - 1]].dependsOn
    <3>1. CASE n = 0
      BY <1>6, <3>1
    <3>2. CASE n # 0
      <4>1. n \in 1..N
        BY <1>2, <3>2
      <4> QED BY <1>6, <3>2, <4>1 DEF Above
    <3> QED BY <3>1, <3>2
  <2> QED BY <2>1, <2>2
<1>8. Up(c) = CHOOSE f : f = Body(f)
  BY DEF Up
<1>9. Up(c) = Body(Up(c))
  <2> HIDE DEF Body
  <2> QED BY <1>7, <1>8
<1>10. DOMAIN Up(c) = 0..N /\ Up(c)[0] = c
  BY <1>2, <1>9
<1>11. \A n \in 1..N : Up(c)[n] = Above(Up(c)[n - 1])
  BY <1>2, <1>9 DEF Above
<1> DEFINE U == {n \in 0..N : Up(c)[n] \in Nodes}
<1>12. \A n \in 0..N : n \in U
  <2>1. 0 \in U
    BY <1>2, <1>10 DEF Nodes
  <2>2. ASSUME NEW n \in 0..(N - 1), n \in U
        PROVE  n + 1 \in U
    <3>1. n + 1 \in 1..N /\ (n + 1) - 1 = n /\ n + 1 \in 0..N
      BY <1>2
    <3>2. Up(c)[n + 1] = Above(Up(c)[n])
      BY <1>11, <3>1
    <3> QED BY <1>1, <2>2, <3>1, <3>2
  <2> HIDE DEF U
  <2> QED BY <1>2, <2>1, <2>2, Upwards
<1>13. Up(c) = [n \in 0..N |-> Up(c)[n]]
  <2> HIDE DEF Body
  <2>1. Body(Up(c)) = [n \in 0..N |-> Body(Up(c))[n]]
    BY DEF Body
  <2> QED BY <1>9, <2>1
<1>14. \A n \in 0..N : Up(c)[n] \in Nodes
  BY <1>12
<1>15. Up(c) \in [0..N -> Nodes]
  <2> HIDE DEF Body, U
  <2> QED BY <1>13, <1>14
<1>16. \A n \in (0..N) \ {0} : n \in 1..N
  BY <1>2
<1> HIDE DEF Body, U, S
<1> QED BY <1>10, <1>11, <1>15, <1>16 DEF Places

\* Past the end of the links there is nothing more.
LEMMA EndStays ==
  ASSUME ConfigTypeOK, NEW c \in Checks, NEW i \in Places, NEW j \in Places, i <= j,
         Up(c)[i] = NoCheck
  PROVE  Up(c)[j] = NoCheck
<1> DEFINE S == {n \in Places : Up(c)[n] = NoCheck}
<1>1. Cardinality(Checks) \in Nat /\ i \in Nat /\ j \in Nat
  BY PlacesFacts DEF Places
<1>2. ASSUME NEW n \in i..(j - 1), n \in S
      PROVE  n + 1 \in S
  <2>1. n + 1 \in Places \ {0} /\ (n + 1) - 1 = n
    BY <1>1 DEF Places
  <2>2. Up(c)[n + 1] = Above(Up(c)[n])
    BY <2>1, UpFacts, Zenon
  <2> QED BY <1>2, <2>1, <2>2 DEF Above
<1>3. i \in S /\ j \in i..j
  BY <1>1
<1> HIDE DEF S
<1>4. \A n \in i..j : n \in S
  BY <1>1, <1>2, <1>3, Upwards
<1>5. j \in S
  BY <1>3, <1>4
<1> QED BY <1>5 DEF S

\* Where the way up goes along links that make no loop, it meets no check twice.
LEMMA MetOnce ==
  ASSUME ConfigTypeOK, NEW f, Loopless(f), NEW c \in Checks, NEW i \in Places, NEW j \in Places,
         i < j, Up(c)[j] # NoCheck, \A m \in i..(j - 1) : f[Up(c)[m]] = Links[Up(c)[m]]
  PROVE  Up(c)[i] # Up(c)[j]
<1> SUFFICES ASSUME Up(c)[i] = Up(c)[j]
             PROVE  FALSE
  OBVIOUS
<1> DEFINE T == {Up(c)[m] : m \in i..(j - 1)}
<1>1. Cardinality(Checks) \in Nat /\ i \in Nat /\ j \in Nat
  BY PlacesFacts DEF Places
<1>2. ASSUME NEW m \in i..(j - 1)
      PROVE  /\ Up(c)[m] \in Checks
             /\ \E k \in i..(j - 1) : Links[Up(c)[m]] = Up(c)[k]
  <2>1. m \in Places /\ m <= j /\ m + 1 \in Places \ {0} /\ (m + 1) - 1 = m
    BY <1>1 DEF Places
  <2>2. Up(c)[m] # NoCheck
    BY <2>1, EndStays
  <2>3. Up(c)[m] \in Checks
    BY <2>1, <2>2, UpFacts DEF Nodes
  <2>4. Up(c)[m + 1] = Above(Up(c)[m])
    <3>1. \A n \in Places \ {0} : Up(c)[n] = Above(Up(c)[n - 1])
      BY UpFacts
    <3> QED BY <2>1, <3>1, Zenon
  <2>5. Links[Up(c)[m]] = Up(c)[m + 1]
    BY <2>2, <2>3, <2>4 DEF Links, Above
  <2>6. CASE m + 1 = j
    <3>1. i \in i..(j - 1)
      BY <1>1
    <3> QED BY <2>3, <2>5, <2>6, <3>1
  <2>7. CASE m + 1 # j
    <3>1. m + 1 \in i..(j - 1)
      BY <1>1, <2>7
    <3> QED BY <2>3, <2>5, <3>1
  <2> QED BY <2>6, <2>7
<1>3. T \in SUBSET Checks /\ T # {}
  <2>1. i \in i..(j - 1)
    BY <1>1
  <2> QED BY <1>2, <2>1
<1>4. \A x \in T : f[x] \in T
  BY <1>2
<1> HIDE DEF T
<1> QED BY <1>3, <1>4 DEF Loopless

\* It goes along the links f all the way.
Along(f, c) == \A m \in Places : Up(c)[m] \in Checks => f[Up(c)[m]] = Links[Up(c)[m]]

LEMMA AlongMetOnce ==
  ASSUME ConfigTypeOK, NEW f, Loopless(f), NEW c \in Checks, Along(f, c),
         NEW i \in Places, NEW j \in Places, i < j, Up(c)[j] # NoCheck
  PROVE  Up(c)[i] # Up(c)[j]
<1>1. Cardinality(Checks) \in Nat /\ i \in Nat /\ j \in Nat
  BY PlacesFacts DEF Places
<1>2. ASSUME NEW m \in i..(j - 1)
      PROVE  f[Up(c)[m]] = Links[Up(c)[m]]
  <2>1. m \in Places /\ m <= j
    BY <1>1 DEF Places
  <2>2. Up(c)[m] # NoCheck
    BY <2>1, EndStays
  <2>3. Up(c)[m] \in Checks
    BY <2>1, <2>2, UpFacts DEF Nodes
  <2> QED BY <2>1, <2>3 DEF Along
<1> QED BY <1>2, MetOnce

\* It ends: as many links up as there are checks, there is none.
LEMMA WayEnds ==
  ASSUME ConfigTypeOK, NEW g, Loopless(g), NEW c \in Checks, Along(g, c)
  PROVE  Up(c)[Cardinality(Checks)] = NoCheck
<1> DEFINE N == Cardinality(Checks)
           f == [n \in 0..N |-> Up(c)[n]]
<1> SUFFICES ASSUME Up(c)[N] # NoCheck
             PROVE  FALSE
  OBVIOUS
<1>1. N \in Nat
  BY PlacesFacts
<1>2. N \in Places
  BY <1>1 DEF Places
<1>3. ASSUME NEW n \in 0..N
      PROVE  Up(c)[n] \in Checks /\ n \in Places
  <2>1. n \in Places /\ n <= N
    BY <1>1 DEF Places
  <2>2. Up(c)[n] # NoCheck
    BY <1>2, <2>1, EndStays
  <2> QED BY <2>1, <2>2, UpFacts DEF Nodes
<1>4. f \in [0..N -> Checks]
  BY <1>3
<1>5. IsFiniteSet(0..N) /\ Cardinality(0..N) = N + 1
  BY <1>1, FS_Interval
<1>6. IsFiniteSet(Checks)
  BY ChecksAssumption
<1> HIDE DEF f
<1>7. PICK x, y \in 0..N : x # y /\ f[x] = f[y]
  <2> HIDE DEF N
  <2>1. Cardinality(Checks) < Cardinality(0..N)
    BY <1>1, <1>5 DEF N
  <2> QED BY <1>4, <1>5, <1>6, <2>1, FS_PigeonHole, Zenon
<1>8. Up(c)[x] = Up(c)[y] /\ x \in Nat /\ y \in Nat
  BY <1>1, <1>7 DEF f
<1>9. Up(c)[x] # NoCheck /\ Up(c)[y] # NoCheck
  BY <1>3, ChecksAssumption
<1>10. CASE x < y
  BY <1>3, <1>8, <1>9, <1>10, AlongMetOnce
<1>11. CASE y < x
  BY <1>3, <1>8, <1>9, <1>11, AlongMetOnce
<1> QED BY <1>7, <1>8, <1>10, <1>11

\* So every check met on it is an ancestor, and none is the check itself.
LEMMA MetIsAncestor ==
  ASSUME ConfigTypeOK, NEW f, Loopless(f), NEW c \in Checks, Along(f, c),
         NEW n \in Places \ {0}, Up(c)[n] # NoCheck
  PROVE  n \in AncestorsAt(c) /\ Up(c)[n] # c
<1>1. Cardinality(Checks) \in Nat /\ n \in Nat /\ n # 0 /\ n \in 1..Cardinality(Checks)
  BY PlacesFacts DEF Places
<1>2. ASSUME NEW m \in 0..(n - 1)
      PROVE  Up(c)[m] # Up(c)[n]
  <2>1. m \in Places /\ m < n
    BY <1>1 DEF Places
  <2> QED BY <2>1, AlongMetOnce
<1>3. Up(c)[n] \notin {Up(c)[m] : m \in 0..(n - 1)}
  BY <1>2
<1>4. 0 \in 0..(n - 1) /\ Up(c)[0] = c
  BY <1>1, UpFacts
<1> QED BY <1>1, <1>2, <1>3, <1>4 DEF AncestorsAt

\* Whatever the links are, what it meets is the check itself or an ancestor.
LEMMA FirstMet ==
  ASSUME ConfigTypeOK, NEW c \in Checks, NEW n \in Places, Up(c)[n] \in Checks
  PROVE  Up(c)[n] \in {c} \union Ancestors(c)
<1> DEFINE x == Up(c)[n]
           S == {m \in Places : Up(c)[m] = x}
<1>1. Cardinality(Checks) \in Nat /\ n \in Nat /\ S \in SUBSET Nat /\ S # {}
  BY PlacesFacts DEF Places
<1> HIDE DEF S
<1>2. PICK l \in S : \A m \in S : l <= m
  BY <1>1, LeastNumber
<1>3. l \in Places /\ Up(c)[l] = x
  BY <1>2 DEF S
<1>4. CASE l = 0
  BY <1>3, <1>4, UpFacts
<1>5. CASE l # 0
  <2>1. l \in 1..Cardinality(Checks) /\ l \in Nat
    BY <1>1, <1>3, <1>5 DEF Places
  <2>2. ASSUME NEW m \in 0..(l - 1)
        PROVE  Up(c)[m] # x
    <3>1. m \in Places /\ ~(l <= m)
      BY <1>1, <2>1 DEF Places
    <3> QED BY <1>2, <3>1 DEF S
  <2>3. Up(c)[l] \notin {Up(c)[m] : m \in 0..(l - 1)}
    BY <1>3, <2>2
  <2>4. l \in AncestorsAt(c)
    BY <1>3, <2>1, <2>3, ChecksAssumption DEF AncestorsAt
  <2> QED BY <1>3, <2>4 DEF Ancestors
<1> QED BY <1>4, <1>5

\* From one of them the way up goes on as from c itself.
LEMMA GoesOn ==
  ASSUME ConfigTypeOK, NEW c \in Checks, NEW n \in Places, Up(c)[n] \in Checks
  PROVE  \A k \in 0..(Cardinality(Checks) - n) : Up(Up(c)[n])[k] = Up(c)[n + k]
<1> DEFINE N == Cardinality(Checks)
           r == Up(c)[n]
           S == {k \in Nat : Up(r)[k] = Up(c)[n + k]}
<1>1. N \in Nat /\ n \in Nat /\ n <= N /\ n + 0 = n /\ N - n \in Nat
  BY PlacesFacts DEF Places
<1>2. 0 \in S
  BY <1>1, UpFacts
<1>3. ASSUME NEW k \in 0..((N - n) - 1), k \in S
      PROVE  k + 1 \in S
  <2>1. /\ k \in Nat /\ k + 1 \in Places \ {0} /\ (k + 1) - 1 = k
        /\ n + (k + 1) \in Places \ {0} /\ (n + (k + 1)) - 1 = n + k
    BY <1>1 DEF Places
  <2>2. Up(r)[k + 1] = Above(Up(r)[k])
    <3>1. \A m \in Places \ {0} : Up(r)[m] = Above(Up(r)[m - 1])
      BY UpFacts
    <3> QED BY <2>1, <3>1, Zenon
  <2>3. Up(c)[n + (k + 1)] = Above(Up(c)[n + k])
    <3>1. \A m \in Places \ {0} : Up(c)[m] = Above(Up(c)[m - 1])
      BY UpFacts
    <3> QED BY <2>1, <3>1, Zenon
  <2> QED BY <1>3, <2>1, <2>2, <2>3
<1> HIDE DEF S
<1>4. \A k \in 0..(N - n) : k \in S
  BY <1>1, <1>2, <1>3, Upwards
<1> QED BY <1>4 DEF S
-----------------------------------------------------------------------------
(***************************************************************************)
(* What keeps the links free of loops.                                     *)
(***************************************************************************)
\* Fewer links make no loop either.
LEMMA FewerLinks ==
  ASSUME NEW f, NEW g, Loopless(f), \A c \in Checks : g[c] \in {f[c], NoCheck}
  PROVE  Loopless(g)
<1> SUFFICES ASSUME NEW T \in SUBSET Checks, T # {}
             PROVE  \E c \in T : g[c] \notin T
  BY DEF Loopless
<1>1. PICK c \in T : f[c] \notin T
  BY DEF Loopless
<1> QED BY <1>1, ChecksAssumption

\* A check nothing is behind may be put behind any other.
LEMMA NewLink ==
  ASSUME NEW f \in [Checks -> Nodes], Loopless(f), NEW c \in Checks, NEW p \in Nodes, p # c,
         \A d \in Checks : f[d] # c
  PROVE  Loopless([f EXCEPT ![c] = p])
<1> DEFINE g == [f EXCEPT ![c] = p]
<1> SUFFICES ASSUME NEW T \in SUBSET Checks, T # {}
             PROVE  \E d \in T : g[d] \notin T
  BY DEF Loopless
<1>1. g[c] = p /\ \A d \in Checks : d # c => g[d] = f[d]
  OBVIOUS
<1> HIDE DEF g
<1>2. CASE T \ {c} = {}
  <2>1. c \in T /\ p \notin T
    BY <1>2
  <2> QED BY <1>1, <2>1
<1>3. CASE T \ {c} # {}
  <2>1. T \ {c} \in SUBSET Checks
    OBVIOUS
  <2>2. PICK d \in T \ {c} : f[d] \notin T \ {c}
    BY <1>3, <2>1, Zenon DEF Loopless
  <2>3. f[d] # c
    BY <2>2
  <2> QED BY <1>1, <2>2, <2>3
<1> QED BY <1>2, <1>3

\* What validate lets through makes no loop.
LEMMA ValidLink ==
  ASSUME ConfigTypeOK, Loopless(Sound), NEW c \in Checks, NEW p \in Parents(c), p # NoCheck
  PROVE  Loopless([Sound EXCEPT ![c] = p])
<1> DEFINE g == [Sound EXCEPT ![c] = p]
           N == Cardinality(Checks)
<1> SUFFICES ASSUME NEW T \in SUBSET Checks, T # {}, \A x \in T : g[x] \in T
             PROVE  FALSE
  BY DEF Loopless
<1>1. g[c] = p /\ \A d \in Checks : d # c => g[d] = Sound[d]
  BY DEF Sound
<1> HIDE DEF g
<1>2. p \in Checks /\ p # c /\ c \notin Ancestors(p)
  BY DEF Parents
<1>3. c \in T
  BY <1>1 DEF Loopless
<1> DEFINE S == {n \in Places : Up(p)[n] \in T}
<1>4. N \in Nat
  BY PlacesFacts
<1>5. 0 \in S
  BY <1>1, <1>2, <1>3, <1>4, UpFacts DEF Places
<1>6. ASSUME NEW n \in Places, Up(p)[n] \in T
      PROVE  /\ Up(p)[n] \in Checks /\ Up(p)[n] # c
             /\ Sound[Up(p)[n]] = Links[Up(p)[n]] /\ Links[Up(p)[n]] \in T
  <2>1. Up(p)[n] \in Checks
    BY <1>6
  <2>2. Up(p)[n] # c
    BY <1>2, <2>1, FirstMet
  <2>3. Sound[Up(p)[n]] \in T /\ Sound[Up(p)[n]] # NoCheck
    BY <1>1, <1>6, <2>1, <2>2, ChecksAssumption
  <2>4. Sound[Up(p)[n]] = Links[Up(p)[n]]
    BY <2>1, <2>3 DEF Sound
  <2> QED BY <2>1, <2>2, <2>3, <2>4
<1>7. ASSUME NEW n \in 0..(N - 1), n \in S
      PROVE  n + 1 \in S
  <2>1. n \in Places /\ n + 1 \in Places \ {0} /\ (n + 1) - 1 = n
    BY <1>4 DEF Places
  <2>2. Up(p)[n] \in Checks /\ Links[Up(p)[n]] \in T
    BY <1>6, <1>7
  <2>3. Links[Up(p)[n]] = Above(Up(p)[n])
    BY <2>2, ChecksAssumption DEF Links, Above
  <2>4. Up(p)[n + 1] = Above(Up(p)[n])
    <3>1. \A m \in Places \ {0} : Up(p)[m] = Above(Up(p)[m - 1])
      BY <1>2, UpFacts
    <3> QED BY <2>1, <3>1, Zenon
  <2> QED BY <2>1, <2>2, <2>3, <2>4
<1>8. \A n \in 0..N : Up(p)[n] \in T
  <2> HIDE DEF S
  <2>1. \A n \in 0..N : n \in S
    BY <1>4, <1>5, <1>7, Upwards
  <2> QED BY <2>1 DEF S
<1>9. Along(Sound, p)
  BY <1>6, <1>8 DEF Along, Places
<1>10. Up(p)[N] = NoCheck
  BY <1>2, <1>9, WayEnds
<1>11. Up(p)[N] \in T
  BY <1>4, <1>8
<1> QED BY <1>10, <1>11, ChecksAssumption
-----------------------------------------------------------------------------
(***************************************************************************)
(* What links without a loop are good for.                                 *)
(***************************************************************************)
LEMMA LeadUp ==
  ASSUME ConfigTypeOK, LinksInv, Loopless(Sound)
  PROVE  LinksLeadUp
<1> SUFFICES ASSUME NEW c \in Checks, NEW n \in 1..Cardinality(Checks), Up(c)[n] = c,
                    \A m \in 0..(n - 1) : Up(c)[m] \notin unchecked
             PROVE  FALSE
  BY DEF LinksLeadUp, LinksInv
<1>1. Cardinality(Checks) \in Nat /\ n \in Places /\ 0 \in Places /\ 0 < n /\ c # NoCheck
  BY PlacesFacts, ChecksAssumption DEF Places
<1>2. ASSUME NEW m \in 0..(n - 1)
      PROVE  Sound[Up(c)[m]] = Links[Up(c)[m]]
  <2>1. m \in Places /\ m <= n
    BY <1>1 DEF Places
  <2>2. Up(c)[m] # NoCheck
    BY <1>1, <2>1, EndStays
  <2>3. Up(c)[m] \in Checks /\ Up(c)[m] \notin unchecked
    BY <2>1, <2>2, UpFacts DEF Nodes
  <2> QED BY <2>3 DEF Sound
<1>3. Up(c)[0] # Up(c)[n]
  BY <1>1, <1>2, MetOnce
<1> QED BY <1>3, UpFacts

\* Of places there is a farthest one.
LEMMA Farthest ==
  ASSUME NEW S \in SUBSET Places, S # {}
  PROVE  \E n \in S : \A m \in S : m <= n
<1> DEFINE N == Cardinality(Checks)
           R == {N - n : n \in S}
<1>1. N \in Nat /\ \A n \in S : n \in Nat /\ N - n \in Nat
  BY PlacesFacts DEF Places
<1>2. R \in SUBSET Nat /\ R # {}
  BY <1>1
<1>3. PICK l \in R : \A r \in R : l <= r
  <2> HIDE DEF R
  <2> QED BY <1>2, LeastNumber
<1>4. PICK n \in S : l = N - n
  BY <1>3
<1>5. ASSUME NEW m \in S
      PROVE  m <= n
  <2>1. N - m \in R
    OBVIOUS
  <2>2. N - n <= N - m
    BY <1>3, <1>4, <2>1
  <2> QED BY <1>1, <2>2
<1> QED BY <1>5

\* The farthest that is down is behind no other: it is told.
LEMMA RootNamed ==
  ASSUME ConfigTypeOK, Loopless(Sound), NEW down \in SUBSET Checks, NEW c \in Checks,
         Along(Sound, c), Behind(c, down)
  PROVE  Root(c, down) \in down /\ ~Behind(Root(c, down), down)
<1> DEFINE N == Cardinality(Checks)
           S == {n \in AncestorsAt(c) : Up(c)[n] \in down}
           Last(n) == Up(c)[n] \in down /\ \A m \in AncestorsAt(c) : Up(c)[m] \in down => m <= n
<1>1. N \in Nat
  BY PlacesFacts
<1>2. S \in SUBSET Places /\ S # {}
  BY <1>1 DEF AncestorsAt, Ancestors, Behind, Places
<1>3. PICK f \in S : \A m \in S : m <= f
  <2> HIDE DEF S
  <2> QED BY <1>2, Farthest
<1>4. f \in AncestorsAt(c) /\ Last(f)
  BY <1>3
<1>5. PICK n \in AncestorsAt(c) : Last(n) /\ Root(c, down) = Up(c)[n]
  <2>1. Root(c, down) = Up(c)[CHOOSE n \in AncestorsAt(c) : Last(n)]
    BY DEF Root
  <2>2. \E n \in AncestorsAt(c) : Last(n)
    BY <1>4
  <2> HIDE DEF Last
  <2>3. (CHOOSE n \in AncestorsAt(c) : Last(n)) \in AncestorsAt(c)
        /\ Last(CHOOSE n \in AncestorsAt(c) : Last(n))
    BY <2>2, Zenon
  <2> QED BY <2>1, <2>3
<1>6. n \in 1..N /\ n \in Places /\ n \in Nat /\ Up(c)[n] \in down /\ Up(c)[n] \in Checks
  BY <1>1, <1>5 DEF AncestorsAt, Places
<1> DEFINE r == Up(c)[n]
<1>7. ASSUME Behind(r, down)
      PROVE  FALSE
  <2>1. PICK m \in AncestorsAt(r) : Up(r)[m] \in down
    BY <1>7 DEF Behind, Ancestors
  <2>2. m \in 1..N /\ m \in Places /\ m \in Nat /\ m # 0 /\ Up(r)[m] # NoCheck
    BY <1>1, <2>1 DEF AncestorsAt, Places
  <2>3. N - n \in 0..(N - n) /\ n + (N - n) = N /\ N - n \in Places
    BY <1>1, <1>6 DEF Places
  <2>4. \A k \in 0..(N - n) : Up(r)[k] = Up(c)[n + k]
    BY <1>6, GoesOn
  <2>5. Up(r)[N - n] = NoCheck
    BY <2>3, <2>4, WayEnds
  <2>6. m < N - n
    <3>1. ~(N - n <= m)
      BY <1>6, <2>2, <2>3, <2>5, EndStays
    <3> QED BY <1>1, <1>6, <2>2, <3>1
  <2>7. m \in 0..(N - n) /\ n + m \in Places \ {0} /\ ~(n + m <= n)
    BY <1>1, <1>6, <2>2, <2>6 DEF Places
  <2>8. Up(r)[m] = Up(c)[n + m]
    BY <2>4, <2>7
  <2>9. n + m \in AncestorsAt(c)
    BY <2>2, <2>7, <2>8, MetIsAncestor
  <2> QED BY <1>5, <2>1, <2>7, <2>8, <2>9
<1> HIDE DEF Last
<1> QED BY <1>5, <1>6, <1>7

LEMMA AllNamed ==
  ASSUME ConfigTypeOK, Loopless(Sound)
  PROVE  OutageIsNamed
<1> SUFFICES ASSUME NEW down \in SUBSET Reported, NEW c \in down, Behind(c, down),
                    ({c} \union Ancestors(c)) \intersect unchecked = {}
             PROVE  Root(c, down) \in down /\ ~Behind(Root(c, down), down)
  BY DEF OutageIsNamed
<1>1. down \in SUBSET Checks /\ c \in Checks
  BY DEF Reported
<1>2. ASSUME NEW m \in Places, Up(c)[m] \in Checks
      PROVE  Sound[Up(c)[m]] = Links[Up(c)[m]]
  <2>1. Up(c)[m] \notin unchecked
    BY <1>1, <1>2, FirstMet
  <2> QED BY <1>2, <2>1 DEF Sound
<1>3. Along(Sound, c)
  BY <1>2 DEF Along
<1> QED BY <1>1, <1>3, RootNamed
-----------------------------------------------------------------------------
(***************************************************************************)
(* Types, and the steps that change checks or edits.                       *)
(***************************************************************************)
LEMMA RecordTyped ==
  ASSUME NEW enabled \in BOOLEAN, NEW p \in Nodes, NEW secret \in Secrets
  PROVE  CheckRecord(enabled, p, secret) \in CheckRecords
BY DEF CheckRecord, CheckRecords, Nodes

LEMMA SealedTyped ==
  ASSUME dataKey \in Keys, NEW secret \in Secrets
  PROVE  Sealed(secret) \in Secrets /\ Sealed(secret) # NoSecret
<1>1. CASE secret = NoSecret
  BY <1>1 DEF Sealed, Secrets, NoSecret
<1>2. CASE secret # NoSecret
  <2>1. PICK k \in Keys, i \in {0, 1} : secret = <<k, i>>
    BY <1>2 DEF Secrets
  <2>2. 1 - secret[2] \in {0, 1}
    BY <2>1
  <2> QED BY <1>2, <2>2 DEF Sealed, Secrets, NoSecret
<1> QED BY <1>1, <1>2

LEMMA InitTyped == ConfigInit => ConfigTypeOK
<1> SUFFICES ASSUME ConfigInit PROVE ConfigTypeOK
  OBVIOUS
<1>1. NoRevision \in Revisions /\ NoConfig \in Configs
  BY DEF NoRevision, NoConfig, Revisions, Configs
<1>2. /\ NoSecret \in Secrets /\ <<1, 0>> \in Secrets /\ NoCheck \in Nodes
      /\ \A c \in First : c \in Checks /\ FirstLink[c] \in Nodes
  BY ChecksAssumption DEF Secrets, Keys, Nodes
<1>3. ASSUME NEW c \in Checks
      PROVE  checks[c] \in CheckRecords
  <2>1. CASE c \in First
    BY <1>2, <2>1, RecordTyped DEF ConfigInit
  <2>2. CASE c \notin First
    BY <1>2, <2>2 DEF ConfigInit, Before, CheckRecords, Nodes
  <2> QED BY <2>1, <2>2
<1>4. checks \in [Checks -> CheckRecords]
  BY <1>3 DEF ConfigInit
<1>5. edits \in 0..MaxEdits /\ restarts \in 0..MaxRestarts /\ failures \in 0..MaxFailures
  BY ChecksAssumption DEF ConfigInit
<1> QED BY <1>1, <1>4, <1>5 DEF ConfigInit, ConfigTypeOK, Keys

\* What saving an edit, making or deleting a check does to the records.
LEMMA UsersTyped ==
  ASSUME ConfigTypeOK, Users
  PROVE  /\ checks' \in [Checks -> CheckRecords]
         /\ edit' \in [Editors -> {NoEdit} \union [check : Checks, after : CheckRecords]]
<1> USE DEF ConfigTypeOK
<1>1. /\ dataKey \in Keys /\ NoSecret \in Secrets
      /\ \A c \in Checks : checks[c].secret \in Secrets /\ checks[c].enabled \in BOOLEAN
  BY DEF CheckRecords, Secrets
<1>2. ASSUME NEW e \in Editors, NEW c \in Checks, NEW enabled \in BOOLEAN, NEW given \in BOOLEAN,
             NEW p \in Checks \union {NoCheck}, BeginUpdate(e, c, enabled, p, given)
      PROVE  /\ checks' = checks
             /\ edit' \in [Editors -> {NoEdit} \union [check : Checks, after : CheckRecords]]
  <2> DEFINE secret == IF given THEN Sealed(checks[c].secret) ELSE checks[c].secret
  <2>1. secret \in Secrets
    BY <1>1, SealedTyped
  <2>2. CheckRecord(enabled, p, secret) \in CheckRecords
    BY <2>1, RecordTyped DEF Nodes
  <2> QED BY <1>2, <2>2 DEF BeginUpdate
<1>3. ASSUME NEW e \in Editors, FinishUpdate(e)
      PROVE  /\ checks' \in [Checks -> CheckRecords]
             /\ edit' \in [Editors -> {NoEdit} \union [check : Checks, after : CheckRecords]]
  <2>1. edit[e].check \in Checks /\ edit[e].after \in CheckRecords
    BY <1>3 DEF FinishUpdate
  <2> QED BY <1>3, <2>1 DEF FinishUpdate, Write
<1>4. ASSUME NEW c \in Checks, NEW enabled \in BOOLEAN, NEW given \in BOOLEAN,
             NEW p \in Checks \union {NoCheck}, Create(c, enabled, p, given)
      PROVE  checks' \in [Checks -> CheckRecords] /\ edit' = edit
  <2> DEFINE secret == IF given THEN Sealed(NoSecret) ELSE NoSecret
  <2>1. secret \in Secrets
    BY <1>1, SealedTyped
  <2>2. CheckRecord(enabled, p, secret) \in CheckRecords
    BY <2>1, RecordTyped DEF Nodes
  <2> QED BY <1>4, <2>2 DEF Create
<1>5. ASSUME NEW c \in Checks, Delete(c)
      PROVE  checks' \in [Checks -> CheckRecords] /\ edit' = edit
  <2>1. Before("deleted") \in CheckRecords
    BY <1>1 DEF Before, CheckRecords
  <2>2. \A d \in Checks : [checks[d] EXCEPT !.dependsOn = NoCheck] \in CheckRecords
    BY DEF CheckRecords
  <2> QED BY <1>5, <2>1, <2>2 DEF Delete
<1> QED BY <1>2, <1>3, <1>4, <1>5 DEF Users

LEMMA RequestsTyped ==
  ASSUME ConfigTypeOK, [ConfigNext]_configVars
  PROVE  requests' \in [{"now", "late"} -> {NoRequest} \union Requests]
<1> USE DEF ConfigTypeOK
<1>1. Desired \in Revisions
  <2>1. {<<c, checks[c].secret>> : c \in {d \in Checks : There(d) /\ checks[d].enabled}}
          \in SUBSET (Checks \X Secrets)
    BY DEF CheckRecords
  <2> QED BY <2>1 DEF Desired, Revisions
<1>2. ASSUME NEW r \in {"now", "late"}, requests[r].stage # "none"
      PROVE  requests[r] \in Requests
  BY <1>2 DEF NoRequest
<1>3. ASSUME NEW r \in {"now", "late"}, Take(r)
      PROVE  requests' \in [{"now", "late"} -> {NoRequest} \union Requests]
  <2>1. requests[r] \in Requests
    BY <1>2, <1>3 DEF Take
  <2>2. [requests[r] EXCEPT !.stage = "saved", !.desired = Desired] \in Requests
    BY <1>1, <2>1 DEF Requests
  <2>3. CASE r = "now"
    BY <1>3, <2>1, <2>2, <2>3, <1>1 DEF Take, Requests
  <2>4. CASE r = "late"
    BY <1>3, <2>1, <2>2, <2>4, <1>1 DEF Take, Requests
  <2> QED BY <2>3, <2>4
<1>4. ASSUME NEW r \in {"now", "late"}, RecordState(r)
      PROVE  requests' \in [{"now", "late"} -> {NoRequest} \union Requests]
  <2>1. requests[r] \in Requests
    BY <1>2, <1>4 DEF RecordState
  <2> QED BY <1>4, <2>1 DEF RecordState, Stage, Requests
<1>5. CASE Report
  <2>1. NoRevision \in Revisions /\ active.revision \in Revisions
    BY DEF NoRevision, Revisions, Configs
  <2>2. [stage |-> "sent", revision |-> active.revision, rejected |-> rejected,
         desired |-> NoRevision] \in Requests
    BY <2>1 DEF Requests
  <2> QED BY <1>5, <2>2 DEF Report
<1>6. CASE AnswerLate \/ Hear \/ GiveUp \/ ProbeRestarts \/ HubRestarts
  BY <1>6 DEF AnswerLate, Hear, GiveUp, ProbeRestarts, HubRestarts
<1>7. CASE Users \/ UNCHANGED configVars
  BY <1>7 DEF Users, BeginUpdate, FinishUpdate, Create, Delete, configVars
<1> QED BY <1>3, <1>4, <1>5, <1>6, <1>7 DEF ConfigNext, Cycle, Late

LEMMA ConfigTypesKept ==
  ASSUME ConfigTypeOK, [ConfigNext]_configVars
  PROVE  ConfigTypeOK'
<1>1. requests' \in [{"now", "late"} -> {NoRequest} \union Requests]
  BY RequestsTyped
<1> USE DEF ConfigTypeOK
<1>2. /\ checks' \in [Checks -> CheckRecords]
      /\ edit' \in [Editors -> {NoEdit} \union [check : Checks, after : CheckRecords]]
  <2>1. CASE Users
    BY <2>1, UsersTyped
  <2>2. CASE HubRestarts
    BY <2>2 DEF HubRestarts
  <2>3. CASE UNCHANGED <<checks, edit>>
    BY <2>3
  <2> QED BY <2>1, <2>2, <2>3 DEF ConfigNext, configVars, Cycle, Late, Take, RecordState, AnswerLate,
        Report, Hear, GiveUp, ProbeRestarts
<1>3. dataKey' \in Keys
  BY DEF ConfigNext, configVars, Users, BeginUpdate, FinishUpdate, Create, Delete, HubRestarts,
    Cycle, Late, Take, RecordState, AnswerLate, Report, Hear, GiveUp, ProbeRestarts
<1>4. shown' \in [revision : Revisions, rejected : Revisions]
  <2>1. ASSUME NEW r \in {"now", "late"}, RecordState(r)
        PROVE  shown' \in [revision : Revisions, rejected : Revisions]
    <3>1. requests[r] \in Requests
      BY <2>1 DEF RecordState, NoRequest
    <3> QED BY <2>1, <3>1 DEF RecordState, Requests
  <2>2. CASE UNCHANGED shown
    BY <2>2
  <2> QED BY <2>1, <2>2 DEF ConfigNext, configVars, Users, BeginUpdate, FinishUpdate, Create,
        Delete, HubRestarts, Cycle, Late, Take, AnswerLate, Report, Hear, GiveUp, ProbeRestarts
<1>5. active' \in Configs /\ file' \in Configs /\ rejected' \in Revisions
  <2>1. NoRevision \in Revisions /\ NoConfig \in Configs
    BY DEF NoRevision, NoConfig, Revisions, Configs
  <2>2. ASSUME Hear
        PROVE  active' \in Configs /\ file' \in Configs /\ rejected' \in Revisions
    <3>1. requests["now"] \in Requests
      BY <2>2 DEF Hear, NoRequest
    <3> DEFINE offered == WithSecrets(requests["now"].desired)
    <3>2. offered \in Configs /\ offered.revision \in Revisions
      BY <3>1 DEF WithSecrets, Configs, Requests
    <3>3. CASE Apply(offered)
      <4> HIDE DEF offered
      <4> QED BY <2>1, <3>2, <3>3 DEF Apply, probeVars
    <3>4. CASE UNCHANGED probeVars
      BY <3>4 DEF probeVars
    <3> QED BY <2>2, <3>3, <3>4 DEF Hear
  <2>3. CASE ProbeRestarts
    BY <2>1, <2>3 DEF ProbeRestarts
  <2>4. CASE UNCHANGED probeVars
    BY <2>4 DEF probeVars
  <2> QED BY <2>2, <2>3, <2>4 DEF ConfigNext, configVars, Users, BeginUpdate, FinishUpdate, Create,
        Delete, HubRestarts, Cycle, Late, Take, RecordState, AnswerLate, Report, GiveUp, probeVars
<1>6. edits' \in 0..MaxEdits /\ restarts' \in 0..MaxRestarts /\ failures' \in 0..MaxFailures
  <2> USE ChecksAssumption
  <2>1. edits' \in 0..MaxEdits
    BY DEF ConfigNext, configVars, boundVars, Users, BeginUpdate, FinishUpdate, Create, Delete,
      Edits, HubRestarts, Cycle, Late, Take, RecordState, AnswerLate, Report, Hear, GiveUp,
      ProbeRestarts
  <2>2. restarts' \in 0..MaxRestarts
    BY DEF ConfigNext, configVars, boundVars, Users, BeginUpdate, FinishUpdate, Create, Delete,
      HubRestarts, Cycle, Late, Take, RecordState, AnswerLate, Report, Hear, GiveUp, ProbeRestarts
  <2>3. failures' \in 0..MaxFailures
    BY DEF ConfigNext, configVars, boundVars, Users, BeginUpdate, FinishUpdate, Create, Delete,
      HubRestarts, Cycle, Late, Take, RecordState, AnswerLate, Report, Hear, Apply, GiveUp,
      ProbeRestarts
  <2> QED BY <2>1, <2>2, <2>3
<1>7. outdated' \in SUBSET Editors /\ unchecked' \in SUBSET Checks
  <2>1. ASSUME NEW e \in Editors, FinishUpdate(e)
        PROVE  outdated' \in SUBSET Editors /\ unchecked' \in SUBSET Checks
    <3>1. edit[e].check \in Checks
      BY <2>1 DEF FinishUpdate
    <3> QED BY <2>1, <3>1 DEF FinishUpdate, NoteLink, UnderWay
  <2>2. CASE HubRestarts
    BY <2>2 DEF HubRestarts
  <2>3. CASE UNCHANGED linkHistory
    BY <2>3 DEF linkHistory
  <2> QED BY <2>1, <2>2, <2>3 DEF ConfigNext, configVars, Users, BeginUpdate, Create, Delete,
        Cycle, Late, Take, RecordState, AnswerLate, Report, Hear, GiveUp, ProbeRestarts
<1> QED BY <1>1, <1>2, <1>3, <1>4, <1>5, <1>6, <1>7

\* Only users change the records; edits are theirs too, and a restart of the hub
\* ends them.
LEMMA WhoChanges ==
  ASSUME [ConfigNext]_configVars
  PROVE  Users \/ HubRestarts \/ UNCHANGED <<checks, edit, outdated, unchecked>>
BY DEF ConfigNext, configVars, linkHistory, Cycle, Late, Take, RecordState, AnswerLate, Report, Hear, GiveUp,
  ProbeRestarts

NoneUnderWay == \A e \in Editors : edit[e] = NoEdit

LEMMA RestartForgets ==
  ASSUME HubRestarts
  PROVE  checks' = checks /\ unchecked' = unchecked /\ NoneUnderWay'
BY DEF HubRestarts, NoneUnderWay
-----------------------------------------------------------------------------
(***************************************************************************)
(* Secrets.                                                                *)
(***************************************************************************)
LEMMA InitSecrets == ConfigInit => SecretsInv
<1> SUFFICES ASSUME ConfigInit PROVE SecretsInv
  OBVIOUS
<1>1. ASSUME NEW c \in Secretive, checks[c].enabled
      PROVE  checks[c].secret # NoSecret
  <2>1. c \in Checks
    BY ChecksAssumption
  <2>2. CASE c \in First
    BY <2>1, <2>2 DEF ConfigInit, CheckRecord, NoSecret
  <2>3. CASE c \notin First
    BY <1>1, <2>1, <2>3 DEF ConfigInit, Before
  <2> QED BY <2>2, <2>3
<1> QED BY <1>1 DEF ConfigInit, SecretsInv, EnabledHasSecret

\* Each editor's record was complete when it looked at it, and is written whole:
\* what another one took away meanwhile comes back with it.
LEMMA SecretsKept ==
  ASSUME ConfigTypeOK, SecretsInv, [ConfigNext]_configVars
  PROVE  SecretsInv'
<1> USE DEF SecretsInv, EnabledHasSecret
<1>1. /\ Secretive \subseteq Checks /\ checks \in [Checks -> CheckRecords]
      /\ edit \in [Editors -> {NoEdit} \union [check : Checks, after : CheckRecords]]
  BY ChecksAssumption DEF ConfigTypeOK
<1>2. ASSUME NEW e \in Editors, NEW c \in Checks, NEW enabled \in BOOLEAN, NEW given \in BOOLEAN,
             NEW p \in Checks \union {NoCheck}, BeginUpdate(e, c, enabled, p, given)
      PROVE  SecretsInv'
  <2> DEFINE secret == IF given THEN Sealed(checks[c].secret) ELSE checks[c].secret
  <2>1. edit' = [edit EXCEPT ![e] = [check |-> c, after |-> CheckRecord(enabled, p, secret)]]
        /\ checks' = checks
    BY <1>2 DEF BeginUpdate
  <2>2. enabled /\ c \in Secretive => secret # NoSecret
    BY <1>2 DEF BeginUpdate, Allows
  <2> HIDE DEF secret
  <2> QED BY <1>1, <2>1, <2>2 DEF CheckRecord
<1>3. ASSUME NEW e \in Editors, FinishUpdate(e)
      PROVE  SecretsInv'
  <2>1. edit' = [edit EXCEPT ![e] = NoEdit]
        /\ (checks' = checks \/ checks' = [checks EXCEPT ![edit[e].check] = edit[e].after])
        /\ edit[e] # NoEdit
    BY <1>3 DEF FinishUpdate, Write
  <2> QED BY <1>1, <2>1
<1>4. ASSUME NEW c \in Checks, NEW enabled \in BOOLEAN, NEW given \in BOOLEAN,
             NEW p \in Checks \union {NoCheck}, Create(c, enabled, p, given)
      PROVE  SecretsInv'
  <2> DEFINE secret == IF given THEN Sealed(NoSecret) ELSE NoSecret
  <2>1. checks' = [checks EXCEPT ![c] = CheckRecord(enabled, p, secret)] /\ edit' = edit
    BY <1>4 DEF Create
  <2>2. enabled /\ c \in Secretive => secret # NoSecret
    BY <1>4 DEF Create, Allows
  <2> HIDE DEF secret
  <2> QED BY <1>1, <2>1, <2>2 DEF CheckRecord
<1>5. ASSUME NEW c \in Checks, Delete(c)
      PROVE  SecretsInv'
  <2>1. edit' = edit /\ \A d \in Checks :
          \/ checks'[d].enabled = FALSE
          \/ checks'[d].enabled = checks[d].enabled /\ checks'[d].secret = checks[d].secret
    BY <1>1, <1>5 DEF Delete, Before, CheckRecords
  <2> QED BY <1>1, <2>1
<1>6. CASE HubRestarts
  BY <1>6, RestartForgets DEF NoneUnderWay
<1>7. CASE UNCHANGED <<checks, edit>>
  BY <1>7
<1> QED BY <1>2, <1>3, <1>4, <1>5, <1>6, <1>7, WhoChanges DEF Users
-----------------------------------------------------------------------------
(***************************************************************************)
(* Links lead to what is there.                                            *)
(***************************************************************************)
LEMMA InitLinks == ConfigInit => LinksInv
<1> SUFFICES ASSUME ConfigInit PROVE LinksInv
  OBVIOUS
<1>1. ASSUME NEW c \in Checks, checks[c].dependsOn # NoCheck
      PROVE  There(c) /\ There(checks[c].dependsOn)
  <2>1. c \in First
    BY <1>1 DEF ConfigInit, Before
  <2>2. checks[c] = CheckRecord(TRUE, FirstLink[c], IF c \in Secretive THEN <<1, 0>> ELSE NoSecret)
    BY <2>1 DEF ConfigInit
  <2>3. FirstLink[c] \in First /\ First \subseteq Checks
    BY <1>1, <2>1, <2>2, ChecksAssumption DEF CheckRecord
  <2> QED BY <2>1, <2>2, <2>3 DEF ConfigInit, CheckRecord, There
<1> QED BY <1>1 DEF ConfigInit, LinksInv

LEMMA LinksKept ==
  ASSUME ConfigTypeOK, LinksInv, [ConfigNext]_configVars
  PROVE  LinksInv'
<1> USE DEF LinksInv, There, Once
<1>1. /\ checks \in [Checks -> CheckRecords]
      /\ edit \in [Editors -> {NoEdit} \union [check : Checks, after : CheckRecords]]
      /\ \A c \in Checks : checks[c].dependsOn \in Checks \union {NoCheck}
      /\ \A e \in Editors : edit[e] # NoEdit =>
           edit[e].check \in Checks /\ edit[e].after.dependsOn \in Checks \union {NoCheck}
  BY DEF ConfigTypeOK, CheckRecords
<1>2. ASSUME NEW e \in Editors, NEW c \in Checks, NEW enabled \in BOOLEAN, NEW given \in BOOLEAN,
             NEW p \in Checks \union {NoCheck}, BeginUpdate(e, c, enabled, p, given)
      PROVE  LinksInv'
  <2> DEFINE secret == IF given THEN Sealed(checks[c].secret) ELSE checks[c].secret
  <2>1. edit' = [edit EXCEPT ![e] = [check |-> c, after |-> CheckRecord(enabled, p, secret)]]
        /\ checks' = checks
    BY <1>2 DEF BeginUpdate
  <2>2. Once(c) /\ Once(p)
    BY <1>2 DEF BeginUpdate, Parents
  <2> HIDE DEF secret
  <2> QED BY <1>1, <2>1, <2>2 DEF CheckRecord
<1>3. ASSUME NEW e \in Editors, FinishUpdate(e)
      PROVE  LinksInv'
  <2>1. edit' = [edit EXCEPT ![e] = NoEdit] /\ edit[e] # NoEdit
    BY <1>3 DEF FinishUpdate
  <2>2. CASE checks' = checks
    BY <1>1, <2>1, <2>2
  <2>3. CASE /\ There(edit[e].check)
             /\ edit[e].after.dependsOn \in {NoCheck} \union {p \in Checks : There(p)}
             /\ checks' = [checks EXCEPT ![edit[e].check] = edit[e].after]
    <3>1. \A c \in Checks : checks'[c].is = checks[c].is
      BY <1>1, <2>1, <2>3
    <3>2. \A c \in Checks : checks'[c].dependsOn # NoCheck =>
            checks'[c].is = "there" /\ checks'[checks'[c].dependsOn].is = "there"
      BY <1>1, <2>1, <2>3, <3>1
    <3> QED BY <1>1, <2>1, <3>1, <3>2
  <2> QED BY <1>3, <2>2, <2>3 DEF FinishUpdate, Write, IsWritten, There
<1>4. ASSUME NEW c \in Checks, NEW enabled \in BOOLEAN, NEW given \in BOOLEAN,
             NEW p \in Checks \union {NoCheck}, Create(c, enabled, p, given)
      PROVE  LinksInv'
  <2> DEFINE secret == IF given THEN Sealed(NoSecret) ELSE NoSecret
  <2>1. checks' = [checks EXCEPT ![c] = CheckRecord(enabled, p, secret)] /\ edit' = edit
    BY <1>4 DEF Create
  <2>5. checks[c].is = "new" /\ (p # NoCheck => p \in Checks /\ checks[p].is = "there")
    BY <1>4 DEF Create
  <2>2. \A d \in Checks : checks'[d] = IF d = c THEN CheckRecord(enabled, p, secret) ELSE checks[d]
    BY <1>1, <2>1
  <2> HIDE DEF secret
  <2>3. \A d \in Checks : checks'[d].dependsOn # NoCheck =>
            checks'[d].is = "there" /\ checks'[checks'[d].dependsOn].is = "there"
    BY <1>1, <2>1, <2>2, <2>5 DEF CheckRecord
  <2>4. \A d \in Checks : checks[d].is # "new" => checks'[d].is # "new"
    BY <1>1, <2>1, <2>2, <2>5 DEF CheckRecord
  <2> QED BY <1>1, <2>1, <2>3, <2>4
<1>5. ASSUME NEW c \in Checks, Delete(c)
      PROVE  LinksInv'
  <2>1. edit' = edit /\ \A d \in Checks :
          /\ checks'[d].is = IF d = c THEN "deleted" ELSE checks[d].is
          /\ checks'[d].dependsOn = IF d = c \/ checks[d].dependsOn = c THEN NoCheck
                                    ELSE checks[d].dependsOn
    BY <1>1, <1>5 DEF Delete, Before, CheckRecords
  <2> QED BY <1>1, <2>1
<1>6. CASE HubRestarts
  BY <1>6, RestartForgets DEF NoneUnderWay
<1>7. CASE UNCHANGED <<checks, edit>>
  BY <1>7
<1> QED BY <1>2, <1>3, <1>4, <1>5, <1>6, <1>7, WhoChanges DEF Users
-----------------------------------------------------------------------------
(***************************************************************************)
(* Links make no loop.                                                     *)
(***************************************************************************)
LEMMA InitLoopless == ConfigInit => LoopsInv
<1> SUFFICES ASSUME ConfigInit PROVE LoopsInv
  OBVIOUS
<1>1. ASSUME NEW c \in Checks
      PROVE  Links[c] = IF c \in First THEN FirstLink[c] ELSE NoCheck
  BY <1>1 DEF ConfigInit, Links, CheckRecord, Before
<1>2. ASSUME NEW T \in SUBSET Checks, T # {}
      PROVE  \E c \in T : Links[c] \notin T
  <2>1. CASE T \subseteq First
    <3>1. PICK c \in T : FirstLink[c] \notin T
      BY <1>2, <2>1, ChecksAssumption
    <3> QED BY <1>1, <2>1, <3>1
  <2>2. CASE ~(T \subseteq First)
    <3>1. PICK c \in T : c \notin First
      BY <2>2
    <3> QED BY <1>1, <3>1, ChecksAssumption
  <2> QED BY <2>1, <2>2
<1>3. Links = Sound
  BY DEF ConfigInit, Links, Sound
<1>4. \A e \in Editors : ~Linking(e)
  BY DEF ConfigInit, Linking
<1> QED BY <1>2, <1>3, <1>4 DEF LoopsInv, Loopless

LEMMA LinksTyped ==
  ASSUME ConfigTypeOK
  PROVE  Links \in [Checks -> Nodes] /\ Sound \in [Checks -> Nodes]
BY DEF ConfigTypeOK, CheckRecords, Links, Sound, Nodes

\* What an edit leaves of the links: they are those it had, without those to be
\* found out; or it adds one that was validated against all of them.
LEMMA WrittenLinks ==
  ASSUME ConfigTypeOK, LinksInv, NEW e \in Editors, FinishUpdate(e)
  PROVE  \/ /\ \A c \in Checks : Sound'[c] \in {Sound[c], NoCheck}
            /\ AddsLink(e) \/ outdated' = outdated \ {e}
         \/ Linking(e) /\ Sound' = Linked(e) /\ AddsLink(e)
<1> DEFINE c == edit[e].check
           p == edit[e].after.dependsOn
<1>1. /\ checks \in [Checks -> CheckRecords] /\ c \in Checks /\ p \in Nodes
      /\ edit[e] # NoEdit /\ c # NoCheck
  BY ChecksAssumption DEF ConfigTypeOK, FinishUpdate, CheckRecords, Nodes
<1>2. /\ Write(e) /\ NoteLink(e)
  BY DEF FinishUpdate
<1>3. CASE ~Changes(e)
  <2>1. \A d \in Checks : checks'[d].dependsOn = checks[d].dependsOn
    BY <1>1, <1>2, <1>3 DEF Write, Changes
  <2>2. unchecked' = unchecked /\ outdated' = outdated \ {e}
    BY <1>2, <1>3 DEF NoteLink, AddsLink
  <2> QED BY <2>1, <2>2 DEF Sound, Links
<1>4. CASE Changes(e)
  <2>1. checks' = [checks EXCEPT ![c] = edit[e].after]
    BY <1>2, <1>4 DEF Write, Changes
  <2>2. \A d \in Checks : Links'[d] = IF d = c THEN p ELSE Links[d]
    BY <1>1, <2>1 DEF Links
  <2>3. CASE AddsLink(e) /\ e \in outdated
    <3>1. unchecked' = unchecked \union {c}
      BY <1>2, <1>4, <2>3 DEF NoteLink
    <3> QED BY <2>2, <2>3, <3>1 DEF Sound
  <2>4. CASE ~AddsLink(e)
    <3>1. unchecked' = unchecked \ {c} /\ p = NoCheck /\ outdated' = outdated \ {e}
      BY <1>2, <1>4, <2>4 DEF NoteLink, AddsLink
    <3> QED BY <2>2, <3>1 DEF Sound
  <2>5. CASE AddsLink(e) /\ e \notin outdated
    <3>1. unchecked' = unchecked \ {c} /\ p # NoCheck
      BY <1>2, <1>4, <2>5 DEF NoteLink, AddsLink
    <3>2. Linking(e)
      BY <1>1, <2>5, <3>1 DEF Linking
    <3>3. \A d \in Checks : Sound'[d] = Linked(e)[d]
      BY <1>1, <2>2, <3>1 DEF Sound, Linked
    <3>4. Sound' = [d \in Checks |-> Sound'[d]] /\ Linked(e) = [d \in Checks |-> Linked(e)[d]]
      BY DEF Sound, Linked
    <3>5. Sound' = Linked(e)
      BY <3>3, <3>4
    <3> QED BY <2>5, <3>2, <3>5
  <2> QED BY <2>3, <2>4, <2>5
<1> QED BY <1>3, <1>4

\* An edit that adds a link overtakes all the others.
LEMMA Overtakes ==
  ASSUME NEW e \in Editors, FinishUpdate(e), AddsLink(e), ConfigTypeOK
  PROVE  \A o \in Editors : ~Linking(o)'
<1> SUFFICES ASSUME NEW o \in Editors, Linking(o)'
             PROVE  FALSE
  OBVIOUS
<1>1. edit' = [edit EXCEPT ![e] = NoEdit] /\ outdated' = UnderWay \ {e}
  BY DEF FinishUpdate, NoteLink
<1>2. edit'[o] # NoEdit /\ o \notin outdated'
  BY DEF Linking
<1>3. o # e /\ edit[o] # NoEdit
  BY <1>1, <1>2 DEF ConfigTypeOK
<1> QED BY <1>1, <1>2, <1>3 DEF UnderWay

LEMMA LoopsKept ==
  ASSUME ConfigTypeOK, LinksInv, LoopsInv, [ConfigNext]_configVars
  PROVE  LoopsInv'
<1>1. /\ checks \in [Checks -> CheckRecords]
      /\ edit \in [Editors -> {NoEdit} \union [check : Checks, after : CheckRecords]]
      /\ Links \in [Checks -> Nodes] /\ Sound \in [Checks -> Nodes]
      /\ \A e \in Editors : edit[e] # NoEdit =>
           edit[e].check \in Checks /\ edit[e].after.dependsOn \in Nodes
  BY LinksTyped DEF ConfigTypeOK, CheckRecords, Nodes
<1>2. ASSUME NEW e \in Editors, NEW c \in Checks, NEW enabled \in BOOLEAN, NEW given \in BOOLEAN,
             NEW p \in Checks \union {NoCheck}, BeginUpdate(e, c, enabled, p, given)
      PROVE  LoopsInv'
  <2> DEFINE secret == IF given THEN Sealed(checks[c].secret) ELSE checks[c].secret
  <2>1. edit' = [edit EXCEPT ![e] = [check |-> c, after |-> CheckRecord(enabled, p, secret)]]
        /\ checks' = checks /\ outdated' = outdated /\ unchecked' = unchecked
    BY <1>2 DEF BeginUpdate, linkHistory
  <2> HIDE DEF secret
  <2>2. p \in Parents(c)
    BY <1>2 DEF BeginUpdate
  <2>3. Links' = Links /\ Sound' = Sound
    BY <2>1 DEF Links, Sound
  <2>4. \A o \in Editors : o # e => (Linking(o)' <=> Linking(o)) /\ Linked(o)' = Linked(o)
    BY <1>1, <2>1, <2>3 DEF Linking, Linked
  <2>5. /\ Linking(e)' => p # NoCheck
        /\ Linked(e)' = [Sound EXCEPT ![c] = p]
    BY <1>1, <2>1, <2>3 DEF Linking, Linked, CheckRecord
  <2>6. Loopless(Sound)'
    BY <2>3 DEF LoopsInv, Loopless
  <2>7. p # NoCheck => Loopless([Sound EXCEPT ![c] = p])
    BY <2>2, ValidLink DEF LoopsInv
  <2>8. ASSUME NEW o \in Editors, Linking(o)'
        PROVE  Loopless(Linked(o)')
    <3>1. CASE o = e
      BY <2>5, <2>7, <2>8, <3>1
    <3>2. CASE o # e
      BY <2>4, <2>8, <3>2 DEF LoopsInv
    <3> QED BY <3>1, <3>2
  <2> QED BY <2>6, <2>8 DEF LoopsInv, Loopless
<1>3. ASSUME NEW e \in Editors, FinishUpdate(e)
      PROVE  LoopsInv'
  <2>1. CASE Linking(e) /\ Sound' = Linked(e) /\ AddsLink(e)
    <3>1. Loopless(Sound')
      BY <2>1 DEF LoopsInv
    <3>2. \A o \in Editors : ~Linking(o)'
      BY <1>3, <2>1, Overtakes
    <3> QED BY <3>1, <3>2 DEF LoopsInv, Loopless
  <2>2. CASE /\ \A c \in Checks : Sound'[c] \in {Sound[c], NoCheck}
             /\ AddsLink(e) \/ outdated' = outdated \ {e}
    <3>1. Loopless(Sound')
      BY <2>2, FewerLinks DEF LoopsInv
    <3>2. ASSUME NEW o \in Editors, Linking(o)'
          PROVE  Loopless(Linked(o)')
      <4>1. outdated' = outdated \ {e} /\ edit' = [edit EXCEPT ![e] = NoEdit]
        BY <1>3, <2>2, <3>2, Overtakes DEF FinishUpdate
      <4>2. o # e /\ Linking(o) /\ edit'[o] = edit[o] /\ edit[o] # NoEdit
        BY <1>1, <3>2, <4>1 DEF Linking
      <4>3. Loopless(Linked(o))
        BY <4>2 DEF LoopsInv
      <4>4. \A c \in Checks : Linked(o)'[c] \in {Linked(o)[c], NoCheck}
        BY <1>1, <2>2, <4>2 DEF Linked, Sound
      <4> QED BY <4>3, <4>4, FewerLinks
    <3> QED BY <3>1, <3>2 DEF LoopsInv, Loopless
  <2> QED BY <1>3, <2>1, <2>2, WrittenLinks
<1>4. ASSUME NEW c \in Checks, NEW enabled \in BOOLEAN, NEW given \in BOOLEAN,
             NEW p \in Checks \union {NoCheck}, Create(c, enabled, p, given)
      PROVE  LoopsInv'
  <2> DEFINE secret == IF given THEN Sealed(NoSecret) ELSE NoSecret
  <2>1. checks' = [checks EXCEPT ![c] = CheckRecord(enabled, p, secret)] /\ edit' = edit
        /\ outdated' = outdated /\ unchecked' = unchecked
    BY <1>4 DEF Create, linkHistory
  <2> HIDE DEF secret
  <2>2. checks[c].is = "new" /\ p \in Nodes /\ (p # NoCheck => checks[p].is = "there")
    BY <1>4 DEF Create, Nodes, There
  <2> DEFINE q == IF c \in unchecked THEN NoCheck ELSE p
  <2>3. p # c /\ q # c /\ q \in Nodes
    BY <2>2, ChecksAssumption DEF Nodes
  <2>4. \A d \in Checks : Links[d] # c /\ Sound[d] # c
    BY <2>2, <2>3, ChecksAssumption DEF LinksInv, Links, Sound, There
  <2>5. Sound' = [Sound EXCEPT ![c] = q]
    <3>1. \A d \in Checks : Sound'[d] = IF d = c THEN q ELSE Sound[d]
      BY <1>1, <2>1 DEF Links, Sound, CheckRecord
    <3>2. Sound' = [d \in Checks |-> Sound'[d]]
      BY DEF Sound
    <3> HIDE DEF q
    <3>3. [Sound EXCEPT ![c] = q] = [d \in Checks |-> IF d = c THEN q ELSE Sound[d]]
      BY <1>1
    <3> QED BY <3>1, <3>2, <3>3
  <2> HIDE DEF q
  <2>6. Loopless(Sound')
    BY <1>1, <2>3, <2>4, <2>5, NewLink DEF LoopsInv
  <2>7. ASSUME NEW o \in Editors, Linking(o)'
        PROVE  Loopless(Linked(o)')
    <3>1. Linking(o) /\ edit[o] # NoEdit
      BY <2>1, <2>7 DEF Linking
    <3>2. edit[o].check # c /\ edit[o].after.dependsOn # c /\ edit[o].check \in Checks
          /\ edit[o].after.dependsOn \in Nodes
      BY <1>1, <2>2, <2>3, <3>1, ChecksAssumption DEF LinksInv, Once
    <3>3. /\ Linked(o) \in [Checks -> Nodes] /\ Loopless(Linked(o))
          /\ \A d \in Checks : Linked(o)[d] # c
      BY <1>1, <2>4, <3>1, <3>2 DEF Linked, LoopsInv
    <3>4. Linked(o)' = [Linked(o) EXCEPT ![c] = q]
      BY <1>1, <2>1, <2>5, <3>2 DEF Linked
    <3> DEFINE f == Linked(o)
    <3>5. /\ f \in [Checks -> Nodes] /\ Loopless(f) /\ \A d \in Checks : f[d] # c
          /\ Linked(o)' = [f EXCEPT ![c] = q]
      BY <3>3, <3>4
    <3> HIDE DEF f
    <3>6. Loopless([f EXCEPT ![c] = q])
      BY <2>3, <3>5, NewLink
    <3> QED BY <3>5, <3>6
  <2> QED BY <2>6, <2>7 DEF LoopsInv, Loopless
<1>5. ASSUME NEW c \in Checks, Delete(c)
      PROVE  LoopsInv'
  <2>1. edit' = edit /\ outdated' = outdated /\ unchecked' = unchecked
        /\ \A d \in Checks : checks'[d].dependsOn \in {checks[d].dependsOn, NoCheck}
    BY <1>1, <1>5 DEF Delete, Before, CheckRecords, linkHistory
  <2>2. \A d \in Checks : Sound'[d] \in {Sound[d], NoCheck}
    BY <2>1 DEF Links, Sound
  <2>3. Loopless(Sound')
    BY <2>2, FewerLinks DEF LoopsInv
  <2>4. ASSUME NEW o \in Editors, Linking(o)'
        PROVE  Loopless(Linked(o)')
    <3>1. Linking(o) /\ Loopless(Linked(o))
      BY <2>1, <2>4 DEF Linking, LoopsInv
    <3>2. \A d \in Checks : Linked(o)'[d] \in {Linked(o)[d], NoCheck}
      BY <1>1, <2>1, <2>2 DEF Linked, Sound
    <3> QED BY <3>1, <3>2, FewerLinks
  <2> QED BY <2>3, <2>4 DEF LoopsInv, Loopless
<1>6. CASE HubRestarts
  <2>1. Sound' = Sound /\ \A e \in Editors : ~Linking(e)'
    BY <1>6, RestartForgets DEF Links, Sound, Linking, NoneUnderWay
  <2> QED BY <2>1 DEF LoopsInv, Loopless
<1>7. CASE UNCHANGED <<checks, edit, outdated, unchecked>>
  BY <1>7 DEF LoopsInv, Loopless, Links, Sound, Linked, Linking
<1> QED BY <1>2, <1>3, <1>4, <1>5, <1>6, <1>7, WhoChanges DEF Users
-----------------------------------------------------------------------------
(***************************************************************************)
(* The theorems.                                                           *)
(***************************************************************************)
LEMMA ConfigInvAlways == ConfigSpec => []ConfigInv
<1>1. ConfigInit => ConfigInv
  BY InitTyped, InitSecrets, InitLinks DEF ConfigInv
<1>2. ConfigInv /\ [ConfigNext]_configVars => ConfigInv'
  BY ConfigTypesKept, SecretsKept, LinksKept DEF ConfigInv
<1> QED BY <1>1, <1>2, PTL DEF ConfigSpec

LEMMA LooplessAlways == ConfigSpec => []LoopsInv
<1>1. ConfigInit => LoopsInv
  BY InitLoopless
<1>2. ConfigInv /\ LoopsInv /\ [ConfigNext]_configVars => LoopsInv'
  BY LoopsKept DEF ConfigInv
<1> QED BY <1>1, <1>2, ConfigInvAlways, PTL DEF ConfigSpec

\* The records, edits, requests and configs are always what their types say.
THEOREM ConfigTypeCorrect == ConfigSpec => []ConfigTypeOK
<1>1. ConfigInv => ConfigTypeOK
  BY DEF ConfigInv
<1> QED BY <1>1, ConfigInvAlways, PTL

\* No enabled check lacks the secret it needs, however edits of it overlap: a
\* config is never unusable for one that was never given.
THEOREM SecretsThere == ConfigSpec => []EnabledHasSecret
<1>1. ConfigInv => EnabledHasSecret
  BY DEF ConfigInv, SecretsInv
<1> QED BY <1>1, ConfigInvAlways, PTL

\* However edits overlap, links lead to checks that are there, and come back to
\* where they began only through a link that was validated before another edit
\* wrote one and written after it.
THEOREM NoWayBack == ConfigSpec => []LinksLeadUp
<1>1. ConfigInv /\ LoopsInv => LinksLeadUp
  BY LeadUp DEF ConfigInv, LoopsInv
<1> QED BY <1>1, ConfigInvAlways, LooplessAlways, PTL

\* And whichever checks are down, one that is hidden behind another is hidden
\* behind one that is told, unless such a link is among those up from it.
THEOREM NoOutageHidden == ConfigSpec => []OutageIsNamed
<1>1. ConfigInv /\ LoopsInv => OutageIsNamed
  BY AllNamed DEF ConfigInv, LoopsInv
<1> QED BY <1>1, ConfigInvAlways, LooplessAlways, PTL
===============================================================================
