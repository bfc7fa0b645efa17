------------------------ MODULE IncidentFollowUps_proofs ------------------------
(***************************************************************************)
(* Proofs about IncidentFollowUps, for any routing rules that people save  *)
(* meanwhile, any number of incidents, failures and restarts, and any      *)
(* clock: nobody is told more than the rules ask, and what is over is      *)
(* followed up by no more than the sweep that was under way.               *)
(***************************************************************************)
EXTENDS IncidentFollowUps, FiniteSetTheorems, TLAPS

Tellings ==
  [escalations : Nat, reminders : Nat, late : Nat, heard : Nat, lost : BOOLEAN,
   woken : SUBSET Channels, uninformed : SUBSET Channels]
RowsTyped == rows \in Seq(Row) /\ Len(rows) <= MaxIncidents
WorldTyped ==
  /\ confirmed \in Troubles \union {"Up"} /\ deleted \in BOOLEAN
  /\ quiet \in {"no", "silence", "window"} /\ rules \in RuleSets
  /\ clock \in Times /\ faults \in 0..MaxFaults
EvalTyped == eval \in {Idle} \union Evaluations
SweepTyped ==
  /\ sweep \in {Idle} \union Listings \union Sweeps
  /\ sweep # Idle => sweep.id \in DOMAIN rows
Typed == RowsTyped /\ WorldTyped /\ EvalTyped /\ SweepTyped /\ told \in [Ids -> Tellings]

\* One incident of the check is open at a time, because an evaluation has seen
\* the open one when it opens another.
OneOpen ==
  /\ \A i, j \in Open : i = j
  /\ eval.stage = "found" => Open \subseteq eval.open
  /\ eval.stage \in {"found", "recorded"} => eval.open \subseteq DOMAIN rows

\* n reminders within d, with one of the rules' intervals between them.
Spaced(n, d) == n = 0 \/ \E every \in Intervals : n * every <= d

Stages == SweepStages \union {"listed"}
At(i, stages) == sweep.stage \in stages /\ sweep.id = i

\* What was said of an incident, and what the sweep is about to say.
Asked(i) ==
  /\ rows[i].opened <= rows[i].since /\ rows[i].since <= clock
  /\ told[i].escalations <= 1 /\ (told[i].escalations = 1 => rows[i].escalated)
  /\ At(i, {"escalated"}) => told[i].escalations = 0 /\ rows[i].escalated
  /\ Spaced(told[i].reminders, rows[i].since - rows[i].opened)
  /\ At(i, {"listed"}) => sweep.now <= clock /\ sweep.row.since = rows[i].since
  /\ At(i, {"ruled", "escalating", "escalated", "reminding"}) =>
       /\ sweep.now <= clock
       /\ sweep.remind => \E every \in Intervals : sweep.now - rows[i].since >= every
  /\ At(i, {"ruled"}) => sweep.escalate \/ sweep.remind
  /\ At(i, {"reminding"}) => sweep.remind
  /\ At(i, {"reminded"}) => Spaced(told[i].reminders + 1, rows[i].since - rows[i].opened)

\* What was said of it after it was over: nothing but what a sweep says that
\* listed it before.
Stopped(i) ==
  /\ told[i].late <= 2
  /\ ~Over(rows[i]) => told[i].late = 0
  /\ At(i, {"listed", "ruled", "escalating", "escalated"}) => told[i].late = 0
  /\ At(i, {"reminding", "reminded"}) => told[i].late <= 1

RowsInv == \A i \in DOMAIN rows : Asked(i) /\ Stopped(i)
UntoldYet == \A i \in Ids \ DOMAIN rows : told[i] = Untold

IInv == Typed /\ OneOpen /\ RowsInv /\ UntoldYet
-----------------------------------------------------------------------------
(***************************************************************************)
(* Rules and intervals.                                                    *)
(***************************************************************************)

\* A nonempty set of numbers has a least one.
LEMMA LeastIn ==
  ASSUME NEW S \in SUBSET Nat, S # {}
  PROVE  Min(S) \in S
<1> DEFINE Before(b) == {c \in S : c < b}
           T == {Before(b) : b \in S}
<1>1. T \subseteq FiniteSubsetsOf(Nat) /\ T # {}
  <2>1. ASSUME NEW b \in S
        PROVE  Before(b) \in SUBSET Nat /\ IsFiniteSet(Before(b))
    <3>1. IsFiniteSet(0..(b - 1))
      BY FS_Interval
    <3>2. ASSUME NEW c \in Before(b)
          PROVE  c \in 0..(b - 1)
      <4>1. b \in Nat /\ c \in Nat /\ c < b
        OBVIOUS
      <4> QED BY <4>1
    <3> QED BY <3>1, <3>2, FS_Subset
  <2> QED BY <2>1 DEF FiniteSubsetsOf
<1>2. PICK X \in T : \A Y \in T : <<Y, X>> \notin StrictSubsetOrdering(Nat)
  BY <1>1, FS_StrictSubsetOrderingWellFounded, WFMin, Zenon
<1>3. PICK b \in S : X = Before(b)
  OBVIOUS
<1>4. ASSUME NEW c \in S, c < b
      PROVE  FALSE
  <2>1. Before(c) \in SUBSET Nat /\ Before(b) \in SUBSET Nat
    OBVIOUS
  <2>2. ASSUME NEW x \in Before(c)
        PROVE  x \in Before(b)
    <3>1. x \in Nat /\ c \in Nat /\ b \in Nat /\ x \in S /\ x < c
      OBVIOUS
    <3> QED BY <1>4, <3>1
  <2>3. c \in Before(b) /\ c \notin Before(c)
    BY <1>4
  <2>4. <<Before(c), Before(b)>> \in StrictSubsetOrdering(Nat)
    BY <2>1, <2>2, <2>3 DEF StrictSubsetOrdering
  <2> QED BY <1>2, <1>3, <2>4
<1>5. \A c \in S : b <= c
  BY <1>4
<1> QED BY <1>5 DEF Min

\* A rule that matches is one of those somebody saved.
LEMMA RuleTyped ==
  ASSUME WorldTyped, NEW kind, NEW rule \in Matching(kind)
  PROVE  rule \in Rules /\ (rule.every # 0 => rule.every \in Intervals)
<1>1. rules \in Seq(Rules)
  BY RulesAssumption DEF WorldTyped
<1>2. PICK n \in DOMAIN rules : rule = rules[n]
  BY DEF Matching
<1>3. rule \in Rules
  BY <1>1, <1>2
<1>4. rule.every \in {rules[m].every : m \in DOMAIN rules}
  BY <1>2
<1>5. {rules[m].every : m \in DOMAIN rules}
        \in {{saved[m].every : m \in DOMAIN saved} : saved \in RuleSets}
  BY DEF WorldTyped
<1>6. rule.every \in UNION {{saved[m].every : m \in DOMAIN saved} : saved \in RuleSets}
  BY <1>4, <1>5
<1> QED BY <1>3, <1>6 DEF Intervals

\* A reminder that is due waited for one of the rules' intervals.
LEMMA DueAfterInterval ==
  ASSUME WorldTyped, NEW row \in Row, NEW now \in Times, ReminderDue(row, now)
  PROVE  \E every \in Intervals : now - row.since >= every
<1> DEFINE R == Reminding(AlertKind(row))
           E == {rule.every : rule \in R}
<1>1. FollowUp(AlertKind(row)).every # 0
      /\ now - row.since >= FollowUp(AlertKind(row)).every
  BY DEF ReminderDue, Reached
<1>2. FollowUp(AlertKind(row)).every = IF R = {} THEN 0 ELSE Min(E)
  BY DEF FollowUp
<1>3. R # {} /\ now - row.since >= Min(E)
  BY <1>1, <1>2
<1>4. \A rule \in R : rule.every \in Nat /\ rule.every \in Intervals
  BY RuleTyped DEF Reminding, Rules
<1>5. E \in SUBSET Nat /\ E # {}
  BY <1>3, <1>4
<1>6. Min(E) \in E
  BY <1>5, LeastIn
<1>7. Min(E) \in Intervals
  BY <1>4, <1>6
<1> QED BY <1>3, <1>7

\* Intervals are numbers, whatever rules were saved.
LEMMA IntervalsTyped == Intervals \subseteq Nat \ {0}
<1> SUFFICES ASSUME NEW every \in Intervals
             PROVE  every \in Nat \ {0}
  OBVIOUS
<1>1. PICK saved \in RuleSets : every \in {saved[m].every : m \in DOMAIN saved}
  BY DEF Intervals
<1>2. PICK m \in DOMAIN saved : every = saved[m].every
  BY <1>1
<1>3. saved[m] \in Rules
  BY RulesAssumption
<1>4. every # 0
  BY DEF Intervals
<1> QED BY <1>2, <1>3, <1>4 DEF Rules

\* An escalation goes to channels.
LEMMA EscalatesToChannels ==
  ASSUME WorldTyped, NEW kind
  PROVE  FollowUp(kind).escalateTo \in SUBSET Channels
<1>1. \A rule \in Escalating(kind) : rule.escalateTo \in SUBSET Channels
  BY RuleTyped DEF Escalating, Rules
<1> QED BY <1>1 DEF FollowUp

\* What is spaced within a time is within a longer one.
LEMMA SpacedLonger ==
  ASSUME NEW n \in Nat, NEW d \in Int, NEW e \in Int, d <= e, Spaced(n, d)
  PROVE  Spaced(n, e)
<1>1. CASE n = 0
  BY <1>1 DEF Spaced
<1>2. ASSUME NEW every \in Intervals, n * every <= d
      PROVE  n * every <= e
  BY <1>2, IntervalsTyped
<1> QED BY <1>1, <1>2 DEF Spaced

\* One more reminder, an interval later: by the shorter of the two intervals
\* they are spaced too.
LEMMA SpacedOnceMore ==
  ASSUME NEW n \in Nat, NEW d \in Nat, NEW g \in Int, Spaced(n, d),
         NEW one \in Intervals, g >= one
  PROVE  Spaced(n + 1, d + g)
<1>1. one \in Nat
  BY IntervalsTyped
<1>2. CASE n = 0
  BY <1>1, <1>2 DEF Spaced
<1>3. CASE n # 0
  <2>1. PICK every \in Intervals : n * every <= d
    BY <1>3 DEF Spaced
  <2>2. every \in Nat
    BY IntervalsTyped
  <2>3. CASE every <= one
    <3>1. (n + 1) * every = n * every + every
      BY <2>2
    <3>2. n * every \in Int
      BY <2>2
    <3>3. (n + 1) * every <= d + g
      BY <1>1, <2>1, <2>2, <2>3, <3>1, <3>2
    <3> QED BY <3>3 DEF Spaced
  <2>4. CASE one <= every
    <3>1. (n + 1) * one = n * one + one
      BY <1>1
    <3>2. n * one <= n * every
      BY <1>1, <2>2, <2>4
    <3>3. n * one \in Int /\ n * every \in Int
      BY <1>1, <2>2
    <3>4. (n + 1) * one <= d + g
      BY <1>1, <2>1, <3>1, <3>2, <3>3
    <3> QED BY <3>4 DEF Spaced
  <2> QED BY <1>1, <2>2, <2>3, <2>4
<1> QED BY <1>2, <1>3
-----------------------------------------------------------------------------
(***************************************************************************)
(* Types.                                                                  *)
(***************************************************************************)

\* Changing rows where they are leaves as many.
LEMMA SameRows ==
  ASSUME RowsTyped, NEW new, new = [i \in DOMAIN rows |-> new[i]],
         \A i \in DOMAIN rows : new[i] \in Row
  PROVE  new \in Seq(Row) /\ Len(new) = Len(rows) /\ DOMAIN new = DOMAIN rows
<1>1. DOMAIN rows = 1..Len(rows) /\ Len(rows) \in Nat
  BY DEF RowsTyped
<1>2. new \in [1..Len(rows) -> Row]
  BY <1>1
<1>3. new \in Seq(Row)
  BY <1>1, <1>2
<1> QED BY <1>1, <1>2, <1>3

\* A row is one of the check's incidents.
LEMMA RowsAreIds ==
  ASSUME RowsTyped
  PROVE  /\ DOMAIN rows = 1..Len(rows) /\ Len(rows) \in Nat
         /\ DOMAIN rows \subseteq Ids
         /\ \A i \in DOMAIN rows : rows[i] \in Row
BY BoundsAssumption DEF RowsTyped, Ids

\* What an evaluation holds once it has looked the incident up.
LEMMA EvalShape ==
  ASSUME EvalTyped
  PROVE  /\ eval.stage = "judged" =>
              eval \in [stage : {"judged"}, news : Troubles \union {"Up"}, silenced : BOOLEAN]
         /\ eval.stage \in {"found", "recorded"} =>
              eval \in [stage : {"found", "recorded"}, news : Troubles \union {"Up"},
                        silenced : BOOLEAN, open : SUBSET Ids, escalated : SUBSET Troubles]
BY DEF EvalTyped, Evaluations, Idle

\* What a sweep under way holds.
LEMMA SweepShape ==
  ASSUME SweepTyped
  PROVE  /\ Idle.stage \notin SweepStages \union {"listed"}
         /\ sweep # Idle => sweep.id \in DOMAIN rows
         /\ sweep.stage \in SweepStages => sweep \in Sweeps /\ sweep # Idle
         /\ sweep.stage = "listed" => sweep \in Listings /\ sweep # Idle
         /\ sweep # Idle => sweep.stage \in SweepStages \union {"listed"}
BY DEF SweepTyped, Idle, SweepStages, Sweeps, Listings

\* A sweep goes on to another stage, or is done; the rows stay.
LEMMA SweepGoesOn ==
  ASSUME SweepTyped, sweep.stage \in SweepStages,
         NEW stage, stage \in SweepStages \union {"idle"},
         SweepTo(stage), DOMAIN rows' = DOMAIN rows
  PROVE  SweepTyped'
<1>1. sweep \in Sweeps /\ sweep.id \in DOMAIN rows
  BY SweepShape
<1>2. CASE stage = "idle"
  BY <1>2 DEF SweepTyped, SweepTo
<1>3. CASE stage # "idle"
  <2>1. sweep' = [sweep EXCEPT !.stage = stage]
    BY <1>3 DEF SweepTo
  <2>2. sweep' \in Sweeps /\ sweep'.id = sweep.id
    BY <1>1, <1>3, <2>1 DEF Sweeps
  <2> QED BY <1>1, <2>2 DEF SweepTyped
<1> QED BY <1>2, <1>3

LEMMA JudgeTyped ==
  ASSUME Typed, NEW news \in Troubles \union {"Up"}, Judge(news)
  PROVE  Typed'
<1>1. eval' \in Evaluations
  BY DEF Judge, Evaluations
<1> QED BY <1>1 DEF Typed, Judge, RowsTyped, WorldTyped, EvalTyped, SweepTyped

LEMMA FindTyped ==
  ASSUME Typed, FindIncident
  PROVE  Typed'
<1>1. eval.news \in Troubles \union {"Up"} /\ eval.silenced \in BOOLEAN
  BY EvalShape DEF Typed, FindIncident
<1>2. Open \in SUBSET Ids
  BY RowsAreIds DEF Open, Typed
<1>3. {AlertKind(rows[i]) : i \in {i \in Open : rows[i].escalated}} \in SUBSET Troubles
  BY RowsAreIds DEF Open, Typed, AlertKind, Row
<1>4. eval' \in Evaluations
  BY <1>1, <1>2, <1>3 DEF FindIncident, Evaluations
<1> QED BY <1>4 DEF Typed, FindIncident, world, RowsTyped, WorldTyped, EvalTyped, SweepTyped

\* What recording an incident does to the rows.
LEMMA RecordedRows ==
  ASSUME Typed, RecordIncident
  PROVE  /\ RowsTyped'
         /\ OpensIncident =>
              /\ rows' = Append(rows, NewIncident) /\ NewIncident \in Row
              /\ DOMAIN rows' = DOMAIN rows \union {Len(rows) + 1}
              /\ rows'[Len(rows) + 1] = NewIncident
              /\ \A i \in DOMAIN rows : rows'[i] = rows[i]
         /\ ~OpensIncident =>
              /\ DOMAIN rows' = DOMAIN rows
              /\ \A i \in DOMAIN rows :
                   /\ rows'[i].opened = rows[i].opened
                   /\ rows'[i].since = rows[i].since
                   /\ rows'[i].escalated = rows[i].escalated
                   /\ rows'[i].acknowledged = rows[i].acknowledged
                   /\ (rows[i].closed => rows'[i].closed)
<1>1. RowsTyped /\ clock \in Times
  BY DEF Typed, WorldTyped
<1>2. eval.news \in Troubles \union {"Up"} /\ eval.silenced \in BOOLEAN
  BY EvalShape DEF Typed, RecordIncident
<1>3. CASE OpensIncident
  <2>1. NewIncident \in Row
    BY <1>1, <1>2, <1>3 DEF NewIncident, Row, OpensIncident
  <2>2. rows' = Append(rows, NewIncident) /\ Len(rows) < MaxIncidents
    BY <1>3 DEF RecordIncident
  <2>3. rows' \in Seq(Row) /\ Len(rows') = Len(rows) + 1
    BY <1>1, <2>1, <2>2 DEF RowsTyped
  <2>4. RowsTyped'
    BY <1>1, <2>2, <2>3, BoundsAssumption DEF RowsTyped
  <2> QED BY <1>1, <1>3, <2>1, <2>2, <2>3, <2>4 DEF RowsTyped
<1>4. CASE ~OpensIncident
  <2>1. rows' = [i \in DOMAIN rows |->
                  IF i \notin eval.open THEN rows[i]
                  ELSE IF eval.news = "Up" THEN [rows[i] EXCEPT !.closed = TRUE]
                  ELSE [rows[i] EXCEPT !.status = eval.news]]
    BY <1>4 DEF RecordIncident
  <2>2. ASSUME NEW i \in DOMAIN rows
        PROVE  /\ rows'[i] \in Row
               /\ rows'[i].opened = rows[i].opened
               /\ rows'[i].since = rows[i].since
               /\ rows'[i].escalated = rows[i].escalated
               /\ rows'[i].acknowledged = rows[i].acknowledged
               /\ (rows[i].closed => rows'[i].closed)
    <3>1. rows[i] \in Row
      BY <1>1, RowsAreIds
    <3> QED BY <1>2, <2>1, <3>1 DEF Row
  <2>3. rows' \in Seq(Row) /\ Len(rows') = Len(rows) /\ DOMAIN rows' = DOMAIN rows
    <3>1. rows' = [i \in DOMAIN rows |-> rows'[i]]
      BY <2>1
    <3> QED BY <1>1, <2>2, <3>1, SameRows
  <2> QED BY <1>1, <1>4, <2>2, <2>3 DEF RowsTyped
<1> QED BY <1>3, <1>4

LEMMA RecordTyped ==
  ASSUME Typed, RecordIncident
  PROVE  Typed'
<1>1. /\ eval.news \in Troubles \union {"Up"} /\ eval.silenced \in BOOLEAN
      /\ eval.open \in SUBSET Ids /\ eval.escalated \in SUBSET Troubles
  BY EvalShape DEF Typed, RecordIncident
<1>2. eval' \in Evaluations
  BY <1>1 DEF RecordIncident, Evaluations
<1>3. DOMAIN rows \subseteq DOMAIN rows'
  BY RecordedRows
<1>4. RowsTyped'
  BY RecordedRows
<1> QED BY <1>2, <1>3, <1>4
        DEF Typed, RecordIncident, world, WorldTyped, EvalTyped, SweepTyped

LEMMA NotifyTyped ==
  ASSUME Typed, Notify
  PROVE  Typed'
<1>1. eval.news \in Troubles \union {"Up"}
  BY EvalShape DEF Typed, Notify
<1>2. ASSUME NEW i \in Ids
      PROVE  told'[i] \in Tellings
  BY DEF Typed, Notify, Tellings
<1>3. told' \in [Ids -> Tellings]
  BY <1>2 DEF Notify
<1> QED BY <1>1, <1>3 DEF Typed, Notify, world, RowsTyped, WorldTyped, EvalTyped, SweepTyped

LEMMA ListTyped ==
  ASSUME Typed, ListIncidents
  PROVE  Typed'
<1>1. PICK i \in Unacknowledged :
        sweep' = [stage |-> "listed", id |-> i, now |-> clock, row |-> rows[i]]
  BY DEF ListIncidents
<1>2. i \in DOMAIN rows /\ i \in Ids /\ rows[i] \in Row
  BY RowsAreIds DEF Typed, Unacknowledged
<1>3. clock \in Times
  BY DEF Typed, WorldTyped
<1>4. sweep' \in Listings /\ sweep'.id = i
  BY <1>1, <1>2, <1>3 DEF Listings
<1>5. SweepTyped'
  BY <1>2, <1>4 DEF SweepTyped, ListIncidents
<1> QED BY <1>5 DEF Typed, ListIncidents, world, RowsTyped, WorldTyped, EvalTyped

\* What the rules make of a listed incident.
LEMMA Ruled ==
  ASSUME Typed, ReadRules
  PROVE  /\ sweep.id \in DOMAIN rows /\ sweep.row \in Row /\ sweep.now \in Times
         /\ \/ sweep' = Idle
            \/ /\ sweep' \in Sweeps /\ sweep'.stage = "ruled"
               /\ sweep'.id = sweep.id /\ sweep'.now = sweep.now
               /\ sweep'.remind => ReminderDue(sweep.row, sweep.now)
               /\ sweep'.escalate \/ sweep'.remind
<1> DEFINE escalate == EscalationDue(sweep.row, sweep.now)
           remind == ReminderDue(sweep.row, sweep.now)
           to == FollowUp(AlertKind(sweep.row)).escalateTo
<1>1. sweep \in Listings /\ sweep.id \in DOMAIN rows
  BY SweepShape DEF Typed, ReadRules
<1>2. sweep.id \in Ids /\ sweep.row \in Row /\ sweep.now \in Times
  BY <1>1 DEF Listings
<1>3. escalate \in BOOLEAN /\ remind \in BOOLEAN
  BY <1>2 DEF EscalationDue, ReminderDue, Reached, Row
<1>4. to \in SUBSET Channels
  BY EscalatesToChannels DEF Typed
<1>5. sweep' = IF ~escalate /\ ~remind THEN Idle
               ELSE [stage |-> "ruled", id |-> sweep.id, now |-> sweep.now,
                     escalate |-> escalate, remind |-> remind, escalateTo |-> to]
  BY DEF ReadRules
<1>6. remind => ReminderDue(sweep.row, sweep.now)
  OBVIOUS
<1> HIDE DEF escalate, remind, to
<1>7. CASE ~escalate /\ ~remind
  BY <1>1, <1>2, <1>5, <1>7
<1>8. CASE escalate \/ remind
  <2>1. sweep' = [stage |-> "ruled", id |-> sweep.id, now |-> sweep.now,
                  escalate |-> escalate, remind |-> remind, escalateTo |-> to]
    BY <1>5, <1>8
  <2>2. sweep' \in Sweeps
    BY <1>2, <1>3, <1>4, <2>1 DEF Sweeps, SweepStages
  <2> QED BY <1>1, <1>2, <1>6, <1>8, <2>1, <2>2
<1> QED BY <1>7, <1>8

LEMMA ReadTyped ==
  ASSUME Typed, ReadRules
  PROVE  Typed'
<1>1. SweepTyped'
  BY Ruled DEF SweepTyped, ReadRules
<1> QED BY <1>1 DEF Typed, ReadRules, world, RowsTyped, WorldTyped, EvalTyped

LEMMA AskTyped ==
  ASSUME Typed, AskQuiet
  PROVE  Typed'
<1>1. sweep.stage \in SweepStages
  BY DEF AskQuiet, SweepStages
<1>2. SweepTyped'
  BY <1>1, SweepGoesOn DEF Typed, AskQuiet, SweepStages
<1> QED BY <1>2 DEF Typed, AskQuiet, world, RowsTyped, WorldTyped, EvalTyped

\* What changing one row does to the rows.
LEMMA OneRow ==
  ASSUME RowsTyped, NEW j \in DOMAIN rows, NEW row \in Row, rows' = [rows EXCEPT ![j] = row]
  PROVE  /\ RowsTyped' /\ DOMAIN rows' = DOMAIN rows
         /\ rows'[j] = row
         /\ \A i \in DOMAIN rows : i # j => rows'[i] = rows[i]
BY DEF RowsTyped

LEMMA RecordEscalationTyped ==
  ASSUME Typed, RecordEscalation
  PROVE  /\ Typed'
         /\ DOMAIN rows' = DOMAIN rows /\ sweep.id \in DOMAIN rows
         /\ rows'[sweep.id] = [rows[sweep.id] EXCEPT !.escalated = TRUE]
         /\ \A i \in DOMAIN rows : i # sweep.id => rows'[i] = rows[i]
<1>1. sweep # Idle /\ sweep.id \in DOMAIN rows
  BY SweepShape DEF Typed, RecordEscalation, SweepStages
<1>2. rows[sweep.id] \in Row
  BY <1>1, RowsAreIds DEF Typed
<1> DEFINE row == [rows[sweep.id] EXCEPT !.escalated = TRUE]
<1>3. row \in Row
  BY <1>2 DEF Row
<1>4. rows' = [rows EXCEPT ![sweep.id] = row]
  BY DEF RecordEscalation
<1> HIDE DEF row
<1>5. /\ RowsTyped' /\ DOMAIN rows' = DOMAIN rows /\ rows'[sweep.id] = row
      /\ \A i \in DOMAIN rows : i # sweep.id => rows'[i] = rows[i]
  BY <1>1, <1>3, <1>4, OneRow DEF Typed
<1>6. SweepTyped'
  BY <1>1, <1>5, SweepGoesOn DEF Typed, RecordEscalation, AfterEscalation, SweepStages
<1>7. Typed'
  BY <1>5, <1>6 DEF Typed, RecordEscalation, world, WorldTyped, EvalTyped
<1> QED BY <1>1, <1>5, <1>7 DEF row

LEMMA RecordReminderTyped ==
  ASSUME Typed, RecordReminder
  PROVE  /\ Typed'
         /\ DOMAIN rows' = DOMAIN rows /\ sweep.id \in DOMAIN rows
         /\ rows'[sweep.id] = [rows[sweep.id] EXCEPT !.since = sweep.now]
         /\ \A i \in DOMAIN rows : i # sweep.id => rows'[i] = rows[i]
<1>1. sweep # Idle /\ sweep.id \in DOMAIN rows /\ sweep.now \in Times
  BY SweepShape DEF Typed, RecordReminder, SweepStages, Sweeps
<1>2. rows[sweep.id] \in Row
  BY <1>1, RowsAreIds DEF Typed
<1> DEFINE row == [rows[sweep.id] EXCEPT !.since = sweep.now]
<1>3. row \in Row
  BY <1>1, <1>2 DEF Row
<1>4. rows' = [rows EXCEPT ![sweep.id] = row]
  BY DEF RecordReminder, Reminded
<1> HIDE DEF row
<1>5. /\ RowsTyped' /\ DOMAIN rows' = DOMAIN rows /\ rows'[sweep.id] = row
      /\ \A i \in DOMAIN rows : i # sweep.id => rows'[i] = rows[i]
  BY <1>1, <1>3, <1>4, OneRow DEF Typed
<1>6. SweepTyped'
  BY <1>1, <1>5, SweepGoesOn DEF Typed, RecordReminder, SweepStages
<1>7. Typed'
  BY <1>5, <1>6 DEF Typed, RecordReminder, world, WorldTyped, EvalTyped
<1> QED BY <1>1, <1>5, <1>7 DEF row

\* What people were told, one escalation more.
LEMMA EscalationToldAdds ==
  ASSUME NEW said \in Tellings, Late \in Nat, sweep.escalateTo \in SUBSET Channels
  PROVE  /\ EscalationTold(said) \in Tellings
         /\ EscalationTold(said).escalations = said.escalations + 1
         /\ EscalationTold(said).late = said.late + Late
         /\ EscalationTold(said).reminders = said.reminders
<1>1. said.escalations + 1 \in Nat /\ said.late + Late \in Nat
  BY DEF Tellings
<1>2. EscalationTold(said) \in Tellings
  BY <1>1 DEF Tellings, EscalationTold
<1> QED BY <1>2 DEF Tellings, EscalationTold

LEMMA SendEscalationTyped ==
  ASSUME Typed, SendEscalation
  PROVE  /\ Typed' /\ sweep.id \in DOMAIN rows
         /\ told'[sweep.id].escalations = told[sweep.id].escalations + 1
         /\ told'[sweep.id].late = told[sweep.id].late + Late
         /\ told'[sweep.id].reminders = told[sweep.id].reminders
         /\ \A i \in Ids : i # sweep.id => told'[i] = told[i]
<1>1. sweep # Idle /\ sweep \in Sweeps /\ sweep.id \in DOMAIN rows
  BY SweepShape DEF Typed, SendEscalation, SweepStages
<1>2. sweep.id \in Ids /\ sweep.escalateTo \in SUBSET Channels
  BY <1>1 DEF Sweeps
<1>3. told[sweep.id] \in Tellings
  BY <1>2 DEF Typed
<1> DEFINE new == EscalationTold(told[sweep.id])
<1>4. Late \in Nat
  BY DEF Late
<1>5. /\ new \in Tellings
      /\ new.escalations = told[sweep.id].escalations + 1
      /\ new.late = told[sweep.id].late + Late
      /\ new.reminders = told[sweep.id].reminders
  BY <1>2, <1>3, <1>4, EscalationToldAdds
<1>6. told' = [told EXCEPT ![sweep.id] = new]
  BY DEF SendEscalation
<1> HIDE DEF new
<1>7. /\ told' \in [Ids -> Tellings] /\ told'[sweep.id] = new
      /\ \A i \in Ids : i # sweep.id => told'[i] = told[i]
  BY <1>2, <1>5, <1>6 DEF Typed
<1>8. SweepTyped'
  BY <1>1, SweepGoesOn DEF Typed, SendEscalation, AfterEscalation, SweepStages
<1>9. Typed'
  BY <1>7, <1>8 DEF Typed, SendEscalation, world, RowsTyped, WorldTyped, EvalTyped
<1> QED BY <1>1, <1>5, <1>7, <1>9

\* What people were told, one reminder more.
LEMMA ReminderToldAdds ==
  ASSUME NEW said \in Tellings, Late \in Nat, sweep.now \in Nat
  PROVE  /\ ReminderTold(said) \in Tellings
         /\ ReminderTold(said).escalations = said.escalations
         /\ ReminderTold(said).late = said.late + Late
         /\ ReminderTold(said).reminders = said.reminders + 1
<1>1. said.reminders + 1 \in Nat /\ said.late + Late \in Nat
  BY DEF Tellings
<1>2. ReminderTold(said) \in Tellings
  BY <1>1 DEF Tellings, ReminderTold
<1> QED BY <1>2 DEF Tellings, ReminderTold

LEMMA SendReminderTyped ==
  ASSUME Typed, SendReminder
  PROVE  /\ Typed' /\ sweep.id \in DOMAIN rows
         /\ told'[sweep.id].escalations = told[sweep.id].escalations
         /\ told'[sweep.id].late = told[sweep.id].late + Late
         /\ told'[sweep.id].reminders = told[sweep.id].reminders + 1
         /\ \A i \in Ids : i # sweep.id => told'[i] = told[i]
<1>1. sweep # Idle /\ sweep \in Sweeps /\ sweep.id \in DOMAIN rows
  BY SweepShape DEF Typed, SendReminder, SweepStages
<1>2. sweep.id \in Ids /\ sweep.now \in Nat
  BY <1>1 DEF Sweeps, Times
<1>3. told[sweep.id] \in Tellings
  BY <1>2 DEF Typed
<1> DEFINE new == ReminderTold(told[sweep.id])
<1>4. Late \in Nat
  BY DEF Late
<1>5. /\ new \in Tellings
      /\ new.escalations = told[sweep.id].escalations
      /\ new.late = told[sweep.id].late + Late
      /\ new.reminders = told[sweep.id].reminders + 1
  BY <1>2, <1>3, <1>4, ReminderToldAdds
<1>6. told' = [told EXCEPT ![sweep.id] = new]
  BY DEF SendReminder
<1> HIDE DEF new
<1>7. /\ told' \in [Ids -> Tellings] /\ told'[sweep.id] = new
      /\ \A i \in Ids : i # sweep.id => told'[i] = told[i]
  BY <1>2, <1>5, <1>6 DEF Typed
<1>8. SweepTyped'
  BY <1>1, SweepGoesOn DEF Typed, SendReminder, SweepStages
<1>9. Typed'
  BY <1>7, <1>8 DEF Typed, SendReminder, world, RowsTyped, WorldTyped, EvalTyped
<1> QED BY <1>1, <1>5, <1>7, <1>9

\* Someone takes the incident, or it ends with its check: the rows stay.
LEMMA RowsByPeople ==
  ASSUME Typed, Acknowledge \/ DeleteCheck
  PROVE  /\ RowsTyped' /\ DOMAIN rows' = DOMAIN rows
         /\ \A i \in DOMAIN rows :
              /\ rows'[i].opened = rows[i].opened
              /\ rows'[i].since = rows[i].since
              /\ rows'[i].escalated = rows[i].escalated
              /\ (rows[i].acknowledged => rows'[i].acknowledged)
              /\ (rows[i].closed => rows'[i].closed)
<1>1. \A i \in DOMAIN rows : rows[i] \in Row
  BY RowsAreIds DEF Typed
<1>2. CASE Acknowledge
  <2>1. PICK j \in Open : rows' = [rows EXCEPT ![j].acknowledged = TRUE]
    BY <1>2 DEF Acknowledge
  <2>2. j \in DOMAIN rows
    BY DEF Open
  <2> DEFINE row == [rows[j] EXCEPT !.acknowledged = TRUE]
  <2>3. /\ row \in Row /\ row.opened = rows[j].opened /\ row.since = rows[j].since
        /\ row.escalated = rows[j].escalated /\ row.closed = rows[j].closed
        /\ row.acknowledged
    BY <1>1, <2>2 DEF Row
  <2>4. rows' = [rows EXCEPT ![j] = row]
    BY <2>1
  <2> HIDE DEF row
  <2>5. /\ RowsTyped' /\ DOMAIN rows' = DOMAIN rows /\ rows'[j] = row
        /\ \A i \in DOMAIN rows : i # j => rows'[i] = rows[i]
    BY <2>2, <2>3, <2>4, OneRow DEF Typed
  <2> QED BY <2>3, <2>5
<1>3. CASE DeleteCheck
  <2>1. rows' = [i \in DOMAIN rows |-> [rows[i] EXCEPT !.closed = TRUE]]
    BY <1>3 DEF DeleteCheck
  <2>2. ASSUME NEW i \in DOMAIN rows
        PROVE  /\ rows'[i] \in Row
               /\ rows'[i].opened = rows[i].opened
               /\ rows'[i].since = rows[i].since
               /\ rows'[i].escalated = rows[i].escalated
               /\ rows'[i].acknowledged = rows[i].acknowledged
               /\ rows'[i].closed
    BY <1>1, <2>1 DEF Row
  <2>3. rows' = [i \in DOMAIN rows |-> rows'[i]]
    BY <2>1
  <2>4. rows' \in Seq(Row) /\ Len(rows') = Len(rows) /\ DOMAIN rows' = DOMAIN rows
    BY <2>2, <2>3, SameRows DEF Typed
  <2> QED BY <2>2, <2>4 DEF Typed, RowsTyped
<1> QED BY <1>2, <1>3

LEMMA PeopleTyped ==
  ASSUME Typed, Acknowledge \/ DeleteCheck \/ Quieten \/ SaveRules \/ Tick
  PROVE  Typed'
<1>1. CASE Acknowledge
  BY <1>1, RowsByPeople DEF Acknowledge, Typed, world, WorldTyped, EvalTyped, SweepTyped
<1>2. CASE DeleteCheck
  BY <1>2, RowsByPeople DEF DeleteCheck, Typed, WorldTyped, EvalTyped, SweepTyped
<1>3. CASE Quieten
  BY <1>3 DEF Quieten, Typed, RowsTyped, WorldTyped, EvalTyped, SweepTyped
<1>4. CASE SaveRules
  BY <1>4 DEF SaveRules, Typed, RowsTyped, WorldTyped, EvalTyped, SweepTyped
<1>5. CASE Tick
  BY <1>5, BoundsAssumption DEF Tick, Typed, RowsTyped, WorldTyped, EvalTyped, SweepTyped, Times
<1> QED BY <1>1, <1>2, <1>3, <1>4, <1>5

\* A failure ends what was under way, or loses the incident an alert is about.
LEMMA FaultsEnd ==
  ASSUME Typed, SweepFails \/ EvaluationFails \/ RestartHub
  PROVE  /\ Typed' /\ sweep' \in {sweep, Idle}
         /\ UNCHANGED <<rows, clock>>
         /\ \A i \in Ids :
              /\ told'[i].escalations = told[i].escalations
              /\ told'[i].reminders = told[i].reminders
              /\ told'[i].late = told[i].late
              /\ (i \notin DOMAIN rows => told'[i] = told[i])
         /\ \/ eval' \in {eval, Idle}
            \/ eval'.stage = "recorded" /\ eval'.open = {}
<1>1. Fault
  BY DEF SweepFails, EvaluationFails, RestartHub
<1>2. faults' \in 0..MaxFaults
  BY <1>1, BoundsAssumption DEF Fault, Typed, WorldTyped
<1>t. /\ told' \in [Ids -> Tellings]
      /\ \A i \in Ids :
           /\ told'[i].escalations = told[i].escalations
           /\ told'[i].reminders = told[i].reminders
           /\ told'[i].late = told[i].late
           /\ (i \notin DOMAIN rows => told'[i] = told[i])
  <2>1. CASE UNCHANGED told
    BY <2>1 DEF Typed
  <2>2. CASE ~UNCHANGED told
    <3>1. SweepEnds /\ sweep.stage \in {"escalated", "reminded"}
      BY <2>2 DEF SweepFails, EvaluationFails, RestartHub, SweepEnds
    <3>2. sweep.id \in DOMAIN rows /\ sweep.now \in Nat
      BY <3>1, SweepShape DEF Typed, SweepStages, Sweeps, Times
    <3>3. sweep.id \in Ids
      BY <3>2, RowsAreIds DEF Typed
    <3> DEFINE old == told[sweep.id]
               new == LostTold(told[sweep.id])
    <3>4. old \in Tellings
      BY <3>3 DEF Typed
    <3>5. /\ new \in Tellings /\ new.escalations = old.escalations
          /\ new.reminders = old.reminders /\ new.late = old.late
      BY <3>2, <3>4 DEF LostTold, Tellings
    <3>6. told' = [told EXCEPT ![sweep.id] = new]
      BY <3>1 DEF SweepEnds
    <3> HIDE DEF new
    <3> QED BY <3>2, <3>3, <3>5, <3>6 DEF Typed
  <2> QED BY <2>1, <2>2
<1>3. RowsTyped' /\ WorldTyped' /\ told' \in [Ids -> Tellings]
  BY <1>1, <1>2, <1>t DEF Fault, Typed, RowsTyped, WorldTyped
<1>4. CASE SweepFails
  <2>1. sweep' = Idle /\ eval' = eval
    BY <1>4 DEF SweepFails, SweepEnds
  <2>2. SweepTyped' /\ EvalTyped'
    BY <2>1 DEF Typed, EvalTyped, SweepTyped
  <2> QED BY <1>1, <1>t, <1>3, <2>1, <2>2 DEF Fault, Typed
<1>5. CASE EvaluationFails
  <2>1. CASE eval' = Idle
    BY <1>1, <1>3, <1>5, <2>1 DEF EvaluationFails, Fault, Typed, EvalTyped, SweepTyped
  <2>2. CASE eval' # Idle
    <3>1. eval.stage = "found" /\ eval' = [eval EXCEPT !.stage = "recorded", !.open = {},
                                                       !.escalated = {}]
      BY <1>5, <2>2 DEF EvaluationFails
    <3>2. eval' \in Evaluations /\ eval'.stage = "recorded" /\ eval'.open = {}
      BY <3>1, EvalShape DEF Typed, Evaluations
    <3> QED BY <1>1, <1>3, <1>5, <3>2 DEF EvaluationFails, Fault, Typed, EvalTyped, SweepTyped
  <2> QED BY <2>1, <2>2
<1>6. CASE RestartHub
  <2>1. sweep' = Idle /\ eval' = Idle
    BY <1>6 DEF RestartHub, SweepEnds
  <2>2. SweepTyped' /\ EvalTyped'
    BY <2>1 DEF EvalTyped, SweepTyped
  <2> QED BY <1>1, <1>t, <1>3, <2>1, <2>2 DEF Fault, Typed
<1> QED BY <1>1, <1>t, <1>4, <1>5, <1>6 DEF Fault
-----------------------------------------------------------------------------
(***************************************************************************)
(* What was said of one incident.                                          *)
(***************************************************************************)

\* The numbers of an incident.
LEMMA RowNumbers ==
  ASSUME Typed, NEW i \in DOMAIN rows
  PROVE  /\ i \in Ids /\ told[i] \in Tellings
         /\ rows[i].opened \in Nat /\ rows[i].since \in Nat /\ clock \in Nat
         /\ rows[i].closed \in BOOLEAN /\ rows[i].acknowledged \in BOOLEAN
         /\ rows[i].escalated \in BOOLEAN
         /\ told[i].escalations \in Nat /\ told[i].reminders \in Nat /\ told[i].late \in Nat
<1>1. i \in Ids /\ rows[i] \in Row
  BY RowsAreIds DEF Typed
<1> QED BY <1>1 DEF Typed, WorldTyped, Tellings, Row, Times

\* A step that says nothing of it, and leaves the sweep, or another row's sweep
\* or none, has nothing to show for it.
LEMMA NothingSaid ==
  ASSUME Typed, Typed', NEW i \in DOMAIN rows, Asked(i), Stopped(i), i \in DOMAIN rows',
         rows'[i].opened = rows[i].opened, rows'[i].since = rows[i].since,
         rows'[i].escalated = rows[i].escalated,
         Over(rows[i]) => Over(rows'[i]),
         told'[i].escalations = told[i].escalations, told'[i].late = told[i].late,
         told'[i].reminders = told[i].reminders,
         clock <= clock',
         sweep' = sweep \/ ~(sweep'.stage \in Stages /\ sweep'.id = i)
  PROVE  Asked(i)' /\ Stopped(i)'
<1>1. /\ rows[i].opened \in Nat /\ rows[i].since \in Nat /\ clock \in Nat /\ clock' \in Nat
      /\ told[i].reminders \in Nat
  BY RowNumbers DEF Typed, WorldTyped, Times
<1>2. CASE sweep' = sweep
  <2>1. /\ At(i, {"ruled", "escalating", "escalated", "reminding"}) => sweep.now \in Nat
        /\ At(i, {"listed"}) => sweep.now \in Nat
    BY SweepShape DEF Typed, At, Sweeps, Listings, SweepStages, Times
  <2>2. Stopped(i)'
    BY <1>2 DEF Stopped, At
  <2>3. Asked(i)'
    BY <1>1, <1>2, <2>1 DEF Asked, At
  <2> QED BY <2>2, <2>3
<1>3. CASE ~(sweep'.stage \in Stages /\ sweep'.id = i)
  <2>1. ~At(i, {"ruled", "escalating", "escalated", "reminding"})'
        /\ ~At(i, {"listed", "ruled", "escalating", "escalated"})' /\ ~At(i, {"reminding", "reminded"})'
        /\ ~At(i, {"listed"})' /\ ~At(i, {"ruled"})' /\ ~At(i, {"escalated"})' /\ ~At(i, {"reminding"})'
        /\ ~At(i, {"reminded"})'
    BY <1>3 DEF At, Stages, SweepStages
  <2>2. Stopped(i)'
    BY <2>1 DEF Stopped
  <2>3. Asked(i)'
    BY <1>1, <2>1 DEF Asked
  <2> QED BY <2>2, <2>3
<1> QED BY <1>2, <1>3

\* The same of every incident.
LEMMA NothingSaidOfAny ==
  ASSUME Typed, Typed', RowsInv, DOMAIN rows' = DOMAIN rows,
         \A i \in DOMAIN rows :
           /\ rows'[i].opened = rows[i].opened /\ rows'[i].since = rows[i].since
           /\ rows'[i].escalated = rows[i].escalated
           /\ (Over(rows[i]) => Over(rows'[i]))
           /\ told'[i].escalations = told[i].escalations
           /\ told'[i].late = told[i].late
           /\ told'[i].reminders = told[i].reminders,
         clock <= clock', sweep' \in {sweep, Idle}
  PROVE  RowsInv'
<1> SUFFICES ASSUME NEW i \in DOMAIN rows
             PROVE  Asked(i)' /\ Stopped(i)'
  BY DEF RowsInv
<1>1. Asked(i) /\ Stopped(i)
  BY DEF RowsInv
<1>2. sweep' = sweep \/ ~(sweep'.stage \in Stages /\ sweep'.id = i)
  BY SweepShape DEF Typed, Stages
<1> QED BY <1>1, <1>2, NothingSaid

\* An evaluation's steps say nothing; an incident it opens starts afresh.
LEMMA EvaluationSays ==
  ASSUME IInv, (\E news \in Troubles \union {"Up"} : Judge(news)) \/ FindIncident \/ Notify
  PROVE  RowsInv' /\ UntoldYet'
<1>1. Typed /\ RowsInv /\ UntoldYet
  BY DEF IInv
<1>2. Typed'
  BY <1>1, JudgeTyped, FindTyped, NotifyTyped
<1>3. rows' = rows /\ clock' = clock /\ sweep' = sweep
  BY DEF Judge, FindIncident, Notify, world
<1>4. ASSUME NEW i \in Ids
      PROVE  /\ told'[i].escalations = told[i].escalations
             /\ told'[i].late = told[i].late
             /\ told'[i].reminders = told[i].reminders
             /\ (i \notin DOMAIN rows => told'[i] = told[i])
  <2>1. CASE Notify
    <3>1. told[i] \in Tellings
      BY <1>1 DEF Typed
    <3>2. eval.open \subseteq DOMAIN rows
      BY <2>1 DEF IInv, OneOpen, Notify
    <3> QED BY <2>1, <3>1, <3>2 DEF Notify, Tellings
  <2>2. CASE ~Notify
    BY <2>2 DEF Judge, FindIncident
  <2> QED BY <2>1, <2>2
<1>5. clock \in Int
  BY <1>1 DEF Typed, WorldTyped, Times
<1>6. \A i \in DOMAIN rows : i \in Ids
  BY <1>1, RowsAreIds DEF Typed
<1>7. RowsInv'
  BY <1>1, <1>2, <1>3, <1>4, <1>5, <1>6, NothingSaidOfAny
<1>8. UntoldYet'
  BY <1>1, <1>3, <1>4 DEF UntoldYet
<1> QED BY <1>7, <1>8

LEMMA RecordSays ==
  ASSUME IInv, RecordIncident
  PROVE  RowsInv' /\ UntoldYet'
<1>1. Typed /\ RowsInv /\ UntoldYet
  BY DEF IInv
<1>2. Typed'
  BY <1>1, RecordTyped
<1>3. clock' = clock /\ sweep' = sweep /\ told' = told /\ clock \in Nat
  BY <1>1 DEF RecordIncident, world, Typed, WorldTyped, Times
<1>4. CASE OpensIncident
  <2>1. /\ NewIncident \in Row /\ DOMAIN rows' = DOMAIN rows \union {Len(rows) + 1}
        /\ rows'[Len(rows) + 1] = NewIncident
        /\ \A i \in DOMAIN rows : rows'[i] = rows[i]
    BY <1>1, <1>4, RecordedRows
  <2>2. ASSUME NEW i \in DOMAIN rows
        PROVE  Asked(i)' /\ Stopped(i)'
    <3>1. Asked(i) /\ Stopped(i)
      BY <1>1 DEF RowsInv
    <3> QED BY <1>1, <1>2, <1>3, <2>1, <3>1, NothingSaid
  <2>n. PICK n : n = Len(rows) + 1
    OBVIOUS
  <2>3. n \in Ids \ DOMAIN rows
    <3>1. DOMAIN rows = 1..Len(rows) /\ Len(rows) \in Nat
      BY <1>1, RowsAreIds DEF Typed
    <3>2. Len(rows) < MaxIncidents
      BY <1>4 DEF RecordIncident
    <3> QED BY <2>n, <3>1, <3>2, BoundsAssumption DEF Ids
  <2>4. told[n] = Untold
    BY <1>1, <2>3 DEF UntoldYet
  <2>5. ~(sweep'.stage \in Stages /\ sweep'.id = n)
    BY <1>1, <1>3, <2>3, SweepShape DEF Typed, Stages
  <2>6. ~At(n, {"ruled", "escalating", "escalated", "reminding"})'
        /\ ~At(n, {"listed", "ruled", "escalating", "escalated"})' /\ ~At(n, {"reminding", "reminded"})'
        /\ ~At(n, {"listed"})' /\ ~At(n, {"ruled"})' /\ ~At(n, {"escalated"})' /\ ~At(n, {"reminding"})'
        /\ ~At(n, {"reminded"})'
    BY <2>5 DEF At, Stages, SweepStages
  <2>7. rows'[n].opened = clock /\ rows'[n].since = clock
    BY <2>n, <2>1 DEF NewIncident
  <2>8. told'[n] = Untold
    BY <1>3, <2>4
  <2>9. Asked(n)' /\ Stopped(n)'
    BY <1>3, <2>6, <2>7, <2>8 DEF Asked, Stopped, Spaced, Untold
  <2>10. DOMAIN rows' = DOMAIN rows \union {n}
    BY <2>n, <2>1
  <2> QED BY <1>1, <1>3, <2>2, <2>9, <2>10 DEF RowsInv, UntoldYet
<1>5. CASE ~OpensIncident
  <2>1. /\ DOMAIN rows' = DOMAIN rows
        /\ \A i \in DOMAIN rows :
             /\ rows'[i].opened = rows[i].opened
             /\ rows'[i].since = rows[i].since
             /\ rows'[i].escalated = rows[i].escalated
             /\ rows'[i].acknowledged = rows[i].acknowledged
             /\ (rows[i].closed => rows'[i].closed)
    BY <1>1, <1>5, RecordedRows
  <2>2. \A i \in DOMAIN rows : Over(rows[i]) => Over(rows'[i])
    BY <2>1 DEF Over
  <2>3. RowsInv'
    BY <1>1, <1>2, <1>3, <2>1, <2>2, NothingSaidOfAny
  <2>4. UntoldYet'
    BY <1>1, <1>3, <2>1 DEF UntoldYet
  <2> QED BY <2>3, <2>4
<1> QED BY <1>4, <1>5

LEMMA PeopleSay ==
  ASSUME IInv, Acknowledge \/ DeleteCheck \/ Quieten \/ SaveRules \/ Tick
  PROVE  RowsInv' /\ UntoldYet'
<1>1. Typed /\ RowsInv /\ UntoldYet
  BY DEF IInv
<1>2. Typed'
  BY <1>1, PeopleTyped
<1>3. clock \in Nat
  BY <1>1 DEF Typed, WorldTyped, Times
<1>4. clock <= clock' /\ sweep' = sweep /\ told' = told
  BY <1>3 DEF Acknowledge, DeleteCheck, Quieten, SaveRules, Tick, world
<1>5. /\ DOMAIN rows' = DOMAIN rows
      /\ \A i \in DOMAIN rows :
           /\ rows'[i].opened = rows[i].opened
           /\ rows'[i].since = rows[i].since
           /\ rows'[i].escalated = rows[i].escalated
           /\ (rows[i].acknowledged => rows'[i].acknowledged)
           /\ (rows[i].closed => rows'[i].closed)
  BY <1>1, RowsByPeople DEF Quieten, SaveRules, Tick
<1>6. \A i \in DOMAIN rows : Over(rows[i]) => Over(rows'[i])
  BY <1>5 DEF Over
<1>7. RowsInv'
  BY <1>1, <1>2, <1>4, <1>5, <1>6, NothingSaidOfAny
<1> QED BY <1>1, <1>4, <1>5, <1>7 DEF UntoldYet

LEMMA FaultsSay ==
  ASSUME IInv, SweepFails \/ EvaluationFails \/ RestartHub
  PROVE  RowsInv' /\ UntoldYet'
<1>1. Typed /\ RowsInv /\ UntoldYet
  BY DEF IInv
<1>2. /\ Typed' /\ sweep' \in {sweep, Idle} /\ UNCHANGED <<rows, clock>>
      /\ \A i \in Ids :
           /\ told'[i].escalations = told[i].escalations
           /\ told'[i].reminders = told[i].reminders
           /\ told'[i].late = told[i].late
           /\ (i \notin DOMAIN rows => told'[i] = told[i])
  BY <1>1, FaultsEnd
<1>3. clock \in Int
  BY <1>1 DEF Typed, WorldTyped, Times
<1>4. \A i \in DOMAIN rows : i \in Ids
  BY <1>1, RowsAreIds DEF Typed
<1>5. RowsInv'
  BY <1>1, <1>2, <1>3, <1>4, NothingSaidOfAny
<1> QED BY <1>1, <1>2, <1>5 DEF UntoldYet
-----------------------------------------------------------------------------
(***************************************************************************)
(* What a sweep says.                                                      *)
(***************************************************************************)

\* A sweep's incident and no other: the rest of the rows and what was said of
\* them stay, and the sweep goes on with the same incident, or is done.
LEMMA OneOfThem ==
  ASSUME Typed, Typed', RowsInv, NEW k \in DOMAIN rows, DOMAIN rows' = DOMAIN rows,
         \A i \in DOMAIN rows : i # k => rows'[i] = rows[i] /\ told'[i] = told[i],
         clock' = clock, sweep' = Idle \/ sweep'.id = k,
         Asked(k)' /\ Stopped(k)'
  PROVE  RowsInv'
<1> SUFFICES ASSUME NEW i \in DOMAIN rows, i # k
             PROVE  Asked(i)' /\ Stopped(i)'
  BY DEF RowsInv
<1>1. Asked(i) /\ Stopped(i)
  BY DEF RowsInv
<1>2. ~(sweep'.stage \in Stages /\ sweep'.id = i)
  BY SweepShape DEF Typed, Stages
<1>3. clock <= clock'
  BY DEF Typed, WorldTyped, Times
<1> QED BY <1>1, <1>2, <1>3, NothingSaid

\* The stages a sweep goes on to.
LEMMA SweepsOn ==
  ASSUME SweepTyped, sweep.stage \in SweepStages, NEW stage, SweepTo(stage)
  PROVE  IF stage = "idle" THEN sweep' = Idle
         ELSE /\ sweep'.stage = stage /\ sweep'.id = sweep.id /\ sweep'.now = sweep.now
              /\ sweep'.remind = sweep.remind /\ sweep'.escalate = sweep.escalate
BY SweepShape DEF SweepTo, Sweeps

LEMMA ListSays ==
  ASSUME IInv, ListIncidents
  PROVE  RowsInv'
<1>1. Typed /\ RowsInv
  BY DEF IInv
<1>2. Typed'
  BY <1>1, ListTyped
<1>3. PICK k \in Unacknowledged :
        sweep' = [stage |-> "listed", id |-> k, now |-> clock, row |-> rows[k]]
  BY DEF ListIncidents
<1>4. k \in DOMAIN rows /\ ~Over(rows[k])
  BY DEF Unacknowledged, Over
<1>5. UNCHANGED <<rows, clock, told>>
  BY DEF ListIncidents, world
<1>6. Asked(k) /\ Stopped(k)
  BY <1>1, <1>4 DEF RowsInv
<1>7. told[k].late = 0
  BY <1>4, <1>6 DEF Stopped
<1>8. sweep'.stage = "listed" /\ sweep'.id = k /\ sweep'.now = clock /\ sweep'.row = rows[k]
  BY <1>3
<1>9. clock \in Int
  BY <1>1 DEF Typed, WorldTyped, Times
<1>10. Stopped(k)'
  BY <1>5, <1>6, <1>7, <1>8 DEF Stopped, At
<1>11. Asked(k)'
  BY <1>5, <1>6, <1>8, <1>9 DEF Asked, At
<1> QED BY <1>1, <1>2, <1>4, <1>5, <1>8, <1>10, <1>11, OneOfThem

LEMMA ReadSays ==
  ASSUME IInv, ReadRules
  PROVE  RowsInv'
<1>1. Typed /\ RowsInv
  BY DEF IInv
<1>2. Typed'
  BY <1>1, ReadTyped
<1>3. sweep.id \in DOMAIN rows /\ sweep.row \in Row /\ sweep.now \in Times
  BY <1>1, Ruled
<1>4. PICK k \in DOMAIN rows : k = sweep.id
  BY <1>3
<1>5. Asked(k) /\ Stopped(k)
  BY <1>1 DEF RowsInv
<1>6. UNCHANGED <<rows, clock, told>> /\ sweep.stage = "listed"
  BY DEF ReadRules, world
<1>7. sweep.now <= clock /\ sweep.row.since = rows[k].since /\ told[k].late = 0
  BY <1>4, <1>5, <1>6 DEF Asked, Stopped, At
<1>8. ReminderDue(sweep.row, sweep.now) =>
        \E every \in Intervals : sweep.now - sweep.row.since >= every
  BY <1>1, <1>3, DueAfterInterval DEF Typed
<1>9. \/ sweep' = Idle
      \/ /\ sweep'.stage = "ruled" /\ sweep'.id = k /\ sweep'.now = sweep.now
         /\ sweep'.remind => ReminderDue(sweep.row, sweep.now)
         /\ sweep'.escalate \/ sweep'.remind
  BY <1>1, <1>4, Ruled
<1>10. Stopped(k)'
  BY <1>5, <1>6, <1>7, <1>9 DEF Stopped, At, Idle
<1>11. Asked(k)'
  BY <1>5, <1>6, <1>7, <1>8, <1>9 DEF Asked, At, Idle
<1> QED BY <1>1, <1>2, <1>6, <1>9, <1>10, <1>11, OneOfThem

LEMMA AskSays ==
  ASSUME IInv, AskQuiet
  PROVE  RowsInv'
<1>1. Typed /\ RowsInv
  BY DEF IInv
<1>2. Typed'
  BY <1>1, AskTyped
<1>3. sweep # Idle /\ sweep.id \in DOMAIN rows /\ sweep.stage = "ruled"
  BY <1>1, SweepShape DEF Typed, AskQuiet, SweepStages
<1>4. PICK k \in DOMAIN rows : k = sweep.id
  BY <1>3
<1>5. Asked(k) /\ Stopped(k)
  BY <1>1 DEF RowsInv
<1>6. UNCHANGED <<rows, clock, told>>
  BY DEF AskQuiet, world
<1>7. /\ sweep.now <= clock /\ (sweep.escalate \/ sweep.remind)
      /\ sweep.remind => \E every \in Intervals : sweep.now - rows[k].since >= every
      /\ told[k].late = 0
  BY <1>3, <1>4, <1>5 DEF Asked, Stopped, At
<1>8. \/ sweep' = Idle
      \/ /\ sweep'.id = k /\ sweep'.now = sweep.now
         /\ sweep'.remind = sweep.remind /\ sweep'.escalate = sweep.escalate
         /\ \/ sweep'.stage = "escalating"
            \/ sweep'.stage = "reminding" /\ sweep.remind
  BY <1>1, <1>3, <1>4, <1>7, SweepsOn DEF AskQuiet, Typed, SweepStages
<1>9. Stopped(k)'
  BY <1>5, <1>6, <1>7, <1>8 DEF Stopped, At, Idle
<1>10. Asked(k)'
  BY <1>5, <1>6, <1>7, <1>8 DEF Asked, At, Idle
<1> QED BY <1>1, <1>2, <1>6, <1>8, <1>9, <1>10, OneOfThem

LEMMA RecordEscalationSays ==
  ASSUME IInv, RecordEscalation
  PROVE  RowsInv'
<1>1. Typed /\ RowsInv
  BY DEF IInv
<1>2. /\ Typed' /\ DOMAIN rows' = DOMAIN rows /\ sweep.id \in DOMAIN rows
      /\ rows'[sweep.id] = [rows[sweep.id] EXCEPT !.escalated = TRUE]
      /\ \A i \in DOMAIN rows : i # sweep.id => rows'[i] = rows[i]
  BY <1>1, RecordEscalationTyped
<1>3. sweep # Idle /\ sweep.stage = "escalating"
  BY <1>1, SweepShape DEF Typed, RecordEscalation, SweepStages
<1>4. PICK k \in DOMAIN rows : k = sweep.id
  BY <1>2
<1>5. Asked(k) /\ Stopped(k)
  BY <1>1 DEF RowsInv
<1>6. UNCHANGED <<clock, told>>
  BY DEF RecordEscalation, world
<1>7. rows[k] \in Row
  BY <1>1, RowsAreIds DEF Typed
<1>8. /\ rows'[k].opened = rows[k].opened /\ rows'[k].since = rows[k].since
      /\ rows'[k].escalated = TRUE /\ Over(rows'[k]) = Over(rows[k])
  BY <1>2, <1>4, <1>7 DEF Row, Over
<1>9. /\ sweep.now <= clock
      /\ sweep.remind => \E every \in Intervals : sweep.now - rows[k].since >= every
      /\ told[k].late = 0
  BY <1>3, <1>4, <1>5 DEF Asked, Stopped, At
<1>10. \/ sweep' = Idle
       \/ /\ sweep'.id = k /\ sweep'.now = sweep.now /\ sweep'.remind = sweep.remind
          /\ \/ sweep'.stage = "escalated" /\ ~rows[k].escalated
             \/ sweep'.stage = "reminding" /\ sweep.remind
  <2>1. SweepTo(IF rows[k].escalated THEN AfterEscalation ELSE "escalated")
    BY <1>4 DEF RecordEscalation
  <2>2. CASE rows[k].escalated
    BY <1>1, <1>3, <1>4, <2>1, <2>2, SweepsOn DEF AfterEscalation, Typed, SweepStages
  <2>3. CASE ~rows[k].escalated
    BY <1>1, <1>3, <1>4, <2>1, <2>3, SweepsOn DEF Typed, SweepStages
  <2> QED BY <2>2, <2>3
<1>11. ~rows[k].escalated => told[k].escalations = 0
  BY <1>1, <1>5, RowNumbers DEF Asked
<1>12. Stopped(k)'
  BY <1>5, <1>6, <1>8, <1>9, <1>10 DEF Stopped, At, Idle
<1>13. Asked(k)'
  BY <1>5, <1>6, <1>8, <1>9, <1>10, <1>11 DEF Asked, At, Idle
<1> QED BY <1>1, <1>2, <1>4, <1>6, <1>10, <1>12, <1>13, OneOfThem

LEMMA SendEscalationSays ==
  ASSUME IInv, SendEscalation
  PROVE  RowsInv'
<1>1. Typed /\ RowsInv
  BY DEF IInv
<1>2. /\ Typed' /\ sweep.id \in DOMAIN rows
      /\ told'[sweep.id].escalations = told[sweep.id].escalations + 1
      /\ told'[sweep.id].late = told[sweep.id].late + Late
      /\ told'[sweep.id].reminders = told[sweep.id].reminders
      /\ \A i \in Ids : i # sweep.id => told'[i] = told[i]
  BY <1>1, SendEscalationTyped
<1>3. sweep # Idle /\ sweep.stage = "escalated"
  BY <1>1, SweepShape DEF Typed, SendEscalation, SweepStages
<1>4. PICK k \in DOMAIN rows : k = sweep.id
  BY <1>2
<1>5. Asked(k) /\ Stopped(k)
  BY <1>1 DEF RowsInv
<1>6. UNCHANGED <<rows, clock>>
  BY DEF SendEscalation, world
<1>7. Late \in 0..1 /\ (~Over(rows[k]) => Late = 0)
  BY <1>4 DEF Late
<1>8. /\ sweep.now <= clock
      /\ sweep.remind => \E every \in Intervals : sweep.now - rows[k].since >= every
      /\ told[k].late = 0 /\ told[k].escalations = 0 /\ rows[k].escalated
  BY <1>3, <1>4, <1>5 DEF Asked, Stopped, At
<1>9. \/ sweep' = Idle
      \/ /\ sweep'.id = k /\ sweep'.now = sweep.now /\ sweep'.remind = sweep.remind
         /\ sweep'.stage = "reminding" /\ sweep.remind
  BY <1>1, <1>3, <1>4, SweepsOn DEF SendEscalation, AfterEscalation, Typed, SweepStages
<1>10. /\ told'[k].escalations = 1 /\ told'[k].late = Late
       /\ told'[k].reminders = told[k].reminders
  BY <1>2, <1>4, <1>7, <1>8
<1>11. Stopped(k)'
  BY <1>6, <1>7, <1>9, <1>10 DEF Stopped, At, Idle
<1>12. Asked(k)'
  BY <1>5, <1>6, <1>8, <1>9, <1>10 DEF Asked, At, Idle
<1>13. \A i \in DOMAIN rows : i # k => rows'[i] = rows[i] /\ told'[i] = told[i]
  BY <1>1, <1>2, <1>4, <1>6, RowsAreIds DEF Typed
<1> QED BY <1>1, <1>2, <1>6, <1>9, <1>11, <1>12, <1>13, OneOfThem

LEMMA RecordReminderSays ==
  ASSUME IInv, RecordReminder
  PROVE  RowsInv'
<1>1. Typed /\ RowsInv
  BY DEF IInv
<1>2. /\ Typed' /\ DOMAIN rows' = DOMAIN rows /\ sweep.id \in DOMAIN rows
      /\ rows'[sweep.id] = [rows[sweep.id] EXCEPT !.since = sweep.now]
      /\ \A i \in DOMAIN rows : i # sweep.id => rows'[i] = rows[i]
  BY <1>1, RecordReminderTyped
<1>3. sweep # Idle /\ sweep.stage = "reminding" /\ sweep.now \in Nat
  BY <1>1, SweepShape DEF Typed, RecordReminder, SweepStages, Sweeps, Times
<1>4. PICK k \in DOMAIN rows : k = sweep.id
  BY <1>2
<1>5. Asked(k) /\ Stopped(k)
  BY <1>1 DEF RowsInv
<1>6. UNCHANGED <<clock, told>>
  BY DEF RecordReminder, world
<1>7. rows[k] \in Row
  BY <1>1, RowsAreIds DEF Typed
<1>8. /\ rows'[k].opened = rows[k].opened /\ rows'[k].since = sweep.now
      /\ rows'[k].escalated = rows[k].escalated /\ Over(rows'[k]) = Over(rows[k])
  BY <1>2, <1>4, <1>7 DEF Row, Over
<1>9. /\ sweep.now <= clock /\ told[k].late <= 1
      /\ \E every \in Intervals : sweep.now - rows[k].since >= every
  BY <1>3, <1>4, <1>5 DEF Asked, Stopped, At
<1>10. PICK every \in Intervals : sweep.now - rows[k].since >= every
  BY <1>9
<1>11. sweep'.id = k /\ sweep'.stage = "reminded"
  BY <1>1, <1>3, <1>4, SweepsOn DEF RecordReminder, Typed, SweepStages
<1>12. /\ rows[k].opened \in Nat /\ rows[k].since \in Nat /\ told[k].reminders \in Nat
       /\ rows[k].opened <= rows[k].since /\ every \in Nat
  BY <1>1, <1>5, RowNumbers, IntervalsTyped DEF Asked
<1> DEFINE n == told[k].reminders
           d == rows[k].since - rows[k].opened
           g == sweep.now - rows[k].since
<1>13. Spaced(n, d) /\ d \in Nat /\ g \in Int /\ g >= every /\ d + g = sweep.now - rows[k].opened
       /\ d <= d + g /\ rows[k].opened <= sweep.now
  BY <1>3, <1>5, <1>10, <1>12 DEF Asked
<1>14. Spaced(n + 1, d + g)
  BY <1>12, <1>13, SpacedOnceMore
<1>15. Spaced(n, d + g)
  BY <1>12, <1>13, SpacedLonger
<1>16. Spaced(told[k].reminders + 1, sweep.now - rows[k].opened)
       /\ Spaced(told[k].reminders, sweep.now - rows[k].opened)
  BY <1>13, <1>14, <1>15
<1> HIDE DEF n, d, g
<1>17. Stopped(k)'
  BY <1>5, <1>6, <1>8, <1>9, <1>11 DEF Stopped, At
<1>18. Asked(k)'
  BY <1>5, <1>6, <1>8, <1>9, <1>11, <1>13, <1>16 DEF Asked, At
<1> QED BY <1>1, <1>2, <1>4, <1>6, <1>11, <1>17, <1>18, OneOfThem

LEMMA SendReminderSays ==
  ASSUME IInv, SendReminder
  PROVE  RowsInv'
<1>1. Typed /\ RowsInv
  BY DEF IInv
<1>2. /\ Typed' /\ sweep.id \in DOMAIN rows
      /\ told'[sweep.id].escalations = told[sweep.id].escalations
      /\ told'[sweep.id].late = told[sweep.id].late + Late
      /\ told'[sweep.id].reminders = told[sweep.id].reminders + 1
      /\ \A i \in Ids : i # sweep.id => told'[i] = told[i]
  BY <1>1, SendReminderTyped
<1>3. sweep # Idle /\ sweep.stage = "reminded"
  BY <1>1, SweepShape DEF Typed, SendReminder, SweepStages
<1>4. PICK k \in DOMAIN rows : k = sweep.id
  BY <1>2
<1>5. Asked(k) /\ Stopped(k)
  BY <1>1 DEF RowsInv
<1>6. UNCHANGED <<rows, clock>>
  BY DEF SendReminder, world
<1>7. Late \in 0..1 /\ (~Over(rows[k]) => Late = 0) /\ told[k].late \in Nat
  BY <1>1, <1>4, RowNumbers DEF Late
<1>8. told[k].late <= 1 /\ Spaced(told[k].reminders + 1, rows[k].since - rows[k].opened)
  BY <1>3, <1>4, <1>5 DEF Asked, Stopped, At
<1>9. sweep' = Idle
  BY <1>1, <1>3, SweepsOn DEF SendReminder, Typed, SweepStages
<1>10. Stopped(k)'
  BY <1>2, <1>4, <1>5, <1>6, <1>7, <1>8, <1>9 DEF Stopped, At, Idle
<1>11. Asked(k)'
  BY <1>2, <1>4, <1>5, <1>6, <1>8, <1>9 DEF Asked, At, Idle
<1>12. \A i \in DOMAIN rows : i # k => rows'[i] = rows[i] /\ told'[i] = told[i]
  BY <1>1, <1>2, <1>4, <1>6, RowsAreIds DEF Typed
<1> QED BY <1>1, <1>2, <1>6, <1>9, <1>10, <1>11, <1>12, OneOfThem
-----------------------------------------------------------------------------
(***************************************************************************)
(* The invariant.                                                          *)
(***************************************************************************)

\* It holds before the check's first incident.
LEMMA InitInv == Init => IInv
<1> SUFFICES ASSUME Init
             PROVE  IInv
  OBVIOUS
<1>1. rows = <<>> /\ DOMAIN rows = {} /\ eval = Idle /\ sweep = Idle
  BY DEF Init
<1>2. RowsTyped
  BY <1>1, BoundsAssumption DEF RowsTyped
<1>3. WorldTyped
  <2>1. clock = 0 /\ faults = 0 /\ confirmed = "Up" /\ deleted = FALSE
        /\ quiet = "no" /\ rules \in RuleSets
    BY DEF Init
  <2>2. 0 \in Times /\ 0 \in 0..MaxFaults
    BY BoundsAssumption DEF Times
  <2> QED BY <2>1, <2>2 DEF WorldTyped
<1>4. told \in [Ids -> Tellings]
  BY DEF Init, Untold, Tellings
<1>5. Typed
  BY <1>1, <1>2, <1>3, <1>4 DEF Typed, EvalTyped, SweepTyped
<1>6. OneOpen
  BY <1>1 DEF OneOpen, Open, Idle
<1>7. RowsInv /\ UntoldYet
  BY <1>1 DEF RowsInv, UntoldYet, Init
<1> QED BY <1>5, <1>6, <1>7 DEF IInv

\* An evaluation opens an incident only when it saw none open, and closes or
\* changes the one it saw: one is open at a time.
LEMMA OneOpenStep ==
  ASSUME IInv, [Next]_vars, Typed'
  PROVE  OneOpen'
<1>1. Typed /\ OneOpen
  BY DEF IInv
<1>2. CASE \E news \in Troubles \union {"Up"} : Judge(news)
  <2>1. rows' = rows /\ eval'.stage = "judged"
    BY <1>2 DEF Judge
  <2> QED BY <1>1, <2>1 DEF OneOpen, Open
<1>3. CASE FindIncident
  <2>1. rows' = rows /\ eval'.stage = "found" /\ eval'.open = Open
    BY <1>3 DEF FindIncident
  <2> QED BY <1>1, <2>1 DEF OneOpen, Open
<1>4. CASE RecordIncident
  <2>1. eval'.stage = "recorded" /\ eval'.open = eval.open /\ eval.stage = "found"
    BY <1>4 DEF RecordIncident
  <2>2. CASE OpensIncident
    <3>1. Open = {}
      BY <1>1, <2>1, <2>2 DEF OneOpen, OpensIncident
    <3>2. /\ DOMAIN rows' = DOMAIN rows \union {Len(rows) + 1}
          /\ \A i \in DOMAIN rows : rows'[i] = rows[i]
      BY <1>1, <1>4, <2>2, RecordedRows
    <3>3. Open' \subseteq {Len(rows) + 1}
      BY <3>1, <3>2 DEF Open
    <3> QED BY <1>1, <2>1, <3>2, <3>3 DEF OneOpen
  <2>3. CASE ~OpensIncident
    <3>1. /\ DOMAIN rows' = DOMAIN rows
          /\ \A i \in DOMAIN rows : rows[i].closed => rows'[i].closed
      BY <1>1, <1>4, <2>3, RecordedRows
    <3>2. Open' \subseteq Open
      BY <3>1 DEF Open
    <3> QED BY <1>1, <2>1, <3>1, <3>2 DEF OneOpen
  <2> QED BY <2>2, <2>3
<1>5. CASE Notify
  BY <1>1, <1>5 DEF Notify, Idle, OneOpen, Open
<1>6. CASE Acknowledge \/ DeleteCheck
  <2>1. DOMAIN rows' = DOMAIN rows /\ \A i \in DOMAIN rows : rows[i].closed => rows'[i].closed
    BY <1>1, <1>6, RowsByPeople
  <2>2. Open' \subseteq Open
    BY <2>1 DEF Open
  <2>3. eval' = eval
    BY <1>6 DEF Acknowledge, DeleteCheck, world
  <2> QED BY <1>1, <2>1, <2>2, <2>3 DEF OneOpen
<1>7. CASE RecordEscalation
  <2>1. /\ DOMAIN rows' = DOMAIN rows /\ sweep.id \in DOMAIN rows
        /\ rows'[sweep.id] = [rows[sweep.id] EXCEPT !.escalated = TRUE]
        /\ \A i \in DOMAIN rows : i # sweep.id => rows'[i] = rows[i]
    BY <1>1, <1>7, RecordEscalationTyped
  <2>2. rows[sweep.id] \in Row
    BY <1>1, <2>1, RowsAreIds DEF Typed
  <2>3. Open' = Open
    BY <2>1, <2>2 DEF Open, Row
  <2> QED BY <1>1, <1>7, <2>1, <2>3 DEF OneOpen, RecordEscalation
<1>8. CASE RecordReminder
  <2>1. /\ DOMAIN rows' = DOMAIN rows /\ sweep.id \in DOMAIN rows
        /\ rows'[sweep.id] = [rows[sweep.id] EXCEPT !.since = sweep.now]
        /\ \A i \in DOMAIN rows : i # sweep.id => rows'[i] = rows[i]
    BY <1>1, <1>8, RecordReminderTyped
  <2>2. rows[sweep.id] \in Row
    BY <1>1, <2>1, RowsAreIds DEF Typed
  <2>3. Open' = Open
    BY <2>1, <2>2 DEF Open, Row
  <2> QED BY <1>1, <1>8, <2>1, <2>3 DEF OneOpen, RecordReminder
<1>9. CASE SweepFails \/ EvaluationFails \/ RestartHub
  <2>1. rows' = rows
    BY <1>1, <1>9, FaultsEnd
  <2>2. eval' \in {eval, Idle} \/ (eval'.stage = "recorded" /\ eval'.open = {})
    BY <1>1, <1>9, FaultsEnd
  <2> QED BY <1>1, <2>1, <2>2 DEF OneOpen, Open, Idle
<1>10. CASE ListIncidents \/ ReadRules \/ AskQuiet \/ SendEscalation \/ SendReminder
            \/ Quieten \/ SaveRules \/ Tick \/ UNCHANGED vars
  <2>1. rows' = rows /\ eval' = eval
    BY <1>10 DEF ListIncidents, ReadRules, AskQuiet, SendEscalation, SendReminder, Quieten, SaveRules, Tick,
                 vars
  <2> QED BY <1>1, <2>1 DEF OneOpen, Open
<1> QED BY <1>2, <1>3, <1>4, <1>5, <1>6, <1>7, <1>8, <1>9, <1>10 DEF Next, Evaluate, Sweep

\* Every step keeps it.
LEMMA NextInv == IInv /\ [Next]_vars => IInv'
<1> SUFFICES ASSUME IInv, [Next]_vars
             PROVE  IInv'
  OBVIOUS
<1>1. Typed /\ RowsInv /\ UntoldYet
  BY DEF IInv
<1>2. Typed'
  <2>1. CASE UNCHANGED vars
    BY <1>1, <2>1 DEF vars, world, Typed, RowsTyped, WorldTyped, EvalTyped, SweepTyped
  <2>2. CASE Next
    BY <1>1, <2>2, JudgeTyped, FindTyped, RecordTyped, NotifyTyped, ListTyped, ReadTyped, AskTyped,
       RecordEscalationTyped, SendEscalationTyped, RecordReminderTyped, SendReminderTyped,
       PeopleTyped, FaultsEnd DEF Next, Evaluate, Sweep
  <2> QED BY <2>1, <2>2
<1>3. OneOpen'
  BY <1>2, OneOpenStep
<1>4. RowsInv' /\ UntoldYet'
  <2>1. CASE UNCHANGED vars
    <3>1. UNCHANGED <<rows, clock, sweep, told>>
      BY <2>1 DEF vars, world
    <3>2. clock \in Int
      BY <1>1 DEF Typed, WorldTyped, Times
    <3>3. RowsInv'
      BY <1>1, <1>2, <3>1, <3>2, NothingSaidOfAny
    <3> QED BY <1>1, <3>1, <3>3 DEF UntoldYet
  <2>2. CASE (\E news \in Troubles \union {"Up"} : Judge(news)) \/ FindIncident \/ Notify
    BY <2>2, EvaluationSays
  <2>3. CASE RecordIncident
    BY <2>3, RecordSays
  <2>4. CASE Acknowledge \/ DeleteCheck \/ Quieten \/ SaveRules \/ Tick
    BY <2>4, PeopleSay
  <2>5. CASE SweepFails \/ EvaluationFails \/ RestartHub
    BY <2>5, FaultsSay
  <2>6. CASE ListIncidents
    BY <1>1, <2>6, ListSays DEF ListIncidents, UntoldYet
  <2>r. CASE ReadRules
    BY <1>1, <2>r, ReadSays DEF ReadRules, UntoldYet
  <2>7. CASE AskQuiet
    BY <1>1, <2>7, AskSays DEF AskQuiet, UntoldYet
  <2>8. CASE RecordEscalation
    BY <1>1, <2>8, RecordEscalationSays, RecordEscalationTyped DEF RecordEscalation, UntoldYet
  <2>9. CASE SendEscalation
    BY <1>1, <2>9, SendEscalationSays, SendEscalationTyped DEF SendEscalation, UntoldYet
  <2>10. CASE RecordReminder
    BY <1>1, <2>10, RecordReminderSays, RecordReminderTyped DEF RecordReminder, UntoldYet
  <2>11. CASE SendReminder
    BY <1>1, <2>11, SendReminderSays, SendReminderTyped DEF SendReminder, UntoldYet
  <2> QED BY <2>1, <2>2, <2>3, <2>4, <2>5, <2>6, <2>r, <2>7, <2>8, <2>9, <2>10, <2>11
          DEF Next, Evaluate, Sweep
<1> QED BY <1>2, <1>3, <1>4 DEF IInv

\* It implies what the runs check.
LEMMA WhatItMeans == IInv => TypeOK /\ NoMoreThanAsked /\ StopsWhenOver
<1> SUFFICES ASSUME IInv
             PROVE  TypeOK /\ NoMoreThanAsked /\ StopsWhenOver
  OBVIOUS
<1>1. Typed /\ OneOpen /\ RowsInv
  BY DEF IInv
<1>2. Cardinality(Open) <= 1
  <2>1. CASE Open = {}
    BY <2>1, FS_EmptySet
  <2>2. CASE Open # {}
    <3>1. PICK i \in Open : Open = {i}
      BY <1>1, <2>2 DEF OneOpen
    <3> QED BY <3>1, FS_Singleton
  <2> QED BY <2>1, <2>2
<1>3. Len(rows) \in 0..MaxIncidents
  BY <1>1, RowsAreIds, BoundsAssumption DEF Typed, RowsTyped
<1>4. TypeOK
  BY <1>1, <1>2, <1>3 DEF TypeOK, Typed, RowsTyped, WorldTyped, EvalTyped, SweepTyped
<1>5. ASSUME NEW i \in DOMAIN rows
      PROVE  /\ told[i].escalations <= 1 /\ told[i].late <= 2
             /\ told[i].reminders > 0 =>
                  \E every \in Intervals : told[i].reminders * every <= clock - rows[i].opened
  <2>1. Asked(i) /\ Stopped(i)
    BY <1>1 DEF RowsInv
  <2>2. /\ rows[i].opened \in Nat /\ rows[i].since \in Nat /\ clock \in Nat
        /\ told[i].reminders \in Nat
    BY <1>1, RowNumbers
  <2>3. Spaced(told[i].reminders, clock - rows[i].opened)
    <3>1. rows[i].since - rows[i].opened <= clock - rows[i].opened
      BY <2>1, <2>2 DEF Asked
    <3> QED BY <2>1, <2>2, <3>1, SpacedLonger DEF Asked
  <2> QED BY <2>1, <2>2, <2>3 DEF Asked, Stopped, Spaced
<1> QED BY <1>4, <1>5 DEF NoMoreThanAsked, StopsWhenOver
-----------------------------------------------------------------------------
(***************************************************************************)
(* The theorems.                                                           *)
(***************************************************************************)

\* The invariant holds throughout.
LEMMA Throughout == Spec => []IInv
BY InitInv, NextInv, PTL DEF Spec

\* Every variable keeps its type, at most one incident of a check is open, and
\* the sweep holds one of its incidents (incidents.rs: one open incident a check).
THEOREM TypeCorrect == Spec => []TypeOK
BY Throughout, WhatItMeans, PTL

\* However the hub restarts, its sweeps fail and people edit the rules, an
\* incident is escalated once, and reminded of no more often than one of the
\* rules asked: last_reminded_at is recorded before the reminder is sent
\* (followups.rs).
THEOREM OnlyAsAsked == Spec => []NoMoreThanAsked
BY Throughout, WhatItMeans, PTL

\* What is over, or taken by someone, is followed up by no more than the one
\* sweep that had listed it before: one escalation and one reminder
\* (followups.rs).
THEOREM OverIsOver == Spec => []StopsWhenOver
BY Throughout, WhatItMeans, PTL
===============================================================================
