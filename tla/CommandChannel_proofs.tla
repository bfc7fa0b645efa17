-------------------------- MODULE CommandChannel_proofs --------------------------
(***************************************************************************)
(* Proofs about CommandChannel, for any number of commands, people, polls  *)
(* and faults.  What the probe remembers bounds how often it runs a        *)
(* command, and the report under way accounts for every result the hub has *)
(* not recorded.                                                           *)
(***************************************************************************)
EXTENDS CommandChannel, TLAPS

\* The commands that came to be queued; what is sent or run is among them.
Known == {c \in Commands : cmd[c] \notin {"none", "clicked"}}

OnlyKnown ==
  /\ \A r \in Requests : req[r].list \subseteq Known
  /\ polled \subseteq Known /\ results \subseteq Known /\ outbox \subseteq Known
  /\ \A c \in Commands : runs[c] > 0 => c \in Known

\* A run is remembered, but for one each time the probe went down.
Remembered ==
  /\ \A c \in done : runs[c] <= 1 + crashes
  /\ \A c \in Commands \ done : runs[c] <= crashes
  /\ crashes <= faults

\* What a report says of the results in it, as long as nothing fails: it has
\* them all when it is saved, and afterwards the hub waits for none of them.
Accounted ==
  faults = 0 =>
    CASE At("report", "away")  -> outbox = {}
      [] At("report", "saved") -> req["report"].list = outbox
      [] OTHER                 -> \A c \in outbox : cmd[c] \notin Waiting

IInv == TypeOK /\ OnlyKnown /\ Remembered /\ Accounted /\ ResultOnItsWay
-----------------------------------------------------------------------------
LEMMA InitHolds == Init => IInv
<1> SUFFICES ASSUME Init PROVE IInv
  OBVIOUS
<1> USE DEF Init, Away, Known
<1>1. TypeOK
  BY BoundsAssumption DEF TypeOK, Stages, Waiting
<1>2. OnlyKnown /\ Remembered /\ ResultOnItsWay
  BY DEF OnlyKnown, Remembered, ResultOnItsWay
<1>3. Accounted
  BY DEF Accounted, At, Requests
<1> QED BY <1>1, <1>2, <1>3 DEF IInv
-----------------------------------------------------------------------------
\* A request goes on: the others stay where they are.
LEMMA GoesFacts ==
  ASSUME TypeOK, NEW r \in Requests, NEW stage \in Stages, NEW list \in SUBSET Commands,
         Goes(r, stage, list)
  PROVE  /\ req' \in [Requests -> [stage : Stages, list : SUBSET Commands]]
         /\ req'[r].stage = stage /\ req'[r].list = list
         /\ \A q \in Requests \ {r} : req'[q] = req[q]
BY DEF TypeOK, Goes

\* To receive commands is to remember them, to run the new ones once, and to
\* have their results.
LEMMA ReceiveFacts ==
  ASSUME TypeOK, Remembered, NEW list \in SUBSET Commands, Receive(list)
  PROVE  /\ done' \in SUBSET Commands /\ results' \in SUBSET Commands
         /\ runs' \in [Commands -> 0..(1 + MaxFaults)]
         /\ \A c \in done' : runs'[c] <= 1 + crashes
         /\ \A c \in Commands \ done' : runs'[c] <= crashes
         /\ results \subseteq results' /\ results' \subseteq results \union list
         /\ \A c \in Commands : runs'[c] > 0 => runs[c] > 0 \/ c \in results' \cap list
<1>1. done' \in SUBSET Commands /\ results' \in SUBSET Commands
  BY DEF TypeOK, Receive, New
<1>2. \A c \in Commands : runs'[c] = IF c \in list \ done THEN runs[c] + 1 ELSE runs[c]
  BY DEF Receive, New
<1>3. \A c \in Commands : runs[c] \in Nat /\ crashes \in 0..MaxFaults
  BY BoundsAssumption DEF TypeOK
<1>4. /\ \A c \in done' : runs'[c] <= 1 + crashes
      /\ \A c \in Commands \ done' : runs'[c] <= crashes
  BY <1>2, <1>3 DEF Remembered, Receive, New, TypeOK
<1>5. \A c \in Commands : runs'[c] \in 0..(1 + MaxFaults)
  BY <1>2, <1>3, <1>4, BoundsAssumption
<1>6. runs' \in [Commands -> 0..(1 + MaxFaults)]
  BY <1>5 DEF Receive
<1>7. \A c \in Commands : runs'[c] > 0 => runs[c] > 0 \/ c \in results' \cap list
  BY <1>2, <1>3 DEF Receive, New
<1> QED BY <1>1, <1>4, <1>6, <1>7 DEF Receive, New

LEMMA TypesKept ==
  ASSUME TypeOK, Remembered, [Next]_vars
  PROVE  TypeOK'
<1> USE BoundsAssumption DEF Waiting, Stages, Requests, hubVars, probeVars
<1>1. ASSUME NEW u \in Users, Click(u) \/ UserStep(u) \/ DropClick(u)
      PROVE  TypeOK'
  <2>1. CASE Click(u)
    BY <2>1 DEF TypeOK, Click, Commands
  <2>2. CASE Create(u)
    BY <2>2 DEF TypeOK, Create
  <2>3. CASE Wake(u)
    BY <2>3 DEF TypeOK, Wake
  <2>4. CASE DropClick(u)
    <3>1. user[u] \in Commands
      BY <2>4 DEF TypeOK, DropClick, Commands
    <3>2. cmd' \in [Commands -> Waiting \union {"none", "clicked", "done", "cancelled"}]
      BY <2>4 DEF TypeOK, DropClick
    <3> QED BY <2>4, <3>1, <3>2 DEF TypeOK, DropClick, Fault
  <2> QED BY <1>1, <2>1, <2>2, <2>3, <2>4 DEF UserStep
<1>2. ASSUME NEW r \in Requests, ReadPending(r)
      PROVE  TypeOK'
  <2>1. PICK stage \in Stages, list \in SUBSET Commands : Goes(r, stage, list)
    BY <1>2 DEF ReadPending, Pending
  <2> QED BY <1>2, <2>1, GoesFacts DEF TypeOK, ReadPending
<1>3. ASSUME NEW r \in Requests, MarkDelivered(r)
      PROVE  TypeOK'
  <2>1. req[r].list \in SUBSET Commands
    BY DEF TypeOK
  <2>2. req' \in [Requests -> [stage : Stages, list : SUBSET Commands]]
    BY <1>3, <2>1, GoesFacts DEF MarkDelivered
  <2> QED BY <1>3, <2>2 DEF TypeOK, MarkDelivered
<1>4. ASSUME NEW p \in Polls, Hold(p) \/ HoldFull(p) \/ EndHold(p) \/ DropPoll(p)
      PROVE  TypeOK'
  <2>1. \E stage \in Stages : Goes(p, stage, {})
    BY <1>4 DEF Hold, HoldFull, EndHold, DropPoll
  <2>2. req' \in [Requests -> [stage : Stages, list : SUBSET Commands]]
    BY <2>1, GoesFacts
  <2> QED BY <1>4, <2>2 DEF TypeOK, Hold, HoldFull, EndHold, DropPoll
<1>5. ASSUME NEW p \in Polls, Poll(p) \/ HearPoll(p)
      PROVE  TypeOK'
  <2>1. \E stage \in Stages : Goes(p, stage, {})
    BY <1>5 DEF Poll, HearPoll
  <2>2. req' \in [Requests -> [stage : Stages, list : SUBSET Commands]]
    BY <2>1, GoesFacts
  <2>3. req[p].list \in SUBSET Commands
    BY DEF TypeOK
  <2> QED BY <1>5, <2>2, <2>3 DEF TypeOK, Poll, HearPoll
<1>6. CASE Cancel \/ Expire
  BY <1>6 DEF TypeOK, Cancel, Expire
<1>7. CASE Report \/ RecordResults
  <2>1. \E stage \in Stages, list \in SUBSET Commands : Goes("report", stage, list)
    BY <1>7 DEF TypeOK, Report, RecordResults
  <2>2. req' \in [Requests -> [stage : Stages, list : SUBSET Commands]]
    BY <2>1, GoesFacts
  <2> QED BY <1>7, <2>2 DEF TypeOK, Report, RecordResults
<1>8. CASE HearReport
  <2>1. req["report"].list \in SUBSET Commands
    BY DEF TypeOK
  <2>2. req' \in [Requests -> [stage : Stages, list : SUBSET Commands]]
    BY <1>8, GoesFacts, "report" \in Requests, "away" \in Stages, {} \in SUBSET Commands
       DEF HearReport
  <2>3. /\ done' \in SUBSET Commands /\ results' \in SUBSET Commands
        /\ runs' \in [Commands -> 0..(1 + MaxFaults)]
    BY <1>8, <2>1, ReceiveFacts DEF HearReport
  <2> QED BY <1>8, <2>2, <2>3 DEF TypeOK, HearReport
<1>9. CASE RunPolled
  <2>1. /\ done' \in SUBSET Commands /\ results' \in SUBSET Commands
        /\ runs' \in [Commands -> 0..(1 + MaxFaults)]
    BY <1>9, ReceiveFacts DEF RunPolled, TypeOK
  <2> QED BY <1>9, <2>1 DEF TypeOK, RunPolled
<1>10. CASE LoseReport \/ LoseResults \/ GiveUpPoll
  <2>1. req' \in [Requests -> [stage : Stages, list : SUBSET Commands]]
    BY <1>10, GoesFacts DEF TypeOK, LoseReport, LoseResults, GiveUpPoll
  <2> QED BY <1>10, <2>1 DEF TypeOK, LoseReport, LoseResults, GiveUpPoll, Fault
<1>11. CASE RestartProbe
  BY <1>11 DEF TypeOK, RestartProbe, Fault, Remembered, Away
<1>12. CASE RestartHub
  BY <1>12 DEF TypeOK, RestartHub, Fault, Away
<1>13. CASE UNCHANGED vars
  BY <1>13 DEF TypeOK, vars
<1> QED BY <1>1, <1>2, <1>3, <1>4, <1>5, <1>6, <1>7, <1>8, <1>9, <1>10, <1>11, <1>12, <1>13
        DEF Next, PollStep, ReportStep, PollerStep
-----------------------------------------------------------------------------
\* What becomes of the commands in one step: a known one stays known, and what
\* waits afterwards waited before or is being queued.
LEMMA CommandsGoOn ==
  ASSUME TypeOK, [Next]_vars
  PROVE  \A c \in Commands :
           /\ c \in Known => c \in Known'
           /\ cmd'[c] \in Waiting => cmd[c] \in Waiting \/ c \notin Known
<1> USE DEF Known, Waiting, Requests, hubVars
<1>1. ASSUME NEW u \in Users, Click(u) \/ UserStep(u) \/ DropClick(u)
      PROVE  \A c \in Commands :
               cmd'[c] = cmd[c] \/ cmd[c] \in {"none", "clicked"}
  <2>1. CASE Click(u)
    <3>1. PICK c \in Commands : /\ \A d \in Commands : cmd[d] = "none" <=> d >= c
                                /\ cmd' = [cmd EXCEPT ![c] = "clicked"]
      BY <2>1 DEF Click
    <3>2. cmd[c] = "none"
      BY <3>1 DEF Commands
    <3> QED BY <3>1, <3>2 DEF TypeOK
  <2>2. CASE UserStep(u)
    BY <2>2 DEF TypeOK, UserStep, Create, Wake
  <2>3. CASE DropClick(u)
    BY <2>3 DEF TypeOK, DropClick
  <2> QED BY <1>1, <2>1, <2>2, <2>3
<1>2. ASSUME NEW r \in Requests, ReadPending(r) \/ MarkDelivered(r)
      PROVE  \A c \in Commands : cmd'[c] = cmd[c] \/ (cmd[c] = "queued" /\ cmd'[c] = "delivered")
  <2>1. CASE ReadPending(r)
    BY <2>1 DEF ReadPending
  <2>2. CASE MarkDelivered(r)
    BY <2>2 DEF MarkDelivered
  <2> QED BY <1>2, <2>1, <2>2
<1>3. ASSUME NEW p \in Polls, Hold(p) \/ HoldFull(p) \/ EndHold(p) \/ DropPoll(p) \/ Poll(p) \/ HearPoll(p)
      PROVE  cmd' = cmd
  BY <1>3 DEF Hold, HoldFull, EndHold, DropPoll, Poll, HearPoll
<1>4. CASE Cancel \/ RecordResults
  BY <1>4 DEF TypeOK, Cancel, RecordResults, Completes
<1>5. CASE RestartHub
  BY <1>5 DEF TypeOK, RestartHub
<1>6. CASE \/ Expire \/ Report \/ HearReport \/ RunPolled \/ LoseReport \/ LoseResults
           \/ GiveUpPoll \/ RestartProbe \/ UNCHANGED vars
  BY <1>6 DEF Expire, Report, HearReport, RunPolled, LoseReport, LoseResults,
              GiveUpPoll, RestartProbe, vars
<1> QED BY <1>1, <1>2, <1>3, <1>4, <1>5, <1>6
        DEF Next, UserStep, PollStep, ReportStep, PollerStep

LEMMA OnlyKnownKept ==
  ASSUME TypeOK, OnlyKnown, Remembered, [Next]_vars
  PROVE  OnlyKnown'
<1>1. Known \subseteq Known' /\ Known \subseteq Commands
  BY CommandsGoOn DEF Known
<1> DEFINE Lists == \A r \in Requests : req'[r].list \subseteq Known'
           Probe == /\ polled' \subseteq Known' /\ results' \subseteq Known' /\ outbox' \subseteq Known'
                    /\ \A c \in Commands : runs'[c] > 0 => c \in Known'
<1> SUFFICES Lists /\ Probe
  BY DEF OnlyKnown
<1> USE DEF Requests
<1>2. ASSUME NEW r \in Requests, NEW stage \in Stages, NEW list \in SUBSET Known,
             Goes(r, stage, list)
      PROVE  Lists
  <2>1. list \in SUBSET Commands
    BY <1>1
  <2> QED BY <1>1, <1>2, <2>1, GoesFacts DEF OnlyKnown
<1>3. ASSUME UNCHANGED <<polled, results, outbox, runs>>
      PROVE  Probe
  BY <1>1, <1>3 DEF OnlyKnown
<1>4. ASSUME req' = req
      PROVE  Lists
  BY <1>1, <1>4 DEF OnlyKnown
<1>5. ASSUME NEW list \in SUBSET Known, Receive(list), UNCHANGED outbox \/ outbox' = {},
             UNCHANGED polled \/ polled' = {}
      PROVE  Probe
  <2>1. list \in SUBSET Commands
    BY <1>1
  <2> QED BY <1>1, <1>5, <2>1, ReceiveFacts DEF OnlyKnown
<1>6. ASSUME NEW u \in Users, Click(u) \/ UserStep(u) \/ DropClick(u)
      PROVE  Lists /\ Probe
  BY <1>3, <1>4, <1>6 DEF Click, UserStep, Create, Wake, DropClick, probeVars
<1>7. ASSUME NEW r \in Requests, ReadPending(r)
      PROVE  Lists /\ Probe
  <2>1. Pending \subseteq Known
    BY DEF Pending, Known, Waiting
  <2>2. PICK stage \in Stages, list \in SUBSET Known : Goes(r, stage, list)
    BY <1>7, <2>1 DEF ReadPending, Stages
  <2> QED BY <1>2, <1>3, <1>7, <2>2 DEF ReadPending, probeVars
<1>8. ASSUME NEW r \in Requests, MarkDelivered(r)
      PROVE  Lists /\ Probe
  <2>1. req[r].list \in SUBSET Known
    BY DEF OnlyKnown
  <2> QED BY <1>2, <1>3, <1>8, <2>1 DEF MarkDelivered, probeVars, Stages
<1>9. ASSUME NEW p \in Polls, Hold(p) \/ HoldFull(p) \/ EndHold(p) \/ DropPoll(p) \/ Poll(p) \/ HearPoll(p)
      PROVE  Lists /\ Probe
  <2>1. \E stage \in Stages : Goes(p, stage, {})
    BY <1>9 DEF Hold, HoldFull, EndHold, DropPoll, Poll, HearPoll, Stages
  <2>2. Lists
    BY <1>2, <2>1
  <2>3. CASE HearPoll(p)
    BY <1>1, <2>2, <2>3 DEF HearPoll, OnlyKnown
  <2> QED BY <1>3, <1>9, <2>2, <2>3 DEF Hold, HoldFull, EndHold, DropPoll, Poll, probeVars
<1>10. CASE Cancel \/ Expire
  BY <1>3, <1>4, <1>10 DEF Cancel, Expire, probeVars
<1>11. CASE Report
  <2>1. outbox' \in SUBSET Known
    BY <1>11 DEF Report, OnlyKnown
  <2>2. Lists
    BY <1>2, <1>11, <2>1 DEF Report, Stages
  <2> QED BY <1>1, <1>11, <2>1, <2>2 DEF Report, OnlyKnown
<1>12. CASE RecordResults
  BY <1>2, <1>3, <1>12 DEF RecordResults, probeVars, Stages
<1>13. CASE HearReport
  <2>1. req["report"].list \in SUBSET Known
    BY DEF OnlyKnown
  <2>2. Lists
    BY <1>2, <1>13 DEF HearReport, Stages
  <2> QED BY <1>5, <1>13, <2>1, <2>2 DEF HearReport
<1>14. CASE RunPolled
  <2>1. polled \in SUBSET Known
    BY DEF OnlyKnown
  <2> QED BY <1>4, <1>5, <1>14, <2>1 DEF RunPolled, hubVars
<1>15. CASE LoseReport
  BY <1>2, <1>3, <1>15 DEF LoseReport, probeVars, Stages
<1>16. CASE LoseResults
  <2>1. Lists
    BY <1>2, <1>16 DEF LoseResults, Stages
  <2> QED BY <1>1, <1>16, <2>1 DEF LoseResults, OnlyKnown
<1>17. CASE GiveUpPoll
  BY <1>1, <1>4, <1>17 DEF GiveUpPoll, OnlyKnown, hubVars
<1>18. CASE RestartProbe
  BY <1>1, <1>18 DEF RestartProbe, OnlyKnown, Away, TypeOK
<1>19. CASE RestartHub
  BY <1>1, <1>19 DEF RestartHub, OnlyKnown, Away
<1>20. CASE UNCHANGED vars
  BY <1>3, <1>4, <1>20 DEF vars, hubVars, probeVars
<1> QED
  BY <1>6, <1>7, <1>8, <1>9, <1>10, <1>11, <1>12, <1>13, <1>14, <1>15, <1>16, <1>17, <1>18,
     <1>19, <1>20
     DEF Next, UserStep, PollStep, ReportStep, PollerStep

LEMMA RememberedKept ==
  ASSUME TypeOK, Remembered, [Next]_vars
  PROVE  Remembered'
<1> USE DEF Requests, hubVars, probeVars
<1>1. CASE HearReport
  <2>1. req["report"].list \in SUBSET Commands
    BY DEF TypeOK
  <2> QED BY <1>1, <2>1, ReceiveFacts DEF HearReport, Remembered
<1>2. CASE RunPolled
  BY <1>2, ReceiveFacts DEF RunPolled, Remembered, TypeOK
<1>3. CASE RestartProbe
  <2>1. \A c \in Commands : runs[c] <= 1 + crashes
    BY <1>3, BoundsAssumption DEF Remembered, TypeOK
  <2> QED BY <1>3, <2>1 DEF RestartProbe, Remembered, Fault, TypeOK
<1>4. ASSUME UNCHANGED <<done, runs, crashes>>, UNCHANGED faults \/ Fault
      PROVE  Remembered'
  BY <1>4, BoundsAssumption DEF Remembered, Fault, TypeOK
<1>5. ASSUME NEW u \in Users, Click(u) \/ UserStep(u) \/ DropClick(u)
      PROVE  Remembered'
  BY <1>4, <1>5 DEF Click, UserStep, Create, Wake, DropClick
<1>6. ASSUME NEW r \in Requests, ReadPending(r) \/ MarkDelivered(r)
      PROVE  Remembered'
  BY <1>4, <1>6 DEF ReadPending, MarkDelivered
<1>7. ASSUME NEW p \in Polls, Hold(p) \/ HoldFull(p) \/ EndHold(p) \/ DropPoll(p) \/ Poll(p) \/ HearPoll(p)
      PROVE  Remembered'
  BY <1>4, <1>7 DEF Hold, HoldFull, EndHold, DropPoll, Poll, HearPoll
<1>8. CASE \/ Cancel \/ Expire \/ Report \/ RecordResults \/ LoseReport \/ LoseResults
           \/ GiveUpPoll \/ RestartHub \/ UNCHANGED vars
  BY <1>4, <1>8 DEF Cancel, Expire, Report, RecordResults, LoseReport, LoseResults, GiveUpPoll,
                    RestartHub, vars
<1> QED BY <1>1, <1>2, <1>3, <1>5, <1>6, <1>7, <1>8
        DEF Next, UserStep, PollStep, ReportStep, PollerStep
-----------------------------------------------------------------------------
\* Requests of polls leave the report alone.
LEMMA PollsApart ==
  ASSUME TypeOK, NEW p \in Polls, NEW stage, NEW list, Goes(p, stage, list)
  PROVE  req'["report"] = req["report"]
BY NamesAssumption DEF TypeOK, Goes, Requests

\* The report's account stays right while nothing fails.  Only what it says
\* when it is saved depends on the probe; what the hub does afterwards makes no
\* known command wait again.
LEMMA AccountedKept ==
  ASSUME TypeOK, OnlyKnown, [Next]_vars, Accounted
  PROVE  Accounted'
<1> SUFFICES ASSUME faults' = 0 PROVE Accounted'
  BY DEF Accounted
<1> USE DEF Requests, hubVars, probeVars
<1>1. \A c \in outbox : cmd'[c] \in Waiting => cmd[c] \in Waiting
  BY CommandsGoOn DEF OnlyKnown, TypeOK
<1>2. "report" \in Requests
  OBVIOUS
<1>3. ASSUME req'["report"] = req["report"], outbox' = outbox, faults = 0
      PROVE  Accounted'
  BY <1>1, <1>3 DEF Accounted, At
<1>4. ASSUME NEW u \in Users, Click(u) \/ UserStep(u)
      PROVE  Accounted'
  BY <1>3, <1>4 DEF Click, UserStep, Create, Wake
<1>5. ASSUME NEW p \in Polls, \/ ReadPending(p) \/ MarkDelivered(p) \/ Hold(p) \/ HoldFull(p)
                              \/ EndHold(p) \/ DropPoll(p) \/ Poll(p) \/ HearPoll(p)
      PROVE  Accounted'
  <2>1. req'["report"] = req["report"]
    BY <1>5, PollsApart
       DEF ReadPending, MarkDelivered, Hold, HoldFull, EndHold, DropPoll, Poll, HearPoll
  <2>2. outbox' = outbox /\ faults' = faults
    BY <1>5 DEF ReadPending, MarkDelivered, Hold, HoldFull, EndHold, DropPoll, Poll, HearPoll
  <2> QED BY <1>3, <2>1, <2>2
<1>6. CASE ReadPending("report") \/ MarkDelivered("report")
  <2>1. outbox' = outbox /\ faults' = faults
    BY <1>6 DEF ReadPending, MarkDelivered
  <2>2. req["report"].stage \notin {"away", "saved"}
    BY <1>6 DEF ReadPending, MarkDelivered, At
  <2>3. req'["report"].stage \notin {"away", "saved"}
    BY <1>6 DEF ReadPending, MarkDelivered, Goes, TypeOK
  <2> QED BY <1>1, <2>1, <2>2, <2>3 DEF Accounted, At
<1>7. CASE Report
  BY <1>7 DEF Report, Accounted, At, Goes, TypeOK
<1>8. CASE RecordResults
  <2>1. outbox' = outbox /\ faults' = faults /\ outbox \subseteq Commands
    BY <1>8 DEF RecordResults, TypeOK
  <2>2. req["report"].list = outbox
    BY <1>8, <2>1 DEF RecordResults, Accounted, At
  <2>3. \A c \in outbox : cmd'[c] \notin Waiting
    BY <1>8, <2>1, <2>2 DEF RecordResults, Completes, Waiting
  <2>4. req'["report"].stage = "arrived"
    BY <1>8 DEF RecordResults, Goes, TypeOK
  <2> QED BY <2>1, <2>3, <2>4 DEF Accounted, At
<1>9. CASE HearReport
  BY <1>9 DEF HearReport, Accounted, At, Goes, TypeOK
<1>10. CASE Cancel \/ Expire \/ RunPolled \/ UNCHANGED vars
  BY <1>3, <1>10 DEF Cancel, Expire, RunPolled, vars
<1>11. ASSUME Fault
       PROVE  FALSE
  BY <1>11 DEF Fault, TypeOK
<1> QED BY <1>4, <1>5, <1>6, <1>7, <1>8, <1>9, <1>10, <1>11
        DEF Next, PollStep, ReportStep, PollerStep, DropClick, LoseReport, LoseResults,
            GiveUpPoll, RestartProbe, RestartHub

LEMMA ResultKept ==
  ASSUME TypeOK, OnlyKnown, Remembered, Accounted, ResultOnItsWay, [Next]_vars
  PROVE  ResultOnItsWay'
<1> SUFFICES ASSUME faults' = 0, NEW c \in Commands, runs'[c] > 0, cmd'[c] \in Waiting
             PROVE  c \in results' \union outbox'
  BY DEF ResultOnItsWay
<1> USE DEF Requests, hubVars, probeVars
<1>1. cmd[c] \in Waiting \/ c \notin Known
  BY CommandsGoOn
<1>2. faults = 0 /\ runs[c] > 0 => c \in results \union outbox
  BY <1>1 DEF ResultOnItsWay, OnlyKnown
<1>3. ASSUME NEW list \in SUBSET Commands, Receive(list), faults' = faults,
             UNCHANGED outbox \/ c \notin outbox, list \subseteq Known
      PROVE  c \in results' \union outbox'
  BY <1>2, <1>3, ReceiveFacts
<1>4. ASSUME results \union outbox \subseteq results' \union outbox', runs' = runs, faults' = faults
      PROVE  c \in results' \union outbox'
  BY <1>2, <1>4
<1>5. ASSUME NEW u \in Users, Click(u) \/ UserStep(u)
      PROVE  c \in results' \union outbox'
  BY <1>4, <1>5 DEF Click, UserStep, Create, Wake
<1>6. ASSUME NEW r \in Requests, ReadPending(r) \/ MarkDelivered(r)
      PROVE  c \in results' \union outbox'
  BY <1>4, <1>6 DEF ReadPending, MarkDelivered
<1>7. ASSUME NEW p \in Polls, Hold(p) \/ HoldFull(p) \/ EndHold(p) \/ DropPoll(p) \/ Poll(p) \/ HearPoll(p)
      PROVE  c \in results' \union outbox'
  BY <1>4, <1>7 DEF Hold, HoldFull, EndHold, DropPoll, Poll, HearPoll
<1>8. CASE HearReport
  <2>1. req["report"].list \in SUBSET Commands /\ req["report"].list \subseteq Known
    BY DEF TypeOK, OnlyKnown
  <2>2. faults' = faults /\ cmd' = cmd /\ At("report", "answered")
    BY <1>8 DEF HearReport
  <2>3. c \notin outbox
    BY <2>2 DEF Accounted, At
  <2> QED BY <1>3, <1>8, <2>1, <2>2, <2>3 DEF HearReport
<1>9. CASE RunPolled
  BY <1>3, <1>9 DEF RunPolled, TypeOK, OnlyKnown
<1>10. CASE Cancel \/ Expire \/ Report \/ RecordResults \/ UNCHANGED vars
  BY <1>4, <1>10 DEF Cancel, Expire, Report, RecordResults, vars
<1>11. ASSUME Fault
       PROVE  FALSE
  BY <1>11 DEF Fault, TypeOK
<1> QED BY <1>5, <1>6, <1>7, <1>8, <1>9, <1>10, <1>11
        DEF Next, PollStep, ReportStep, PollerStep, DropClick, LoseReport, LoseResults,
            GiveUpPoll, RestartProbe, RestartHub
-----------------------------------------------------------------------------
LEMMA IInvInductive == IInv /\ [Next]_vars => IInv'
<1> SUFFICES ASSUME IInv, [Next]_vars PROVE IInv'
  OBVIOUS
<1>1. TypeOK /\ OnlyKnown /\ Remembered /\ Accounted /\ ResultOnItsWay
  BY DEF IInv
<1>2. TypeOK' /\ OnlyKnown' /\ Remembered'
  BY <1>1, TypesKept, OnlyKnownKept, RememberedKept
<1>3. Accounted' /\ ResultOnItsWay'
  BY <1>1, AccountedKept, ResultKept
<1> QED BY <1>2, <1>3 DEF IInv

LEMMA IInvAlways == Spec => []IInv
BY InitHolds, IInvInductive, PTL DEF Spec

\* Every variable keeps to its values: no command runs more often than the
\* probe may go down, and once more.
THEOREM TypeCorrect == Spec => []TypeOK
<1>1. IInv => TypeOK
  BY DEF IInv
<1> QED BY <1>1, IInvAlways, PTL

\* A command runs more than once only after the probe that ran it went down
\* (remembered_done in probe/src/commands.rs), however often requests are lost
\* and sent again, and whichever of the two ways it came.
THEOREM RestartsOnly == Spec => []RunsNeedRestarts
<1>1. IInv => RunsNeedRestarts
  <2> SUFFICES ASSUME IInv, NEW c \in Commands PROVE runs[c] <= 1 + crashes
    BY DEF RunsNeedRestarts
  <2>1. runs[c] \in Nat /\ crashes \in Nat
    BY BoundsAssumption DEF IInv, TypeOK
  <2> QED BY <2>1 DEF IInv, Remembered
<1> QED BY <1>1, IInvAlways, PTL

\* Unless something fails, a command that ran and that the hub still waits for
\* has its result on the way (results taken into a report, record_results).
THEOREM ResultsUnderWay == Spec => []ResultOnItsWay
<1>1. IInv => ResultOnItsWay
  BY DEF IInv
<1> QED BY <1>1, IInvAlways, PTL
-----------------------------------------------------------------------------
(***************************************************************************)
(* Refinement: the channel implements the promise of CommandLog.           *)
(***************************************************************************)

\* The commands that were sent, or cancelled.
Sent == {c \in Commands : cmd[c] \notin {"none", "clicked", "queued"}}

\* What is under way was marked as sent, but for what is about to be.
SentFirst ==
  /\ \A r \in Requests : ~At(r, "listed") => req[r].list \subseteq Sent
  /\ polled \subseteq Sent
  /\ \A c \in Commands : runs[c] > 0 => c \in Sent

\* Results are of commands that ran.
RanFirst ==
  /\ \A c \in results \union outbox : runs[c] > 0
  /\ At("report", "saved") => \A c \in req["report"].list : runs[c] > 0

LogInv == IInv /\ SentFirst /\ RanFirst

\* What was sent stays so.
LEMMA SentGoesOn ==
  ASSUME TypeOK, [Next]_vars
  PROVE  Sent \subseteq Sent'
<1> SUFFICES ASSUME NEW c \in Commands, cmd[c] \notin {"none", "clicked", "queued"}
             PROVE  cmd'[c] \notin {"none", "clicked", "queued"}
  BY DEF Sent
<1> USE DEF Requests, hubVars
<1>1. ASSUME NEW u \in Users, Click(u) \/ UserStep(u) \/ DropClick(u)
      PROVE  cmd'[c] \notin {"none", "clicked", "queued"}
  <2>1. CASE Click(u)
    <3>1. PICK d \in Commands : /\ \A e \in Commands : cmd[e] = "none" <=> e >= d
                                /\ cmd' = [cmd EXCEPT ![d] = "clicked"]
      BY <2>1 DEF Click
    <3>2. cmd[d] = "none"
      BY <3>1 DEF Commands
    <3> QED BY <3>1, <3>2 DEF TypeOK
  <2>2. CASE UserStep(u)
    BY <2>2 DEF TypeOK, UserStep, Create, Wake
  <2>3. CASE DropClick(u)
    BY <2>3 DEF TypeOK, DropClick
  <2> QED BY <1>1, <2>1, <2>2, <2>3
<1>2. ASSUME NEW r \in Requests, ReadPending(r) \/ MarkDelivered(r)
      PROVE  cmd'[c] = cmd[c]
  BY <1>2 DEF TypeOK, ReadPending, MarkDelivered
<1>3. ASSUME NEW p \in Polls, Hold(p) \/ HoldFull(p) \/ EndHold(p) \/ DropPoll(p) \/ Poll(p) \/ HearPoll(p)
      PROVE  cmd' = cmd
  BY <1>3 DEF Hold, HoldFull, EndHold, DropPoll, Poll, HearPoll
<1>4. CASE Cancel \/ RecordResults \/ RestartHub
  BY <1>4 DEF TypeOK, Cancel, RecordResults, RestartHub
<1>5. CASE \/ Expire \/ Report \/ HearReport \/ RunPolled \/ LoseReport \/ LoseResults
           \/ GiveUpPoll \/ RestartProbe \/ UNCHANGED vars
  BY <1>5 DEF Expire, Report, HearReport, RunPolled, LoseReport, LoseResults,
              GiveUpPoll, RestartProbe, vars
<1> QED BY <1>1, <1>2, <1>3, <1>4, <1>5
        DEF Next, UserStep, PollStep, ReportStep, PollerStep

\* Results are of what ran, and what ran was sent.
LEMMA ResultsSent ==
  ASSUME TypeOK, SentFirst, RanFirst
  PROVE  results \subseteq Sent /\ outbox \subseteq Sent
BY DEF TypeOK, SentFirst, RanFirst

LEMMA SentFirstKept ==
  ASSUME IInv, SentFirst, RanFirst, [Next]_vars
  PROVE  SentFirst'
<1>1. TypeOK /\ OnlyKnown /\ Remembered
  BY DEF IInv
<1>2. Sent \subseteq Sent' /\ Sent \subseteq Commands
  BY <1>1, SentGoesOn DEF Sent
<1> DEFINE Lists == \A r \in Requests : ~At(r, "listed")' => req'[r].list \subseteq Sent'
           Probe == /\ polled' \subseteq Sent'
                    /\ \A c \in Commands : runs'[c] > 0 => c \in Sent'
<1> SUFFICES Lists /\ Probe
  BY DEF SentFirst, At
<1> USE DEF Requests
<1>3. ASSUME NEW r \in Requests, NEW stage \in Stages, NEW list \in SUBSET Commands,
             Goes(r, stage, list), stage = "listed" \/ list \subseteq Sent'
      PROVE  Lists
  BY <1>1, <1>2, <1>3, GoesFacts DEF SentFirst, At
<1>4. ASSUME UNCHANGED <<polled, runs>>
      PROVE  Probe
  BY <1>2, <1>4 DEF SentFirst
<1>5. ASSUME req' = req
      PROVE  Lists
  BY <1>2, <1>5 DEF SentFirst, At
<1>6. ASSUME NEW list \in SUBSET Sent, Receive(list), UNCHANGED polled \/ polled' = {}
      PROVE  Probe
  <2>1. list \in SUBSET Commands
    BY <1>2
  <2> QED BY <1>1, <1>2, <1>6, <2>1, ReceiveFacts DEF SentFirst
<1>7. ASSUME NEW u \in Users, Click(u) \/ UserStep(u) \/ DropClick(u)
      PROVE  Lists /\ Probe
  BY <1>4, <1>5, <1>7 DEF Click, UserStep, Create, Wake, DropClick, probeVars
<1>8. ASSUME NEW r \in Requests, ReadPending(r)
      PROVE  Lists /\ Probe
  <2>1. Pending \in SUBSET Commands
    BY DEF Pending
  <2>2. Goes(r, "listed", Pending) \/ Goes(r, "holding", {}) \/ Goes(r, "answered", {})
    BY <1>8 DEF ReadPending
  <2> QED BY <1>3, <1>4, <1>8, <2>1, <2>2 DEF ReadPending, probeVars, Stages
<1>9. ASSUME NEW r \in Requests, MarkDelivered(r)
      PROVE  Lists /\ Probe
  <2>1. req[r].list \subseteq Known /\ req[r].list \in SUBSET Commands
    BY <1>1 DEF OnlyKnown, Known
  <2>2. req[r].list \subseteq Sent'
    BY <1>9, <2>1 DEF MarkDelivered, Sent, Known
  <2> QED BY <1>3, <1>4, <1>9, <2>1, <2>2 DEF MarkDelivered, probeVars, Stages
<1>10. ASSUME NEW p \in Polls, Hold(p) \/ HoldFull(p) \/ EndHold(p) \/ DropPoll(p) \/ Poll(p)
       PROVE  Lists /\ Probe
  <2>1. \E stage \in Stages : Goes(p, stage, {})
    BY <1>10 DEF Hold, HoldFull, EndHold, DropPoll, Poll, Stages
  <2> QED BY <1>3, <1>4, <1>10, <2>1 DEF Hold, HoldFull, EndHold, DropPoll, Poll, probeVars
<1>11. ASSUME NEW p \in Polls, HearPoll(p)
       PROVE  Lists /\ Probe
  <2>1. Lists
    BY <1>3, <1>11 DEF HearPoll, Stages
  <2>2. req[p].list \subseteq Sent
    BY <1>11 DEF HearPoll, SentFirst, At
  <2> QED BY <1>2, <1>11, <2>1, <2>2 DEF HearPoll, SentFirst
<1>12. CASE Cancel \/ Expire
  BY <1>4, <1>5, <1>12 DEF Cancel, Expire, probeVars
<1>13. CASE Report
  <2>1. outbox' \subseteq Sent' /\ outbox' \in SUBSET Commands
    BY <1>1, <1>2, <1>13, ResultsSent DEF Report
  <2> QED BY <1>3, <1>4, <1>13, <2>1 DEF Report, Stages
<1>14. CASE RecordResults
  <2>1. Goes("report", "arrived", {}) /\ UNCHANGED <<polled, runs>>
    BY <1>14 DEF RecordResults, probeVars
  <2> QED BY <1>3, <1>4, <2>1 DEF Stages
<1>15. CASE HearReport
  <2>1. req["report"].list \in SUBSET Sent
    BY <1>15 DEF HearReport, SentFirst, At
  <2>2. Lists
    BY <1>3, <1>15 DEF HearReport, Stages
  <2> QED BY <1>6, <1>15, <2>1, <2>2 DEF HearReport
<1>16. CASE RunPolled
  <2>1. polled \in SUBSET Sent
    BY DEF SentFirst
  <2> QED BY <1>5, <1>6, <1>16, <2>1 DEF RunPolled, hubVars
<1>17. CASE LoseReport \/ LoseResults
  BY <1>3, <1>4, <1>17 DEF LoseReport, LoseResults, probeVars, Stages
<1>18. CASE GiveUpPoll
  BY <1>4, <1>5, <1>18 DEF GiveUpPoll, hubVars
<1>19. CASE RestartProbe
  BY <1>1, <1>2, <1>19 DEF RestartProbe, SentFirst, Away, TypeOK, At
<1>20. CASE RestartHub
  BY <1>1, <1>2, <1>20 DEF RestartHub, SentFirst, Away, At
<1>21. CASE UNCHANGED vars
  BY <1>4, <1>5, <1>21 DEF vars, hubVars, probeVars
<1> QED
  BY <1>7, <1>8, <1>9, <1>10, <1>11, <1>12, <1>13, <1>14, <1>15, <1>16, <1>17, <1>18, <1>19,
     <1>20, <1>21
     DEF Next, UserStep, PollStep, ReportStep, PollerStep

LEMMA RanFirstKept ==
  ASSUME IInv, SentFirst, RanFirst, [Next]_vars
  PROVE  RanFirst'
<1>1. TypeOK /\ Remembered
  BY DEF IInv
<1> USE DEF Requests, hubVars, probeVars
<1>2. "report" \in Requests
  OBVIOUS
<1>3. ASSUME UNCHANGED <<results, outbox, runs>>,
             req'["report"] = req["report"] \/ req'["report"].stage # "saved"
      PROVE  RanFirst'
  BY <1>3 DEF RanFirst, At
<1>4. ASSUME NEW list \in SUBSET Commands, Receive(list), UNCHANGED outbox \/ outbox' = {},
             req'["report"] = req["report"] \/ req'["report"].stage # "saved"
      PROVE  RanFirst'
  <2>1. \A c \in Commands : runs'[c] = IF c \in New(list) THEN runs[c] + 1 ELSE runs[c]
    BY <1>4 DEF Receive
  <2>2. \A c \in Commands : runs[c] \in Nat /\ (runs[c] > 0 => runs'[c] > 0)
    BY <1>1, <2>1, BoundsAssumption DEF TypeOK
  <2>3. results \subseteq Commands /\ outbox \subseteq Commands /\ req["report"].list \subseteq Commands
    BY <1>1, <1>2 DEF TypeOK
  <2>4. \A c \in New(list) : runs'[c] > 0
    BY <1>4, <2>1, <2>2 DEF New
  <2>5. \A c \in results' \union outbox' : runs'[c] > 0
    BY <1>4, <2>2, <2>3, <2>4 DEF RanFirst, Receive
  <2>6. At("report", "saved")' => \A c \in req'["report"].list : runs'[c] > 0
    BY <1>4, <2>2, <2>3 DEF RanFirst, At
  <2> QED BY <2>5, <2>6 DEF RanFirst, At
<1>5. ASSUME NEW u \in Users, Click(u) \/ UserStep(u) \/ DropClick(u)
      PROVE  RanFirst'
  BY <1>3, <1>5 DEF Click, UserStep, Create, Wake, DropClick
<1>6. ASSUME NEW p \in Polls, \/ ReadPending(p) \/ MarkDelivered(p) \/ Hold(p) \/ HoldFull(p)
                              \/ EndHold(p) \/ DropPoll(p) \/ Poll(p) \/ HearPoll(p)
      PROVE  RanFirst'
  <2>1. req'["report"] = req["report"]
    BY <1>1, <1>6, PollsApart
       DEF ReadPending, MarkDelivered, Hold, HoldFull, EndHold, DropPoll, Poll, HearPoll
  <2>2. UNCHANGED <<results, outbox, runs>>
    BY <1>6 DEF ReadPending, MarkDelivered, Hold, HoldFull, EndHold, DropPoll, Poll, HearPoll
  <2> QED BY <1>3, <2>1, <2>2
<1>7. CASE \/ ReadPending("report") \/ MarkDelivered("report") \/ RecordResults \/ LoseReport
  <2>1. req'["report"].stage # "saved"
    BY <1>1, <1>2, <1>7 DEF ReadPending, MarkDelivered, RecordResults, LoseReport, Goes, TypeOK
  <2>2. UNCHANGED <<results, outbox, runs>>
    BY <1>7 DEF ReadPending, MarkDelivered, RecordResults, LoseReport
  <2> QED BY <1>3, <2>1, <2>2
<1>8. CASE Report
  <2>1. /\ outbox' = outbox \union results /\ results' = {} /\ runs' = runs
        /\ req'["report"].list = outbox'
    BY <1>1, <1>2, <1>8 DEF Report, Goes, TypeOK
  <2> QED BY <2>1 DEF RanFirst, At
<1>9. CASE HearReport
  <2>1. req["report"].list \in SUBSET Commands
    BY <1>1 DEF TypeOK
  <2>2. req'["report"].stage # "saved"
    BY <1>1, <1>2, <1>9 DEF HearReport, Goes, TypeOK
  <2> QED BY <1>4, <1>9, <2>1, <2>2 DEF HearReport
<1>10. CASE RunPolled
  <2>1. polled \in SUBSET Commands
    BY <1>1 DEF TypeOK
  <2> QED BY <1>4, <1>10, <2>1 DEF RunPolled
<1>11. CASE LoseResults
  <2>1. req'["report"].stage # "saved"
    BY <1>1, <1>2, <1>11 DEF LoseResults, Goes, TypeOK
  <2> QED BY <1>11, <2>1 DEF LoseResults, RanFirst, At
<1>12. CASE RestartProbe
  <2>1. req'["report"].stage # "saved"
    BY <1>1, <1>2, <1>12 DEF RestartProbe, Away, TypeOK
  <2> QED BY <1>12, <2>1 DEF RestartProbe, RanFirst, At
<1>13. CASE RestartHub
  <2>1. req'["report"].stage # "saved"
    BY <1>2, <1>13 DEF RestartHub, Away
  <2> QED BY <1>3, <1>13, <2>1 DEF RestartHub
<1>14. CASE Cancel \/ Expire \/ GiveUpPoll \/ UNCHANGED vars
  BY <1>3, <1>14 DEF Cancel, Expire, GiveUpPoll, vars
<1> QED BY <1>5, <1>6, <1>7, <1>8, <1>9, <1>10, <1>11, <1>12, <1>13, <1>14
        DEF Next, PollStep, ReportStep, PollerStep

LEMMA LogInvAlways == Spec => []LogInv
<1>1. Init => LogInv
  <2> SUFFICES ASSUME Init PROVE LogInv
    OBVIOUS
  <2>1. SentFirst /\ RanFirst
    BY DEF Init, Away, SentFirst, RanFirst, At, Requests
  <2> QED BY <2>1, InitHolds DEF LogInv
<1>2. LogInv /\ [Next]_vars => LogInv'
  BY IInvInductive, SentFirstKept, RanFirstKept DEF LogInv
<1> QED BY <1>1, <1>2, PTL DEF Spec
-----------------------------------------------------------------------------
\* A change of the commands, as the log sees it: some turn into something else.
LEMMA TurnsRecorded ==
  ASSUME NEW some \in SUBSET Commands, NEW what,
         \A c \in Commands : Recorded'[c] = IF c \in some THEN what ELSE Recorded[c]
  PROVE  Log!Turn(some, what)
BY DEF Log!Turn, Log!Commands, Commands, Recorded

LEMMA StaysRecorded ==
  ASSUME \A c \in Commands : Recorded'[c] = Recorded[c], UNCHANGED <<runs, crashes>>
  PROVE  UNCHANGED Log!logVars
<1>1. Recorded' = Recorded
  BY DEF Recorded
<1> QED BY <1>1 DEF Log!logVars

\* To receive commands is to run those that aren't remembered.
LEMMA ReceiveRuns ==
  ASSUME LogInv, NEW list \in SUBSET Sent, Receive(list), UNCHANGED <<cmd, crashes>>
  PROVE  Log!LogNext
<1>1. New(list) \in SUBSET Log!Commands /\ New(list) \subseteq Commands \ done
  BY DEF New, Sent, Commands, Log!Commands
<1>2. ASSUME NEW c \in New(list)
      PROVE  Recorded[c] \in {"delivered", "done", "cancelled"} /\ runs[c] <= crashes
  <2>1. c \in Commands /\ c \in Sent
    BY <1>1 DEF New
  <2> QED BY <1>1, <2>1 DEF Sent, Recorded, LogInv, IInv, TypeOK, Remembered, Waiting
<1>3. Log!Run(New(list))
  BY <1>2 DEF Receive, Log!Run, Recorded, Commands, Log!Commands
<1> QED BY <1>1, <1>3 DEF Log!LogNext

LEMMA RefinesNext ==
  ASSUME LogInv, [Next]_vars
  PROVE  [Log!LogNext]_(Log!logVars)
<1>1. TypeOK /\ OnlyKnown /\ SentFirst /\ RanFirst
  BY DEF LogInv, IInv
<1> USE DEF Requests, hubVars, probeVars
<1>2. ASSUME UNCHANGED <<cmd, runs, crashes>>
      PROVE  UNCHANGED Log!logVars
  BY <1>2, StaysRecorded DEF Recorded
<1>3. ASSUME NEW u \in Users, Click(u)
      PROVE  UNCHANGED Log!logVars
  <2>1. PICK c \in Commands : /\ \A d \in Commands : cmd[d] = "none" <=> d >= c
                              /\ cmd' = [cmd EXCEPT ![c] = "clicked"]
    BY <1>3 DEF Click
  <2>2. cmd[c] = "none"
    BY <2>1 DEF Commands
  <2>3. \A d \in Commands : Recorded'[d] = Recorded[d]
    BY <1>1, <2>1, <2>2 DEF TypeOK, Recorded
  <2> QED BY <1>3, <2>3, StaysRecorded DEF Click
<1>4. ASSUME NEW u \in Users, Create(u)
      PROVE  Log!LogNext
  <2>1. user[u] \in Commands /\ Recorded[user[u]] = "none"
    BY <1>1, <1>4 DEF TypeOK, Create, Commands, Recorded
  <2>2. \A c \in Commands : Recorded'[c] = IF c \in {user[u]} THEN "queued" ELSE Recorded[c]
    BY <1>1, <1>4, <2>1 DEF Create, Recorded, TypeOK
  <2>3. Log!Turn({user[u]}, "queued")
    BY <2>1, <2>2, TurnsRecorded
  <2>4. Log!Queue(user[u]) /\ user[u] \in Log!Commands
    BY <1>4, <2>1, <2>3 DEF Create, Log!Queue, Log!Commands, Commands
  <2> QED BY <2>4 DEF Log!LogNext
<1>5. ASSUME NEW u \in Users, DropClick(u)
      PROVE  UNCHANGED Log!logVars
  <2>1. \A c \in Commands : Recorded'[c] = Recorded[c]
    BY <1>1, <1>5 DEF TypeOK, DropClick, Recorded
  <2> QED BY <1>5, <2>1, StaysRecorded DEF DropClick
<1>6. CASE Cancel
  <2>1. PICK c \in Commands : cmd[c] = "queued" /\ cmd' = [cmd EXCEPT ![c] = "cancelled"]
    BY <1>6 DEF Cancel
  <2>2. \A d \in Commands : Recorded'[d] = IF d \in {c} THEN "cancelled" ELSE Recorded[d]
    BY <1>1, <2>1 DEF Recorded, TypeOK
  <2>3. Log!Turn({c}, "cancelled")
    BY <2>2, TurnsRecorded
  <2>4. Log!Cancel(c) /\ c \in Log!Commands
    BY <1>6, <2>1, <2>3 DEF Cancel, Log!Cancel, Log!Commands, Commands, Recorded
  <2> QED BY <2>4 DEF Log!LogNext
<1>7. ASSUME NEW r \in Requests, MarkDelivered(r)
      PROVE  Log!LogNext
  <2> DEFINE some == {c \in req[r].list : cmd[c] = "queued"}
  <2>1. some \in SUBSET Commands /\ some \in SUBSET Log!Commands
    BY <1>1 DEF TypeOK, Commands, Log!Commands
  <2>2. \A c \in Commands : Recorded'[c] = IF c \in some THEN "delivered" ELSE Recorded[c]
    BY <1>7 DEF MarkDelivered, Recorded
  <2>3. \A c \in some : Recorded[c] = "queued"
    BY <2>1 DEF Recorded
  <2> HIDE DEF some
  <2>4. Log!Turn(some, "delivered")
    BY <2>1, <2>2, TurnsRecorded
  <2>5. Log!Send(some)
    BY <1>7, <2>3, <2>4 DEF MarkDelivered, Log!Send
  <2> QED BY <2>1, <2>5 DEF Log!LogNext
<1>8. CASE RecordResults
  <2> DEFINE some == {c \in req["report"].list : Completes(c)}
  <2>1. some \in SUBSET Commands /\ some \in SUBSET Log!Commands
    BY <1>1 DEF TypeOK, Commands, Log!Commands
  <2>2. \A c \in Commands : Recorded'[c] = IF c \in some THEN "done" ELSE Recorded[c]
    BY <1>8 DEF RecordResults, Recorded
  <2>3. \A c \in some : Recorded[c] = "delivered" /\ runs[c] > 0
    <3>1. \A c \in some : runs[c] > 0
      BY <1>1, <1>8 DEF RecordResults, RanFirst
    <3>2. \A c \in some : cmd[c] \in Waiting /\ c \in Sent
      BY <1>1, <2>1, <3>1 DEF Completes, SentFirst
    <3> QED BY <2>1, <3>1, <3>2 DEF Waiting, Sent, Recorded
  <2> HIDE DEF some
  <2>4. Log!Turn(some, "done")
    BY <2>1, <2>2, TurnsRecorded
  <2>5. Log!Complete(some)
    BY <1>8, <2>3, <2>4 DEF RecordResults, Log!Complete
  <2> QED BY <2>1, <2>5 DEF Log!LogNext
<1>9. CASE HearReport
  <2>1. req["report"].list \in SUBSET Sent
    BY <1>1, <1>9 DEF HearReport, SentFirst, At
  <2> QED BY <1>9, <2>1, ReceiveRuns DEF HearReport
<1>10. CASE RunPolled
  <2>1. polled \in SUBSET Sent
    BY <1>1 DEF SentFirst
  <2> QED BY <1>10, <2>1, ReceiveRuns DEF RunPolled
<1>11. CASE RestartProbe
  <2>1. Log!GoDown
    BY <1>11 DEF RestartProbe, Log!GoDown, Recorded
  <2> QED BY <2>1 DEF Log!LogNext
<1>12. CASE RestartHub
  <2>1. \A c \in Commands : Recorded'[c] = Recorded[c]
    BY <1>12 DEF RestartHub, Recorded
  <2> QED BY <1>12, <2>1, StaysRecorded DEF RestartHub
<1>13. ASSUME \/ \E u \in Users : Wake(u)
              \/ \E r \in Requests : ReadPending(r)
              \/ \E p \in Polls : \/ Hold(p) \/ HoldFull(p) \/ EndHold(p) \/ DropPoll(p)
                                  \/ Poll(p) \/ HearPoll(p)
              \/ Expire \/ Report \/ LoseReport \/ LoseResults \/ GiveUpPoll \/ UNCHANGED vars
       PROVE  UNCHANGED Log!logVars
  <2>1. UNCHANGED <<cmd, runs, crashes>>
    BY <1>13 DEF Wake, ReadPending, Hold, HoldFull, EndHold, DropPoll, Poll, HearPoll, Expire,
                 Report, LoseReport, LoseResults, GiveUpPoll, vars
  <2> QED BY <1>2, <2>1
<1> QED BY <1>3, <1>4, <1>5, <1>6, <1>7, <1>8, <1>9, <1>10, <1>11, <1>12, <1>13
        DEF Next, UserStep, PollStep, ReportStep, PollerStep

\* ImplementsCommandLog: whatever is lost, late or repeated between the people
\* who click, the hub's two answers and the probe that restarts, every step is
\* one CommandLog allows: a command the probe ran isn't cancelled any more, and
\* "done" is recorded only of one that ran (to_send, record_results, receive).
THEOREM Refinement == Spec => ImplementsCommandLog
<1>1. Init => Log!LogInit
  BY DEF Init, Log!LogInit, Recorded, Commands, Log!Commands
<1> QED BY <1>1, LogInvAlways, RefinesNext, PTL DEF ImplementsCommandLog, Log!LogSpec, Spec
================================================================================
