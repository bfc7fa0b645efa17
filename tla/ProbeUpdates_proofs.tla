-------------------------- MODULE ProbeUpdates_proofs --------------------------
(***************************************************************************)
(* Proofs about ProbeUpdates, for any number of probes, releases, starts,  *)
(* attempts, crashes and edits of the rollout: a version on trial can be   *)
(* put back, one given up on isn't tried again, and the hub goes on only   *)
(* with what its canaries ran.                                             *)
(***************************************************************************)
EXTENDS ProbeUpdates, SequenceTheorems, TLAPS
-----------------------------------------------------------------------------
(***************************************************************************)
(* Types, of the values between the steps too.                             *)
(***************************************************************************)
Reports == [runs : Versions, failed : 0..MaxVersion]
Rollouts ==
  [version : 0..MaxVersion, stage : {"none", "canary", "all"}, ready : 0..(Soak + 1),
   paused : BOOLEAN]
Changes ==
  [step : {"wait", "promote", "pause", "ready", "unready"}, version : 0..MaxVersion,
   canaries : SUBSET Probes]
Trials == [to : 0..MaxVersion, starts : 0..MaxStarts, cycles : 0..MaxWindow]
Failures ==
  [version : 0..MaxVersion, attempts : 0..MaxAttempts, last : BOOLEAN, brake : BOOLEAN]
Fetches == [version : 0..MaxVersion, went : {"none", "on", "ready", "unfit", "retry"}]
Places ==
  {"down", "idle", "sending", "heard", "noted", "removed", "kept", "leaving", "returning"}

HubTyped ==
  /\ kind \in [Versions -> {"good", "mute", "crashing", "untestable"}]
  /\ rollout \in Rollouts /\ (rollout.stage = "canary" => rollout.version # 0)
  /\ canary \subseteq Probes /\ follows \subseteq Probes
  /\ sweep \in Changes
ProbesTyped ==
  /\ record \in [Probes -> Reports]
  /\ exe \in [Probes -> Versions] /\ prev \in [Probes -> 0..MaxVersion]
  /\ pending \in [Probes -> Trials]
  /\ noted \in [Probes -> Failures] /\ failed \in [Probes -> Failures]
  /\ brake \in [Probes -> BOOLEAN] /\ delivered \in [Probes -> BOOLEAN]
  /\ box \in [Probes -> Seq(Reports)]
  /\ \A p \in Probes : Len(box[p]) <= MaxBox + 1
  /\ at \in [Probes -> Places]
  /\ fetch \in [Probes -> Fetches] /\ offer \in [Probes -> 0..MaxVersion]
Typed == HubTyped /\ ProbesTyped
-----------------------------------------------------------------------------
(***************************************************************************)
(* The inductive invariant, part by part.                                  *)
(***************************************************************************)
Switches(p) == at[p] \in {"noted", "removed", "kept"}
GoesBack(p) == at[p] \in {"leaving", "returning"}
OnTrial(p) == pending[p].to = exe[p]
GivenUp(f, v) == f.version = v /\ IsFinal(f)

\* What a probe downloads is newer than what it runs, and it hasn't given up on
\* it; what it puts in place passed its test.
Fetching(p) ==
  /\ fetch[p].went # "none" =>
       /\ fetch[p].version > exe[p] /\ ~GivenUp(failed[p], fetch[p].version)
       /\ at[p] # "down" /\ ~GoesBack(p)
       /\ pending[p] # NoPending => Switches(p)
  /\ fetch[p].went = "none" => fetch[p] = NoFetch
  /\ fetch[p].went = "ready" => kind[fetch[p].version] # "untestable"
  /\ Switches(p) => fetch[p].went = "ready" /\ pending[p].to = fetch[p].version
  /\ at[p] = "kept" => prev[p] = exe[p]

\* A version on trial, or given up on, stands before an older one.
Standing(p) ==
  /\ OnTrial(p) \/ GoesBack(p) =>
       prev[p] # 0 /\ prev[p] < exe[p] /\ ~Switches(p)
  /\ OnTrial(p) \/ at[p] = "leaving" => ~GivenUp(failed[p], exe[p])
  /\ GoesBack(p) => pending[p] = NoPending
  /\ pending[p] # NoPending => pending[p].to # 0 /\ (OnTrial(p) \/ Switches(p) \/ at[p] = "down")

\* The note on disk is what the process knows, unless the brake took it back.
Notes(p) ==
  /\ noted[p] \in {failed[p], NoFailure}
  /\ at[p] = "returning" => noted[p] = NoFailure \/ noted[p].version = exe[p]

\* What makes reports can run; what delivered one isn't mute.
Reporting(p) ==
  /\ kind[exe[p]] # "untestable" /\ (prev[p] # 0 => kind[prev[p]] # "untestable")
  /\ at[p] = "sending" => box[p] # <<>>
  /\ at[p] \in {"sending", "heard"} =>
       kind[exe[p]] # "crashing" /\ (delivered[p] => kind[exe[p]] # "mute")
  /\ Runnable(record[p].runs)
  /\ \A i \in DOMAIN box[p] : Runnable(box[p][i].runs)

\* A probe without a version on trial runs one that works or that a rollback cut
\* short left in place; and such a one stands before each version on trial.
Settled(p, v) == kind[v] = "good" \/ v = left[p]
GoodBefore(p) ==
  /\ OnTrial(p) \/ GoesBack(p) => Settled(p, prev[p])
  /\ ~OnTrial(p) /\ ~GoesBack(p) => Settled(p, exe[p])

ProbeInv(p) == Fetching(p) /\ Standing(p) /\ Notes(p) /\ Reporting(p)

\* The hub promotes what its canaries reported.
SweepInv ==
  sweep.step = "promote" => sweep.canaries = {} \/ (sweep.version # 0 /\ Runnable(sweep.version))

IInv == Typed /\ SweepInv /\ \A p \in Probes : ProbeInv(p)
-----------------------------------------------------------------------------
LEMMA InitIInv == Init => IInv
<1> SUFFICES ASSUME Init PROVE IInv
  OBVIOUS
<1>1. /\ 1 \in Versions /\ 0 \in 0..MaxVersion /\ 0 \in 0..MaxStarts /\ 0 \in 0..MaxWindow
      /\ 0 \in 0..MaxAttempts /\ 0 \in 0..(Soak + 1) /\ MaxBox + 1 >= 0
  BY UpdatesAssumption DEF Versions
<1>2. HubTyped
  BY <1>1, UpdatesAssumption DEF Init, HubTyped, Rollouts, NoRollout, Changes, NoChange
<1>3. <<>> \in Seq(Reports) /\ Len(<<>>) = 0
  OBVIOUS
<1>4. NoPending \in Trials /\ NoFailure \in Failures /\ NoFetch \in Fetches
  BY <1>1 DEF NoPending, NoFailure, NoFetch, Trials, Failures, Fetches
<1>5. ProbesTyped
  <2>1. \A p \in Probes : Len(box[p]) <= MaxBox + 1
    BY <1>1, <1>3 DEF Init
  <2> QED BY <1>1, <1>3, <1>4, <2>1 DEF Init, ProbesTyped, Reports, Places
<1>6. ASSUME NEW p \in Probes PROVE ProbeInv(p)
  <2>1. kind[1] = "good" /\ exe[p] = 1 /\ prev[p] = 0 /\ at[p] = "idle" /\ record[p].runs = 1
        /\ box[p] = <<>> /\ DOMAIN box[p] = {} /\ failed[p] = NoFailure /\ noted[p] = NoFailure
        /\ pending[p] = NoPending /\ fetch[p] = NoFetch /\ delivered[p] = FALSE
    BY DEF Init
  <2> QED BY <2>1 DEF ProbeInv, Fetching, Standing, Notes, Reporting, Switches, GoesBack, OnTrial,
             Runnable, NoPending, NoFetch
<1>7. SweepInv
  BY DEF Init, SweepInv, NoChange
<1> QED BY <1>2, <1>5, <1>6, <1>7 DEF IInv, Typed

\* The steps of the hub and its admins, and those at a probe.
HubAlone == HubSteps \/ AdminActs
AtProbe(p) == Runs(p) \/ Unreached(p) \/ FetchEnds(p) \/ Crash(p) \/ SetBrake(p)

LEMMA HubAloneInductive == IInv /\ HubAlone => IInv'
<1> SUFFICES ASSUME IInv, HubAlone PROVE IInv'
  OBVIOUS
<1>1. UNCHANGED <<kind, record, diskVars, processVars>>
  BY DEF HubAlone, HubSteps, Sweep, Advance, Later, AdminActs
<1>2. ProbesTyped'
  BY <1>1 DEF IInv, Typed, ProbesTyped, diskVars, processVars
<1>3. ASSUME NEW p \in Probes PROVE ProbeInv(p)'
  BY <1>1 DEF IInv, ProbeInv, Fetching, Standing, Notes, Reporting, Switches, GoesBack, OnTrial,
     GivenUp, IsFinal, Runnable, diskVars, processVars
<1>4. HubTyped /\ SweepInv /\ \A p \in Probes : Runnable(record[p].runs)
  BY DEF IInv, Typed, ProbeInv, Reporting
<1>5. Soak \in Nat /\ MaxVersion \in Nat \ {0} /\ canary \subseteq Probes
  BY <1>4, UpdatesAssumption DEF HubTyped
<1>6. TakesPart \subseteq Probes
  BY <1>5 DEF TakesPart
<1>7. CASE Sweep
  <2>1. CanaryStep \in {"wait", "promote", "pause", "ready", "unready"}
    BY DEF CanaryStep
  <2>2. UNCHANGED <<kind, rollout, canary, follows>> /\ rollout.stage = "canary"
        /\ sweep' = [step |-> CanaryStep, version |-> rollout.version, canaries |-> TakesPart]
    BY <1>7 DEF Sweep
  <2>3. CanaryStep = "promote" => TakesPart = {} \/ AllRunIt(rollout.version)
    BY DEF CanaryStep
  <2>4. ASSUME TakesPart # {}, AllRunIt(rollout.version) PROVE Runnable(rollout.version)
    <3>1. PICK c \in TakesPart : record[c].runs = rollout.version
      BY <2>4 DEF AllRunIt
    <3> QED BY <1>4, <1>6, <3>1
  <2> HIDE DEF CanaryStep
  <2>5. HubTyped'
    BY <1>4, <1>6, <2>1, <2>2 DEF HubTyped, Changes, Rollouts
  <2>6. SweepInv'
    BY <1>1, <1>4, <2>2, <2>3, <2>4 DEF SweepInv, HubTyped, Runnable
  <2> QED BY <1>2, <1>3, <2>5, <2>6 DEF IInv, Typed
<1>8. CASE Advance
  <2>1. /\ UNCHANGED <<kind, canary, follows>> /\ sweep' = NoChange
        /\ \/ rollout' = rollout
           \/ rollout' = [rollout EXCEPT !.ready = 1]
           \/ rollout' = [rollout EXCEPT !.ready = 0]
           \/ rollout' = [rollout EXCEPT !.paused = TRUE]
           \/ rollout' = [rollout EXCEPT !.stage = "all"]
    BY <1>8 DEF Advance
  <2>2. rollout' \in Rollouts /\ (rollout'.stage = "canary" => rollout'.version # 0)
    <3>1. {0, 1} \subseteq 0..(Soak + 1)
      BY <1>5
    <3>2. rollout \in Rollouts /\ (rollout.stage = "canary" => rollout.version # 0)
      BY <1>4 DEF HubTyped
    <3> QED BY <2>1, <3>1, <3>2 DEF Rollouts
  <2>3. NoChange \in Changes
    BY <1>5 DEF NoChange, Changes
  <2>4. HubTyped'
    BY <1>4, <2>1, <2>2, <2>3 DEF HubTyped
  <2>5. SweepInv'
    BY <2>1 DEF SweepInv, NoChange
  <2> QED BY <1>2, <1>3, <2>4, <2>5 DEF IInv, Typed
<1>9. CASE Later
  <2>1. /\ UNCHANGED <<kind, canary, follows, sweep>> /\ rollout.ready \in 1..Soak
        /\ rollout' = [rollout EXCEPT !.ready = rollout.ready + 1]
    BY <1>9 DEF Later
  <2>2. rollout' \in Rollouts /\ rollout'.stage = rollout.stage /\ rollout'.version = rollout.version
    <3>1. rollout.ready + 1 \in 0..(Soak + 1)
      BY <1>5, <2>1
    <3> QED BY <1>4, <2>1, <3>1 DEF HubTyped, Rollouts
  <2>3. HubTyped' /\ SweepInv'
    BY <1>1, <1>4, <2>1, <2>2 DEF HubTyped, SweepInv, Runnable
  <2> QED BY <1>2, <1>3, <2>3 DEF IInv, Typed
<1>10. CASE AdminActs
  <2>1. UNCHANGED <<kind, sweep>>
    BY <1>10 DEF AdminActs
  <2> DEFINE Fine ==
         /\ rollout' \in Rollouts /\ (rollout'.stage = "canary" => rollout'.version # 0)
         /\ canary' \subseteq Probes /\ follows' \subseteq Probes
  <2>2. Fine
    <3> USE <1>4, <1>5 DEF HubTyped, Rollouts
    <3>1. ASSUME NEW v \in Versions, Approve(v) PROVE Fine
      <4>1. v \in 0..MaxVersion /\ v # 0 /\ 0 \in 0..(Soak + 1)
        BY <1>5 DEF Versions
      <4> QED BY <3>1, <4>1 DEF Approve
    <3>2. CASE Stop
      BY <3>2 DEF Stop, NoRollout
    <3>3. CASE Pause
      BY <3>3 DEF Pause
    <3>4. CASE Resume
      BY <3>4 DEF Resume
    <3>5. CASE PromoteNow
      BY <3>5 DEF PromoteNow
    <3>6. ASSUME NEW p \in Probes, SetCanary(p) \/ SetPolicy(p) PROVE Fine
      BY <3>6 DEF SetCanary, SetPolicy
    <3> QED BY <1>10, <3>1, <3>2, <3>3, <3>4, <3>5, <3>6 DEF AdminActs
  <2>3. HubTyped' /\ SweepInv'
    BY <1>1, <1>4, <2>1, <2>2 DEF HubTyped, SweepInv, Runnable
  <2> QED BY <1>2, <1>3, <2>3 DEF IInv, Typed
<1> QED BY <1>7, <1>8, <1>9, <1>10 DEF HubAlone, HubSteps
-----------------------------------------------------------------------------
(***************************************************************************)
(* The steps at a probe.                                                   *)
(***************************************************************************)
HubSame == UNCHANGED <<kind, rollout, canary, follows, sweep>>
Same(q) ==
  /\ record'[q] = record[q] /\ exe'[q] = exe[q] /\ prev'[q] = prev[q] /\ pending'[q] = pending[q]
  /\ noted'[q] = noted[q] /\ failed'[q] = failed[q] /\ box'[q] = box[q] /\ at'[q] = at[q]
  /\ fetch'[q] = fetch[q] /\ offer'[q] = offer[q] /\ delivered'[q] = delivered[q]

LEMMA OnlyItself ==
  ASSUME ProbesTyped, NEW p \in Probes, AtProbe(p)
  PROVE  HubSame /\ \A q \in Probes \ {p} : Same(q)
<1>1. HubSame
  BY DEF AtProbe, Runs, Start, Cycle, Ingest, Unreached, TakeOffer, Confirm, Watch, AfterFetch,
         RemovePrev, KeepPrev, PutInPlace, NoteRollback, GoBack, Dies, Ends, FetchEnds, Crash,
         SetBrake, HubSame, hubVars
<1>2. SUFFICES ASSUME NEW q \in Probes, q # p PROVE Same(q)
  BY <1>1
<1> USE <1>2 DEF ProbesTyped, Same, hubVars, diskVars, processVars
<1>3. CASE Start(p)
  BY <1>3 DEF Start
<1>4. CASE Cycle(p)
  BY <1>4 DEF Cycle
<1>5. CASE Ingest(p)
  BY <1>5 DEF Ingest
<1>6. CASE Unreached(p)
  BY <1>6 DEF Unreached
<1>7. CASE TakeOffer(p)
  <2>1. \/ Remember(p, offer[p], TRUE, brake[p]) /\ UNCHANGED fetch
        \/ /\ fetch' = fetch \/ fetch' = [fetch EXCEPT ![p] = [version |-> offer[p], went |-> "on"]]
           /\ UNCHANGED <<noted, failed>>
    BY <1>7, Zenon DEF TakeOffer
  <2>2. noted'[q] = noted[q] /\ failed'[q] = failed[q] /\ fetch'[q] = fetch[q]
    BY <2>1 DEF Remember
  <2> QED BY <1>7, <2>2, Zenon DEF TakeOffer
<1>8. CASE Confirm(p)
  BY <1>8 DEF Confirm
<1>9. CASE Watch(p)
  BY <1>9 DEF Watch
<1>10. CASE AfterFetch(p)
  BY <1>10 DEF AfterFetch, Remember
<1>11. CASE RemovePrev(p)
  BY <1>11 DEF RemovePrev
<1>12. CASE KeepPrev(p)
  BY <1>12 DEF KeepPrev
<1>13. CASE PutInPlace(p)
  BY <1>13 DEF PutInPlace
<1>14. CASE NoteRollback(p)
  BY <1>14 DEF NoteRollback, Remember
<1>15. CASE GoBack(p)
  BY <1>15 DEF GoBack
<1>16. CASE Dies(p)
  BY <1>16 DEF Dies, Ends
<1>17. CASE FetchEnds(p)
  BY <1>17 DEF FetchEnds
<1>18. CASE Crash(p)
  BY <1>18 DEF Crash, Ends
<1>19. CASE SetBrake(p)
  BY <1>19 DEF SetBrake
<1> QED BY <1>3, <1>4, <1>5, <1>6, <1>7, <1>8, <1>9, <1>10, <1>11, <1>12, <1>13, <1>14, <1>15,
           <1>16, <1>17, <1>18, <1>19 DEF AtProbe, Runs

\* A version a probe hasn't given up on fails once more at most.
LEMMA RememberFacts ==
  ASSUME ProbesTyped, NEW p \in Probes, NEW v \in Versions, NEW last \in BOOLEAN,
         NEW byBrake \in BOOLEAN, ~GivenUp(failed[p], v), Remember(p, v, last, byBrake)
  PROVE  /\ failed' \in [Probes -> Failures] /\ noted' \in [Probes -> Failures]
         /\ failed'[p].version = v /\ noted'[p] = failed'[p]
<1> DEFINE f == RecordFailure(failed[p], v, last, byBrake)
<1>1. failed[p] \in Failures /\ v \in 0..MaxVersion /\ MaxAttempts \in Nat \ {0}
  BY UpdatesAssumption DEF ProbesTyped, Versions
<1>2. f \in Failures /\ f.version = v
  BY <1>1 DEF RecordFailure, Failures, GivenUp, IsFinal
<1> HIDE DEF f
<1>3. failed' = [failed EXCEPT ![p] = f] /\ noted' = [noted EXCEPT ![p] = failed'[p]]
  BY DEF Remember, f
<1>4. failed'[p] = f
  BY <1>3 DEF ProbesTyped
<1> QED BY <1>2, <1>3, <1>4 DEF ProbesTyped

\* Pruning the box keeps some of its reports, at most MaxBox of them.
LEMMA NewestFacts ==
  ASSUME NEW s \in Seq(Reports)
  PROVE  /\ Newest(s) \in Seq(Reports) /\ Len(Newest(s)) <= MaxBox
         /\ \A i \in DOMAIN Newest(s) : \E k \in DOMAIN s : Newest(s)[i] = s[k]
<1>1. MaxBox \in Nat \ {0} /\ Len(s) \in Nat /\ DOMAIN s = 1..Len(s)
  BY UpdatesAssumption
<1>2. CASE Len(s) <= MaxBox
  BY <1>1, <1>2 DEF Newest
<1>3. CASE ~(Len(s) <= MaxBox)
  <2> DEFINE m == Len(s) - MaxBox + 1
             t == SubSeq(s, m, Len(s))
  <2>1. m \in 1..Len(s)
    BY <1>1, <1>3
  <2>2. /\ t \in Seq(Reports) /\ Len(t) = MaxBox
        /\ DOMAIN t = 1..MaxBox /\ \A i \in 1..MaxBox : t[i] = s[m + i - 1]
    BY <1>1, <2>1
  <2>3. \A i \in 1..MaxBox : m + i - 1 \in 1..Len(s)
    BY <1>1, <1>3
  <2>4. Newest(s) = t
    BY <1>3 DEF Newest
  <2>5. ASSUME NEW i \in DOMAIN t PROVE \E k \in DOMAIN s : t[i] = s[k]
    <3>1. m + i - 1 \in DOMAIN s /\ t[i] = s[m + i - 1]
      BY <1>1, <2>2, <2>3
    <3> QED BY <3>1
  <2> HIDE DEF t
  <2> QED BY <1>1, <2>2, <2>4, <2>5
<1> QED BY <1>2, <1>3

LEMMA BoxAfterCycle ==
  ASSUME NEW s \in Seq(Reports), NEW r \in Reports
  PROVE  LET b == Append(Newest(s), r)
         IN /\ b \in Seq(Reports) /\ Len(b) <= MaxBox + 1 /\ b # <<>>
            /\ \A i \in DOMAIN b : b[i] = r \/ \E k \in DOMAIN s : b[i] = s[k]
<1> DEFINE t == Newest(s)
           b == Append(t, r)
<1>1. /\ t \in Seq(Reports) /\ Len(t) <= MaxBox
      /\ \A i \in DOMAIN t : \E k \in DOMAIN s : t[i] = s[k]
  BY NewestFacts
<1> HIDE DEF t
<1>2. /\ b \in Seq(Reports) /\ Len(b) = Len(t) + 1 /\ DOMAIN b = 1..(Len(t) + 1)
      /\ b[Len(t) + 1] = r /\ \A i \in 1..Len(t) : b[i] = t[i]
      /\ Len(t) \in Nat /\ DOMAIN t = 1..Len(t) /\ MaxBox \in Nat
  BY <1>1, UpdatesAssumption
<1>3. ASSUME NEW i \in DOMAIN b PROVE b[i] = r \/ \E k \in DOMAIN s : b[i] = s[k]
  BY <1>1, <1>2
<1>4. b \in Seq(Reports) /\ Len(b) <= MaxBox + 1 /\ b # <<>>
  BY <1>1, <1>2
<1> HIDE DEF b
<1>5. \A i \in DOMAIN b : b[i] = r \/ \E k \in DOMAIN s : b[i] = s[k]
  BY <1>3
<1> QED BY <1>4, <1>5 DEF b, t

LEMMA OwnTyped ==
  ASSUME IInv, NEW p \in Probes, AtProbe(p)
  PROVE  Typed'
<1>1. Typed /\ HubTyped /\ ProbesTyped /\ ProbeInv(p) /\ HubSame
  BY OnlyItself DEF IInv, Typed
<1>2. HubTyped'
  BY <1>1 DEF HubTyped, HubSame
<1>3. SUFFICES ProbesTyped'
  BY <1>2 DEF Typed
<1>4. /\ MaxBox \in Nat \ {0} /\ MaxVersion \in Nat \ {0} /\ MaxStarts \in Nat \ {0}
      /\ MaxWindow \in Nat /\ MaxAttempts \in Nat \ {0} /\ 0 \in 0..MaxVersion
  BY UpdatesAssumption
<1>5. NoPending \in Trials /\ NoFailure \in Failures /\ NoFetch \in Fetches
  BY <1>4 DEF NoPending, NoFailure, NoFetch, Trials, Failures, Fetches
<1>6. \A v \in Versions : v \in 0..MaxVersion
  BY DEF Versions
<1>7. exe[p] \in Versions /\ offer[p] \in 0..MaxVersion /\ fetch[p] \in Fetches
      /\ fetch[p].version \in 0..MaxVersion /\ failed[p] \in Failures /\ pending[p] \in Trials
  BY <1>1 DEF ProbesTyped, Fetches
<1>8. exe[p] \in Int /\ \A v \in 0..MaxVersion : v > exe[p] => v \in Versions
  BY <1>4, <1>7 DEF Versions
<1> USE <1>1 DEF ProbesTyped
<1>9. CASE Start(p)
  <2> DEFINE trial == [pending[p] EXCEPT !.starts = pending[p].starts + 1]
             tooOften == pending[p].to = exe[p] /\ trial.starts > MaxStarts
  <2>1. /\ pending' = [pending EXCEPT ![p] =
             IF pending[p].to = exe[p] /\ ~tooOften THEN trial ELSE NoPending]
        /\ at' = [at EXCEPT ![p] = IF tooOften THEN "leaving" ELSE "idle"]
        /\ failed' = [failed EXCEPT ![p] = noted[p]]
        /\ UNCHANGED <<record, exe, prev, noted, brake, box, fetch, offer, delivered>>
    BY <1>9 DEF Start, CountStart, hubVars
  <2>2. pending[p].to = exe[p] /\ ~tooOften => trial \in Trials
    <3>1. trial.starts = pending[p].starts + 1 /\ pending[p].starts \in 0..MaxStarts
      BY <1>7 DEF Trials
    <3>2. ~(pending[p].starts + 1 > MaxStarts) => pending[p].starts + 1 \in 0..MaxStarts
      BY <1>4, <3>1
    <3> QED BY <1>7, <3>1, <3>2 DEF Trials
  <2> HIDE DEF trial, tooOften
  <2>3. pending' \in [Probes -> Trials]
    BY <1>5, <2>1, <2>2
  <2> QED BY <2>1, <2>3 DEF Places
<1>10. CASE Cycle(p)
  <2> DEFINE r == [runs |-> exe[p], failed |-> IF IsFinal(failed[p]) THEN failed[p].version ELSE 0]
             b == Append(Newest(box[p]), r)
  <2>1. r \in Reports
    BY <1>4, <1>7 DEF Reports, Failures
  <2> HIDE DEF r
  <2>2. b \in Seq(Reports) /\ Len(b) <= MaxBox + 1
    BY <2>1, BoxAfterCycle
  <2>3. box' = [box EXCEPT ![p] = b]
    BY <1>10 DEF Cycle, r
  <2> HIDE DEF b
  <2>4. box' \in [Probes -> Seq(Reports)] /\ \A q \in Probes : Len(box'[q]) <= MaxBox + 1
    BY <2>2, <2>3
  <2>5. /\ offer' = [offer EXCEPT ![p] = 0] /\ delivered' = [delivered EXCEPT ![p] = FALSE]
        /\ at' = [at EXCEPT ![p] = "sending"]
        /\ UNCHANGED <<record, exe, prev, pending, noted, brake, failed, fetch>>
    BY <1>10 DEF Cycle, hubVars
  <2>6. offer' \in [Probes -> 0..MaxVersion] /\ delivered' \in [Probes -> BOOLEAN]
        /\ at' \in [Probes -> Places]
    BY <1>4, <2>5 DEF Places
  <2> QED BY <2>4, <2>5, <2>6
<1>11. CASE Ingest(p)
  <2>1. box[p] # <<>> /\ box[p] \in Seq(Reports)
    BY <1>11 DEF Ingest, ProbeInv, Reporting
  <2>2. Head(box[p]) \in Reports /\ Tail(box[p]) \in Seq(Reports)
        /\ Len(Tail(box[p])) = Len(box[p]) - 1 /\ Len(box[p]) \in Nat
    BY <2>1
  <2>3. Plan(p, Head(box[p])) \in 0..MaxVersion
    BY <1>4 DEF Plan, HubTyped, Rollouts
  <2> DEFINE r == Head(box[p])
             o == Plan(p, r)
             t == Tail(box[p])
  <2>4. /\ record' = [record EXCEPT ![p] = r] /\ offer' = [offer EXCEPT ![p] = o]
        /\ delivered' = [delivered EXCEPT ![p] = TRUE] /\ box' = [box EXCEPT ![p] = t]
        /\ at' = [at EXCEPT ![p] = IF box'[p] = <<>> THEN "heard" ELSE "sending"]
        /\ UNCHANGED <<exe, prev, pending, noted, brake, failed, fetch>>
    BY <1>11 DEF Ingest
  <2>5. Len(t) <= MaxBox + 1 /\ t \in Seq(Reports) /\ r \in Reports /\ o \in 0..MaxVersion
    BY <1>4, <2>2, <2>3
  <2> HIDE DEF r, o, t
  <2> QED BY <2>4, <2>5 DEF Places
<1>12. CASE Unreached(p)
  BY <1>12 DEF Unreached, hubVars, diskVars, Places
<1>13. CASE TakeOffer(p)
  <2>1. offer[p] \in Versions /\ ~GivenUp(failed[p], offer[p])
    BY <1>13, <1>7 DEF TakeOffer, TakesOffer, GivenUp, Versions
  <2>2. \/ Remember(p, offer[p], TRUE, brake[p]) /\ UNCHANGED fetch
        \/ /\ fetch' = fetch \/ fetch' = [fetch EXCEPT ![p] = [version |-> offer[p], went |-> "on"]]
           /\ UNCHANGED <<noted, failed>>
    BY <1>13, Zenon DEF TakeOffer
  <2>3. TRUE \in BOOLEAN /\ brake[p] \in BOOLEAN
    OBVIOUS
  <2>4. failed' \in [Probes -> Failures] /\ noted' \in [Probes -> Failures]
    <3>1. CASE Remember(p, offer[p], TRUE, brake[p])
      BY <2>1, <2>3, <3>1, RememberFacts, Zenon
    <3>2. CASE UNCHANGED <<noted, failed>>
      BY <3>2
    <3> QED BY <2>2, <3>1, <3>2
  <2>5. [version |-> offer[p], went |-> "on"] \in Fetches
    BY <1>7 DEF Fetches
  <2>6. fetch' \in [Probes -> Fetches]
    <3>1. fetch' = fetch \/ fetch' = [fetch EXCEPT ![p] = [version |-> offer[p], went |-> "on"]]
      BY <2>2, Zenon
    <3> QED BY <2>5, <3>1
  <2>7. at' = [at EXCEPT ![p] = "idle"] /\ UNCHANGED <<record, exe, prev, pending, brake, box, offer, delivered>>
    BY <1>13, Zenon DEF TakeOffer, hubVars
  <2> QED BY <2>4, <2>6, <2>7 DEF Places
<1>14. CASE Confirm(p)
  BY <1>5, <1>14 DEF Confirm, hubVars, Places
<1>15. CASE Watch(p)
  <2>1. pending[p].cycles < MaxWindow => [pending[p] EXCEPT !.cycles = pending[p].cycles + 1] \in Trials
    <3>1. pending[p].cycles \in 0..MaxWindow
      BY <1>7 DEF Trials
    <3>2. pending[p].cycles < MaxWindow => pending[p].cycles + 1 \in 0..MaxWindow
      BY <1>4, <3>1
    <3> QED BY <1>7, <3>2 DEF Trials
  <2>2. /\ \/ /\ pending[p].cycles < MaxWindow /\ at' = [at EXCEPT ![p] = "idle"]
              /\ pending' = [pending EXCEPT ![p] = [pending[p] EXCEPT !.cycles = pending[p].cycles + 1]]
           \/ pending' = [pending EXCEPT ![p] = NoPending] /\ at' = [at EXCEPT ![p] = "leaving"]
        /\ UNCHANGED <<record, exe, prev, noted, brake, box, failed, fetch, offer, delivered>>
    BY <1>15 DEF Watch, hubVars
  <2> QED BY <1>5, <2>1, <2>2 DEF Places
<1>16. CASE AfterFetch(p)
  <2>1. UNCHANGED <<record, exe, prev, brake, box, offer, delivered>>
    BY <1>16, Zenon DEF AfterFetch, hubVars
  <2>2. CASE /\ fetch[p].went = "ready"
             /\ pending' = [pending EXCEPT ![p] = [NoPending EXCEPT !.to = fetch[p].version]]
             /\ at' = [at EXCEPT ![p] = "noted"]
             /\ UNCHANGED <<noted, failed, fetch>>
    <3>1. [NoPending EXCEPT !.to = fetch[p].version] \in Trials
      BY <1>5, <1>7 DEF Trials
    <3> QED BY <2>1, <2>2, <3>1 DEF Places
  <2>3. CASE /\ fetch[p].went \in {"retry", "unfit"}
             /\ Remember(p, fetch[p].version, fetch[p].went = "unfit", FALSE)
             /\ fetch' = [fetch EXCEPT ![p] = NoFetch]
             /\ at' = [at EXCEPT ![p] = "idle"]
             /\ UNCHANGED pending
    <3>1. fetch[p].version \in Versions /\ ~GivenUp(failed[p], fetch[p].version)
      BY <1>7, <1>8, <2>3 DEF ProbeInv, Fetching
    <3>2. (fetch[p].went = "unfit") \in BOOLEAN /\ FALSE \in BOOLEAN
      OBVIOUS
    <3>3. failed' \in [Probes -> Failures] /\ noted' \in [Probes -> Failures]
      BY <2>3, <3>1, <3>2, RememberFacts, Zenon
    <3>4. fetch' = [fetch EXCEPT ![p] = NoFetch] /\ at' = [at EXCEPT ![p] = "idle"] /\ UNCHANGED pending
      BY <2>3, Zenon
    <3> QED BY <1>5, <2>1, <3>3, <3>4 DEF Places
  <2>4. CASE at' = [at EXCEPT ![p] = "idle"] /\ UNCHANGED <<pending, noted, failed, fetch>>
    BY <2>1, <2>4 DEF Places
  <2> QED BY <1>16, <2>2, <2>3, <2>4, Zenon DEF AfterFetch
<1>17. CASE RemovePrev(p)
  BY <1>4, <1>17 DEF RemovePrev, hubVars, Places
<1>18. CASE KeepPrev(p)
  BY <1>6, <1>7, <1>18 DEF KeepPrev, Kept, hubVars, Places
<1>19. CASE PutInPlace(p)
  <2>1. fetch[p].version \in Versions
    BY <1>7, <1>8, <1>19 DEF PutInPlace, ProbeInv, Fetching, Switches
  <2> QED BY <1>5, <1>19, <2>1 DEF PutInPlace, hubVars, Places
<1>20. CASE NoteRollback(p)
  <2>1. ~GivenUp(failed[p], exe[p]) /\ Remember(p, exe[p], TRUE, FALSE)
    BY <1>20, Zenon DEF NoteRollback, ProbeInv, Standing
  <2>2. TRUE \in BOOLEAN /\ FALSE \in BOOLEAN
    OBVIOUS
  <2>3. failed' \in [Probes -> Failures] /\ noted' \in [Probes -> Failures]
    BY <1>7, <2>1, <2>2, RememberFacts, Zenon
  <2>4. at' = [at EXCEPT ![p] = "returning"]
        /\ UNCHANGED <<record, exe, prev, pending, brake, box, fetch, offer, delivered>>
    BY <1>20, Zenon DEF NoteRollback, hubVars
  <2> QED BY <2>3, <2>4 DEF Places
<1>21. CASE GoBack(p)
  <2>1. prev[p] # 0 => prev[p] \in Versions
    BY <1>4 DEF Versions
  <2> QED BY <1>4, <1>21, <2>1 DEF GoBack, hubVars, Places
<1>22. CASE Dies(p)
  BY <1>4, <1>5, <1>22 DEF Dies, Ends, hubVars, diskVars, Places
<1>23. CASE FetchEnds(p)
  <2>1. \A went \in {"ready", "unfit", "retry"} : [fetch[p] EXCEPT !.went = went] \in Fetches
    BY <1>7 DEF Fetches
  <2>2. /\ \E went \in {"ready", "unfit", "retry"} : fetch' = [fetch EXCEPT ![p].went = went]
        /\ UNCHANGED <<record, diskVars, at, failed, offer, delivered>>
    BY <1>23 DEF FetchEnds, hubVars
  <2> QED BY <2>1, <2>2 DEF diskVars
<1>24. CASE Crash(p)
  BY <1>4, <1>5, <1>24 DEF Crash, Ends, hubVars, diskVars, Places
<1>25. CASE SetBrake(p)
  BY <1>5, <1>25 DEF SetBrake, hubVars, processVars
<1> QED BY <1>9, <1>10, <1>11, <1>12, <1>13, <1>14, <1>15, <1>16, <1>17, <1>18, <1>19, <1>20,
           <1>21, <1>22, <1>23, <1>24, <1>25 DEF AtProbe, Runs

\* What the invariants name, where a step leaves it alone.
Rest(p) == record'[p] = record[p] /\ box'[p] = box[p] /\ kind' = kind

LEMMA OwnProbeInv ==
  ASSUME IInv, NEW p \in Probes, AtProbe(p)
  PROVE  ProbeInv(p)'
<1>1. /\ ProbesTyped /\ HubTyped /\ HubSame /\ Fetching(p) /\ Standing(p) /\ Notes(p) /\ Reporting(p)
      /\ kind' = kind
  BY OnlyItself DEF IInv, Typed, ProbeInv, HubSame
<1>2. /\ exe[p] \in Nat \ {0} /\ prev[p] \in Nat /\ pending[p].to \in Nat
      /\ fetch[p].version \in Nat /\ offer[p] \in Nat /\ exe[p] \in Versions
      /\ delivered[p] \in BOOLEAN /\ at[p] \in Places /\ MaxAttempts \in Nat \ {0}
      /\ kind[exe[p]] \in {"good", "mute", "crashing", "untestable"}
      /\ fetch[p].went \in {"none", "on", "ready", "unfit", "retry"}
      /\ pending[p] \in Trials /\ fetch[p] \in Fetches /\ failed[p].version \in 0..MaxVersion
  <2>1. MaxVersion \in Nat \ {0} /\ MaxAttempts \in Nat \ {0}
    BY UpdatesAssumption
  <2>2. /\ exe[p] \in Versions /\ prev[p] \in 0..MaxVersion /\ pending[p] \in Trials
        /\ fetch[p] \in Fetches /\ offer[p] \in 0..MaxVersion /\ delivered[p] \in BOOLEAN
        /\ at[p] \in Places /\ failed[p] \in Failures
    BY <1>1 DEF ProbesTyped
  <2>3. kind[exe[p]] \in {"good", "mute", "crashing", "untestable"}
    BY <1>1, <2>2 DEF HubTyped
  <2> QED BY <2>1, <2>2, <2>3 DEF Versions, Trials, Fetches, Failures
<1>3. /\ NoPending.to = 0 /\ NoFetch.went = "none" /\ NoFetch.version = 0
      /\ ~GivenUp(NoFailure, exe[p])
      /\ \A v \in Nat \ {0} : ~GivenUp(NoFailure, v)
  BY <1>2 DEF NoPending, NoFetch, NoFailure, GivenUp
<1> USE <1>2, <1>3
<1> USE DEF Switches, GoesBack, OnTrial
<1>4. CASE Start(p)
  <2>1. /\ at[p] = "down" /\ pending'[p].to \in {0, pending[p].to}
        /\ \/ pending'[p] = NoPending /\ (at'[p] = "leaving" => OnTrial(p))
           \/ OnTrial(p) /\ at'[p] = "idle" /\ pending'[p].to = pending[p].to
        /\ at'[p] \in {"idle", "leaving"}
        /\ failed'[p] = noted[p] /\ noted'[p] = noted[p] /\ Rest(p)
        /\ exe'[p] = exe[p] /\ prev'[p] = prev[p] /\ fetch'[p] = fetch[p]
    BY <1>1, <1>4 DEF Start, CountStart, ProbesTyped, hubVars, Rest, Trials
  <2>2. fetch[p] = NoFetch
    BY <1>1, <2>1 DEF Fetching
  <2>3. Fetching(p)'
    BY <2>1, <2>2 DEF Fetching
  <2>4. Standing(p)'
    BY <1>1, <2>1 DEF Standing, Notes
  <2>5. Notes(p)'
    BY <1>1, <2>1 DEF Notes
  <2>6. Reporting(p)'
    BY <1>1, <2>1 DEF Reporting, Rest, Runnable
  <2> QED BY <2>3, <2>4, <2>5, <2>6 DEF ProbeInv
<1>5. CASE Cycle(p)
  <2> DEFINE r == [runs |-> exe[p], failed |-> IF IsFinal(failed[p]) THEN failed[p].version ELSE 0]
             b == Append(Newest(box[p]), r)
  <2>1. /\ at[p] = "idle" /\ at'[p] = "sending" /\ box'[p] = b /\ delivered'[p] = FALSE
        /\ kind[exe[p]] # "crashing" /\ record'[p] = record[p]
        /\ exe'[p] = exe[p] /\ prev'[p] = prev[p] /\ fetch'[p] = fetch[p]
        /\ pending'[p] = pending[p] /\ failed'[p] = failed[p] /\ noted'[p] = noted[p]
    BY <1>1, <1>5 DEF Cycle, ProbesTyped, hubVars
  <2>2. r \in Reports /\ r.runs = exe[p]
    <3>1. 0 \in 0..MaxVersion
      BY UpdatesAssumption
    <3> QED BY <3>1 DEF Reports
  <2> HIDE DEF r
  <2>3. b # <<>> /\ \A i \in DOMAIN b : b[i] = r \/ \E k \in DOMAIN box[p] : b[i] = box[p][k]
    <3>1. box[p] \in Seq(Reports)
      BY <1>1 DEF ProbesTyped
    <3> QED BY <2>2, <3>1, BoxAfterCycle
  <2> HIDE DEF b
  <2>4. Fetching(p)' /\ Standing(p)' /\ Notes(p)'
    BY <1>1, <2>1 DEF Fetching, Standing, Notes, GivenUp, IsFinal
  <2>5. Reporting(p)'
    BY <1>1, <2>1, <2>2, <2>3 DEF Reporting, Runnable
  <2> QED BY <2>4, <2>5 DEF ProbeInv
<1>6. CASE Ingest(p)
  <2>1. box[p] # <<>> /\ box[p] \in Seq(Reports) /\ at[p] = "sending" /\ kind[exe[p]] # "mute"
    BY <1>1, <1>6 DEF Ingest, Reporting, ProbesTyped
  <2> DEFINE r == Head(box[p])
             t == Tail(box[p])
  <2>2. /\ r = box[p][1] /\ 1 \in DOMAIN box[p]
        /\ \A i \in DOMAIN t : i + 1 \in DOMAIN box[p] /\ t[i] = box[p][i + 1]
    <3>1. /\ Len(box[p]) \in Nat \ {0} /\ DOMAIN box[p] = 1..Len(box[p])
          /\ DOMAIN Tail(box[p]) = 1..(Len(box[p]) - 1)
          /\ \A i \in 1..(Len(box[p]) - 1) : Tail(box[p])[i] = box[p][i + 1]
          /\ Head(box[p]) = box[p][1]
      BY <2>1
    <3>2. \A i \in 1..(Len(box[p]) - 1) : i + 1 \in 1..Len(box[p])
      BY <3>1
    <3> QED BY <3>1, <3>2
  <2> HIDE DEF r, t
  <2>3. /\ record'[p] = r /\ box'[p] = t /\ at'[p] = IF t = <<>> THEN "heard" ELSE "sending"
        /\ exe'[p] = exe[p] /\ prev'[p] = prev[p] /\ fetch'[p] = fetch[p]
        /\ pending'[p] = pending[p] /\ failed'[p] = failed[p] /\ noted'[p] = noted[p]
    BY <1>1, <1>6 DEF Ingest, ProbesTyped, r, t
  <2>4. Fetching(p)' /\ Standing(p)' /\ Notes(p)'
    BY <1>1, <2>1, <2>3 DEF Fetching, Standing, Notes, GivenUp, IsFinal
  <2>5. Reporting(p)'
    BY <1>1, <2>1, <2>2, <2>3 DEF Reporting, Runnable
  <2> QED BY <2>4, <2>5 DEF ProbeInv
<1>7. CASE Unreached(p)
  <2>1. /\ at[p] = "sending" /\ at'[p] = "heard" /\ Rest(p) /\ delivered'[p] = delivered[p]
        /\ exe'[p] = exe[p] /\ prev'[p] = prev[p] /\ fetch'[p] = fetch[p]
        /\ pending'[p] = pending[p] /\ failed'[p] = failed[p] /\ noted'[p] = noted[p]
    BY <1>1, <1>7 DEF Unreached, ProbesTyped, hubVars, diskVars, Rest
  <2>2. Fetching(p)' /\ Standing(p)' /\ Notes(p)'
    BY <1>1, <2>1 DEF Fetching, Standing, Notes, GivenUp, IsFinal
  <2>3. Reporting(p)'
    BY <1>1, <2>1 DEF Reporting, Rest, Runnable
  <2> QED BY <2>2, <2>3 DEF ProbeInv
<1>8. CASE TakeOffer(p)
  <2>1. /\ at[p] = "heard" /\ at'[p] = "idle" /\ Rest(p) /\ pending[p] = NoPending /\ fetch[p] = NoFetch
        /\ offer[p] # 0 /\ ~GivenUp(failed[p], offer[p])
        /\ exe'[p] = exe[p] /\ prev'[p] = prev[p] /\ pending'[p] = pending[p]
    <3>1. /\ at[p] = "heard" /\ at' = [at EXCEPT ![p] = "idle"] /\ TakesOffer(p)
          /\ UNCHANGED <<hubVars, exe, prev, pending, box>>
      BY <1>8, Zenon DEF TakeOffer
    <3> QED BY <1>1, <3>1 DEF ProbesTyped, hubVars, Rest, TakesOffer, GivenUp
  <2>2. \/ fetch'[p] = NoFetch /\ noted'[p] = failed'[p]
        \/ /\ fetch'[p] = NoFetch
           /\ noted'[p] = noted[p] /\ failed'[p] = failed[p]
        \/ /\ fetch'[p] = [version |-> offer[p], went |-> "on"] /\ offer[p] > exe[p]
           /\ noted'[p] = noted[p] /\ failed'[p] = failed[p]
    <3>1. CASE brake[p] \/ offer[p] < exe[p]
      <4>1. Remember(p, offer[p], TRUE, brake[p]) /\ UNCHANGED fetch
        BY <1>8, <3>1, Zenon DEF TakeOffer
      <4>2. noted' = [noted EXCEPT ![p] = failed'[p]]
        BY <4>1, Zenon DEF Remember
      <4>3. noted'[p] = failed'[p]
        BY <1>1, <4>2 DEF ProbesTyped
      <4>4. fetch'[p] = NoFetch
        BY <2>1, <4>1, Zenon
      <4> QED BY <4>3, <4>4
    <3>2. CASE ~(brake[p] \/ offer[p] < exe[p])
      <4>1. /\ UNCHANGED <<noted, failed>>
            /\ fetch' = IF offer[p] = exe[p] THEN fetch
                        ELSE [fetch EXCEPT ![p] = [version |-> offer[p], went |-> "on"]]
        BY <1>8, <3>2, Zenon DEF TakeOffer
      <4>2. ~(offer[p] < exe[p])
        BY <3>2, Zenon
      <4>3. noted'[p] = noted[p] /\ failed'[p] = failed[p]
        BY <4>1
      <4>4. CASE offer[p] = exe[p]
        BY <2>1, <4>1, <4>3, <4>4
      <4>5. CASE offer[p] # exe[p]
        <5>1. fetch'[p] = [version |-> offer[p], went |-> "on"]
          BY <1>1, <4>1, <4>5 DEF ProbesTyped
        <5>2. offer[p] > exe[p]
          BY <4>2, <4>5
        <5> QED BY <4>3, <5>1, <5>2
      <4> QED BY <4>4, <4>5
    <3> QED BY <3>1, <3>2
  <2>3. Notes(p)'
    BY <1>1, <2>1, <2>2 DEF Notes
  <2>a. Fetching(p)'
    <3>1. CASE fetch'[p] = NoFetch
      BY <2>1, <3>1 DEF Fetching
    <3>2. CASE /\ fetch'[p] = [version |-> offer[p], went |-> "on"] /\ offer[p] > exe[p]
               /\ failed'[p] = failed[p]
      <4>1. fetch'[p].version = offer[p] /\ fetch'[p].went = "on"
        BY <3>2
      <4> QED BY <2>1, <3>2, <4>1 DEF Fetching, GivenUp, IsFinal
    <3> QED BY <2>2, <3>1, <3>2
  <2>4. Standing(p)'
    BY <1>1, <2>1 DEF Standing
  <2>5. Reporting(p)'
    BY <1>1, <2>1 DEF Reporting, Rest, Runnable
  <2> QED BY <2>3, <2>a, <2>4, <2>5 DEF ProbeInv
<1>9. CASE FetchEnds(p)
  <2>1. /\ fetch[p].went = "on" /\ fetch'[p].version = fetch[p].version
        /\ fetch'[p].went \in {"ready", "unfit", "retry"}
        /\ (fetch'[p].went = "ready" => kind[fetch[p].version] # "untestable")
        /\ at'[p] = at[p] /\ Rest(p) /\ delivered'[p] = delivered[p]
        /\ exe'[p] = exe[p] /\ prev'[p] = prev[p] /\ pending'[p] = pending[p]
        /\ failed'[p] = failed[p] /\ noted'[p] = noted[p]
    <3>1. /\ fetch[p].went = "on" /\ UNCHANGED <<hubVars, diskVars, at, failed, delivered>>
          /\ \E went \in {"ready", "unfit", "retry"} :
               /\ fetch' = [fetch EXCEPT ![p].went = went]
               /\ went = "ready" => kind[fetch[p].version] # "untestable"
      BY <1>9 DEF FetchEnds
    <3>2. PICK went \in {"ready", "unfit", "retry"} :
               /\ fetch' = [fetch EXCEPT ![p].went = went]
               /\ went = "ready" => kind[fetch[p].version] # "untestable"
      BY <3>1
    <3>3. fetch'[p].version = fetch[p].version /\ fetch'[p].went = went
      BY <1>1, <3>2 DEF ProbesTyped, Fetches
    <3> QED BY <1>1, <3>1, <3>2, <3>3 DEF hubVars, diskVars, Rest
  <2>2. Fetching(p)'
    BY <1>1, <2>1 DEF Fetching, GivenUp, IsFinal
  <2>3. Standing(p)' /\ Notes(p)'
    BY <1>1, <2>1 DEF Fetching, Standing, Notes, GivenUp, IsFinal
  <2>4. Reporting(p)'
    BY <1>1, <2>1 DEF Reporting, Rest, Runnable
  <2> QED BY <2>2, <2>3, <2>4 DEF ProbeInv
<1>10. CASE Confirm(p)
  <2>1. /\ at[p] = "heard" /\ at'[p] = "idle" /\ pending[p] # NoPending /\ pending'[p] = NoPending
        /\ failed'[p] = NoFailure /\ noted'[p] = NoFailure /\ Rest(p)
        /\ exe'[p] = exe[p] /\ prev'[p] = prev[p] /\ fetch'[p] = fetch[p]
    BY <1>1, <1>10 DEF Confirm, ProbesTyped, hubVars, Rest
  <2>2. Fetching(p)' /\ Standing(p)' /\ Notes(p)'
    BY <1>1, <2>1 DEF Fetching, Standing, Notes
  <2>3. Reporting(p)'
    BY <1>1, <2>1 DEF Reporting, Rest, Runnable
  <2> QED BY <2>2, <2>3 DEF ProbeInv
<1>11. CASE Watch(p)
  <2>1. /\ at[p] = "heard" /\ pending[p] # NoPending /\ Rest(p)
        /\ \/ at'[p] = "idle" /\ pending'[p].to = pending[p].to
           \/ at'[p] = "leaving" /\ pending'[p] = NoPending
        /\ exe'[p] = exe[p] /\ prev'[p] = prev[p] /\ fetch'[p] = fetch[p]
        /\ failed'[p] = failed[p] /\ noted'[p] = noted[p]
    <3>1. /\ \/ /\ at' = [at EXCEPT ![p] = "idle"]
                /\ pending' = [pending EXCEPT ![p] = [pending[p] EXCEPT !.cycles = pending[p].cycles + 1]]
             \/ pending' = [pending EXCEPT ![p] = NoPending] /\ at' = [at EXCEPT ![p] = "leaving"]
          /\ at[p] = "heard" /\ pending[p] # NoPending
          /\ UNCHANGED <<hubVars, exe, prev, noted, box, failed, fetch>>
      BY <1>11 DEF Watch
    <3>2. [pending[p] EXCEPT !.cycles = pending[p].cycles + 1].to = pending[p].to
      BY DEF Trials
    <3> QED BY <1>1, <3>1, <3>2 DEF ProbesTyped, hubVars, Rest
  <2>2. Fetching(p)' /\ Standing(p)' /\ Notes(p)'
    BY <1>1, <2>1 DEF Fetching, Standing, Notes, GivenUp, IsFinal
  <2>3. Reporting(p)'
    BY <1>1, <2>1 DEF Reporting, Rest, Runnable
  <2> QED BY <2>2, <2>3 DEF ProbeInv
<1>12. CASE AfterFetch(p)
  <2>1. /\ at[p] = "heard" /\ pending[p] = NoPending /\ Rest(p)
        /\ exe'[p] = exe[p] /\ prev'[p] = prev[p]
    <3>1. at[p] = "heard" /\ pending[p] = NoPending /\ UNCHANGED <<hubVars, exe, prev, box>>
      BY <1>12, Zenon DEF AfterFetch
    <3> QED BY <1>1, <3>1 DEF hubVars, Rest
  <2>2. Reporting(p)' \/ at'[p] \in {"sending", "heard"}
    BY <1>1, <2>1 DEF Reporting, Rest, Runnable
  <2>3. CASE /\ fetch[p].went = "ready"
             /\ pending' = [pending EXCEPT ![p] = [NoPending EXCEPT !.to = fetch[p].version]]
             /\ at' = [at EXCEPT ![p] = "noted"]
             /\ UNCHANGED <<noted, failed, fetch>>
    <3>1. /\ pending'[p].to = fetch[p].version /\ at'[p] = "noted" /\ fetch'[p] = fetch[p]
          /\ noted'[p] = noted[p] /\ failed'[p] = failed[p]
      BY <1>1, <2>3 DEF ProbesTyped, NoPending
    <3>2. /\ fetch[p].version > exe[p] /\ ~GivenUp(failed[p], fetch[p].version)
          /\ kind[fetch[p].version] # "untestable"
      BY <1>1, <2>3 DEF Fetching
    <3>3. Fetching(p)'
      BY <2>1, <2>3, <3>1, <3>2 DEF Fetching, GivenUp, IsFinal, Rest
    <3>4. Standing(p)' /\ Notes(p)'
      BY <1>1, <2>1, <3>1, <3>2 DEF Standing, Notes
    <3> QED BY <2>2, <3>1, <3>3, <3>4 DEF ProbeInv
  <2>4. CASE /\ fetch[p].went \in {"retry", "unfit"}
             /\ Remember(p, fetch[p].version, fetch[p].went = "unfit", FALSE)
             /\ fetch' = [fetch EXCEPT ![p] = NoFetch]
             /\ at' = [at EXCEPT ![p] = "idle"]
             /\ UNCHANGED pending
    <3>1. /\ noted' = [noted EXCEPT ![p] = failed'[p]] /\ fetch' = [fetch EXCEPT ![p] = NoFetch]
          /\ at' = [at EXCEPT ![p] = "idle"] /\ UNCHANGED pending
      BY <2>4, Zenon DEF Remember
    <3>2. noted'[p] = failed'[p] /\ fetch'[p] = NoFetch /\ at'[p] = "idle" /\ pending'[p] = NoPending
      BY <1>1, <2>1, <3>1 DEF ProbesTyped
    <3>3. Fetching(p)' /\ Standing(p)' /\ Notes(p)'
      BY <1>1, <2>1, <3>2 DEF Fetching, Standing, Notes
    <3> QED BY <2>2, <3>2, <3>3 DEF ProbeInv
  <2>5. CASE at' = [at EXCEPT ![p] = "idle"] /\ UNCHANGED <<pending, noted, failed, fetch>>
    <3>1. /\ noted'[p] = noted[p] /\ failed'[p] = failed[p] /\ fetch'[p] = fetch[p] /\ at'[p] = "idle"
          /\ pending'[p] = NoPending
      BY <1>1, <2>1, <2>5 DEF ProbesTyped
    <3>2. Fetching(p)' /\ Standing(p)' /\ Notes(p)'
      BY <1>1, <2>1, <3>1 DEF Fetching, Standing, Notes, GivenUp, IsFinal
    <3> QED BY <2>2, <3>1, <3>2 DEF ProbeInv
  <2> QED BY <1>12, <2>3, <2>4, <2>5, Zenon DEF AfterFetch
<1>13. CASE RemovePrev(p)
  <2>1. /\ at[p] = "noted" /\ at'[p] = "removed" /\ prev'[p] = 0 /\ Rest(p)
        /\ exe'[p] = exe[p] /\ fetch'[p] = fetch[p] /\ pending'[p] = pending[p]
        /\ failed'[p] = failed[p] /\ noted'[p] = noted[p]
    BY <1>1, <1>13 DEF RemovePrev, ProbesTyped, hubVars, Rest
  <2>2. Fetching(p)' /\ Standing(p)' /\ Notes(p)'
    BY <1>1, <2>1 DEF Fetching, Standing, Notes, GivenUp, IsFinal
  <2>3. Reporting(p)'
    BY <1>1, <2>1 DEF Reporting, Rest, Runnable
  <2> QED BY <2>2, <2>3 DEF ProbeInv
<1>14. CASE KeepPrev(p)
  <2>1. /\ at[p] = "removed" /\ at'[p] = "kept" /\ prev'[p] = exe[p] /\ Rest(p)
        /\ exe'[p] = exe[p] /\ fetch'[p] = fetch[p] /\ pending'[p] = pending[p]
        /\ failed'[p] = failed[p] /\ noted'[p] = noted[p]
    BY <1>1, <1>14 DEF KeepPrev, Kept, ProbesTyped, hubVars, Rest
  <2>2. Fetching(p)' /\ Standing(p)' /\ Notes(p)'
    BY <1>1, <2>1 DEF Fetching, Standing, Notes, GivenUp, IsFinal
  <2>3. Reporting(p)'
    BY <1>1, <2>1 DEF Reporting, Rest, Runnable
  <2> QED BY <2>2, <2>3 DEF ProbeInv
<1>15. CASE PutInPlace(p)
  <2>1. /\ at[p] = "kept" /\ at'[p] = "down" /\ prev'[p] = prev[p] /\ Rest(p)
        /\ exe'[p] = fetch[p].version /\ fetch'[p] = NoFetch /\ pending'[p] = pending[p]
        /\ failed'[p] = failed[p] /\ noted'[p] = noted[p]
    BY <1>1, <1>15 DEF PutInPlace, ProbesTyped, hubVars, Rest
  <2>2. /\ fetch[p].went = "ready" /\ pending[p].to = fetch[p].version /\ prev[p] = exe[p]
        /\ fetch[p].version > exe[p] /\ ~GivenUp(failed[p], fetch[p].version)
        /\ kind[fetch[p].version] # "untestable"
    BY <1>1, <2>1 DEF Fetching
  <2>3. Fetching(p)' /\ Notes(p)'
    BY <1>1, <2>1 DEF Fetching, Notes
  <2>4. Standing(p)'
    BY <2>1, <2>2 DEF Standing, GivenUp, IsFinal
  <2>5. Reporting(p)'
    BY <1>1, <2>1, <2>2 DEF Reporting, Rest, Runnable
  <2> QED BY <2>3, <2>4, <2>5 DEF ProbeInv
<1>16. CASE NoteRollback(p)
  <2>1. at[p] = "leaving" /\ Remember(p, exe[p], TRUE, FALSE)
    BY <1>16, Zenon DEF NoteRollback
  <2>2. ~GivenUp(failed[p], exe[p])
    BY <1>1, <2>1 DEF Standing
  <2>3. noted'[p] = failed'[p] /\ failed'[p].version = exe[p]
    <3>1. TRUE \in BOOLEAN /\ FALSE \in BOOLEAN
      OBVIOUS
    <3> QED BY <1>1, <2>1, <2>2, <3>1, RememberFacts, Zenon
  <2>4. /\ at'[p] = "returning" /\ Rest(p) /\ exe'[p] = exe[p] /\ prev'[p] = prev[p]
        /\ pending'[p] = pending[p] /\ fetch'[p] = fetch[p]
    <3>1. at' = [at EXCEPT ![p] = "returning"] /\ UNCHANGED <<hubVars, exe, prev, pending, box, fetch>>
      BY <1>16, Zenon DEF NoteRollback
    <3> QED BY <1>1, <3>1 DEF ProbesTyped, hubVars, Rest
  <2>5. fetch[p] = NoFetch
    BY <1>1, <2>1 DEF Fetching
  <2>6. Fetching(p)' /\ Notes(p)'
    BY <2>3, <2>4, <2>5 DEF Fetching, Notes
  <2>7. Standing(p)'
    BY <1>1, <2>1, <2>4 DEF Standing
  <2>8. Reporting(p)'
    BY <1>1, <2>4 DEF Reporting, Rest, Runnable
  <2> QED BY <2>6, <2>7, <2>8 DEF ProbeInv
<1>17. CASE GoBack(p)
  <2>1. at[p] = "returning" /\ prev[p] # 0 /\ pending[p] = NoPending /\ fetch[p] = NoFetch
        /\ kind[prev[p]] # "untestable"
    BY <1>1, <1>17 DEF GoBack, Standing, Fetching, Reporting
  <2>2. /\ at'[p] = "down" /\ exe'[p] = prev[p] /\ prev'[p] = 0 /\ Rest(p)
        /\ pending'[p] = pending[p] /\ fetch'[p] = fetch[p]
        /\ failed'[p] = failed[p] /\ noted'[p] = noted[p]
    BY <1>1, <1>17, <2>1 DEF GoBack, ProbesTyped, hubVars, Rest
  <2>3. Fetching(p)' /\ Standing(p)' /\ Notes(p)'
    BY <1>1, <2>1, <2>2 DEF Fetching, Standing, Notes
  <2>4. Reporting(p)'
    BY <1>1, <2>1, <2>2 DEF Reporting, Rest, Runnable
  <2> QED BY <2>3, <2>4 DEF ProbeInv
<1>18. CASE Dies(p) \/ Crash(p)
  <2>1. /\ at'[p] = "down" /\ fetch'[p] = NoFetch /\ Rest(p) /\ exe'[p] = exe[p] /\ prev'[p] = prev[p]
        /\ pending'[p] = pending[p] /\ failed'[p] = failed[p] /\ noted'[p] = noted[p]
    BY <1>1, <1>18 DEF Dies, Crash, Ends, ProbesTyped, hubVars, diskVars, Rest
  <2>2. Fetching(p)' /\ Standing(p)' /\ Notes(p)'
    BY <1>1, <2>1 DEF Fetching, Standing, Notes, GivenUp, IsFinal
  <2>3. Reporting(p)'
    BY <1>1, <2>1 DEF Reporting, Rest, Runnable
  <2> QED BY <2>2, <2>3 DEF ProbeInv
<1>19. CASE SetBrake(p)
  <2>1. /\ noted'[p] \in {noted[p], NoFailure} /\ Rest(p) /\ exe'[p] = exe[p] /\ prev'[p] = prev[p]
        /\ pending'[p] = pending[p] /\ failed'[p] = failed[p] /\ at'[p] = at[p]
        /\ fetch'[p] = fetch[p] /\ delivered'[p] = delivered[p]
    BY <1>1, <1>19 DEF SetBrake, ProbesTyped, hubVars, processVars, Rest
  <2>2. Fetching(p)' /\ Standing(p)' /\ Notes(p)'
    BY <1>1, <2>1 DEF Fetching, Standing, Notes, GivenUp, IsFinal
  <2>3. Reporting(p)'
    BY <1>1, <2>1 DEF Reporting, Rest, Runnable
  <2> QED BY <2>2, <2>3 DEF ProbeInv
<1> QED BY <1>4, <1>5, <1>6, <1>7, <1>8, <1>9, <1>10, <1>11, <1>12, <1>13, <1>14, <1>15, <1>16,
           <1>17, <1>18, <1>19 DEF AtProbe, Runs

\* A step at one probe leaves what is true of the others.
LEMMA OthersKept ==
  ASSUME HubSame, NEW q \in Probes, Same(q), ProbeInv(q)
  PROVE  ProbeInv(q)'
BY DEF HubSame, Same, ProbeInv, Fetching, Standing, Notes, Reporting, Switches, GoesBack, OnTrial,
       GivenUp, IsFinal, Runnable

LEMMA IInvInductive == IInv /\ [Next]_vars => IInv'
<1> SUFFICES ASSUME IInv, [Next]_vars PROVE IInv'
  OBVIOUS
<1>1. CASE HubAlone
  BY <1>1, HubAloneInductive
<1>2. ASSUME NEW p \in Probes, AtProbe(p) PROVE IInv'
  <2>1. HubSame /\ \A q \in Probes \ {p} : Same(q)
    BY <1>2, OnlyItself DEF IInv, Typed
  <2>2. Typed' /\ ProbeInv(p)'
    BY <1>2, OwnTyped, OwnProbeInv
  <2>3. ASSUME NEW q \in Probes PROVE ProbeInv(q)'
    <3>1. CASE q = p
      BY <2>2, <3>1
    <3>2. CASE q # p
      BY <2>1, <3>2, OthersKept DEF IInv
    <3> QED BY <3>1, <3>2
  <2>4. SweepInv'
    BY <2>1 DEF IInv, SweepInv, HubSame, Runnable
  <2> QED BY <2>2, <2>3, <2>4 DEF IInv
<1>3. CASE UNCHANGED vars
  <2>1. HubSame /\ \A q \in Probes : Same(q)
    BY <1>3 DEF vars, hubVars, diskVars, processVars, HubSame, Same
  <2>2. Typed'
    BY <1>3 DEF IInv, Typed, HubTyped, ProbesTyped, vars, hubVars, diskVars, processVars
  <2>3. SweepInv'
    BY <2>1 DEF IInv, SweepInv, HubSame, Runnable
  <2>4. ASSUME NEW q \in Probes PROVE ProbeInv(q)'
    BY <2>1, OthersKept DEF IInv
  <2> QED BY <2>2, <2>3, <2>4 DEF IInv
<1> QED BY <1>1, <1>2, <1>3 DEF Next, HubAlone, AtProbe

\* Only a crash in a rollback leaves a version in place.
LEMMA WhoLeaves ==
  ASSUME left \in [Probes -> 0..MaxVersion], NEW p \in Probes, AtProbe(p)
  PROVE  /\ Crash(p) \/ left' = left
         /\ \A q \in Probes \ {p} : left'[q] = left[q]
<1>1. CASE Crash(p)
  BY <1>1 DEF Crash
<1>2. CASE ~Crash(p)
  BY <1>2 DEF AtProbe, Runs, Start, Cycle, Ingest, Unreached, TakeOffer, Confirm, Watch, AfterFetch,
         RemovePrev, KeepPrev, PutInPlace, NoteRollback, GoBack, Dies, FetchEnds, SetBrake
<1> QED BY <1>1, <1>2

LEMMA HubLeavesNone ==
  ASSUME HubAlone \/ UNCHANGED vars
  PROVE  UNCHANGED <<kind, exe, prev, pending, at, left>>
BY DEF HubAlone, HubSteps, Sweep, Advance, Later, AdminActs, diskVars, processVars, vars

LEMMA LeftKept ==
  ASSUME IInv, left \in [Probes -> 0..MaxVersion], [Next]_vars
  PROVE  left' \in [Probes -> 0..MaxVersion]
<1>1. ASSUME NEW p \in Probes, AtProbe(p)
      PROVE  left' \in [Probes -> 0..MaxVersion]
  <2>1. exe[p] \in 0..MaxVersion
    BY UpdatesAssumption DEF IInv, Typed, ProbesTyped, Versions
  <2> QED BY <1>1, <2>1, WhoLeaves DEF Crash
<1> QED BY <1>1, HubLeavesNone DEF Next, HubAlone, AtProbe

LEMMA IInvAlways == Spec => []IInv
<1>1. Init => IInv
  BY InitIInv
<1>2. IInv /\ [Next]_vars => IInv'
  BY IInvInductive
<1> QED BY <1>1, <1>2, PTL DEF Spec

LEMMA LeftAlways == Spec => [](left \in [Probes -> 0..MaxVersion])
<1>1. Init => left \in [Probes -> 0..MaxVersion]
  BY UpdatesAssumption DEF Init
<1>2. IInv /\ left \in [Probes -> 0..MaxVersion] /\ [Next]_vars => (left \in [Probes -> 0..MaxVersion])'
  BY LeftKept
<1> QED BY <1>1, <1>2, IInvAlways, PTL DEF Spec

\* The variables hold what they may: a trial's starts and cycles, a version's
\* attempts and the reports in a probe's box stay within their limits.
THEOREM TypeCorrect == Spec => []TypeOK
<1>1. IInv /\ left \in [Probes -> 0..MaxVersion] => TypeOK
  <2> SUFFICES ASSUME IInv, left \in [Probes -> 0..MaxVersion] PROVE TypeOK
    OBVIOUS
  <2>1. HubTyped /\ ProbesTyped
    BY DEF IInv, Typed
  <2>2. /\ rollout.version \in 0..MaxVersion /\ rollout.stage \in {"none", "canary", "all"}
        /\ rollout.ready \in 0..(Soak + 1) /\ rollout.paused \in BOOLEAN
        /\ canary \subseteq Probes /\ follows \subseteq Probes
    BY <2>1 DEF HubTyped, Rollouts
  <2>3. ASSUME NEW p \in Probes
        PROVE  /\ pending[p].to \in 0..MaxVersion
               /\ pending[p].starts <= MaxStarts /\ pending[p].cycles <= MaxWindow
               /\ Len(box[p]) <= MaxBox + 1 /\ failed[p].attempts <= MaxAttempts
    <3>1. pending[p] \in Trials /\ failed[p] \in Failures /\ Len(box[p]) <= MaxBox + 1
      BY <2>1 DEF ProbesTyped
    <3> QED BY <3>1, UpdatesAssumption DEF Trials, Failures
  <2>4. /\ record \in [Probes -> [runs : Versions, failed : 0..MaxVersion]]
        /\ exe \in [Probes -> Versions] /\ prev \in [Probes -> 0..MaxVersion]
    BY <2>1 DEF ProbesTyped, Reports
  <2> QED BY <2>2, <2>3, <2>4 DEF TypeOK
<1> QED BY <1>1, IInvAlways, LeftAlways, PTL
-----------------------------------------------------------------------------
(***************************************************************************)
(* What is put in place, and what the hub goes on with.                    *)
(***************************************************************************)

\* A version in place changes in two ways: for one that was downloaded and not
\* given up on, or back to the one before, when the one it replaces is noted.
LEMMA ExeChanges ==
  ASSUME IInv, NEW p \in Probes, AtProbe(p), exe'[p] # exe[p]
  PROVE  ~(noted[p].last /\ noted[p].version = exe'[p])
<1>1. /\ ProbesTyped /\ Fetching(p) /\ Standing(p) /\ Notes(p) /\ Reporting(p)
      /\ exe[p] \in Nat /\ prev[p] \in Nat /\ fetch[p].version \in Nat
  BY UpdatesAssumption DEF IInv, Typed, ProbeInv, ProbesTyped, Fetches, Versions
<1>2. PutInPlace(p) \/ GoBack(p)
  <2>1. TakeOffer(p) \/ NoteRollback(p) \/ AfterFetch(p) => UNCHANGED exe
    BY Zenon DEF TakeOffer, NoteRollback, AfterFetch
  <2> QED BY <2>1 DEF AtProbe, Runs, Start, Cycle, Ingest, Unreached, Confirm, Watch, RemovePrev,
             KeepPrev, Dies, Ends, FetchEnds, Crash, SetBrake, diskVars
<1>3. CASE PutInPlace(p)
  <2>1. exe'[p] = fetch[p].version /\ at[p] = "kept"
    BY <1>1, <1>3 DEF PutInPlace, ProbesTyped
  <2>2. fetch[p].version > exe[p] /\ ~GivenUp(failed[p], fetch[p].version)
    BY <1>1, <2>1 DEF Fetching, Switches
  <2> QED BY <1>1, <2>1, <2>2 DEF Notes, GivenUp, IsFinal, NoFailure
<1>4. CASE GoBack(p)
  <2>1. exe'[p] = prev[p] /\ at[p] = "returning" /\ prev[p] # 0 /\ prev[p] < exe[p]
    BY <1>1, <1>4 DEF GoBack, ProbesTyped, Standing, GoesBack
  <2> QED BY <1>1, <2>1 DEF Notes, NoFailure
<1> QED BY <1>2, <1>3, <1>4

\* A version that a probe gave up on is not put in place again while that is
\* known: neither an offer nor a download that was under way brings it back, and
\* a rollback goes to an older one.
THEOREM GivenUpStaysOut == Spec => NotTriedAgain
<1>1. ASSUME IInv, [Next]_vars, NEW p \in Probes, exe'[p] # exe[p]
      PROVE  ~(noted[p].last /\ noted[p].version = exe'[p])
  <2>1. ~HubAlone /\ ~(UNCHANGED vars)
    BY <1>1 DEF HubAlone, HubSteps, Sweep, Advance, Later, AdminActs, diskVars, vars
  <2>2. PICK q \in Probes : AtProbe(q)
    BY <1>1, <2>1 DEF Next, HubAlone, AtProbe
  <2>3. q = p
    BY <1>1, <2>2, OnlyItself DEF IInv, Typed, Same
  <2> QED BY <1>1, <2>2, <2>3, ExeChanges
<1>2. IInv /\ [Next]_vars =>
        [\A p \in Probes : exe'[p] # exe[p] => ~(noted[p].last /\ noted[p].version = exe'[p])]_vars
  BY <1>1
<1> QED BY <1>2, IInvAlways, PTL DEF Spec, NotTriedAgain

\* The hub promotes a rollout by itself only for a release that its canaries'
\* probes were able to run, also when the rollout, the canaries or what they
\* report changed since the sweep read them.
THEOREM CanariesRanIt == Spec => PromotesWhatRuns
<1> DEFINE Promotes ==
      rollout.stage = "canary" /\ rollout'.stage = "all" /\ sweep.step = "promote" /\ sweep' = NoChange
      => sweep.canaries = {} \/ Runnable(rollout.version)
<1>1. ASSUME IInv, [Next]_vars PROVE Promotes
  <2>1. CASE Advance
    <3>1. rollout.stage = "canary" /\ rollout'.stage = "all" => rollout.version = sweep.version
      BY <2>1 DEF Advance
    <3> QED BY <1>1, <3>1 DEF IInv, SweepInv
  <2>2. CASE ~Advance
    <3>1. Sweep \/ UNCHANGED sweep
      <4>1. ASSUME NEW p \in Probes, AtProbe(p) PROVE UNCHANGED sweep
        BY <1>1, <4>1, OnlyItself DEF IInv, Typed, HubSame
      <4> QED BY <1>1, <2>2, <4>1 DEF Next, HubSteps, Later, AdminActs, AtProbe, vars, hubVars
    <3> QED BY <3>1 DEF Sweep, NoChange
  <2> QED BY <2>1, <2>2
<1>2. IInv /\ [Next]_vars => [Promotes]_vars
  BY <1>1
<1> QED BY <1>2, IInvAlways, PTL DEF Spec, PromotesWhatRuns
-----------------------------------------------------------------------------
(***************************************************************************)
(* What a probe can go back to.                                            *)
(***************************************************************************)
LEMMA OwnGoodBefore ==
  ASSUME IInv, NEW p \in Probes, AtProbe(p), ~Crash(p), left'[p] = left[p], GoodBefore(p)
  PROVE  GoodBefore(p)'
<1>1. /\ ProbesTyped /\ HubTyped /\ Fetching(p) /\ Standing(p) /\ Notes(p) /\ Reporting(p)
      /\ kind' = kind
  BY OnlyItself DEF IInv, Typed, ProbeInv, HubSame
<1>2. /\ exe[p] \in Nat \ {0} /\ prev[p] \in Nat /\ pending[p].to \in Nat /\ exe[p] \in Versions
      /\ fetch[p].version \in Nat /\ delivered[p] \in BOOLEAN
      /\ kind[exe[p]] \in {"good", "mute", "crashing", "untestable"}
  <2>1. MaxVersion \in Nat \ {0}
    BY UpdatesAssumption
  <2>2. /\ exe[p] \in Versions /\ prev[p] \in 0..MaxVersion /\ pending[p] \in Trials
        /\ fetch[p] \in Fetches /\ delivered[p] \in BOOLEAN
    BY <1>1 DEF ProbesTyped
  <2>3. kind[exe[p]] \in {"good", "mute", "crashing", "untestable"}
    BY <1>1, <2>2 DEF HubTyped
  <2> QED BY <2>1, <2>2, <2>3 DEF Versions, Trials, Fetches
<1>3. NoPending.to = 0
  BY DEF NoPending
<1> USE <1>1, <1>2, <1>3 DEF GoodBefore, OnTrial, GoesBack, Settled, ProbesTyped
\* A probe comes down without a version on trial only where a good one runs.
<1>4. CASE Start(p)
  <2>1. /\ at[p] = "down" /\ exe' = exe /\ prev' = prev /\ at'[p] \in {"leaving", "idle"}
        /\ \/ pending'[p] = NoPending /\ (at'[p] = "leaving" <=> OnTrial(p))
           \/ OnTrial(p) /\ at'[p] = "idle" /\ pending'[p].to = pending[p].to
    BY <1>4 DEF Start, CountStart, Trials
  <2> QED BY <2>1
<1>5. CASE Cycle(p)
  BY <1>5 DEF Cycle
<1>6. CASE Ingest(p)
  BY <1>6 DEF Ingest
<1>7. CASE Unreached(p)
  BY <1>7 DEF Unreached, diskVars
<1>8. CASE TakeOffer(p)
  <2>1. UNCHANGED <<exe, prev, pending>> /\ at' = [at EXCEPT ![p] = "idle"] /\ at[p] = "heard"
    BY <1>8, Zenon DEF TakeOffer
  <2> QED BY <2>1
\* What delivered a report is good: it runs, and isn't mute.
<1>9. CASE Confirm(p)
  <2>1. /\ UNCHANGED <<exe, prev>> /\ at[p] = "heard" /\ at'[p] = "idle" /\ delivered[p]
        /\ pending'[p] = NoPending
    BY <1>9 DEF Confirm
  <2>2. kind[exe[p]] = "good"
    BY <2>1 DEF Reporting
  <2> QED BY <2>1, <2>2
<1>10. CASE Watch(p)
  <2>1. /\ UNCHANGED <<exe, prev>> /\ at[p] = "heard" /\ pending[p] # NoPending
        /\ \/ at'[p] = "idle" /\ pending'[p].to = pending[p].to
           \/ at'[p] = "leaving" /\ pending'[p] = NoPending
    BY <1>10 DEF Watch, Trials
  <2>2. OnTrial(p)
    BY <2>1 DEF Standing, Switches
  <2> QED BY <2>1, <2>2
<1>11. CASE AfterFetch(p)
  <2>1. /\ UNCHANGED <<exe, prev>> /\ at[p] = "heard" /\ pending[p] = NoPending
        /\ \/ /\ fetch[p].went = "ready" /\ at'[p] = "noted"
              /\ pending' = [pending EXCEPT ![p] = [NoPending EXCEPT !.to = fetch[p].version]]
           \/ at'[p] = "idle" /\ pending' = pending
    BY <1>11, Zenon DEF AfterFetch
  <2> QED BY <2>1 DEF Fetching, NoPending
<1>12. CASE RemovePrev(p)
  <2>1. /\ at[p] = "noted" /\ at'[p] = "removed" /\ ~OnTrial(p)
        /\ UNCHANGED <<exe, pending>>
    BY <1>12 DEF RemovePrev, Standing, Switches
  <2> QED BY <2>1
<1>13. CASE KeepPrev(p)
  BY <1>13 DEF KeepPrev, Standing, Switches
\* The version put in place leaves a good one behind it.
<1>14. CASE PutInPlace(p)
  <2>1. /\ prev[p] = exe[p] /\ ~OnTrial(p) /\ pending[p].to = fetch[p].version
        /\ at[p] = "kept"
    BY <1>14 DEF PutInPlace, Fetching, Standing, Switches
  <2> QED BY <1>14, <2>1 DEF PutInPlace
<1>15. CASE NoteRollback(p)
  <2>1. UNCHANGED <<exe, prev, pending>> /\ at' = [at EXCEPT ![p] = "returning"] /\ at[p] = "leaving"
    BY <1>15, Zenon DEF NoteRollback
  <2> QED BY <2>1
<1>16. CASE GoBack(p)
  <2>1. prev[p] # 0 /\ pending[p] = NoPending /\ at[p] = "returning"
    BY <1>16 DEF GoBack, Standing
  <2> QED BY <1>16, <2>1 DEF GoBack
<1>17. CASE Dies(p)
  BY <1>17 DEF Dies, Ends, diskVars
<1>18. CASE FetchEnds(p)
  BY <1>18 DEF FetchEnds, diskVars
<1>19. CASE SetBrake(p)
  BY <1>19 DEF SetBrake, processVars
<1> QED BY <1>4, <1>5, <1>6, <1>7, <1>8, <1>9, <1>10, <1>11, <1>12, <1>13, <1>14, <1>15, <1>16,
           <1>17, <1>18, <1>19 DEF AtProbe, Runs

\* A rollback that a crash cuts short leaves in place what it was to take away.
LEMMA CrashGoodBefore ==
  ASSUME IInv, left \in [Probes -> 0..MaxVersion], NEW p \in Probes, Crash(p), GoodBefore(p)
  PROVE  GoodBefore(p)'
<1>1. /\ UNCHANGED <<kind, exe, prev, pending>> /\ at'[p] = "down"
      /\ left'[p] = IF GoesBack(p) THEN exe[p] ELSE left[p]
  BY DEF IInv, Typed, ProbesTyped, Crash, Ends, GoesBack, diskVars
<1>2. ~GoesBack(p)'
  BY <1>1 DEF GoesBack
<1>3. GoesBack(p) => ~OnTrial(p)
  BY DEF IInv, Typed, ProbesTyped, ProbeInv, Standing, OnTrial, NoPending, Versions
<1> QED BY <1>1, <1>2, <1>3 DEF GoodBefore, OnTrial, Settled

\* A version on trial never stands alone: an older one that works, or that a
\* rollback cut short left in place, can be put back, whatever ends the process
\* and whenever, and however often releases are offered, fail and are tried again.
THEOREM AlwaysAbleToGoBack == Spec => []CanGoBack
<1> DEFINE Before == \A p \in Probes : GoodBefore(p)
<1>1. Init => Before
  <2> SUFFICES ASSUME Init, NEW p \in Probes PROVE GoodBefore(p)
    OBVIOUS
  <2>1. kind[1] = "good" /\ exe[p] = 1 /\ pending[p].to = 0 /\ at[p] = "idle"
    BY DEF Init, NoPending
  <2> QED BY <2>1 DEF GoodBefore, OnTrial, GoesBack, Settled
<1>2. IInv /\ left \in [Probes -> 0..MaxVersion] /\ Before /\ [Next]_vars => Before'
  <2> SUFFICES ASSUME IInv, left \in [Probes -> 0..MaxVersion], Before, [Next]_vars, NEW q \in Probes PROVE GoodBefore(q)'
    OBVIOUS
  <2>1. ASSUME NEW p \in Probes, AtProbe(p) PROVE GoodBefore(q)'
    <3>1. CASE q = p
      <4>1. CASE Crash(p)
        BY <3>1, <4>1, CrashGoodBefore
      <4>2. CASE ~Crash(p)
        BY <2>1, <3>1, <4>2, OwnGoodBefore, WhoLeaves
      <4> QED BY <4>1, <4>2
    <3>2. CASE q # p
      <4>1. HubSame /\ Same(q) /\ left'[q] = left[q]
        BY <2>1, <3>2, OnlyItself, WhoLeaves DEF IInv, Typed
      <4> QED BY <4>1 DEF HubSame, Same, GoodBefore, OnTrial, GoesBack, Settled
    <3> QED BY <3>1, <3>2
  <2>2. CASE HubAlone \/ UNCHANGED vars
    <3>1. UNCHANGED <<kind, exe, prev, pending, at, left>>
      BY <2>2, HubLeavesNone
    <3> QED BY <3>1 DEF GoodBefore, OnTrial, GoesBack, Settled
  <2> QED BY <2>1, <2>2 DEF Next, HubAlone, AtProbe
<1>3. IInv /\ Before => CanGoBack
  BY DEF IInv, ProbeInv, Standing, GoodBefore, OnTrial, Settled, CanGoBack
<1> QED BY <1>1, <1>2, <1>3, IInvAlways, LeftAlways, PTL DEF Spec
===============================================================================
