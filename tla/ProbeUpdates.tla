----------------------------- MODULE ProbeUpdates -----------------------------
(***************************************************************************)
(* How a release reaches the probes.  The hub rolls it out, to the         *)
(* canaries first (service/rollout.rs); a probe that is offered it         *)
(* downloads it, tests it, puts it in place and goes back to the version   *)
(* before unless the new one delivers a report (probe/update/).            *)
(*                                                                         *)
(* Versions are numbered by age; 0 is none.  The probes run version 1 at   *)
(* first.  What a newer release is like is chosen at the start:            *)
(*   good:       it works;                                                 *)
(*   mute:       it runs and makes reports, and none of them arrives;      *)
(*   crashing:   it dies at every start before it reports;                 *)
(*   untestable: it fails its own test.                                    *)
(* Rolled back by signature, pinned companies and windows are left out.    *)
(***************************************************************************)
EXTENDS Naturals, Sequences

CONSTANTS
  Probes,
  Canaries,     \* the canaries at first
  Kinds,        \* what a release may be like
  MaxVersion,   \* bound: releases on the hub
  MaxStarts,    \* MAX_STARTS
  MaxAttempts,  \* MAX_ATTEMPTS
  MaxWindow,    \* cycles a version on trial has (confirm_window)
  Soak,         \* the soak time, in units of time longer than a cycle
  MaxBox,       \* reports a probe keeps
  MaxAdmin,     \* bound: what admins and people at the probe do
  MaxFaults     \* bound: crashes, and times the hub or a download fails

ASSUME UpdatesAssumption ==
  /\ Canaries \subseteq Probes
  /\ Kinds \subseteq {"good", "mute", "crashing", "untestable"}
  /\ MaxVersion \in Nat \ {0} /\ MaxStarts \in Nat \ {0} /\ MaxAttempts \in Nat \ {0}
  /\ MaxWindow \in Nat /\ Soak \in Nat /\ MaxBox \in Nat \ {0}
  /\ MaxAdmin \in Nat /\ MaxFaults \in Nat

VARIABLES
  kind,       \* what each release is like
  \* The hub.
  rollout,    \* probe_rollout
  canary,     \* the probes marked canary
  follows,    \* the probes whose company follows the rollout
  record,     \* what the last report of each probe said
  sweep,      \* what the sweep is about to change
  \* Each probe's disk.
  exe,        \* the version in place
  prev,       \* probe.prev
  pending,    \* update.json
  noted,      \* update-failed.json
  brake,      \* updates-off
  box,        \* the reports it keeps, and the one in hand
  \* Each probe's process.
  at,         \* how far its cycle, a switch or a rollback is
  failed,     \* Updater.failed
  fetch,      \* the download: its version and how it went
  offer,      \* what the last answer of the flush offered
  delivered,  \* the hub took a report in this cycle
  left,       \* history: the version that a rollback cut short left in place
  \* Bounds.
  admin, faults

hubVars == <<rollout, canary, follows, record, sweep>>
diskVars == <<exe, prev, pending, noted, brake, box>>
processVars == <<at, failed, fetch, offer, delivered>>
vars == <<kind, hubVars, diskVars, processVars, left, admin, faults>>

Versions == 1..MaxVersion
NoRollout == [version |-> 0, stage |-> "none", ready |-> 0, paused |-> FALSE]
NoPending == [to |-> 0, starts |-> 0, cycles |-> 0]
NoFailure == [version |-> 0, attempts |-> 0, last |-> FALSE, brake |-> FALSE]
NoFetch == [version |-> 0, went |-> "none"]
NoChange == [step |-> "wait", version |-> 0, canaries |-> {}]

Init ==
  /\ kind \in {k \in [Versions -> Kinds \union {"good"}] : k[1] = "good"}
  /\ rollout = NoRollout /\ canary = Canaries /\ follows = Probes
  /\ record = [p \in Probes |-> [runs |-> 1, failed |-> 0]]
  /\ sweep = NoChange
  /\ exe = [p \in Probes |-> 1] /\ prev = [p \in Probes |-> 0]
  /\ pending = [p \in Probes |-> NoPending]
  /\ noted = [p \in Probes |-> NoFailure] /\ failed = noted
  /\ brake = [p \in Probes |-> FALSE]
  /\ box = [p \in Probes |-> <<>>]
  /\ at = [p \in Probes |-> "idle"]
  /\ fetch = [p \in Probes |-> NoFetch]
  /\ offer = [p \in Probes |-> 0]
  /\ delivered = [p \in Probes |-> FALSE]
  /\ left = [p \in Probes |-> 0]
  /\ admin = 0 /\ faults = 0

-----------------------------------------------------------------------------
(***************************************************************************)
(* The hub: what admins do.  Each change of a rollout is one statement     *)
(* that names the version and the state it applies to.                     *)
(***************************************************************************)
TakesPart == canary \intersect follows

\* approve: a rollout starts, or starts again.
Approve(v) ==
  /\ rollout' = [version |-> v, stage |-> IF TakesPart = {} THEN "all" ELSE "canary",
                 ready |-> 0, paused |-> FALSE]
  /\ UNCHANGED <<canary, follows>>

Stop ==
  /\ rollout # NoRollout
  /\ rollout' = NoRollout
  /\ UNCHANGED <<canary, follows>>

Pausable(v) == rollout.version = v /\ ~rollout.paused
Pause ==
  /\ rollout.version # 0 /\ Pausable(rollout.version)
  /\ rollout' = [rollout EXCEPT !.paused = TRUE]
  /\ UNCHANGED <<canary, follows>>

Resume ==
  /\ rollout.paused
  /\ rollout' = [rollout EXCEPT !.paused = FALSE]
  /\ UNCHANGED <<canary, follows>>

\* An admin may promote a paused rollout, and so resume it.
PromoteNow ==
  /\ rollout.stage = "canary"
  /\ rollout' = [rollout EXCEPT !.stage = "all", !.paused = FALSE]
  /\ UNCHANGED <<canary, follows>>

SetCanary(p) ==
  /\ canary' = IF p \in canary THEN canary \ {p} ELSE canary \union {p}
  /\ UNCHANGED <<rollout, follows>>

SetPolicy(p) ==
  /\ follows' = IF p \in follows THEN follows \ {p} ELSE follows \union {p}
  /\ UNCHANGED <<rollout, canary>>

AdminActs ==
  /\ admin < MaxAdmin
  /\ admin' = admin + 1
  /\ \/ \E v \in Versions : Approve(v)
     \/ Stop \/ Pause \/ Resume \/ PromoteNow
     \/ \E p \in Probes : SetCanary(p) \/ SetPolicy(p)
  /\ UNCHANGED <<kind, left, record, sweep, diskVars, processVars, faults>>

-----------------------------------------------------------------------------
(***************************************************************************)
(* The hub's sweep.                                                        *)
(***************************************************************************)

\* (Wrong on purpose: no canary's failure counts.)
NoneDidntInstall(v) == FALSE
SomeDidntInstall(v) == \E p \in TakesPart : record[p].failed = v
\* (Wrong on purpose: every canary that didn't fail counts.)
NoneFailed(v) == \A p \in TakesPart : record[p].failed # v
AllRunIt(v) == \A p \in TakesPart : record[p].runs = v

\* canary_step; ready counts the units of time since every canary runs it,
\* from 1.
CanaryStep ==
  CASE TakesPart = {} -> "promote"
    [] TakesPart # {} /\ SomeDidntInstall(rollout.version) -> "pause"
    [] OTHER ->
         IF AllRunIt(rollout.version)
         THEN CASE rollout.ready = 0 -> "ready"
                [] rollout.ready > Soak -> "promote"
                [] OTHER -> "wait"
         ELSE IF rollout.ready = 0 THEN "wait" ELSE "unready"

\* advance, up to the change.  It reads the rollout, then the probes.
Sweep ==
  /\ sweep = NoChange /\ rollout.stage = "canary" /\ ~rollout.paused
  /\ CanaryStep # "wait"
  /\ sweep' = [step |-> CanaryStep, version |-> rollout.version, canaries |-> TakesPart]
  /\ UNCHANGED <<kind, left, rollout, canary, follows, record, diskVars, processVars, admin, faults>>

\* ... and the change, if the rollout still is in the state it names.
Advance ==
  /\ sweep # NoChange
  /\ LET sameStage == rollout.version = sweep.version /\ rollout.stage = "canary"
     IN rollout' =
          CASE sweep.step = "ready" /\ sameStage -> [rollout EXCEPT !.ready = 1]
            [] sweep.step = "unready" /\ sameStage -> [rollout EXCEPT !.ready = 0]
            [] sweep.step = "pause" /\ Pausable(sweep.version) -> [rollout EXCEPT !.paused = TRUE]
            [] sweep.step = "promote" /\ sameStage /\ ~rollout.paused -> [rollout EXCEPT !.stage = "all"]
            [] OTHER -> rollout
  /\ sweep' = NoChange
  /\ UNCHANGED <<kind, left, canary, follows, record, diskVars, processVars, admin, faults>>

\* A unit of time of the soak: none passes between two reports of one flush.
Later ==
  /\ rollout.ready \in 1..Soak
  /\ \A p \in Probes : at[p] = "sending" => ~delivered[p]
  /\ rollout' = [rollout EXCEPT !.ready = @ + 1]
  /\ UNCHANGED <<kind, left, canary, follows, record, sweep, diskVars, processVars, admin, faults>>

\* plan, check_release: the version offered to a probe for its report.
Held(p) == rollout.paused \/ (rollout.stage = "canary" /\ p \notin canary)
Plan(p, report) ==
  IF /\ p \in follows /\ ~Held(p)
     /\ report.failed # rollout.version
     /\ rollout.version > report.runs
  THEN rollout.version ELSE 0

-----------------------------------------------------------------------------
(***************************************************************************)
(* A probe's cycle.                                                        *)
(***************************************************************************)

\* A version given up on isn't tried again.  (Wrong on purpose: only after so
\* many attempts.)
IsFinalByAttempts(f) == f.attempts >= MaxAttempts
IsFinal(f) == f.last \/ f.attempts >= MaxAttempts
RecordFailure(f, v, last, byBrake) ==
  [version |-> v, last |-> last, brake |-> byBrake,
   attempts |-> IF f.version = v THEN f.attempts + 1 ELSE 1]

\* remember_failure
Remember(p, v, last, byBrake) ==
  /\ failed' = [failed EXCEPT ![p] = RecordFailure(@, v, last, byBrake)]
  /\ noted' = [noted EXCEPT ![p] = failed'[p]]

\* prune
Newest(reports) == IF Len(reports) <= MaxBox THEN reports
                   ELSE SubSeq(reports, Len(reports) - MaxBox + 1, Len(reports))

\* on_start: a start of a version on trial counts.  (Wrong on purpose: it
\* doesn't.)
CountNoStart(trial) == trial
CountStart(trial) == [trial EXCEPT !.starts = @ + 1]

\* Updater::start: a version that started too often goes; a note that is
\* about another version is dropped.
Start(p) ==
  /\ at[p] = "down"
  /\ LET trial == CountStart(pending[p])
         onTrial == pending[p].to = exe[p]
         tooOften == onTrial /\ trial.starts > MaxStarts
     IN /\ pending' = [pending EXCEPT ![p] = IF onTrial /\ ~tooOften THEN trial ELSE NoPending]
        /\ at' = [at EXCEPT ![p] = IF tooOften THEN "leaving" ELSE "idle"]
  /\ failed' = [failed EXCEPT ![p] = noted[p]]
  /\ UNCHANGED <<kind, left, hubVars, exe, prev, noted, brake, box, fetch, offer, delivered, admin, faults>>

\* The monitoring loop makes a report, sends what waits first ...
Cycle(p) ==
  /\ at[p] = "idle" /\ kind[exe[p]] # "crashing"
  /\ box' = [box EXCEPT ![p] = Append(Newest(@),
       [runs |-> exe[p], failed |-> IF IsFinal(failed[p]) THEN failed[p].version ELSE 0])]
  /\ offer' = [offer EXCEPT ![p] = 0]
  /\ delivered' = [delivered EXCEPT ![p] = FALSE]
  /\ at' = [at EXCEPT ![p] = "sending"]
  /\ UNCHANGED <<kind, left, hubVars, exe, prev, pending, noted, brake, failed, fetch, admin, faults>>

\* ... and each report taken is recorded, and answered with an offer.
Ingest(p) ==
  /\ at[p] = "sending" /\ kind[exe[p]] # "mute"
  /\ LET report == Head(box[p]) IN
     /\ record' = [record EXCEPT ![p] = report]
     /\ offer' = [offer EXCEPT ![p] = Plan(p, report)]
  /\ delivered' = [delivered EXCEPT ![p] = TRUE]
  /\ box' = [box EXCEPT ![p] = Tail(@)]
  /\ at' = [at EXCEPT ![p] = IF box'[p] = <<>> THEN "heard" ELSE "sending"]
  /\ UNCHANGED <<kind, left, rollout, canary, follows, sweep, exe, prev, pending, noted, brake,
                 failed, fetch, admin, faults>>

\* The hub can't be reached.
Unreached(p) ==
  /\ at[p] = "sending"
  /\ IF kind[exe[p]] = "mute" THEN UNCHANGED faults ELSE faults < MaxFaults /\ faults' = faults + 1
  /\ at' = [at EXCEPT ![p] = "heard"]
  /\ UNCHANGED <<kind, left, hubVars, diskVars, failed, fetch, offer, delivered, admin>>

\* offer: an offered release is downloaded, or refused because of the brake or
\* as an older one.
TakesOffer(p) ==
  /\ pending[p] = NoPending /\ fetch[p] = NoFetch
  /\ offer[p] # 0
  /\ ~(failed[p].version = offer[p] /\ IsFinal(failed[p]))

TakeOffer(p) ==
  /\ at[p] = "heard" /\ TakesOffer(p)
  /\ IF brake[p] \/ offer[p] < exe[p]
     THEN Remember(p, offer[p], TRUE, brake[p]) /\ UNCHANGED fetch
     ELSE /\ fetch' = IF offer[p] = exe[p] THEN fetch
                     ELSE [fetch EXCEPT ![p] = [version |-> offer[p], went |-> "on"]]
          /\ UNCHANGED <<noted, failed>>
  /\ at' = [at EXCEPT ![p] = "idle"]
  /\ UNCHANGED <<kind, left, hubVars, exe, prev, pending, brake, box, offer, delivered, admin, faults>>

\* fetch_and_test, in the background.
FetchEnds(p) ==
  /\ fetch[p].went = "on"
  /\ \/ /\ fetch' = [fetch EXCEPT ![p].went =
               IF kind[fetch[p].version] = "untestable" THEN "unfit" ELSE "ready"]
        /\ UNCHANGED faults
     \/ /\ faults < MaxFaults /\ faults' = faults + 1
        /\ fetch' = [fetch EXCEPT ![p].went = "retry"]
  /\ UNCHANGED <<kind, left, hubVars, diskVars, at, failed, offer, delivered, admin>>

\* after_report, while a version is on trial: it is confirmed once the hub
\* took a report, and given up on when it is overdue.
Confirm(p) ==
  /\ at[p] = "heard" /\ pending[p] # NoPending /\ delivered[p]
  /\ pending' = [pending EXCEPT ![p] = NoPending]
  /\ failed' = [failed EXCEPT ![p] = NoFailure]
  /\ noted' = [noted EXCEPT ![p] = NoFailure]
  /\ at' = [at EXCEPT ![p] = "idle"]
  /\ UNCHANGED <<kind, left, hubVars, exe, prev, brake, box, fetch, offer, delivered, admin, faults>>

Watch(p) ==
  /\ at[p] = "heard" /\ pending[p] # NoPending /\ ~delivered[p]
  /\ IF pending[p].cycles < MaxWindow
     THEN /\ pending' = [pending EXCEPT ![p].cycles = @ + 1]
          /\ at' = [at EXCEPT ![p] = "idle"]
     ELSE /\ pending' = [pending EXCEPT ![p] = NoPending]
          /\ at' = [at EXCEPT ![p] = "leaving"]
  /\ UNCHANGED <<kind, left, hubVars, exe, prev, noted, brake, box, failed, fetch, offer, delivered, admin, faults>>

\* after_report, once a download is over.
AfterFetch(p) ==
  /\ at[p] = "heard" /\ pending[p] = NoPending /\ ~TakesOffer(p)
  /\ \/ /\ fetch[p].went = "ready"
        /\ pending' = [pending EXCEPT ![p] = [NoPending EXCEPT !.to = fetch[p].version]]
        /\ at' = [at EXCEPT ![p] = "noted"]
        /\ UNCHANGED <<noted, failed, fetch>>
     \/ /\ fetch[p].went \in {"retry", "unfit"}
        /\ Remember(p, fetch[p].version, fetch[p].went = "unfit", FALSE)
        /\ fetch' = [fetch EXCEPT ![p] = NoFetch]
        /\ at' = [at EXCEPT ![p] = "idle"]
        /\ UNCHANGED pending
     \/ /\ fetch[p].went \in {"none", "on"}
        /\ at' = [at EXCEPT ![p] = "idle"]
        /\ UNCHANGED <<pending, noted, failed, fetch>>
  /\ UNCHANGED <<kind, left, hubVars, exe, prev, brake, box, offer, delivered, admin, faults>>

-----------------------------------------------------------------------------
(***************************************************************************)
(* Putting a version in place, and going back.                             *)
(***************************************************************************)

\* binary::switch: the old probe.prev goes, ...
RemovePrev(p) ==
  /\ at[p] = "noted"
  /\ prev' = [prev EXCEPT ![p] = 0]
  /\ at' = [at EXCEPT ![p] = "removed"]
  /\ UNCHANGED <<kind, left, hubVars, exe, pending, noted, brake, box, failed, fetch, offer, delivered, admin, faults>>

\* ... the version in place is kept (wrong on purpose: it isn't), ...
KeptNot(p) == prev[p]
Kept(p) == exe[p]
KeepPrev(p) ==
  /\ at[p] = "removed"
  /\ prev' = [prev EXCEPT ![p] = Kept(p)]
  /\ at' = [at EXCEPT ![p] = "kept"]
  /\ UNCHANGED <<kind, left, hubVars, exe, pending, noted, brake, box, failed, fetch, offer, delivered, admin, faults>>

\* ... and the new one takes its place.  The probe restarts.
PutInPlace(p) ==
  /\ at[p] = "kept"
  /\ exe' = [exe EXCEPT ![p] = fetch[p].version]
  /\ fetch' = [fetch EXCEPT ![p] = NoFetch]
  /\ at' = [at EXCEPT ![p] = "down"]
  /\ UNCHANGED <<kind, left, hubVars, prev, pending, noted, brake, box, failed, offer, delivered, admin, faults>>

\* roll_back, once the note is gone: the failure is noted, ...
NoteRollback(p) ==
  /\ at[p] = "leaving"
  /\ Remember(p, exe[p], TRUE, FALSE)
  /\ at' = [at EXCEPT ![p] = "returning"]
  /\ UNCHANGED <<kind, left, hubVars, exe, prev, pending, brake, box, fetch, offer, delivered, admin, faults>>

\* ... and the version before is put back, if there is one.
GoBack(p) ==
  /\ at[p] = "returning"
  /\ IF prev[p] = 0
     THEN UNCHANGED <<exe, prev>> /\ at' = [at EXCEPT ![p] = "idle"]
     ELSE /\ exe' = [exe EXCEPT ![p] = prev[p]]
          /\ prev' = [prev EXCEPT ![p] = 0]
          /\ at' = [at EXCEPT ![p] = "down"]
  /\ UNCHANGED <<kind, left, hubVars, pending, noted, brake, box, failed, fetch, offer, delivered, admin, faults>>

\* The process ends: by itself, or by anything that ends it at any moment.
Ends(p) ==
  /\ at' = [at EXCEPT ![p] = "down"]
  /\ fetch' = [fetch EXCEPT ![p] = NoFetch]
  /\ offer' = [offer EXCEPT ![p] = 0]
  /\ delivered' = [delivered EXCEPT ![p] = FALSE]
  /\ UNCHANGED <<kind, hubVars, diskVars, failed, admin>>

Dies(p) ==
  /\ at[p] = "idle" /\ kind[exe[p]] = "crashing"
  /\ Ends(p)
  /\ UNCHANGED <<left, faults>>

Crash(p) ==
  /\ at[p] # "down" /\ faults < MaxFaults
  /\ Ends(p)
  /\ left' = IF at[p] \in {"leaving", "returning"} THEN [left EXCEPT ![p] = exe[p]] ELSE left
  /\ faults' = faults + 1

\* `probe updates off`, `probe updates on`: a command of its own beside the
\* running probe.
SetBrake(p) ==
  /\ admin < MaxAdmin
  /\ admin' = admin + 1
  /\ brake' = [brake EXCEPT ![p] = ~@]
  /\ noted' = [noted EXCEPT ![p] = IF brake[p] /\ @.brake THEN NoFailure ELSE @]
  /\ UNCHANGED <<kind, left, hubVars, exe, prev, pending, box, processVars, faults>>

-----------------------------------------------------------------------------
HubSteps == Sweep \/ Advance \/ Later
Runs(p) ==
  \/ Start(p) \/ Cycle(p) \/ Ingest(p)
  \/ (kind[exe[p]] = "mute" /\ Unreached(p))
  \/ TakeOffer(p) \/ Confirm(p) \/ Watch(p) \/ AfterFetch(p)
  \/ RemovePrev(p) \/ KeepPrev(p) \/ PutInPlace(p) \/ NoteRollback(p) \/ GoBack(p)
  \/ Dies(p)

Next ==
  \/ HubSteps \/ AdminActs
  \/ \E p \in Probes : Runs(p) \/ Unreached(p) \/ FetchEnds(p) \/ Crash(p) \/ SetBrake(p)

Spec == Init /\ [][Next]_vars

\* The sweep runs every 10 seconds and goes on, so does each probe's cycle (a
\* service manager starts it again), and a download ends.
Fairness ==
  /\ WF_vars(Sweep) /\ WF_vars(Advance) /\ WF_vars(Later)
  /\ \A p \in Probes : WF_vars(Runs(p)) /\ WF_vars(FetchEnds(p))
FairSpec == Spec /\ Fairness

-----------------------------------------------------------------------------
TypeOK ==
  /\ rollout.version \in 0..MaxVersion /\ rollout.stage \in {"none", "canary", "all"}
  /\ rollout.ready \in 0..(Soak + 1) /\ rollout.paused \in BOOLEAN
  /\ canary \subseteq Probes /\ follows \subseteq Probes
  /\ left \in [Probes -> 0..MaxVersion]
  /\ record \in [Probes -> [runs : Versions, failed : 0..MaxVersion]]
  /\ exe \in [Probes -> Versions] /\ prev \in [Probes -> 0..MaxVersion]
  /\ \A p \in Probes :
       /\ pending[p].to \in 0..MaxVersion
       /\ pending[p].starts <= MaxStarts /\ pending[p].cycles <= MaxWindow
       /\ Len(box[p]) <= MaxBox + 1
       /\ failed[p].attempts <= MaxAttempts

\* A version on trial never stands alone: an older one can be put back, and it
\* works, unless it is one that a rollback cut short left in place.
CanGoBack ==
  \A p \in Probes : pending[p].to = exe[p] =>
    prev[p] # 0 /\ (kind[prev[p]] = "good" \/ prev[p] = left[p])

\* A version that doesn't work doesn't stay: in the end the probe runs one that
\* does, unless a crash cut the rollback from it short, after which nothing
\* takes it up again (update/mod.rs).
Stranded(p) == exe[p] = left[p] /\ kind[exe[p]] # "good"
BadGoesAway == \A p \in Probes : kind[exe[p]] # "good" ~> kind[exe[p]] = "good" \/ Stranded(p)

\* A version that a probe gave up on, because it would fail again, is not put in
\* place again while that is known.
NotTriedAgain ==
  [][\A p \in Probes :
       exe'[p] # exe[p] => ~(noted[p].last /\ noted[p].version = exe'[p])]_vars

\* With canaries, the hub goes on to every probe only with a release that their
\* probes were able to run.
Runnable(v) == kind[v] \in {"good", "mute"}
PromotesWhatRuns ==
  [][rollout.stage = "canary" /\ rollout'.stage = "all" /\ sweep.step = "promote" /\ sweep' = NoChange
     => sweep.canaries = {} \/ Runnable(rollout.version)]_vars

\* A rollout doesn't wait for its canaries for ever, unless one of them runs a
\* newer release than the one rolled out, or one left there that doesn't work.
Waiting ==
  /\ rollout.stage = "canary" /\ ~rollout.paused
  /\ \A p \in TakesPart : exe[p] <= rollout.version /\ ~Stranded(p)
CanaryStageEnds == Waiting ~> ~Waiting
===============================================================================
