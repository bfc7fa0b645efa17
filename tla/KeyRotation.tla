------------------------------ MODULE KeyRotation ------------------------------
(***************************************************************************)
(* Rotating the hub's key: an admin starts a rotation, the hub announces   *)
(* the next pins in its answers to reports, switches once every active     *)
(* probe holds them, and tells the probes that it did (service/rotation.rs,*)
(* hub/rotation.rs; probe/enrollment.rs, main.rs, storage.rs).  Answers    *)
(* are signed with the hub's current key and reports sealed for the key    *)
(* the probe knows, so a probe whose pins fall behind can neither be heard *)
(* nor hear.                                                               *)
(*                                                                         *)
(* A key stands for the pins that rotate together: the X25519 key, the     *)
(* signing key derived from it and the certificate.  Keys are numbered in  *)
(* the order they are made; 0 is none.                                     *)
(***************************************************************************)
EXTENDS Naturals, Sequences, FiniteSets

CONSTANTS
  Probes,
  Enrolled,     \* the probes enrolled at first
  MaxKeys,      \* bound: keys the hub makes
  MaxBox,       \* reports a probe keeps (MAX_BUFFERED_REPORTS)
  Retention,    \* how long, in units of time (MAX_BUFFERED_REPORT_AGE_SECS)
  MaxEnrolls,   \* bound: enrollments and revocations in a behaviour
  MaxFaults     \* bound: what goes wrong by loss, crash or carelessness

ASSUME KeysAssumption ==
  /\ MaxKeys \in Nat \ {0} /\ MaxBox \in Nat \ {0} /\ Retention \in Nat
  /\ MaxEnrolls \in Nat /\ MaxFaults \in Nat
  /\ Enrolled \subseteq Probes

VARIABLES
  \* The hub's disk and database.
  files,      \* the key files: identity, next, prev
  announced,  \* the last row of hub_rotations is 'announcing'
  switchAge,  \* how long ago a key switch was last recorded
  code,       \* the key in the enrollment code that can be redeemed
  record,     \* the probes' records: state, and the pins last reported
  \* The running hub.
  secret,     \* AppState.hub_secret
  told,       \* AppState.hub_pins: current, next, prev
  switch,     \* how far a switch is; "down" if the hub doesn't run
  start,      \* how far a request to start a rotation is
  cancel,     \* how far a request to cancel it is
  check,      \* how far the hub's own check, every minute, is
  seen,       \* the row and the key its refresh has read
  \* Each probe.
  enr,        \* enrollment.json: current and next pins
  box,        \* the reports it keeps, oldest first, and the one in hand
  boxKey,     \* the hub key its black box was made for
  link,       \* the pins its cycle started with
  at,         \* how far its cycle is
  answer,     \* the hub's answer on its way
  ack,        \* what the last answer it trusted said of the pins
  enrolling,  \* the key `probe enroll` is about to save
  \* History.
  astray,     \* probes the keys may leave behind: see what adds to it
  crossed,    \* requests and steps that no lock keeps apart came together
  stale,      \* what the hub tells was set from a row or key changed meanwhile
  \* Bounds.
  keys, enrolls, faults

disk == <<files, announced, switchAge, code, record>>
requests == <<start, cancel, check, seen>>
history == <<astray, crossed, stale>>
hubVars == <<disk, secret, told, switch, requests>>
probeVars == <<enr, box, boxKey, link, at, answer, ack, enrolling>>
bounds == <<keys, enrolls, faults>>
vars == <<hubVars, probeVars, history, bounds>>

Keys == 0..MaxKeys
Never == Retention + 2
Pins(current, next) == [current |-> current, next |-> next]
NoPins == Pins(0, 0)
Holds(pins, key) == key \in {pins.current, pins.next}

Nothing == [kind |-> "nothing", key |-> 0, signed |-> 0]
Says(kind, key) == [kind |-> kind, key |-> key, signed |-> secret]
NotRead == [announced |-> FALSE, secret |-> 1]
Read == [announced |-> announced, secret |-> secret]

Init ==
  /\ files = [identity |-> 1, next |-> 0, prev |-> 0]
  /\ announced = FALSE /\ switchAge = Never /\ code = 0
  /\ record = [p \in Probes |->
                [state |-> IF p \in Enrolled THEN "active" ELSE "none", pins |-> NoPins]]
  /\ secret = 1 /\ told = [current |-> 1, next |-> 0, prev |-> 0]
  /\ switch = "idle" /\ start = "none" /\ cancel = "none" /\ check = "idle" /\ seen = NotRead
  /\ enr = [p \in Probes |-> IF p \in Enrolled THEN Pins(1, 0) ELSE NoPins]
  /\ box = [p \in Probes |-> <<>>]
  /\ boxKey = [p \in Probes |-> enr[p].current]
  /\ link = [p \in Probes |-> NoPins]
  /\ at = [p \in Probes |-> "home"]
  /\ answer = [p \in Probes |-> Nothing]
  /\ ack = [p \in Probes |-> Nothing]
  /\ enrolling = [p \in Probes |-> 0]
  /\ astray = {} /\ crossed = FALSE /\ stale = FALSE
  /\ keys = 1 /\ enrolls = 0 /\ faults = 0

Up == switch # "down"
Active == {p \in Probes : record[p].state = "active"}
Switching == switch \notin {"idle", "down"}
InCycle(p) == at[p] \in {"sending", "sent"}

\* Carelessness: somebody goes astray by what people do, or requests cross.
Counted == IF <<astray, crossed>>' = <<astray, crossed>> THEN UNCHANGED faults
           ELSE faults < MaxFaults /\ faults' = faults + 1

-----------------------------------------------------------------------------
(***************************************************************************)
(* The hub: rotations.  Only switches are kept apart (SWITCHING): a start, *)
(* a cancellation and the hub's check go on beside them, and each other.   *)
(***************************************************************************)

\* refresh: what the hub tells is read again from its row, key and files.  It
\* stays as it is if the next key is announced but can't be read.
Credentials(f, a, s) ==
  IF a /\ f.next = 0 THEN told
  ELSE [current |-> s, next |-> IF a THEN f.next ELSE 0, prev |-> f.prev]

\* The probe hasn't followed the last switch to its end.
Behind(p) ==
  /\ enr[p] # NoPins
  /\ enr[p].current # files.identity \/ (InCycle(p) /\ link[p].current # files.identity)

\* start, up to the row: the next key is made.  A probe that is behind will be
\* told of it and no more of the last switch; one that enrolls, not know it.
MakeNextKey ==
  /\ Up /\ start = "none" /\ ~announced /\ keys < MaxKeys
  /\ keys' = keys + 1
  /\ files' = [files EXCEPT !.next = keys + 1]
  /\ start' = "made"
  /\ astray' = astray \cup {p \in Active : Behind(p) \/ enrolling[p] # 0}
  /\ crossed' = (crossed \/ Switching \/ cancel # "none")
  /\ UNCHANGED <<announced, switchAge, code, record, secret, told, switch, cancel, check, seen,
                 probeVars, stale, enrolls>>
  /\ Counted

Announce ==
  /\ Up /\ start = "made"
  /\ announced' = TRUE
  /\ start' = "announced"
  /\ UNCHANGED <<files, switchAge, code, record, secret, told, switch, cancel, check, seen,
                 probeVars, history, bounds>>

FinishStart ==
  /\ Up /\ start = "announced"
  /\ told' = Credentials(files, announced, secret)
  /\ start' = "none"
  /\ UNCHANGED <<disk, secret, switch, cancel, check, seen, probeVars, history, bounds>>

\* cancel: the row ends, then the next files go.
Cancel ==
  /\ Up /\ cancel = "none" /\ announced
  /\ announced' = FALSE
  /\ cancel' = "ended"
  /\ crossed' = (crossed \/ Switching \/ start # "none")
  /\ UNCHANGED <<files, switchAge, code, record, secret, told, switch, start, check, seen,
                 probeVars, astray, stale, keys, enrolls>>
  /\ Counted

RemoveNextKey ==
  /\ Up /\ cancel = "ended"
  /\ files' = [files EXCEPT !.next = 0]
  /\ told' = Credentials(files', announced, secret)
  /\ cancel' = "none"
  /\ UNCHANGED <<announced, switchAge, code, record, secret, switch, start, check, seen,
                 probeVars, history, bounds>>

\* A probe is ready when it reported the next pins.  (Wrong on purpose: when it
\* reported any next pins.)
IsReadyAnyNext(next, pins) == pins.next # 0 \/ pins.current = next
IsReady(next, pins) == Holds(pins, next)
AllReady == announced /\ told.next # 0 /\ \A p \in Active : IsReady(told.next, record[p].pins)

\* prune_prev_key.  (Wrong on purpose: when the switch is over.)
ExpiredAtOnce == switchAge # Never
PrevExpired == switchAge # Never /\ switchAge > Retention

\* A switch reads the rotation in progress.
BeginSwitch ==
  /\ switch = "idle" /\ announced
  /\ switch' = "keep"
  /\ crossed' = (crossed \/ start # "none" \/ cancel # "none")

\* "Switch now": a probe that hasn't reported the next pins may be cut off.
SwitchNow ==
  /\ BeginSwitch
  /\ astray' = astray \cup {p \in Active : ~Holds(record[p].pins, files.next)}
  /\ UNCHANGED <<disk, secret, told, requests, probeVars, stale, keys, enrolls>>
  /\ Counted

\* check_once: the previous key goes once it has expired, which may be the one a
\* switch beside it has just kept; then the hub switches if every active probe is
\* ready, unless it does already, or what it tells is refreshed.  Another step may
\* come between what the refresh reads and what it sets.
PrunePrevKey == files' = IF PrevExpired THEN [files EXCEPT !.prev = 0] ELSE files
PrunesKept == files' # files /\ switch \in {"move", "record"}

CheckSwitches ==
  /\ check = "idle" /\ AllReady
  /\ PrunePrevKey /\ BeginSwitch
  /\ UNCHANGED <<announced, switchAge, code, record, secret, told, requests, probeVars, astray, stale, bounds>>

CheckRefreshes ==
  /\ Up /\ check = "idle" /\ (AllReady => Switching)
  /\ PrunePrevKey
  /\ crossed' = (crossed \/ PrunesKept)
  /\ told' = IF AllReady THEN told ELSE Credentials(files', announced, secret)
  /\ <<files, told>>' # <<files, told>>
  /\ UNCHANGED <<announced, switchAge, code, record, secret, switch, requests, probeVars,
                 astray, stale, bounds>>

CheckReads ==
  /\ Up /\ check = "idle" /\ ~AllReady /\ faults < MaxFaults
  /\ PrunePrevKey
  /\ crossed' = (crossed \/ PrunesKept)
  /\ check' = "refreshing" /\ seen' = Read
  /\ faults' = faults + 1
  /\ UNCHANGED <<announced, switchAge, code, record, secret, told, switch, start, cancel,
                 probeVars, astray, stale, keys, enrolls>>

CheckSets ==
  /\ Up /\ check = "refreshing"
  /\ told' = Credentials(files, seen.announced, seen.secret)
  /\ stale' = (stale \/ told' # Credentials(files, announced, secret))
  /\ check' = "idle" /\ seen' = NotRead
  /\ UNCHANGED <<disk, secret, switch, start, cancel, probeVars, astray, crossed, bounds>>

\* switch_files: the current key becomes the previous one, ...
KeepPrevKey ==
  /\ switch = "keep"
  /\ IF files.next # 0
     THEN files' = [files EXCEPT !.prev = files.identity] /\ switch' = "move"
     ELSE UNCHANGED files /\ switch' = "record"
  /\ UNCHANGED <<announced, switchAge, code, record, secret, told, requests, probeVars, history, bounds>>

\* ... then the next key the current one (an error if it is gone by now).
MoveNextKey ==
  /\ switch = "move"
  /\ IF files.next # 0
     THEN /\ files' = [files EXCEPT !.identity = files.next, !.next = 0]
          /\ switch' = "record"
     ELSE UNCHANGED files /\ switch' = "idle"
  /\ UNCHANGED <<announced, switchAge, code, record, secret, told, requests, probeVars, history, bounds>>

\* end_rotation: recorded only if the rotation is still announced.
EndRotation ==
  /\ announced' = FALSE
  /\ switchAge' = IF announced THEN 0 ELSE switchAge

RecordSwitch ==
  /\ switch = "record"
  /\ EndRotation
  /\ switch' = "revoke"
  /\ UNCHANGED <<files, code, record, secret, told, requests, probeVars, history, bounds>>

\* The codes made before carry the old pins.  Then the running hub follows.
RevokeCodes ==
  /\ switch = "revoke"
  /\ code' = 0
  /\ secret' = files.identity
  /\ switch' = "refresh"
  /\ UNCHANGED <<files, announced, switchAge, record, told, requests, probeVars, history, bounds>>

FinishSwitch ==
  /\ switch = "refresh"
  /\ told' = Credentials(files, announced, secret)
  /\ switch' = "idle"
  /\ UNCHANGED <<disk, secret, requests, probeVars, history, bounds>>

CrashHub ==
  /\ Up /\ faults < MaxFaults
  /\ faults' = faults + 1
  /\ switch' = "down" /\ start' = "none" /\ cancel' = "none" /\ check' = "idle" /\ seen' = NotRead
  /\ UNCHANGED <<disk, secret, told, probeVars, history, keys, enrolls>>

\* recover: a rotation whose next files are gone was switching.  (Wrong on
\* purpose: nothing is recovered.)
NotCutShort == FALSE
CutShort == announced /\ files.next = 0

StartHub ==
  /\ switch = "down"
  /\ IF CutShort THEN EndRotation ELSE UNCHANGED <<announced, switchAge>>
  /\ secret' = files.identity
  /\ told' = Credentials(files, announced', files.identity)
  /\ switch' = "idle"
  /\ UNCHANGED <<files, code, record, requests, probeVars, history, bounds>>

\* Time goes on for the previous key and the reports waiting.  A cycle, a
\* request or a switch takes seconds, a unit of time days.  A probe that doesn't
\* hear of a switch for as long as the previous key is kept is cut off.
Older ==
  /\ \A p \in Probes : at[p] = "home"
  /\ ~Switching /\ start = "none" /\ cancel = "none" /\ check = "idle"
  /\ \/ switchAge <= Retention
     \/ \E p \in Probes : \E i \in DOMAIN box[p] : box[p][i].age <= Retention
  /\ switchAge' = IF switchAge <= Retention THEN switchAge + 1 ELSE switchAge
  /\ box' = [p \in Probes |-> [i \in DOMAIN box[p] |->
              [box[p][i] EXCEPT !.age = IF @ <= Retention THEN @ + 1 ELSE @]]]
  /\ astray' = astray \cup {p \in Active : switchAge = Retention /\ Behind(p)}
  /\ UNCHANGED <<files, announced, code, record, secret, told, switch, requests,
                 enr, boxKey, link, at, answer, ack, enrolling, crossed, stale, keys, enrolls>>
  /\ Counted

-----------------------------------------------------------------------------
(***************************************************************************)
(* Enrolling and revoking probes.                                          *)
(***************************************************************************)

CreateCode ==
  /\ Up /\ code = 0 /\ enrolls < MaxEnrolls
  /\ code' = told.current
  /\ UNCHANGED <<files, announced, switchAge, record, secret, told, switch, requests,
                 probeVars, history, bounds>>

\* enroll, at the hub: only requests sealed for the current key are opened, and
\* the record is made or replaced but for the pins reported before, which may be
\* next pins that the probe enrolled again doesn't hold.  One that hasn't heard
\* yet that it was revoked goes on with its old pins until it hears.  (A code
\* for one use; another may be made at any time.)
OutOfTime(p) ==
  \/ Switching
  \/ (announced \/ start # "none" \/ cancel # "none") /\ record[p].state # "none"
  \/ record[p].state = "revoked" /\ enr[p] # NoPins
Redeem(p) ==
  /\ Up /\ code # 0 /\ code = secret /\ enrolling[p] = 0 /\ enrolls < MaxEnrolls
  /\ enrolls' = enrolls + 1 /\ code' = 0
  /\ record' = [record EXCEPT ![p].state = "active"]
  /\ enrolling' = [enrolling EXCEPT ![p] = code]
  /\ astray' = IF OutOfTime(p) THEN astray \cup {p} ELSE astray
  /\ UNCHANGED <<files, announced, switchAge, secret, told, switch, requests,
                 enr, box, boxKey, link, at, answer, ack, crossed, stale, keys>>
  /\ Counted

\* enroll, at the probe: a command of its own beside the running probe.
SaveEnrollment(p) ==
  /\ enrolling[p] # 0
  /\ enr' = [enr EXCEPT ![p] = Pins(enrolling[p], 0)]
  /\ enrolling' = [enrolling EXCEPT ![p] = 0]
  /\ boxKey' = [boxKey EXCEPT ![p] = IF @ = 0 THEN enrolling[p] ELSE @]
  /\ UNCHANGED <<hubVars, history, box, link, at, answer, ack, bounds>>

RevokeProbe(p) ==
  /\ Up /\ record[p].state = "active" /\ enrolling[p] = 0 /\ enrolls < MaxEnrolls
  /\ enrolls' = enrolls + 1
  /\ record' = [record EXCEPT ![p].state = "revoked"]
  /\ UNCHANGED <<files, announced, switchAge, code, secret, told, switch, requests,
                 probeVars, history, keys, faults>>

-----------------------------------------------------------------------------
(***************************************************************************)
(* A probe's cycle.  The reports in hand count as kept: what a crash loses *)
(* of them is ReportDelivery's.                                            *)
(***************************************************************************)

\* prune: the expired ones, which are the oldest, so the first; and the oldest
\* of the others.
Expired(reports) == {i \in DOMAIN reports : reports[i].age > Retention}
Young(reports) == SubSeq(reports, Cardinality(Expired(reports)) + 1, Len(reports))
Newest(reports, n) == IF Len(reports) <= n THEN reports
                      ELSE SubSeq(reports, Len(reports) - n + 1, Len(reports))

\* A cycle ends, with what it held.
GoHome(p) ==
  /\ at' = [at EXCEPT ![p] = "home"]
  /\ link' = [link EXCEPT ![p] = NoPins]
  /\ ack' = [ack EXCEPT ![p] = Nothing]

\* The cycle follows the enrollment, seals its report for the key it holds, and
\* joins the reports that wait, pruned.
Cycle(p) ==
  /\ at[p] = "home" /\ enr[p] # NoPins
  /\ link' = [link EXCEPT ![p] = enr[p]]
  /\ box' = [box EXCEPT ![p] =
              Append(Newest(Young(@), MaxBox), [key |-> enr[p].current, pins |-> enr[p], age |-> 0])]
  /\ at' = [at EXCEPT ![p] = "sending"]
  /\ UNCHANGED <<hubVars, history, enr, boxKey, answer, ack, enrolling, bounds>>

\* for_probe: the next pins while they are announced, or that the hub switched.
\* (Wrong on purpose: a probe that holds next pins is told no others.)
ForProbeOnce(pins) ==
  IF told.next # 0
  THEN IF pins.next # 0 THEN Says("ok", 0) ELSE Says("announced", told.next)
  ELSE IF pins.current = told.current THEN Says("ok", 0) ELSE Says("switched", told.current)
ForProbe(pins) ==
  IF told.next # 0
  THEN IF Holds(pins, told.next) THEN Says("ok", 0) ELSE Says("announced", told.next)
  ELSE IF pins.current = told.current THEN Says("ok", 0) ELSE Says("switched", told.current)

\* ingest_report: opened with the current or the previous key; the pins of an
\* active probe are recorded.  (Wrong on purpose: only the current key.)
OpensCurrent(r) == r.key = secret
Opens(r) == r.key = secret \/ (told.prev # 0 /\ r.key = told.prev)

Ingest(p) ==
  /\ Up /\ at[p] = "sending" /\ answer[p] = Nothing
  /\ LET r == Head(box[p]) IN
     /\ answer' = [answer EXCEPT ![p] =
          CASE ~Opens(r) -> Says("refused", 0)
            [] Opens(r) /\ record[p].state = "none" -> Says("refused", 0)
            [] Opens(r) /\ record[p].state = "revoked" -> Says("revoked", 0)
            [] Opens(r) /\ record[p].state = "active" -> ForProbe(r.pins)]
     /\ record' = IF Opens(r) /\ record[p].state = "active"
                  THEN [record EXCEPT ![p].pins = r.pins] ELSE record
  /\ UNCHANGED <<files, announced, switchAge, code, secret, told, switch, requests,
                 enr, box, boxKey, link, at, ack, enrolling, history, bounds>>

\* The report is done with, whatever the answer, and the last answer that is
\* signed with a key the probe pins counts.
Hear(p) ==
  /\ at[p] = "sending" /\ answer[p] # Nothing
  /\ LET trusted == Holds(link[p], answer[p].signed)
         rest == Tail(box[p])
     IN /\ ~(trusted /\ answer[p].kind = "revoked")
        /\ box' = [box EXCEPT ![p] = rest]
        /\ ack' = IF trusted /\ answer[p].kind # "refused"
                  THEN [ack EXCEPT ![p] = answer[p]] ELSE ack
        /\ at' = [at EXCEPT ![p] = IF rest = <<>> THEN "sent" ELSE "sending"]
  /\ answer' = [answer EXCEPT ![p] = Nothing]
  /\ UNCHANGED <<hubVars, history, enr, boxKey, link, enrolling, bounds>>

\* Revoked: it forgets its reports and puts the enrollment aside.
HearRevoked(p) ==
  /\ at[p] = "sending" /\ answer[p].kind = "revoked" /\ Holds(link[p], answer[p].signed)
  /\ box' = [box EXCEPT ![p] = <<>>]
  /\ enr' = [enr EXCEPT ![p] = NoPins]
  /\ GoHome(p)
  /\ answer' = [answer EXCEPT ![p] = Nothing]
  /\ UNCHANGED <<hubVars, history, boxKey, enrolling, bounds>>

\* The hub can't be reached, or its answer is lost: the flush ends.
Unreached(p) ==
  /\ at[p] = "sending"
  /\ IF Up THEN faults < MaxFaults /\ faults' = faults + 1 ELSE UNCHANGED faults
  /\ at' = [at EXCEPT ![p] = "sent"]
  /\ answer' = [answer EXCEPT ![p] = Nothing]
  /\ UNCHANGED <<hubVars, history, enr, box, boxKey, link, ack, enrolling, keys, enrolls>>

\* Enrollment::rotated: what the pins become; as they are if nothing changes.
Rotated(pins, a) ==
  CASE a.kind = "announced" /\ ~Holds(pins, a.key) -> Pins(pins.current, a.key)
    [] a.kind = "switched" -> Pins(a.key, 0)
    [] OTHER -> pins

\* follow_rotation: the pins the cycle started with, rotated, are saved.
FollowRotation(p) ==
  /\ at[p] = "sent"
  /\ LET rotated == Rotated(link[p], ack[p]) IN
     /\ enr' = IF rotated = link[p] THEN enr ELSE [enr EXCEPT ![p] = rotated]
     /\ IF rotated.current = link[p].current THEN GoHome(p)
        ELSE at' = [at EXCEPT ![p] = "saved"] /\ UNCHANGED <<link, ack>>
  /\ UNCHANGED <<hubVars, history, box, boxKey, answer, enrolling, bounds>>

\* ... then the black box is told the new key.
SetHubKey(p) ==
  /\ at[p] = "saved"
  /\ boxKey' = [boxKey EXCEPT ![p] = ack[p].key]
  /\ GoHome(p)
  /\ UNCHANGED <<hubVars, history, enr, box, answer, enrolling, bounds>>

\* A restarted probe drops the reports of a black box made for another key.
RestartProbe(p) ==
  /\ enr[p] # NoPins /\ faults < MaxFaults
  /\ faults' = faults + 1
  /\ box' = [box EXCEPT ![p] = IF boxKey[p] = enr[p].current THEN @ ELSE <<>>]
  /\ boxKey' = [boxKey EXCEPT ![p] = enr[p].current]
  /\ GoHome(p)
  /\ answer' = [answer EXCEPT ![p] = Nothing]
  /\ UNCHANGED <<hubVars, history, enr, enrolling, keys, enrolls>>

StartSteps == Announce \/ FinishStart
CheckSteps == CheckSwitches \/ CheckRefreshes \/ CheckSets
SwitchSteps ==
  KeepPrevKey \/ MoveNextKey \/ RecordSwitch \/ RevokeCodes \/ FinishSwitch \/ StartHub
Running(p) ==
  \/ SaveEnrollment(p)
  \/ Cycle(p) \/ Ingest(p) \/ Hear(p) \/ HearRevoked(p) \/ FollowRotation(p) \/ SetHubKey(p)

Next ==
  \/ StartSteps \/ RemoveNextKey \/ CheckSteps \/ SwitchSteps
  \/ MakeNextKey \/ Cancel \/ SwitchNow \/ CheckReads \/ CrashHub \/ Older \/ CreateCode
  \/ \E p \in Probes :
       Running(p) \/ Redeem(p) \/ RevokeProbe(p) \/ Unreached(p) \/ RestartProbe(p)

Spec == Init /\ [][Next]_vars

\* What the hub does beside each other goes on, and so does each probe's cycle.
Fairness ==
  /\ WF_vars(StartSteps) /\ WF_vars(RemoveNextKey)
  /\ WF_vars(CheckSteps) /\ WF_vars(SwitchSteps)
  /\ \A p \in Probes : WF_vars(Running(p)) /\ WF_vars(SaveEnrollment(p))
FairSpec == Spec /\ Fairness

-----------------------------------------------------------------------------
TypeOK ==
  /\ files \in [identity : Keys \ {0}, next : Keys, prev : Keys]
  /\ announced \in BOOLEAN /\ switchAge \in 0..Never /\ code \in Keys
  /\ record \in [Probes -> [state : {"none", "active", "revoked"},
                            pins : [current : Keys, next : Keys]]]
  /\ secret \in Keys \ {0}
  /\ told \in [current : Keys \ {0}, next : Keys, prev : Keys]
  /\ switch \in {"down", "idle", "keep", "move", "record", "revoke", "refresh"}
  /\ start \in {"none", "made", "announced"} /\ cancel \in {"none", "ended"}
  /\ check \in {"idle", "refreshing"}
  /\ seen \in [announced : BOOLEAN, secret : Keys \ {0}]
  /\ enr \in [Probes -> [current : Keys, next : Keys]]
  /\ \A p \in Probes : Len(box[p]) <= MaxBox + 1
  /\ boxKey \in [Probes -> Keys]
  /\ at \in [Probes -> {"home", "sending", "sent", "saved"}]
  /\ enrolling \in [Probes -> Keys]

\* Requests came one after the other, and what the hub tells was up to date
\* whenever it was set.
Calm == ~crossed /\ ~stale

\* A rotation cuts no probe off, but those gone astray: the hub opens what an
\* active probe seals for the key it holds, and the probe trusts the key the hub
\* signs with, now and once a switch under way, or cut short, is finished.
NobodyCutOff ==
  Calm => \A p \in Active \ astray : enr[p] # NoPins =>
    /\ enr[p].current \in {files.identity, files.prev}
    /\ Holds(enr[p], secret) /\ Holds(enr[p], files.identity)

\* A report that waits can be opened for as long as its probe keeps it, if it
\* was sealed before the hub switched or for the key the hub has now; also when
\* the next rotation comes before the previous key has expired.
Readable(r) == r.key \in {files.identity, files.prev}
BacklogReadable ==
  Calm => \A p \in Active \ astray : \A i \in DOMAIN box[p] :
    box[p][i].age <= Retention /\ box[p][i].age >= switchAge => Readable(box[p][i])

\* Unless a start or a cancellation came beside the other or beside a switch,
\* the key of an announced rotation is there to be announced, but for the moment
\* in which the switch moves it.
AnnouncedKeyKept ==
  ~crossed => (announced /\ switch \in {"idle", "keep", "move"} => files.next # 0)

\* A rotation doesn't stay announced: sooner or later every active probe holds
\* the next pins, or is one that went astray.
RotationEnds == announced ~> ~announced \/ ~Calm \/ Active \cap astray # {}

\* Every probe that goes on reporting ends up with the hub's key.
EveryoneFollows ==
  <>[](Calm => \A p \in Active \ astray : enr[p] # NoPins => enr[p].current = files.identity)
================================================================================
