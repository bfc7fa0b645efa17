-------------------------- MODULE KeyRotation_proofs --------------------------
(***************************************************************************)
(* Proofs about KeyRotation, for any number of probes, keys, enrollments   *)
(* and faults: unless requests cross, a rotation cuts no probe off and     *)
(* leaves no report of it unreadable, but those that went astray.          *)
(***************************************************************************)
EXTENDS KeyRotation, FiniteSetTheorems, TLAPS

-----------------------------------------------------------------------------
(***************************************************************************)
(* Types, of the values on their way too.                                  *)
(***************************************************************************)
Pairs == [current : Keys, next : Keys]
Reports == [key : Keys, pins : Pairs, age : Nat]
Answers ==
  [kind : {"nothing", "ok", "announced", "switched", "refused", "revoked"},
   key : Keys, signed : Keys]

HubTyped ==
  /\ files \in [identity : Keys \ {0}, next : Keys, prev : Keys]
  /\ announced \in BOOLEAN /\ switchAge \in 0..Never /\ code \in Keys
  /\ secret \in Keys \ {0}
  /\ told \in [current : Keys \ {0}, next : Keys, prev : Keys]
  /\ switch \in {"down", "idle", "keep", "move", "record", "revoke", "refresh"}
  /\ start \in {"none", "made", "announced"} /\ cancel \in {"none", "ended"}
  /\ check \in {"idle", "refreshing"}
  /\ seen \in [announced : BOOLEAN, secret : Keys \ {0}]
  /\ keys \in 1..MaxKeys
ProbesTyped ==
  /\ record \in [Probes -> [state : {"none", "active", "revoked"}, pins : Pairs]]
  /\ enr \in [Probes -> Pairs] /\ link \in [Probes -> Pairs]
  /\ box \in [Probes -> Seq(Reports)]
  /\ \A p \in Probes : Len(box[p]) <= MaxBox + 1
  /\ boxKey \in [Probes -> Keys] /\ enrolling \in [Probes -> Keys]
  /\ at \in [Probes -> {"home", "sending", "sent", "saved"}]
  /\ answer \in [Probes -> Answers] /\ ack \in [Probes -> Answers]
Typed == HubTyped /\ ProbesTyped
-----------------------------------------------------------------------------
(***************************************************************************)
(* The black box: what is pruned or sent goes from its head.               *)
(***************************************************************************)
Suffix(t, s) ==
  \E d \in Nat : Len(s) = Len(t) + d /\ \A i \in 1..Len(t) : t[i] = s[i + d]

LEMMA SubSeqIsSuffix ==
  ASSUME NEW S, NEW s \in Seq(S), NEW d \in 0..Len(s)
  PROVE  /\ SubSeq(s, d + 1, Len(s)) \in Seq(S)
         /\ Suffix(SubSeq(s, d + 1, Len(s)), s)
         /\ Len(SubSeq(s, d + 1, Len(s))) = Len(s) - d
<1> DEFINE t == SubSeq(s, d + 1, Len(s))
<1>1. Len(s) \in Nat /\ d \in Nat /\ d <= Len(s)
  OBVIOUS
<1>2. /\ t \in Seq(S)
      /\ Len(t) = Len(s) - d
      /\ \A i \in 1..(Len(s) - d) : t[i] = s[i + d]
  BY <1>1
<1>3. Len(s) = Len(t) + d
  BY <1>1, <1>2
<1> QED BY <1>1, <1>2, <1>3 DEF Suffix

LEMMA SuffixTrans ==
  ASSUME NEW S, NEW s \in Seq(S), NEW t \in Seq(S), NEW u \in Seq(S), Suffix(u, t), Suffix(t, s)
  PROVE  Suffix(u, s)
<1>1. PICK d \in Nat : Len(t) = Len(u) + d /\ \A i \in 1..Len(u) : u[i] = t[i + d]
  BY DEF Suffix
<1>2. PICK e \in Nat : Len(s) = Len(t) + e /\ \A i \in 1..Len(t) : t[i] = s[i + e]
  BY DEF Suffix
<1>3. Len(u) \in Nat /\ Len(t) \in Nat /\ d + e \in Nat
  OBVIOUS
<1>4. Len(s) = Len(u) + (d + e)
  BY <1>1, <1>2, <1>3
<1>5. ASSUME NEW i \in 1..Len(u) PROVE u[i] = s[i + (d + e)]
  <2>1. i + d \in 1..Len(t)
    BY <1>1, <1>3
  <2>2. (i + d) + e = i + (d + e)
    BY <1>3
  <2> QED BY <1>1, <1>2, <2>1, <2>2
<1> QED BY <1>3, <1>4, <1>5 DEF Suffix

LEMMA TailIsSuffix ==
  ASSUME NEW S, NEW s \in Seq(S), s # <<>>
  PROVE  /\ Tail(s) \in Seq(S) /\ Suffix(Tail(s), s)
         /\ Len(Tail(s)) = Len(s) - 1
         /\ Head(s) = s[1] /\ 1 \in DOMAIN s
<1>1. /\ Len(s) \in Nat \ {0} /\ DOMAIN s = 1..Len(s)
      /\ Tail(s) \in Seq(S) /\ Len(Tail(s)) = Len(s) - 1
      /\ \A i \in 1..(Len(s) - 1) : Tail(s)[i] = s[i + 1]
      /\ Head(s) = s[1]
  OBVIOUS
<1>2. Len(s) = Len(Tail(s)) + 1 /\ 1 \in 1..Len(s)
  BY <1>1
<1> QED BY <1>1, <1>2 DEF Suffix

\* Pruning a box keeps its newest reports, and at most MaxBox of them.
LEMMA PruneFacts ==
  ASSUME NEW s \in Seq(Reports)
  PROVE  LET t == Newest(Young(s), MaxBox)
         IN t \in Seq(Reports) /\ Suffix(t, s) /\ Len(t) <= MaxBox
<1> DEFINE n == Cardinality(Expired(s))
           y == Young(s)
<1>1. Len(s) \in Nat /\ DOMAIN s = 1..Len(s) /\ MaxBox \in Nat
  BY KeysAssumption
<1>2. n \in 0..Len(s)
  <2>1. IsFiniteSet(1..Len(s)) /\ Cardinality(1..Len(s)) = Len(s)
    BY <1>1, FS_Interval
  <2>2. Expired(s) \subseteq 1..Len(s)
    BY <1>1 DEF Expired
  <2>3. IsFiniteSet(Expired(s)) /\ Cardinality(Expired(s)) <= Len(s)
    BY <2>1, <2>2, FS_Subset
  <2> QED BY <2>3, <1>1, FS_CardinalityType
<1>3. y \in Seq(Reports) /\ Suffix(y, s)
  BY <1>2, SubSeqIsSuffix DEF Young
<1>4. CASE Len(y) <= MaxBox
  BY <1>3, <1>4 DEF Newest
<1>5. CASE ~(Len(y) <= MaxBox)
  <2>1. Len(y) \in Nat /\ Len(y) - MaxBox \in 0..Len(y)
    BY <1>1, <1>3, <1>5
  <2>2. Newest(y, MaxBox) = SubSeq(y, (Len(y) - MaxBox) + 1, Len(y))
    BY <1>5, <2>1, <1>1 DEF Newest
  <2>3. /\ Newest(y, MaxBox) \in Seq(Reports) /\ Suffix(Newest(y, MaxBox), y)
        /\ Len(Newest(y, MaxBox)) = Len(y) - (Len(y) - MaxBox)
    BY <1>3, <2>1, <2>2, SubSeqIsSuffix
  <2>4. Suffix(Newest(y, MaxBox), s)
    BY <1>3, <2>3, SuffixTrans
  <2>5. Len(Newest(y, MaxBox)) <= MaxBox
    BY <2>3, <2>1, <1>1
  <2> QED BY <2>3, <2>4, <2>5
<1> QED BY <1>4, <1>5

\* What a cycle leaves in the box: what pruning keeps, and its report at the end.
LEMMA BoxAfterCycle ==
  ASSUME NEW s \in Seq(Reports), NEW r \in Reports
  PROVE  LET b == Append(Newest(Young(s), MaxBox), r)
         IN /\ b \in Seq(Reports) /\ Len(b) <= MaxBox + 1
            /\ Len(b) \in DOMAIN b /\ b[Len(b)] = r
            /\ \A i \in DOMAIN b : i # Len(b) =>
                 \E k \in DOMAIN s : b[i] = s[k]
            /\ \E d \in Nat : \A i \in DOMAIN b : i # Len(b) =>
                 i + d \in DOMAIN s /\ b[i] = s[i + d]
<1> DEFINE t == Newest(Young(s), MaxBox)
           b == Append(t, r)
<1>1. t \in Seq(Reports) /\ Suffix(t, s) /\ Len(t) <= MaxBox
  BY PruneFacts
<1>2. PICK d \in Nat : Len(s) = Len(t) + d /\ \A i \in 1..Len(t) : t[i] = s[i + d]
  BY <1>1 DEF Suffix
<1> HIDE DEF t
<1>3. /\ b \in Seq(Reports) /\ Len(b) = Len(t) + 1 /\ DOMAIN b = 1..(Len(t) + 1)
      /\ b[Len(t) + 1] = r /\ \A i \in 1..Len(t) : b[i] = t[i]
      /\ Len(t) \in Nat /\ DOMAIN s = 1..Len(s)
  BY <1>1
<1>4. ASSUME NEW i \in DOMAIN b, i # Len(b) PROVE i + d \in DOMAIN s /\ b[i] = s[i + d]
  <2>1. i \in 1..Len(t) /\ i + d \in 1..(Len(t) + d)
    BY <1>3, <1>4
  <2> QED BY <2>1, <1>2, <1>3
<1>5. Len(b) <= MaxBox + 1 /\ Len(b) \in DOMAIN b /\ b[Len(b)] = r
  BY <1>1, <1>3, KeysAssumption
<1> QED BY <1>3, <1>4, <1>5 DEF t
-----------------------------------------------------------------------------
LEMMA InitTyped == Init => Typed
<1> SUFFICES ASSUME Init PROVE Typed
  OBVIOUS
<1>1. 1 \in Keys /\ 0 \in Keys /\ Retention \in Nat /\ MaxKeys \in Nat \ {0}
  BY KeysAssumption DEF Keys, Never
<1>2. HubTyped
  <2>1. switchAge \in 0..Never /\ keys \in 1..MaxKeys
    BY <1>1 DEF Init, Never
  <2>2. /\ files \in [identity : Keys \ {0}, next : Keys, prev : Keys]
        /\ told \in [current : Keys \ {0}, next : Keys, prev : Keys]
    BY <1>1 DEF Init
  <2> QED BY <1>1, <2>1, <2>2 DEF Init, HubTyped, NotRead
<1>3. NoPins \in Pairs /\ Pins(1, 0) \in Pairs /\ Nothing \in Answers
  BY <1>1 DEF NoPins, Pins, Pairs, Nothing, Answers
<1>4. \A p \in Probes : enr[p] \in Pairs /\ enr[p].current \in Keys
  BY <1>1, <1>3 DEF Init, NoPins, Pins
<1>5. <<>> \in Seq(Reports) /\ Len(<<>>) <= MaxBox + 1
  BY KeysAssumption
<1>6. /\ record \in [Probes -> [state : {"none", "active", "revoked"}, pins : Pairs]]
      /\ enr \in [Probes -> Pairs] /\ link \in [Probes -> Pairs]
  BY <1>1, <1>3, <1>4 DEF Init
<1>7. boxKey \in [Probes -> Keys] /\ enrolling \in [Probes -> Keys]
  BY <1>1, <1>4 DEF Init
<1>8. /\ at \in [Probes -> {"home", "sending", "sent", "saved"}]
      /\ answer \in [Probes -> Answers] /\ ack \in [Probes -> Answers]
      /\ box \in [Probes -> Seq(Reports)] /\ \A p \in Probes : Len(box[p]) <= MaxBox + 1
  BY <1>1, <1>3, <1>5 DEF Init
<1> QED BY <1>2, <1>6, <1>7, <1>8 DEF Typed, ProbesTyped

\* The steps of the hub alone, and those that change a probe or its record.
HubAlone ==
  \/ StartSteps \/ RemoveNextKey \/ CheckSteps \/ SwitchSteps
  \/ MakeNextKey \/ Cancel \/ SwitchNow \/ CheckReads \/ CrashHub \/ CreateCode
AtProbe(p) == Running(p) \/ Redeem(p) \/ RevokeProbe(p) \/ Unreached(p) \/ RestartProbe(p)

LEMMA CredentialsTyped ==
  ASSUME HubTyped, NEW f \in [identity : Keys \ {0}, next : Keys, prev : Keys],
         NEW a \in BOOLEAN, NEW s \in Keys \ {0}
  PROVE  Credentials(f, a, s) \in [current : Keys \ {0}, next : Keys, prev : Keys]
<1>1. 0 \in Keys
  BY KeysAssumption DEF Keys
<1> QED BY <1>1 DEF HubTyped, Credentials

\* What the steps of the hub leave alone.
LEMMA HubLeavesProbes ==
  ASSUME HubAlone
  PROVE  UNCHANGED <<record, probeVars>>
<1> USE DEF disk, requests
<1>1. CASE StartSteps \/ RemoveNextKey \/ MakeNextKey \/ Cancel
  BY <1>1 DEF StartSteps, Announce, FinishStart, RemoveNextKey, MakeNextKey, Cancel
<1>2. CASE CheckSteps \/ CheckReads \/ SwitchNow
  BY <1>2 DEF CheckSteps, CheckSwitches, CheckRefreshes, CheckSets, CheckReads, SwitchNow
<1>3. CASE SwitchSteps
  BY <1>3 DEF SwitchSteps, KeepPrevKey, MoveNextKey, RecordSwitch, RevokeCodes, FinishSwitch, StartHub
<1>4. CASE CrashHub \/ CreateCode
  BY <1>4 DEF CrashHub, CreateCode
<1> QED BY <1>1, <1>2, <1>3, <1>4 DEF HubAlone

LEMMA HubAloneTyped == Typed /\ HubAlone => Typed'
<1> SUFFICES ASSUME HubTyped, ProbesTyped, HubAlone PROVE Typed'
  BY DEF Typed
<1>1. UNCHANGED <<record, probeVars>>
  BY HubLeavesProbes
<1>2. ProbesTyped'
  BY <1>1 DEF ProbesTyped, probeVars
<1> DEFINE Files == [identity : Keys \ {0}, next : Keys, prev : Keys]
           Tells == [current : Keys \ {0}, next : Keys, prev : Keys]
<1>3. 0 \in Keys /\ 1 \in Keys /\ 0 \in 0..Never /\ Retention \in Nat /\ MaxKeys \in Nat \ {0}
  BY KeysAssumption DEF Keys, Never
<1>a. NotRead \in [announced : BOOLEAN, secret : Keys \ {0}]
  BY <1>3 DEF NotRead
<1>b. Read \in [announced : BOOLEAN, secret : Keys \ {0}]
  BY DEF Read, HubTyped
<1>c. PrunePrevKey => files' \in Files
  BY <1>3 DEF PrunePrevKey, HubTyped
<1> USE <1>3
<1> USE DEF HubTyped, disk, requests, bounds
<1> SUFFICES HubTyped'
  BY <1>2 DEF Typed
<1>4. CASE MakeNextKey
  <2>1. keys + 1 \in Keys /\ keys' = keys + 1 /\ keys' \in 1..MaxKeys
    BY <1>4 DEF MakeNextKey, Keys
  <2>2. files' \in Files
    BY <2>1, <1>4 DEF MakeNextKey
  <2> QED BY <1>4, <2>1, <2>2 DEF MakeNextKey
<1>5. CASE Announce
  BY <1>5 DEF Announce
<1>6. CASE FinishStart
  <2>1. told' \in Tells
    BY <1>6, CredentialsTyped DEF FinishStart
  <2> QED BY <1>6, <2>1 DEF FinishStart
<1>7. CASE Cancel
  BY <1>7 DEF Cancel
<1>8. CASE RemoveNextKey
  <2>1. files' \in Files
    BY <1>8 DEF RemoveNextKey
  <2>2. told' \in Tells
    BY <1>8, <2>1, CredentialsTyped DEF RemoveNextKey
  <2> QED BY <1>8, <2>1, <2>2 DEF RemoveNextKey
<1>9. CASE SwitchNow
  BY <1>9 DEF SwitchNow, BeginSwitch
<1>10. CASE CheckSwitches
  BY <1>10, <1>c DEF CheckSwitches, BeginSwitch
<1>11. CASE CheckRefreshes
  <2>1. files' \in Files
    BY <1>11, <1>c DEF CheckRefreshes
  <2>2. told' \in Tells
    BY <1>11, <2>1, CredentialsTyped DEF CheckRefreshes
  <2> QED BY <1>11, <2>1, <2>2 DEF CheckRefreshes
<1>12. CASE CheckReads
  BY <1>12, <1>b, <1>c DEF CheckReads
<1>13. CASE CheckSets
  <2>1. told' \in Tells
    BY <1>13, CredentialsTyped DEF CheckSets
  <2> QED BY <1>13, <2>1, <1>a DEF CheckSets
<1>14. CASE KeepPrevKey
  <2>1. files' \in Files /\ switch' \in {"move", "record"}
    BY <1>14 DEF KeepPrevKey
  <2> QED BY <1>14, <2>1 DEF KeepPrevKey
<1>15. CASE MoveNextKey
  <2>1. files' \in Files /\ switch' \in {"idle", "record"}
    BY <1>15 DEF MoveNextKey
  <2> QED BY <1>15, <2>1 DEF MoveNextKey
<1>16. CASE RecordSwitch
  BY <1>16 DEF RecordSwitch, EndRotation
<1>17. CASE RevokeCodes
  BY <1>17 DEF RevokeCodes
<1>18. CASE FinishSwitch
  <2>1. told' \in Tells
    BY <1>18, CredentialsTyped DEF FinishSwitch
  <2> QED BY <1>18, <2>1 DEF FinishSwitch
<1>19. CASE CrashHub
  BY <1>19, <1>a DEF CrashHub
<1>20. CASE StartHub
  <2>1. announced' \in BOOLEAN /\ switchAge' \in 0..Never
    BY <1>20 DEF StartHub, EndRotation
  <2>2. told' \in Tells
    BY <1>20, <2>1, CredentialsTyped DEF StartHub
  <2> QED BY <1>20, <2>1, <2>2 DEF StartHub
<1>21. CASE CreateCode
  BY <1>21 DEF CreateCode
<1> QED BY <1>4, <1>5, <1>6, <1>7, <1>8, <1>9, <1>10, <1>11, <1>12, <1>13, <1>14, <1>15,
           <1>16, <1>17, <1>18, <1>19, <1>20, <1>21
        DEF HubAlone, StartSteps, CheckSteps, SwitchSteps

\* What the hub may answer, and what the pins become.
LEMMA AnswerTyped ==
  ASSUME Typed, NEW kind \in {"ok", "announced", "switched", "refused", "revoked"}, NEW key \in Keys
  PROVE  Says(kind, key) \in Answers
BY DEF Typed, HubTyped, Says, Answers

LEMMA RotatedTyped ==
  ASSUME NEW pins \in Pairs, NEW a \in Answers
  PROVE  Rotated(pins, a) \in Pairs
<1>1. 0 \in Keys
  BY KeysAssumption DEF Keys
<1> QED BY <1>1 DEF Rotated, Pins, Pairs, Answers

\* The answer to a report, one case for each thing the hub may say.
LEMMA ForProbeFacts ==
  ASSUME Typed, NEW pins \in Pairs
  PROVE  /\ ForProbe(pins) \in Answers
         /\ ForProbe(pins).kind \in {"ok", "announced", "switched"}
         /\ ForProbe(pins).kind = "ok" => ForProbe(pins).key = 0
         /\ ForProbe(pins).kind = "announced" => told.next # 0 /\ ForProbe(pins).key = told.next
         /\ ForProbe(pins).kind = "switched" =>
              told.next = 0 /\ ForProbe(pins).key = told.current /\ pins.current # told.current
<1>1. 0 \in Keys /\ told.current \in Keys /\ told.next \in Keys
  BY KeysAssumption DEF Typed, HubTyped, Keys
<1>2. /\ Says("ok", 0) \in Answers /\ Says("announced", told.next) \in Answers
      /\ Says("switched", told.current) \in Answers
  BY <1>1, AnswerTyped
<1>3. \A kind, key : Says(kind, key).kind = kind /\ Says(kind, key).key = key
  BY DEF Says
<1>4. CASE told.next # 0 /\ Holds(pins, told.next)
  BY <1>2, <1>3, <1>4 DEF ForProbe
<1>5. CASE told.next # 0 /\ ~Holds(pins, told.next)
  BY <1>2, <1>3, <1>5 DEF ForProbe
<1>6. CASE told.next = 0 /\ pins.current = told.current
  BY <1>2, <1>3, <1>6 DEF ForProbe
<1>7. CASE told.next = 0 /\ pins.current # told.current
  BY <1>2, <1>3, <1>7 DEF ForProbe
<1> QED BY <1>4, <1>5, <1>6, <1>7

\* What Ingest does: the head of the box is answered, and its pins may be recorded.
LEMMA IngestFacts ==
  ASSUME Typed, NEW p \in Probes, Ingest(p), box[p] # <<>>
  PROVE  /\ box[p][1] \in Reports /\ 1 \in DOMAIN box[p]
         /\ answer'[p] \in Answers
         /\ answer' = [answer EXCEPT ![p] = answer'[p]]
         /\ answer'[p].kind = "revoked" => record[p].state = "revoked"
         /\ answer'[p].kind = "announced" => told.next # 0 /\ answer'[p].key = told.next
         /\ answer'[p].kind = "switched" =>
              told.next = 0 /\ answer'[p].key = told.current /\ box[p][1].pins.current # told.current
         /\ answer'[p].kind \notin {"announced", "switched"} => answer'[p].key = 0
         /\ \/ record' = record
            \/ /\ record[p].state = "active"
               /\ record' = [record EXCEPT ![p].pins = box[p][1].pins]
<1> DEFINE r == Head(box[p])
<1>1. r \in Reports /\ r = box[p][1] /\ 1 \in DOMAIN box[p]
  BY TailIsSuffix DEF Typed, ProbesTyped
<1> HIDE DEF r
<1>2. r.pins \in Pairs
  BY <1>1 DEF Reports
<1>3. p \in DOMAIN answer /\ 0 \in Keys
  BY KeysAssumption DEF Typed, ProbesTyped, Keys
<1> DEFINE A == CASE ~Opens(r) -> Says("refused", 0)
                  [] Opens(r) /\ record[p].state = "none" -> Says("refused", 0)
                  [] Opens(r) /\ record[p].state = "revoked" -> Says("revoked", 0)
                  [] Opens(r) /\ record[p].state = "active" -> ForProbe(r.pins)
<1>4. /\ answer' = [answer EXCEPT ![p] = A]
      /\ record' = IF Opens(r) /\ record[p].state = "active"
                   THEN [record EXCEPT ![p].pins = r.pins] ELSE record
  BY DEF Ingest, r
<1>5. answer'[p] = A
  BY <1>3, <1>4
<1>6. record[p].state \in {"none", "active", "revoked"}
  BY DEF Typed, ProbesTyped
<1>7. \/ A = Says("refused", 0)
      \/ A = Says("revoked", 0) /\ record[p].state = "revoked"
      \/ A = ForProbe(r.pins)
  <2>1. CASE ~Opens(r)
    BY <2>1
  <2>2. CASE Opens(r) /\ record[p].state = "none"
    BY <2>2
  <2>3. CASE Opens(r) /\ record[p].state = "revoked"
    BY <2>3
  <2>4. CASE Opens(r) /\ record[p].state = "active"
    BY <2>4
  <2> QED BY <2>1, <2>2, <2>3, <2>4, <1>6
<1> HIDE DEF A
<1>8. Says("refused", 0) \in Answers /\ Says("revoked", 0) \in Answers
  BY <1>3, AnswerTyped
<1>9. \A kind, key : Says(kind, key).kind = kind /\ Says(kind, key).key = key
  BY DEF Says
<1>10. A \in Answers /\ (A.kind = "revoked" => record[p].state = "revoked")
  BY <1>2, <1>7, <1>8, <1>9, ForProbeFacts
<1>11. /\ A.kind = "announced" => told.next # 0 /\ A.key = told.next
       /\ A.kind = "switched" => told.next = 0 /\ A.key = told.current /\ r.pins.current # told.current
       /\ A.kind \notin {"announced", "switched"} => A.key = 0
  BY <1>2, <1>7, <1>9, ForProbeFacts
<1> QED BY <1>1, <1>4, <1>5, <1>10, <1>11

\* Steps at a probe leave the hub as it is, but for its record; and the other
\* probes.
HubSame ==
  /\ UNCHANGED <<files, announced, switchAge, secret, told, switch, start, cancel, check, seen, keys>>
  /\ code' \in {code, 0}
Same(q) ==
  /\ enr'[q] = enr[q] /\ box'[q] = box[q] /\ link'[q] = link[q] /\ at'[q] = at[q]
  /\ answer'[q] = answer[q] /\ ack'[q] = ack[q] /\ enrolling'[q] = enrolling[q]
  /\ record'[q] = record[q]

LEMMA OnlyItself ==
  ASSUME Typed, NEW p \in Probes, AtProbe(p)
  PROVE  HubSame /\ \A q \in Probes \ {p} : Same(q)
<1>1. HubSame
  BY DEF AtProbe, Running, SaveEnrollment, Cycle, Ingest, Hear, HearRevoked, FollowRotation,
         SetHubKey, Redeem, RevokeProbe, Unreached, RestartProbe, HubSame, hubVars, disk,
         requests, bounds
<1>2. SUFFICES ASSUME NEW q \in Probes, q # p PROVE Same(q)
  BY <1>1
<1> USE <1>2 DEF Typed, ProbesTyped, Same, hubVars, disk, probeVars, GoHome
<1>3. CASE SaveEnrollment(p)
  BY <1>3 DEF SaveEnrollment
<1>4. CASE Cycle(p)
  BY <1>4 DEF Cycle
<1>5. CASE Ingest(p)
  BY <1>5 DEF Ingest
<1>6. CASE Hear(p)
  BY <1>6 DEF Hear
<1>7. CASE HearRevoked(p)
  BY <1>7 DEF HearRevoked
<1>8. CASE FollowRotation(p)
  BY <1>8 DEF FollowRotation
<1>9. CASE SetHubKey(p)
  BY <1>9 DEF SetHubKey
<1>10. CASE Redeem(p)
  BY <1>10 DEF Redeem
<1>11. CASE RevokeProbe(p)
  BY <1>11 DEF RevokeProbe
<1>12. CASE Unreached(p)
  BY <1>12 DEF Unreached
<1>13. CASE RestartProbe(p)
  BY <1>13 DEF RestartProbe
<1> QED BY <1>3, <1>4, <1>5, <1>6, <1>7, <1>8, <1>9, <1>10, <1>11, <1>12, <1>13
        DEF AtProbe, Running

\* A probe that sends has something to send, and one without pins is at home.
AtHome(p) ==
  /\ at[p] = "sending" => box[p] # <<>>
  /\ enr[p] = NoPins => at[p] = "home" /\ box[p] = <<>>
  /\ at[p] # "sending" => answer[p] = Nothing
  /\ at[p] = "home" \/ link[p].current # 0
  /\ at[p] = "home" => link[p] = NoPins /\ ack[p] = Nothing
  /\ enr[p].current = 0 => enr[p].next = 0
  /\ ack[p].kind = "switched" => ack[p].key # 0
  /\ answer[p].kind = "switched" => answer[p].key # 0
Basics == Typed /\ \A p \in Probes : AtHome(p)

LEMMA InitBasics == Init => Basics
<1> SUFFICES ASSUME Init, NEW p \in Probes PROVE AtHome(p)
  BY InitTyped DEF Basics
<1>1. enr[p] \in {NoPins, Pins(1, 0)}
  BY DEF Init
<1> QED BY <1>1 DEF Init, AtHome, NoPins, Pins, Nothing

\* Steps of the probe's own leave what it has well-formed.
LEMMA OwnBasics ==
  ASSUME Basics, NEW p \in Probes, AtProbe(p)
  PROVE  Typed' /\ AtHome(p)'
<1>1. HubSame /\ AtHome(p)
  BY OnlyItself DEF Basics
<1>2. HubTyped'
  <2>1. 0 \in Keys
    BY KeysAssumption DEF Keys
  <2> QED BY <1>1, <2>1 DEF Basics, Typed, HubTyped, HubSame
<1>3. SUFFICES ProbesTyped' /\ AtHome(p)'
  BY <1>2 DEF Typed
<1>4. Typed /\ ProbesTyped
  BY DEF Basics, Typed
<1>5. 0 \in Keys /\ NoPins \in Pairs /\ Nothing \in Answers /\ MaxBox \in Nat
  BY KeysAssumption DEF Keys, NoPins, Pins, Pairs, Nothing, Answers
<1>6. NoPins.current = 0 /\ NoPins.next = 0 /\ Nothing.kind = "nothing"
  BY DEF NoPins, Pins, Nothing
<1>7. <<>> \in Seq(Reports) /\ Len(<<>>) <= MaxBox + 1
  BY <1>5
<1> USE <1>4
<1> USE DEF disk
<1>8. CASE SaveEnrollment(p)
  <2>1. enrolling[p] \in Keys \ {0}
    BY <1>8 DEF SaveEnrollment, ProbesTyped
  <2>2. Pins(enrolling[p], 0) \in Pairs /\ Pins(enrolling[p], 0).current # 0
    BY <2>1, <1>5 DEF Pins, Pairs
  <2> QED BY <1>1, <1>5, <1>6, <1>8, <2>1, <2>2 DEF SaveEnrollment, hubVars, ProbesTyped, AtHome
<1>9. CASE Cycle(p)
  <2> DEFINE r == [key |-> enr[p].current, pins |-> enr[p], age |-> 0]
             b == Append(Newest(Young(box[p]), MaxBox), r)
  <2>1. r \in Reports /\ box[p] \in Seq(Reports)
    BY DEF ProbesTyped, Reports, Pairs
  <2>2. b \in Seq(Reports) /\ Len(b) <= MaxBox + 1 /\ Len(b) \in DOMAIN b
    BY <2>1, BoxAfterCycle
  <2>3. b # <<>>
    BY <2>2
  <2>4. box' = [box EXCEPT ![p] = b]
    BY <1>9 DEF Cycle
  <2> HIDE DEF b
  <2>5. enr[p].current # 0
    BY <1>1, <1>6, <1>9 DEF Cycle, AtHome, NoPins, Pins, ProbesTyped, Pairs
  <2> QED BY <1>1, <1>5, <1>6, <1>9, <2>2, <2>3, <2>4, <2>5
          DEF Cycle, hubVars, ProbesTyped, AtHome
<1>10. CASE Ingest(p)
  <2>1. box[p] # <<>> /\ at[p] = "sending"
    BY <1>1, <1>10 DEF Ingest, AtHome
  <2>2. box[p][1].pins \in Pairs
    BY <2>1, <1>10, IngestFacts DEF Reports
  <2>3. record' \in [Probes -> [state : {"none", "active", "revoked"}, pins : Pairs]]
    <3>1. CASE record' = record
      BY <3>1 DEF ProbesTyped
    <3>2. CASE record' # record
      <4> DEFINE heard == [record[p] EXCEPT !.pins = box[p][1].pins]
                 Records == [state : {"none", "active", "revoked"}, pins : Pairs]
      <4>1. record' = [record EXCEPT ![p] = heard]
        BY <2>1, <1>10, <3>2, IngestFacts
      <4>2. record \in [Probes -> Records]
        BY DEF ProbesTyped
      <4>3. heard \in Records
        BY <2>2, <4>2
      <4> HIDE DEF heard, Records
      <4>4. record' \in [Probes -> Records]
        BY <4>1, <4>2, <4>3
      <4> QED BY <4>4 DEF Records
    <3> QED BY <3>1, <3>2
  <2>4. answer' \in [Probes -> Answers]
    BY <2>1, <1>10, IngestFacts DEF ProbesTyped
  <2>5. answer'[p].kind = "switched" => answer'[p].key # 0
    BY <2>1, <1>10, IngestFacts DEF Typed, HubTyped
  <2> QED BY <1>1, <1>10, <2>1, <2>3, <2>4, <2>5 DEF Ingest, ProbesTyped, AtHome
<1>11. CASE Hear(p)
  <2>1. box[p] # <<>> /\ at[p] = "sending"
    BY <1>1, <1>11 DEF Hear, AtHome
  <2>2. Tail(box[p]) \in Seq(Reports) /\ Len(Tail(box[p])) = Len(box[p]) - 1 /\ Len(box[p]) \in Nat
    BY <2>1, TailIsSuffix DEF ProbesTyped
  <2>3. Len(Tail(box[p])) <= MaxBox + 1 /\ Len(box[p]) <= MaxBox + 1
    BY <2>2, <1>5 DEF ProbesTyped
  <2>4. /\ box' = [box EXCEPT ![p] = Tail(box[p])]
        /\ ack' = [ack EXCEPT ![p] = answer[p]] \/ ack' = ack
        /\ at' = [at EXCEPT ![p] = IF Tail(box[p]) = <<>> THEN "sent" ELSE "sending"]
        /\ answer' = [answer EXCEPT ![p] = Nothing]
        /\ UNCHANGED <<hubVars, enr, boxKey, link, enrolling>>
    BY <1>11 DEF Hear
  <2>5. enr[p] # NoPins
    BY <1>1, <2>1 DEF AtHome
  <2>6. ProbesTyped'
    BY <2>2, <2>3, <2>4, <1>5 DEF ProbesTyped, hubVars
  <2> QED BY <1>1, <1>6, <2>1, <2>4, <2>5, <2>6 DEF ProbesTyped, AtHome
<1>12. CASE HearRevoked(p)
  BY <1>1, <1>5, <1>6, <1>7, <1>12 DEF HearRevoked, GoHome, hubVars, ProbesTyped, AtHome
<1>13. CASE FollowRotation(p)
  <2> DEFINE R == Rotated(link[p], ack[p])
  <2>1. R \in Pairs
    BY RotatedTyped DEF ProbesTyped
  <2>2. link[p].current # 0
    BY <1>1, <1>13 DEF FollowRotation, AtHome
  <2>3. R.current # 0
    BY <1>1, <2>2 DEF AtHome, Rotated, Pins
  <2>4. enr'[p] \in {enr[p], R} /\ enr' \in [Probes -> Pairs]
    BY <2>1, <1>13 DEF FollowRotation, ProbesTyped
  <2>5. at' \in [Probes -> {"home", "sending", "sent", "saved"}] /\ at'[p] \in {"home", "saved"}
    BY <1>13 DEF FollowRotation, GoHome, ProbesTyped
  <2>9. /\ link' \in [Probes -> Pairs] /\ ack' \in [Probes -> Answers]
        /\ \/ at'[p] = "home" /\ link'[p] = NoPins /\ ack'[p] = Nothing
           \/ at'[p] = "saved" /\ link'[p] = link[p] /\ ack'[p] = ack[p]
    BY <1>5, <1>13 DEF FollowRotation, GoHome, ProbesTyped
  <2>6. enr[p] # NoPins /\ R # NoPins /\ at[p] = "sent"
    BY <1>1, <1>6, <1>13, <2>3 DEF FollowRotation, AtHome
  <2>7. UNCHANGED <<hubVars, box, boxKey, answer, enrolling>>
    BY <1>13 DEF FollowRotation
  <2>8. ProbesTyped'
    BY <2>4, <2>5, <2>7, <2>9 DEF ProbesTyped, hubVars
  <2> HIDE DEF R
  <2> QED BY <1>1, <1>6, <2>2, <2>3, <2>4, <2>5, <2>6, <2>7, <2>8, <2>9 DEF AtHome
<1>14. CASE SetHubKey(p)
  <2>1. ack[p].key \in Keys
    BY DEF ProbesTyped, Answers
  <2> QED BY <1>1, <1>5, <1>6, <1>14, <2>1 DEF SetHubKey, GoHome, hubVars, ProbesTyped, AtHome
<1>15. CASE Redeem(p)
  <2>1. code \in Keys
    BY DEF Typed, HubTyped
  <2> QED BY <1>1, <1>15, <2>1 DEF Redeem, ProbesTyped, AtHome
<1>16. CASE RevokeProbe(p)
  BY <1>1, <1>16 DEF RevokeProbe, probeVars, ProbesTyped, AtHome
<1>17. CASE Unreached(p)
  BY <1>1, <1>5, <1>6, <1>17 DEF Unreached, hubVars, ProbesTyped, AtHome
<1>18. CASE RestartProbe(p)
  <2>1. enr[p].current \in Keys
    BY DEF ProbesTyped, Pairs
  <2> QED BY <1>1, <1>5, <1>6, <1>7, <1>18, <2>1 DEF RestartProbe, GoHome, hubVars, ProbesTyped, AtHome
<1> QED BY <1>8, <1>9, <1>10, <1>11, <1>12, <1>13, <1>14, <1>15, <1>16, <1>17, <1>18
        DEF AtProbe, Running

\* Time only makes the previous key and the reports older.
LEMMA OlderFacts ==
  ASSUME Typed, Older
  PROVE  /\ UNCHANGED <<files, announced, code, record, secret, told, switch, start, cancel, check,
                        seen, enr, boxKey, link, at, answer, ack, enrolling, keys>>
         /\ ~Switching /\ start = "none" /\ cancel = "none"
         /\ switchAge' = (IF switchAge <= Retention THEN switchAge + 1 ELSE switchAge)
         /\ switchAge' \in 0..Never
         /\ box' \in [Probes -> Seq(Reports)]
         /\ \A p \in Probes :
              /\ at[p] = "home"
              /\ DOMAIN box'[p] = DOMAIN box[p] /\ Len(box'[p]) = Len(box[p])
              /\ \A i \in DOMAIN box[p] :
                   box'[p][i].key = box[p][i].key /\ box'[p][i].pins = box[p][i].pins
<1>1. switchAge' \in 0..Never
  BY KeysAssumption DEF Older, Typed, HubTyped, Never
<1>2. ASSUME NEW p \in Probes
      PROVE  /\ box'[p] \in Seq(Reports)
             /\ DOMAIN box'[p] = DOMAIN box[p] /\ Len(box'[p]) = Len(box[p])
             /\ \A i \in DOMAIN box[p] :
                  box'[p][i].key = box[p][i].key /\ box'[p][i].pins = box[p][i].pins
  <2> DEFINE aged(i) == [box[p][i] EXCEPT !.age = IF @ <= Retention THEN @ + 1 ELSE @]
  <2>1. box'[p] = [i \in DOMAIN box[p] |-> aged(i)]
    BY DEF Older
  <2>2. box[p] \in Seq(Reports) /\ DOMAIN box[p] = 1..Len(box[p]) /\ Len(box[p]) \in Nat
    BY DEF Typed, ProbesTyped
  <2>3. ASSUME NEW i \in DOMAIN box[p]
        PROVE  /\ aged(i) \in Reports
               /\ aged(i).key = box[p][i].key /\ aged(i).pins = box[p][i].pins
    <3>1. box[p][i] \in Reports
      BY <2>2
    <3> QED BY <3>1, KeysAssumption DEF Reports
  <2> HIDE DEF aged
  <2>4. box'[p] \in [1..Len(box[p]) -> Reports]
    BY <2>1, <2>2, <2>3
  <2>5. box'[p] \in Seq(Reports)
    BY <2>2, <2>4
  <2>6. Len(box'[p]) = Len(box[p])
    BY <2>2, <2>4, <2>5
  <2> QED BY <2>1, <2>2, <2>3, <2>5, <2>6
<1>3. box' = [p \in Probes |-> box'[p]]
  BY DEF Older
<1> QED BY <1>1, <1>2, <1>3 DEF Older, requests

LEMMA BasicsInductive == Basics /\ [Next]_vars => Basics'
<1> SUFFICES ASSUME Basics, [Next]_vars PROVE Basics'
  OBVIOUS
<1> USE DEF Basics
<1>1. CASE HubAlone
  <2>1. UNCHANGED <<record, probeVars>>
    BY <1>1, HubLeavesProbes
  <2> QED BY <2>1, <1>1, HubAloneTyped DEF AtHome, probeVars
<1>2. CASE Older
  <2>1. Typed'
    BY <1>2, OlderFacts DEF Typed, HubTyped, ProbesTyped
  <2>2. ASSUME NEW p \in Probes PROVE AtHome(p)'
    <3>1. AtHome(p) /\ box[p] \in Seq(Reports) /\ box'[p] \in Seq(Reports) /\ Len(box'[p]) = Len(box[p])
      BY <1>2, OlderFacts DEF Typed, ProbesTyped
    <3>2. box[p] = <<>> <=> box'[p] = <<>>
      BY <3>1
    <3>3. UNCHANGED <<enr, link, at, answer, ack>>
      BY <1>2, OlderFacts
    <3> QED BY <3>1, <3>2, <3>3 DEF AtHome
  <2> QED BY <2>1, <2>2
<1>3. ASSUME NEW p \in Probes, AtProbe(p) PROVE Basics'
  <2>1. Typed' /\ AtHome(p)'
    BY <1>3, OwnBasics
  <2>2. ASSUME NEW q \in Probes \ {p} PROVE AtHome(q)'
    BY <1>3, OnlyItself DEF Same, AtHome
  <2> QED BY <2>1, <2>2
<1>4. CASE UNCHANGED vars
  BY <1>4 DEF vars, hubVars, disk, requests, probeVars, bounds, Typed, HubTyped, ProbesTyped, AtHome
<1> QED BY <1>1, <1>2, <1>3, <1>4 DEF Next, HubAlone, AtProbe

LEMMA BasicsAlways == Spec => []Basics
BY InitBasics, BasicsInductive, PTL DEF Spec

\* Every variable keeps its type: no key is used that wasn't made, and the black
\* box never holds more than one report beyond MAX_BUFFERED_REPORTS.
THEOREM TypeCorrect == Spec => []TypeOK
<1>1. Basics => TypeOK
  <2> SUFFICES ASSUME Basics PROVE TypeOK
    OBVIOUS
  <2> QED BY DEF Basics, Typed, HubTyped, ProbesTyped, TypeOK, Pairs
<1> QED BY <1>1, BasicsAlways, PTL

-----------------------------------------------------------------------------
(***************************************************************************)
(* The key files, the row of the rotation and how far the hub is, as long  *)
(* as no requests cross.                                                   *)
(***************************************************************************)
\* The files say that the hub switched, the row doesn't yet.
Moved == announced /\ files.next = 0
Announcing == announced /\ files.next # 0
\* A rotation is announced, about to be, or was until a moment ago.
Underway == announced \/ start # "none" \/ cancel # "none"

Rows ==
  /\ start = "made" => ~announced /\ files.next # 0
  /\ start = "announced" => announced
  /\ cancel = "ended" => ~announced /\ start = "none"
  /\ Switching \/ switch = "down" => start = "none" /\ cancel = "none"
  /\ switch \in {"keep", "move", "record"} => announced
  /\ Moved => switch \in {"record", "down"}
  /\ switch = "record" => Moved

LEMMA InitRows == Init => Rows
BY DEF Init, Rows, Moved, Switching

\* What went astray stays so, and what crossed.
LEMMA HistoryGrows == [Next]_vars => astray \subseteq astray' /\ (~crossed' => ~crossed) /\ (Calm' => Calm)
<1> SUFFICES ASSUME [Next]_vars PROVE astray \subseteq astray' /\ (crossed => crossed') /\ (stale => stale')
  BY DEF Calm
<1> USE DEF history
<1>1. CASE StartSteps \/ RemoveNextKey \/ SwitchSteps \/ CrashHub \/ CreateCode
  BY <1>1 DEF StartSteps, Announce, FinishStart, RemoveNextKey, SwitchSteps, KeepPrevKey, MoveNextKey,
     RecordSwitch, RevokeCodes, FinishSwitch, StartHub, CrashHub, CreateCode
<1>2. CASE MakeNextKey \/ Cancel \/ SwitchNow \/ Older
  <2>1. /\ stale' = stale
        /\ \/ crossed' = crossed
           \/ crossed' = (crossed \/ Switching \/ cancel # "none")
           \/ crossed' = (crossed \/ Switching \/ start # "none")
           \/ crossed' = (crossed \/ start # "none" \/ cancel # "none")
    BY <1>2 DEF MakeNextKey, Cancel, SwitchNow, BeginSwitch, Older
  <2>a. (crossed => crossed') /\ (stale => stale')
    <3>1. CASE crossed' = crossed
      BY <2>1, <3>1
    <3>2. CASE crossed' = (crossed \/ Switching \/ cancel # "none")
      BY <2>1, <3>2, Zenon
    <3>3. CASE crossed' = (crossed \/ Switching \/ start # "none")
      BY <2>1, <3>3, Zenon
    <3>4. CASE crossed' = (crossed \/ start # "none" \/ cancel # "none")
      BY <2>1, <3>4, Zenon
    <3> QED BY <2>1, <3>1, <3>2, <3>3, <3>4
  <2>2. astray' = astray \/ \E S : astray' = astray \cup S
    BY <1>2 DEF MakeNextKey, Cancel, SwitchNow, Older
  <2>3. astray \subseteq astray'
    BY <2>2
  <2> QED BY <2>a, <2>3
<1>3. CASE CheckSteps \/ CheckReads
  <2>1. /\ astray' = astray
        /\ \/ crossed' = crossed
           \/ crossed' = (crossed \/ PrunesKept)
           \/ crossed' = (crossed \/ start # "none" \/ cancel # "none")
        /\ \/ stale' = stale
           \/ stale' = (stale \/ told' # Credentials(files, announced, secret))
    BY <1>3 DEF CheckSteps, CheckSwitches, BeginSwitch, CheckRefreshes, CheckSets, CheckReads
  <2>2. crossed => crossed'
    <3>1. CASE crossed' = crossed
      BY <3>1
    <3>2. CASE crossed' = (crossed \/ PrunesKept)
      BY <3>2, Zenon
    <3>3. CASE crossed' = (crossed \/ start # "none" \/ cancel # "none")
      BY <3>3, Zenon
    <3> QED BY <2>1, <3>1, <3>2, <3>3
  <2>3. stale => stale'
    <3>1. CASE stale' = stale
      BY <3>1
    <3>2. CASE stale' = (stale \/ told' # Credentials(files, announced, secret))
      BY <3>2, Zenon
    <3> QED BY <2>1, <3>1, <3>2
  <2> QED BY <2>1, <2>2, <2>3
<1>4. ASSUME NEW p \in Probes, AtProbe(p)
      PROVE  astray \subseteq astray' /\ (crossed => crossed') /\ (stale => stale')
  <2>1. CASE Redeem(p)
    BY <2>1 DEF Redeem
  <2>2. CASE ~Redeem(p)
    BY <1>4, <2>2 DEF AtProbe, Running, SaveEnrollment, Cycle, Ingest, Hear, HearRevoked,
       FollowRotation, SetHubKey, RevokeProbe, Unreached, RestartProbe
  <2> QED BY <2>1, <2>2
<1>5. CASE UNCHANGED vars
  BY <1>5 DEF vars
<1> QED BY <1>1, <1>2, <1>3, <1>4, <1>5 DEF Next, AtProbe

LEMMA RowsInductive == ASSUME ~crossed', Basics, Rows, [Next]_vars PROVE Rows'
<1>0. HubTyped /\ Typed
  BY DEF Basics, Typed
<1> USE <1>0
<1> USE DEF HubTyped, Rows, Moved, Switching, Up, disk, requests
<1>1. CASE MakeNextKey
  <2>1. /\ UNCHANGED <<announced, switch, cancel>> /\ start' = "made" /\ files'.next = keys + 1
        /\ ~announced /\ switch # "down" /\ keys \in Nat
    BY <1>1, KeysAssumption DEF MakeNextKey
  <2>2. ~Switching /\ cancel = "none"
    BY <1>1 DEF MakeNextKey
  <2> QED BY <2>1, <2>2
<1>2. CASE Announce
  BY <1>2 DEF Announce
<1>3. CASE FinishStart
  BY <1>3 DEF FinishStart
<1>4. CASE Cancel
  <2>1. /\ UNCHANGED <<files, switch, start>> /\ ~announced' /\ cancel' = "ended" /\ switch # "down"
    BY <1>4 DEF Cancel
  <2>2. ~Switching /\ start = "none"
    BY <1>4 DEF Cancel
  <2> QED BY <2>1, <2>2
<1>5. CASE RemoveNextKey
  BY <1>5 DEF RemoveNextKey
<1>6. CASE SwitchNow \/ CheckSwitches
  <2>1. /\ UNCHANGED <<announced, start, cancel>> /\ files'.next = files.next
        /\ switch = "idle" /\ switch' = "keep" /\ announced
    BY <1>6 DEF SwitchNow, CheckSwitches, BeginSwitch, PrunePrevKey
  <2>2. start = "none" /\ cancel = "none"
    BY <1>6 DEF SwitchNow, CheckSwitches, BeginSwitch
  <2> QED BY <2>1, <2>2
<1>7. CASE CheckRefreshes \/ CheckReads
  <2>1. UNCHANGED <<announced, start, cancel, switch>> /\ files'.next = files.next
    BY <1>7 DEF CheckRefreshes, CheckReads, PrunePrevKey
  <2> QED BY <2>1
<1>8. CASE CheckSets
  BY <1>8 DEF CheckSets
<1>9. CASE KeepPrevKey
  <2>1. files.next # 0 /\ UNCHANGED <<announced, start, cancel>> /\ switch' = "move"
        /\ switch = "keep" /\ files'.next = files.next
    BY <1>9 DEF KeepPrevKey
  <2> QED BY <2>1
<1>10. CASE MoveNextKey
  <2>1. files.next # 0 /\ UNCHANGED <<announced, start, cancel>> /\ switch' = "record"
        /\ switch = "move" /\ files'.next = 0
    BY <1>10 DEF MoveNextKey
  <2> QED BY <2>1
<1>11. CASE RecordSwitch
  BY <1>11 DEF RecordSwitch, EndRotation
<1>12. CASE RevokeCodes
  BY <1>12 DEF RevokeCodes
<1>13. CASE FinishSwitch
  BY <1>13 DEF FinishSwitch
<1>14. CASE CrashHub
  BY <1>14 DEF CrashHub
<1>15. CASE StartHub
  <2>1. UNCHANGED <<files, start, cancel>> /\ switch' = "idle" /\ announced' = (announced /\ ~CutShort)
        /\ switch = "down"
    BY <1>15 DEF StartHub, EndRotation
  <2> QED BY <2>1 DEF CutShort
<1>16. CASE CreateCode
  BY <1>16 DEF CreateCode
<1>17. CASE Older
  BY <1>17, OlderFacts
<1>18. ASSUME NEW p \in Probes, AtProbe(p) PROVE Rows'
  BY <1>18, OnlyItself DEF HubSame
<1>19. CASE UNCHANGED vars
  BY <1>19 DEF vars, hubVars
<1> QED BY <1>1, <1>2, <1>3, <1>4, <1>5, <1>6, <1>7, <1>8, <1>9, <1>10, <1>11, <1>12, <1>13,
           <1>14, <1>15, <1>16, <1>17, <1>18, <1>19
        DEF Next, StartSteps, CheckSteps, SwitchSteps, AtProbe

\* Unless a start or a cancellation came beside the other or beside a switch, an
\* announced key is there until it is moved, wherever the hub is killed
\* (service/rotation.rs, start, cancel, switch_files and recover).
THEOREM AnnouncedIsThere == Spec => []AnnouncedKeyKept
<1>1. Init => (~crossed => Rows)
  BY InitRows
<1>2. Basics /\ (~crossed => Rows) /\ [Next]_vars => (~crossed => Rows)'
  BY RowsInductive, HistoryGrows
<1>3. (~crossed => Rows) => AnnouncedKeyKept
  BY DEF Rows, Moved, AnnouncedKeyKept
<1> QED BY <1>1, <1>2, <1>3, BasicsAlways, PTL DEF Spec

-----------------------------------------------------------------------------
(***************************************************************************)
(* How old the last switch is, and what the running hub knows of its keys. *)
(***************************************************************************)
Recent == switchAge <= Retention

HubInStep ==
  /\ switch \in {"revoke", "refresh"} => ~announced /\ Recent
  /\ files.prev = 0 => ~Recent
  /\ switch = "move" => files.prev = files.identity
  /\ Moved \/ switch \in {"revoke", "refresh"} => files.prev # 0
  /\ secret # files.identity => secret = files.prev /\ switch \in {"record", "revoke", "down"}

\* The hub's own check may refresh what it tells within a switch, and so take
\* the switch's key from it before the switch is finished.
ToldInStep ==
  Up =>
    /\ told.current = secret \/ (switch = "refresh" /\ told.current = files.prev)
    /\ Announcing => told.next = files.next \/ (start = "announced" /\ told.next = 0)
    /\ Moved => told.next = files.identity
    /\ switch \in {"revoke", "refresh"} => told.next \in {0, files.identity}
    /\ ~announced /\ switch = "idle" /\ cancel = "none" => told.next = 0

\* Only keys that were made are about.
Made(pins) == pins.current <= keys /\ pins.next <= keys
HubKnows ==
  /\ files.identity <= keys /\ files.next <= keys /\ secret <= keys
  /\ Made(told) /\ code <= keys
  /\ files.identity # files.next

HubInv == Rows /\ HubInStep /\ ToldInStep /\ HubKnows
-----------------------------------------------------------------------------
(***************************************************************************)
(* What each probe has of the keys, unless it went astray.                 *)
(***************************************************************************)
Knows(p) ==
  /\ Made(enr[p]) /\ Made(link[p]) /\ Made(record[p].pins)
  /\ \A i \in DOMAIN box[p] : Made(box[p][i].pins)
  /\ ack[p].key <= keys /\ answer[p].key <= keys /\ enrolling[p] <= keys

\* An enrollment under way at the probe is for the hub's key, and no switch
\* begins before it is over.
EnrolledInStep(p) ==
  /\ answer[p].kind = "revoked" => record[p].state = "revoked"
  /\ record[p].state = "none" => record[p].pins = NoPins /\ enr[p] = NoPins
  /\ enrolling[p] # 0 =>
       /\ record[p].state = "active"
       /\ enrolling[p] = files.identity /\ secret = files.identity
       /\ switch \in {"idle", "down"}
       /\ Underway => record[p].pins = NoPins /\ enr[p] = NoPins

\* Nobody has heard of a key before the hub tells of it.
Quiet == start = "made" \/ (Announcing /\ told.next # files.next)
Unheard(p) ==
  Quiet =>
    /\ ~Holds(enr[p], files.next) /\ ~Holds(link[p], files.next)
    /\ ~Holds(record[p].pins, files.next)
    /\ \A i \in DOMAIN box[p] : ~Holds(box[p][i].pins, files.next)
    /\ ack[p].key # files.next /\ answer[p].key # files.next

\* From the end of a previous key, or the start of a rotation, to the next switch
\* every active probe has the hub's key, and hears of no other to go on with.
Follows(a) == a.kind = "switched" => a.key = files.identity
Still == ~Moved /\ (~Recent \/ Underway)
Settled(p) ==
  Still /\ record[p].state = "active" =>
    /\ enr[p] # NoPins => enr[p].current = files.identity
    /\ InCycle(p) => link[p].current = files.identity /\ Follows(ack[p]) /\ Follows(answer[p])

\* How an announced key comes to a probe: it has the key before the hub hears
\* so, keeps it from then on, and every report after the first that says so
\* says so too.
Keeps(a, key) == a.kind # "switched" /\ (a.kind = "announced" => a.key = key)
ReportHas(p, i) == Holds(box[p][i].pins, files.next)
Reported(p) == Holds(record[p].pins, files.next)
Spread(p) ==
  Announcing /\ record[p].state = "active" /\ enr[p] # NoPins =>
    /\ Reported(p) => Holds(enr[p], files.next) /\ (InCycle(p) => Holds(link[p], files.next))
    /\ Reported(p) => \A i \in DOMAIN box[p] : ReportHas(p, i)
    /\ \A i \in DOMAIN box[p] : ReportHas(p, i) =>
         /\ Holds(enr[p], files.next) /\ (InCycle(p) => Holds(link[p], files.next))
         /\ box[p][i].key = files.identity /\ box[p][i].pins.current = files.identity
    /\ \A i, j \in DOMAIN box[p] : i <= j /\ ReportHas(p, i) => ReportHas(p, j)
    /\ InCycle(p) /\ Holds(link[p], files.next) =>
         /\ Holds(enr[p], files.next)
         /\ Keeps(ack[p], files.next) /\ Keeps(answer[p], files.next)
ToSwitch == {"keep", "move"}
IsReadyNow(p) ==
  switch \in ToSwitch /\ record[p].state = "active" => Reported(p)

\* From a switch to the end of the previous key an active probe has the hub's
\* key, or the previous one and the hub's as the next.
Good(pins) ==
  \/ pins.current = files.identity
  \/ pins.current = files.prev /\ pins.next = files.identity
Turns(l, a) ==
  /\ Follows(a)
  /\ a.kind = "announced" /\ l.current # files.identity => a.key = files.identity
Turning(p) ==
  (Moved \/ Recent) /\ record[p].state = "active" /\ enr[p] # NoPins =>
    /\ Good(enr[p])
    /\ InCycle(p) => Good(link[p]) /\ Turns(link[p], ack[p]) /\ Turns(link[p], answer[p])
    /\ \A i \in DOMAIN box[p] : box[p][i].key \in {files.identity, files.prev}

\* While the running hub signs with, or tells, another key than its files have,
\* it has that one, knows the files' as the next, and has reported no other.
Lag == secret # files.identity \/ (switch = "refresh" /\ told.current # files.identity)
Both(p) ==
  Lag /\ record[p].state = "active" /\ enr[p] # NoPins =>
    /\ enr[p] = Pins(files.prev, files.identity)
    /\ InCycle(p) =>
         /\ link[p] = Pins(files.prev, files.identity)
         /\ Keeps(ack[p], files.identity) /\ Keeps(answer[p], files.identity)
    /\ \A i \in DOMAIN box[p] : box[p][i].pins.current = files.prev

ProbeInv(p) ==
  /\ Knows(p) /\ EnrolledInStep(p) /\ Unheard(p) /\ Settled(p) /\ Spread(p)
  /\ IsReadyNow(p) /\ Turning(p) /\ Both(p)

Strong == HubInv /\ \A p \in Probes \ astray : ProbeInv(p)
IInv == Basics /\ (Calm => Strong)
-----------------------------------------------------------------------------
(***************************************************************************)
(* The hub's own invariant holds.                                          *)
(***************************************************************************)
LEMMA InitHubInv == Init => HubInv
BY InitRows, KeysAssumption DEF Init, HubInv, Rows, Moved, HubInStep, ToldInStep, Switching, Recent,
   Never, Announcing, HubKnows, Made

\* What pruning the previous key leaves, unless it comes beside a switch.
LEMMA PruneLeaves ==
  ASSUME HubTyped, PrunePrevKey, ~PrunesKept
  PROVE  /\ files'.identity = files.identity /\ files'.next = files.next
         /\ \/ files'.prev = files.prev
            \/ files'.prev = 0 /\ ~Recent /\ switch \notin {"move", "record"}
<1>1. CASE files' = files
  BY <1>1
<1>2. CASE files' # files
  <2>1. PrevExpired /\ files' = [files EXCEPT !.prev = 0] /\ switch \notin {"move", "record"}
    BY <1>2 DEF PrunePrevKey, PrunesKept
  <2>2. ~Recent
    BY <2>1, KeysAssumption DEF PrevExpired, Recent, HubTyped, Never
  <2> QED BY <2>1, <2>2 DEF HubTyped
<1> QED BY <1>1, <1>2

\* The steps of the check that set what is told, or read for it, unless requests
\* cross or what was read is stale.
LEMMA CheckLeaves ==
  ASSUME HubTyped, Calm', CheckRefreshes \/ CheckReads \/ CheckSets
  PROVE  /\ UNCHANGED <<announced, switchAge, code, secret, switch, start, cancel, keys>> /\ Up
         /\ files'.identity = files.identity /\ files'.next = files.next
         /\ \/ files'.prev = files.prev
            \/ files'.prev = 0 /\ ~Recent /\ switch \notin {"move", "record"}
         /\ told' = told \/ told' = Credentials(files', announced, secret)
<1>1. CASE CheckRefreshes \/ CheckReads
  <2>1. PrunePrevKey /\ ~PrunesKept
    BY <1>1, Zenon DEF CheckRefreshes, CheckReads, Calm
  <2>2. /\ UNCHANGED <<announced, switchAge, code, secret, switch, start, cancel, keys>> /\ Up
        /\ told' = told \/ told' = Credentials(files', announced, secret)
    BY <1>1 DEF CheckRefreshes, CheckReads, disk, requests, bounds
  <2> QED BY <2>1, <2>2, PruneLeaves
<1>2. CASE CheckSets
  <2>1. told' = Credentials(files, announced, secret)
    BY <1>2, Zenon DEF CheckSets, Calm
  <2> QED BY <1>2, <2>1 DEF CheckSets, disk, bounds
<1> QED BY <1>1, <1>2

LEMMA BeginSwitchLeaves ==
  ASSUME HubTyped, SwitchNow \/ CheckSwitches
  PROVE  /\ UNCHANGED <<announced, switchAge, code, secret, told, start, cancel, keys>>
         /\ switch = "idle" /\ switch' = "keep" /\ announced
         /\ files'.identity = files.identity /\ files'.next = files.next
         /\ files'.prev = files.prev \/ (files'.prev = 0 /\ ~Recent)
<1>1. CASE SwitchNow
  BY <1>1 DEF SwitchNow, BeginSwitch, disk, requests
<1>2. CASE CheckSwitches
  <2>1. PrunePrevKey /\ switch = "idle" /\ switch' = "keep" /\ announced
        /\ UNCHANGED <<announced, switchAge, code, secret, told, start, cancel, keys>>
    BY <1>2 DEF CheckSwitches, BeginSwitch, requests, bounds
  <2>2. ~PrunesKept
    BY <2>1 DEF PrunesKept
  <2> QED BY <2>1, <2>2, PruneLeaves
<1> QED BY <1>1, <1>2

\* What the hub tells after a refresh.
LEMMA CredentialsFacts ==
  ASSUME HubTyped, NEW f, NEW a, NEW s
  PROVE  \/ a /\ f.next = 0 /\ Credentials(f, a, s) = told
         \/ /\ ~(a /\ f.next = 0)
            /\ Credentials(f, a, s).current = s
            /\ Credentials(f, a, s).next = IF a THEN f.next ELSE 0
BY DEF Credentials

LEMMA HubInvInductive == ASSUME Calm', Basics, HubInv, [Next]_vars PROVE HubInStep' /\ ToldInStep'
<1>0. /\ Rows /\ HubInStep /\ ToldInStep /\ HubTyped /\ Typed /\ Retention \in Nat
      /\ files.identity # files.next /\ files.identity # 0
  BY KeysAssumption DEF HubInv, HubKnows, Basics, Typed, HubTyped
<1> USE <1>0
<1> USE DEF HubTyped, Rows, Moved, Announcing, HubInStep, ToldInStep, Switching, Up, Recent
<1>1. CASE MakeNextKey
  <2>1. /\ UNCHANGED <<announced, switchAge, secret, told, switch, cancel>>
        /\ files'.identity = files.identity /\ files'.prev = files.prev /\ start' = "made"
        /\ ~announced /\ switch # "down"
    BY <1>1 DEF MakeNextKey
  <2>2. switch = "idle"
    <3>1. ~Switching
      BY <1>1, Zenon DEF MakeNextKey, Calm
    <3> QED BY <2>1, <3>1
  <2> QED BY <2>1, <2>2
<1>2. CASE Announce
  <2>1. /\ UNCHANGED <<files, switchAge, secret, told, switch, cancel>> /\ start' = "announced"
        /\ announced' = TRUE /\ start = "made" /\ switch # "down"
    BY <1>2 DEF Announce
  <2>2. switch = "idle" /\ told.next = 0
    BY <2>1
  <2> QED BY <2>1, <2>2
<1>3. CASE FinishStart
  <2>1. /\ UNCHANGED <<files, announced, switchAge, secret, switch, cancel>> /\ start' = "none"
        /\ start = "announced" /\ switch # "down" /\ told' = Credentials(files, announced, secret)
    BY <1>3 DEF FinishStart, disk
  <2>2. switch = "idle" /\ announced /\ files.next # 0
    BY <2>1
  <2>3. told'.current = secret /\ told'.next = files.next
    BY <2>1, <2>2, CredentialsFacts
  <2> QED BY <2>1, <2>2, <2>3
<1>4. CASE Cancel
  <2>1. /\ UNCHANGED <<files, switchAge, secret, told, switch, start>> /\ announced' = FALSE
        /\ cancel' = "ended" /\ switch # "down"
    BY <1>4 DEF Cancel
  <2>2. switch = "idle"
    <3>1. ~Switching
      BY <1>4, Zenon DEF Cancel, Calm
    <3> QED BY <2>1, <3>1
  <2> QED BY <2>1, <2>2
<1>5. CASE RemoveNextKey
  <2>1. /\ UNCHANGED <<announced, switchAge, secret, switch, start>> /\ cancel' = "none"
        /\ cancel = "ended" /\ switch # "down"
        /\ files'.identity = files.identity /\ files'.prev = files.prev /\ files'.next = 0
        /\ told' = Credentials(files', announced, secret)
    BY <1>5 DEF RemoveNextKey
  <2>2. switch = "idle" /\ ~announced
    BY <2>1
  <2>3. told'.current = secret /\ told'.next = 0
    BY <2>1, <2>2, CredentialsFacts
  <2> QED BY <2>1, <2>2, <2>3
<1>6. CASE SwitchNow \/ CheckSwitches
  <2>1. /\ UNCHANGED <<announced, switchAge, secret, told, start, cancel>>
        /\ switch = "idle" /\ switch' = "keep" /\ announced
        /\ files'.identity = files.identity /\ files'.next = files.next
        /\ files'.prev = files.prev \/ (files'.prev = 0 /\ ~Recent)
    BY <1>6, BeginSwitchLeaves
  <2> QED BY <2>1
<1>7. CASE CheckRefreshes \/ CheckReads \/ CheckSets
  <2>1. /\ UNCHANGED <<announced, switchAge, secret, switch, start, cancel>>
        /\ files'.identity = files.identity /\ files'.next = files.next /\ Up
        /\ \/ files'.prev = files.prev
           \/ files'.prev = 0 /\ ~Recent /\ switch \notin {"move", "record"}
        /\ told' = told \/ told' = Credentials(files', announced, secret)
    BY <1>7, CheckLeaves
  <2>2. HubInStep'
    BY <2>1
  <2>3. \/ told' = told
        \/ ~Moved /\ told'.current = secret /\ told'.next = IF announced THEN files.next ELSE 0
    BY <2>1, CredentialsFacts
  <2>4. switch = "refresh" => files'.prev = files.prev
    BY <2>1
  <2>5. ToldInStep'
    <3>1. CASE told' = told
      BY <2>1, <2>4, <3>1
    <3>2. CASE ~Moved /\ told'.current = secret /\ told'.next = IF announced THEN files.next ELSE 0
      BY <2>1, <3>2
    <3> QED BY <2>3, <3>1, <3>2
  <2> QED BY <2>2, <2>5
<1>8. CASE KeepPrevKey
  <2>1. UNCHANGED <<announced, switchAge, secret, told, start, cancel>> /\ switch = "keep"
    BY <1>8 DEF KeepPrevKey, requests
  <2>2. files.next # 0
    BY <2>1
  <2>3. /\ switch' = "move" /\ files'.identity = files.identity /\ files'.next = files.next
        /\ files'.prev = files.identity
    BY <1>8, <2>2 DEF KeepPrevKey
  <2> QED BY <2>1, <2>2, <2>3
<1>9. CASE MoveNextKey
  <2>1. UNCHANGED <<announced, switchAge, secret, told, start, cancel>> /\ switch = "move"
    BY <1>9 DEF MoveNextKey, requests
  <2>2. files.next # 0 /\ start = "none" /\ secret = files.identity
    BY <2>1
  <2>3. /\ switch' = "record" /\ files'.identity = files.next /\ files'.next = 0
        /\ files'.prev = files.prev
    BY <1>9, <2>2 DEF MoveNextKey
  <2>4. told.next = files.next /\ told.current = secret /\ files.prev = files.identity
    BY <2>1, <2>2
  <2>5. HubInStep'
    BY <2>1, <2>2, <2>3, <2>4
  <2> QED BY <2>1, <2>2, <2>3, <2>4, <2>5
<1>10. CASE RecordSwitch
  <2>1. /\ UNCHANGED <<files, secret, told, start, cancel>> /\ switch = "record" /\ switch' = "revoke"
        /\ announced' = FALSE /\ switchAge' = IF announced THEN 0 ELSE switchAge
    BY <1>10 DEF RecordSwitch, EndRotation, requests
  <2>2. Moved /\ switchAge' = 0
    BY <2>1
  <2> QED BY <2>1, <2>2
<1>11. CASE RevokeCodes
  BY <1>11 DEF RevokeCodes, requests
<1>12. CASE FinishSwitch
  <2>1. /\ UNCHANGED <<files, announced, switchAge, secret, start, cancel>> /\ switch = "refresh"
        /\ switch' = "idle" /\ told' = Credentials(files, announced, secret)
    BY <1>12 DEF FinishSwitch, disk, requests
  <2>2. ~announced
    BY <2>1
  <2>3. told'.current = secret /\ told'.next = 0
    BY <2>1, <2>2, CredentialsFacts
  <2> QED BY <2>1, <2>2, <2>3
<1>13. CASE CrashHub
  BY <1>13 DEF CrashHub, disk
<1>14. CASE StartHub
  <2>1. /\ UNCHANGED <<files, start, cancel>> /\ switch' = "idle" /\ announced' = (announced /\ ~Moved)
        /\ switchAge' = (IF Moved THEN 0 ELSE switchAge) /\ secret' = files.identity
        /\ told' = Credentials(files, announced', files.identity) /\ switch = "down"
    BY <1>14 DEF StartHub, EndRotation, CutShort, requests
  <2>2. announced' => files.next # 0
    BY <2>1
  <2>3. told'.current = files.identity /\ told'.next = IF announced' THEN files.next ELSE 0
    BY <2>1, <2>2, CredentialsFacts
  <2> QED BY <2>1, <2>2, <2>3
<1>15. CASE CreateCode
  BY <1>15 DEF CreateCode, requests
<1>16. CASE Older
  <2>1. UNCHANGED <<files, announced, secret, told, switch, start, cancel>> /\ (~Recent => ~Recent')
        /\ switch \notin {"revoke", "refresh"}
    BY <1>16, OlderFacts
  <2> QED BY <2>1
<1>17. ASSUME NEW p \in Probes, AtProbe(p) PROVE HubInStep' /\ ToldInStep'
  BY <1>17, OnlyItself DEF HubSame
<1>18. CASE UNCHANGED vars
  BY <1>18 DEF vars, hubVars, disk, requests
<1> QED BY <1>1, <1>2, <1>3, <1>4, <1>5, <1>6, <1>7, <1>8, <1>9, <1>10, <1>11, <1>12, <1>13,
           <1>14, <1>15, <1>16, <1>17, <1>18
        DEF Next, StartSteps, CheckSteps, SwitchSteps, AtProbe

LEMMA HubKnowsInductive == ASSUME Calm', Basics, HubInv, [Next]_vars PROVE HubKnows'
<1>1. HubKnows /\ HubTyped /\ Typed /\ Rows
      /\ keys \in Nat /\ files.identity \in Nat \ {0} /\ files.next \in Nat
      /\ told.current \in Nat /\ told.next \in Nat /\ secret \in Nat /\ code \in Nat
  BY KeysAssumption DEF Basics, Typed, HubInv, HubTyped, Keys
<1> USE <1>1 DEF HubKnows, Made
<1>2. \A f, a, s : \/ Credentials(f, a, s) = told
                   \/ Credentials(f, a, s).current = s /\ Credentials(f, a, s).next \in {0, f.next}
  BY CredentialsFacts
<1>3. CASE MakeNextKey
  <2>1. UNCHANGED <<secret, told, code>> /\ keys' = keys + 1
        /\ files'.identity = files.identity /\ files'.next = keys + 1
    BY <1>3 DEF MakeNextKey, HubTyped
  <2> QED BY <2>1
<1>4. CASE Announce \/ Cancel \/ CrashHub \/ RecordSwitch
  BY <1>4 DEF Announce, Cancel, CrashHub, RecordSwitch, disk, bounds
<1>5. CASE FinishStart
  BY <1>2, <1>5 DEF FinishStart, disk, bounds
<1>6. CASE RemoveNextKey
  <2>1. files'.identity = files.identity /\ files'.next = 0
    BY <1>6 DEF RemoveNextKey, HubTyped
  <2>2. told' = Credentials(files', announced, secret) /\ UNCHANGED <<secret, code, keys>>
    BY <1>6 DEF RemoveNextKey, bounds
  <2>3. told' = told \/ (told'.current = secret /\ told'.next = 0)
    BY <1>2, <2>1, <2>2
  <2> QED BY <2>1, <2>2, <2>3
<1>7. CASE SwitchNow \/ CheckSwitches
  BY <1>7, BeginSwitchLeaves
<1>8. CASE CheckRefreshes \/ CheckReads \/ CheckSets
  BY <1>2, <1>8, CheckLeaves
<1>10. CASE KeepPrevKey
  <2>1. files'.identity = files.identity /\ files'.next = files.next
    BY <1>10 DEF KeepPrevKey, HubTyped
  <2> QED BY <1>10, <2>1 DEF KeepPrevKey, bounds
<1>11. CASE MoveNextKey
  <2>1. \/ files'.identity = files.next /\ files'.next = 0 /\ files.next # 0
        \/ files' = files
    BY <1>11 DEF MoveNextKey, HubTyped
  <2> QED BY <1>11, <2>1 DEF MoveNextKey, bounds
<1>13. CASE RevokeCodes
  BY <1>13 DEF RevokeCodes, bounds
<1>14. CASE FinishSwitch
  BY <1>2, <1>14 DEF FinishSwitch, disk, bounds
<1>16. CASE StartHub
  BY <1>2, <1>16 DEF StartHub, bounds
<1>17. CASE CreateCode
  BY <1>17 DEF CreateCode, bounds
<1>18. CASE Older
  BY <1>18, OlderFacts
<1>19. ASSUME NEW p \in Probes, AtProbe(p) PROVE HubKnows'
  BY <1>19, OnlyItself DEF HubSame
<1>20. CASE UNCHANGED vars
  BY <1>20 DEF vars, hubVars, disk, bounds
<1> QED BY <1>3, <1>4, <1>5, <1>6, <1>7, <1>8, <1>10, <1>11, <1>13, <1>14,
           <1>16, <1>17, <1>18, <1>19, <1>20 DEF Next, StartSteps, CheckSteps, SwitchSteps, AtProbe
-----------------------------------------------------------------------------
(***************************************************************************)
(* The steps at a probe: what they do to what the invariants name.         *)
(***************************************************************************)
\* The values of a probe, as types for the provers.
LEMMA ProbeTypes ==
  ASSUME Typed, NEW p \in Probes
  PROVE  /\ enr[p] \in Pairs /\ link[p] \in Pairs /\ record[p].pins \in Pairs
         /\ record[p].state \in {"none", "active", "revoked"}
         /\ box[p] \in Seq(Reports) /\ Len(box[p]) \in Nat /\ DOMAIN box[p] = 1..Len(box[p])
         /\ \A i \in DOMAIN box[p] : box[p][i].pins \in Pairs /\ box[p][i].key \in Keys
         /\ ack[p] \in Answers /\ answer[p] \in Answers /\ enrolling[p] \in Keys
         /\ at[p] \in {"home", "sending", "sent", "saved"}
<1>1. box[p] \in Seq(Reports)
  BY DEF Typed, ProbesTyped
<1>2. Len(box[p]) \in Nat /\ DOMAIN box[p] = 1..Len(box[p])
      /\ \A i \in DOMAIN box[p] : box[p][i] \in Reports
  BY <1>1
<1> QED BY <1>1, <1>2 DEF Typed, ProbesTyped, Reports

\* What each of them does.
Enrolls(p) ==
  /\ enrolling[p] # 0 /\ enrolling'[p] = 0
  /\ enr'[p] = Pins(enrolling[p], 0)
  /\ box'[p] = box[p] /\ link'[p] = link[p] /\ at'[p] = at[p]
  /\ answer'[p] = answer[p] /\ ack'[p] = ack[p] /\ record'[p] = record[p]
Begins(p) ==
  /\ at[p] = "home" /\ enr[p] # NoPins /\ at'[p] = "sending"
  /\ link'[p] = enr[p] /\ ack'[p] = Nothing
  /\ box'[p] = Append(Newest(Young(box[p]), MaxBox),
                      [key |-> enr[p].current, pins |-> enr[p], age |-> 0])
  /\ enr'[p] = enr[p] /\ answer'[p] = answer[p] /\ enrolling'[p] = enrolling[p]
  /\ record'[p] = record[p]
IsAnswered(p) ==
  /\ at[p] = "sending" /\ box[p] # <<>> /\ 1 \in DOMAIN box[p] /\ Up
  /\ answer'[p].kind = "revoked" => record[p].state = "revoked"
  /\ answer'[p].kind = "announced" => told.next # 0 /\ answer'[p].key = told.next
  /\ answer'[p].kind = "switched" =>
       told.next = 0 /\ answer'[p].key = told.current /\ box[p][1].pins.current # told.current
  /\ answer'[p].kind \notin {"announced", "switched"} => answer'[p].key = 0
  /\ record'[p].state = record[p].state
  /\ \/ record'[p] = record[p]
     \/ record[p].state = "active" /\ record'[p].pins = box[p][1].pins
  /\ enr'[p] = enr[p] /\ box'[p] = box[p] /\ link'[p] = link[p] /\ at'[p] = at[p]
  /\ ack'[p] = ack[p] /\ enrolling'[p] = enrolling[p]
Hears(p) ==
  /\ at[p] = "sending" /\ at'[p] \in {"sending", "sent"}
  /\ box[p] # <<>> /\ box'[p] = Tail(box[p])
  /\ ack'[p] \in {ack[p], answer[p]} /\ answer'[p] = Nothing
  /\ enr'[p] = enr[p] /\ link'[p] = link[p] /\ enrolling'[p] = enrolling[p]
  /\ record'[p] = record[p]
GoesHome(p) == at'[p] = "home" /\ link'[p] = NoPins /\ ack'[p] = Nothing
Forgets(p) ==
  /\ answer[p].kind = "revoked"
  /\ box'[p] = <<>> /\ enr'[p] = NoPins /\ answer'[p] = Nothing
  /\ GoesHome(p) /\ enrolling'[p] = enrolling[p]
  /\ record'[p] = record[p]
Rotates(p) ==
  /\ at[p] = "sent"
  /\ GoesHome(p) \/ (at'[p] = "saved" /\ link'[p] = link[p] /\ ack'[p] = ack[p])
  /\ enr'[p] = IF Rotated(link[p], ack[p]) = link[p] THEN enr[p] ELSE Rotated(link[p], ack[p])
  /\ box'[p] = box[p] /\ answer'[p] = answer[p]
  /\ enrolling'[p] = enrolling[p] /\ record'[p] = record[p]
\* A step that changes little: it may leave the cycle, or go on to its end, with
\* the box as it is or empty.
Rests(p) ==
  /\ \/ GoesHome(p)
     \/ at'[p] = "sent" /\ at[p] = "sending" /\ link'[p] = link[p] /\ ack'[p] = ack[p]
  /\ answer'[p] = Nothing
  /\ box'[p] \in {box[p], <<>>}
  /\ enr'[p] = enr[p] /\ enrolling'[p] = enrolling[p] /\ record'[p] = record[p]
IsRedeemed(p) ==
  /\ enrolling[p] = 0 /\ enrolling'[p] = code /\ code = secret /\ Up
  /\ record'[p].state = "active" /\ record'[p].pins = record[p].pins
  /\ p \notin astray' => ~OutOfTime(p)
  /\ enr'[p] = enr[p] /\ box'[p] = box[p] /\ link'[p] = link[p] /\ at'[p] = at[p]
  /\ answer'[p] = answer[p] /\ ack'[p] = ack[p]
IsRevoked(p) ==
  /\ record[p].state = "active" /\ enrolling[p] = 0
  /\ record'[p].state = "revoked" /\ record'[p].pins = record[p].pins
  /\ enr'[p] = enr[p] /\ box'[p] = box[p] /\ link'[p] = link[p] /\ at'[p] = at[p]
  /\ answer'[p] = answer[p] /\ ack'[p] = ack[p] /\ enrolling'[p] = enrolling[p]
Effects(p) ==
  \/ Enrolls(p) \/ Begins(p) \/ IsAnswered(p) \/ Hears(p) \/ Forgets(p) \/ Rotates(p)
  \/ Rests(p) \/ IsRedeemed(p) \/ IsRevoked(p)

LEMMA EffectsFacts ==
  ASSUME Basics, NEW p \in Probes, AtProbe(p)
  PROVE  Effects(p)
<1>1. AtHome(p) /\ Typed /\ ProbesTyped
  BY DEF Basics, Typed
<1> USE <1>1 DEF ProbesTyped
<1>2. CASE SaveEnrollment(p)
  <2> Enrolls(p)
    BY <1>2 DEF SaveEnrollment, hubVars, disk, Enrolls
  <2> QED BY DEF Effects
<1>3. CASE Cycle(p)
  <2> Begins(p)
    BY <1>3 DEF Cycle, hubVars, disk, AtHome, Begins
  <2> QED BY DEF Effects
<1>4. CASE Ingest(p)
  <2>1. box[p] # <<>> /\ at[p] = "sending" /\ Up
    BY <1>4 DEF Ingest, AtHome
  <2>2. /\ answer'[p].kind = "revoked" => record[p].state = "revoked"
        /\ answer'[p].kind = "announced" => told.next # 0 /\ answer'[p].key = told.next
        /\ answer'[p].kind = "switched" =>
             told.next = 0 /\ answer'[p].key = told.current /\ box[p][1].pins.current # told.current
        /\ answer'[p].kind \notin {"announced", "switched"} => answer'[p].key = 0
        /\ 1 \in DOMAIN box[p]
        /\ \/ record' = record
           \/ /\ record[p].state = "active"
              /\ record' = [record EXCEPT ![p].pins = box[p][1].pins]
    BY <1>4, <2>1, IngestFacts
  <2>3. /\ record'[p].state = record[p].state
        /\ \/ record'[p] = record[p]
           \/ record[p].state = "active" /\ record'[p].pins = box[p][1].pins
    BY <2>2
  <2> IsAnswered(p)
    BY <1>4, <2>1, <2>2, <2>3 DEF Ingest, IsAnswered
  <2> QED BY DEF Effects
<1>5. CASE Hear(p)
  <2> Hears(p)
    BY <1>5 DEF Hear, AtHome, hubVars, disk, Hears
  <2> QED BY DEF Effects
<1>6. CASE HearRevoked(p)
  <2> Forgets(p)
    BY <1>6 DEF HearRevoked, GoHome, GoesHome, hubVars, disk, Forgets
  <2> QED BY DEF Effects
<1>7. CASE FollowRotation(p)
  <2> Rotates(p)
    BY <1>7 DEF FollowRotation, GoHome, GoesHome, hubVars, disk, Rotates
  <2> QED BY DEF Effects
<1>8. CASE SetHubKey(p)
  <2> Rests(p)
    BY <1>8 DEF SetHubKey, AtHome, GoHome, GoesHome, hubVars, disk, Rests
  <2> QED BY DEF Effects
<1>9. CASE Redeem(p)
  <2> IsRedeemed(p)
    BY <1>9 DEF Redeem, IsRedeemed
  <2> QED BY DEF Effects
<1>10. CASE RevokeProbe(p)
  <2> IsRevoked(p)
    BY <1>10 DEF RevokeProbe, probeVars, IsRevoked
  <2> QED BY DEF Effects
<1>11. CASE Unreached(p)
  <2> Rests(p)
    BY <1>11 DEF Unreached, hubVars, disk, Rests
  <2> QED BY DEF Effects
<1>12. CASE RestartProbe(p)
  <2> Rests(p)
    BY <1>12 DEF RestartProbe, GoHome, GoesHome, hubVars, disk, Rests
  <2> QED BY DEF Effects
<1> QED BY <1>2, <1>3, <1>4, <1>5, <1>6, <1>7, <1>8, <1>9, <1>10, <1>11, <1>12
        DEF AtProbe, Running

\* The box after any of them: what was in it, in the same order, and after a
\* cycle began one more report, of what the probe has.
LEMMA BoxFacts ==
  ASSUME Typed, NEW p \in Probes, Effects(p)
  PROVE  \/ /\ Begins(p)
            /\ box'[p] \in Seq(Reports) /\ DOMAIN box'[p] = 1..Len(box'[p]) /\ Len(box'[p]) \in Nat
            /\ Len(box'[p]) \in DOMAIN box'[p]
            /\ box'[p][Len(box'[p])].pins = enr[p]
            /\ box'[p][Len(box'[p])].key = enr[p].current
            /\ \E d \in Nat : \A i \in DOMAIN box'[p] : i # Len(box'[p]) =>
                 i + d \in DOMAIN box[p] /\ box'[p][i] = box[p][i + d]
         \/ /\ ~Begins(p)
            /\ \E d \in Nat : \A i \in DOMAIN box'[p] :
                 i \in Nat /\ i + d \in DOMAIN box[p] /\ box'[p][i] = box[p][i + d]
<1>1. box[p] \in Seq(Reports)
  BY ProbeTypes
<1>2. CASE Begins(p)
  <2> DEFINE r == [key |-> enr[p].current, pins |-> enr[p], age |-> 0]
  <2>1. r \in Reports /\ r.key = enr[p].current /\ r.pins = enr[p]
    BY ProbeTypes DEF Reports, Pairs
  <2> DEFINE b == Append(Newest(Young(box[p]), MaxBox), r)
  <2>2. box'[p] = b
    BY <1>2 DEF Begins
  <2> HIDE DEF r
  <2>a. /\ b \in Seq(Reports)
        /\ Len(b) \in DOMAIN b /\ b[Len(b)] = r
        /\ \E d \in Nat : \A i \in DOMAIN b : i # Len(b) =>
             i + d \in DOMAIN box[p] /\ b[i] = box[p][i + d]
    BY <1>1, <2>1, BoxAfterCycle
  <2> HIDE DEF b
  <2>3. /\ box'[p] \in Seq(Reports)
        /\ Len(box'[p]) \in DOMAIN box'[p] /\ box'[p][Len(box'[p])] = r
        /\ \E d \in Nat : \A i \in DOMAIN box'[p] : i # Len(box'[p]) =>
             i + d \in DOMAIN box[p] /\ box'[p][i] = box[p][i + d]
    BY <2>2, <2>a
  <2>4. DOMAIN box'[p] = 1..Len(box'[p]) /\ Len(box'[p]) \in Nat
    BY <2>3
  <2> QED BY <1>2, <2>1, <2>3, <2>4
<1>3. CASE ~Begins(p)
  <2>1. box'[p] \in {box[p], <<>>} \/ (box[p] # <<>> /\ box'[p] = Tail(box[p]))
    BY <1>3 DEF Effects, Enrolls, IsAnswered, Hears, Forgets, Rotates, Rests, IsRedeemed, IsRevoked, GoesHome
  <2>2. CASE box'[p] = box[p]
    <3>1. \A i \in DOMAIN box[p] : i \in Nat /\ i + 0 = i
      BY <1>1
    <3> QED BY <1>3, <2>2, <3>1
  <2>3. CASE box'[p] = <<>>
    <3>1. DOMAIN box'[p] = {}
      BY <2>3
    <3> QED BY <1>3, <3>1
  <2>4. CASE box[p] # <<>> /\ box'[p] = Tail(box[p])
    <3>1. \A i \in DOMAIN Tail(box[p]) :
            i \in Nat /\ i + 1 \in DOMAIN box[p] /\ Tail(box[p])[i] = box[p][i + 1]
      BY <1>1, <2>4
    <3> QED BY <1>3, <2>4, <3>1
  <2> QED BY <2>1, <2>2, <2>3, <2>4
<1> QED BY <1>2, <1>3

\* So each report in it was in it before, or is the new one.
LEMMA BoxElements ==
  ASSUME Typed, NEW p \in Probes, Effects(p), NEW i \in DOMAIN box'[p]
  PROVE  \/ \E k \in DOMAIN box[p] : box'[p][i] = box[p][k]
         \/ /\ Begins(p)
            /\ box'[p][i].pins = enr[p] /\ box'[p][i].key = enr[p].current
BY BoxFacts


\* What the hub says of its keys when it is up: of the old one only to probes
\* that know it, and the other, and nothing yet of a key that is being made.
LEMMA WhatIsSaid ==
  ASSUME HubTyped, HubInv, Up
  PROVE  /\ Lag => /\ Switching /\ told.next \in {0, files.identity}
                   /\ told.next = 0 => told.current = files.prev
         /\ ~Lag => told.current = files.identity
         /\ Quiet => told.next = 0 /\ ~Lag
         /\ Still => ~Lag
         /\ (Moved \/ Recent) /\ told.next # 0 => told.next = files.identity \/ Still
         /\ Announcing /\ ~Quiet => told.next = files.next
<1> USE DEF HubTyped, HubInv, Rows, HubInStep, ToldInStep, Up, Switching, Lag, Moved, Announcing
<1>1. Lag => switch \in {"record", "revoke", "refresh"}
  OBVIOUS
<1>2. Lag => /\ Switching /\ told.next \in {0, files.identity}
             /\ told.next = 0 => told.current = files.prev
  BY <1>1
<1>3. ~Lag => told.current = files.identity
  OBVIOUS
<1>4. Quiet => told.next = 0 /\ switch = "idle"
  <2>1. CASE start = "made"
    BY <2>1
  <2>2. CASE Announcing /\ told.next # files.next
    BY <2>2
  <2> QED BY <2>1, <2>2 DEF Quiet
<1>5. Still => ~Lag
  BY <1>1 DEF Still, Underway
<1>6. (Moved \/ Recent) /\ told.next # 0 => told.next = files.identity \/ Still
  <2>1. CASE Moved \/ switch \in {"revoke", "refresh"}
    BY <2>1
  <2>2. CASE ~(Moved \/ switch \in {"revoke", "refresh"})
    BY <2>2 DEF Still, Underway
  <2> QED BY <2>1, <2>2
<1>7. Announcing /\ ~Quiet => told.next = files.next
  BY DEF Quiet
<1> QED BY <1>1, <1>2, <1>3, <1>4, <1>5, <1>6, <1>7

\* What every one of the lemmas below is about: a step at a probe that didn't go
\* astray, and what holds before it.
Own(p) ==
  /\ Typed /\ HubTyped /\ HubInv /\ AtHome(p) /\ ProbeInv(p) /\ Effects(p)
  /\ p \notin astray' /\ AtHome(p)'
  /\ UNCHANGED <<files, announced, switchAge, secret, told, switch, start, cancel, keys>>

LEMMA OwnKnows ==
  ASSUME NEW p \in Probes, Own(p)
  PROVE  Knows(p)'
<1>1. /\ Typed /\ Knows(p) /\ HubKnows /\ Effects(p)
      /\ keys' = keys /\ keys \in Nat
  BY DEF Own, ProbeInv, HubInv, HubTyped
<1>2. 0 <= keys /\ Made(NoPins) /\ Nothing.key = 0
  BY <1>1 DEF Made, NoPins, Pins, Nothing
<1>3. \A i \in DOMAIN box'[p] : Made(box'[p][i].pins)
  BY <1>1, BoxElements DEF Knows
<1>4. Made(Rotated(link[p], ack[p])) /\ Made(Pins(enrolling[p], 0))
  BY <1>1, <1>2 DEF Knows, Made, Rotated, Pins
<1>5. /\ Made(enr'[p]) /\ Made(link'[p])
      /\ ack'[p].key <= keys /\ enrolling'[p] <= keys
  BY <1>1, <1>2, <1>4
  DEF Effects, Enrolls, Begins, IsAnswered, Hears, Forgets, Rotates, Rests, IsRedeemed, IsRevoked,
      GoesHome, Knows, HubKnows
<1>6. Made(record'[p].pins)
  BY <1>1
  DEF Effects, Enrolls, Begins, IsAnswered, Hears, Forgets, Rotates, Rests, IsRedeemed, IsRevoked, Knows
<1>7. answer'[p].key <= keys
  <2>1. CASE IsAnswered(p)
    BY <1>1, <1>2, <2>1 DEF IsAnswered, HubKnows, Made
  <2>2. CASE ~IsAnswered(p)
    BY <1>1, <1>2, <2>2
    DEF Effects, Enrolls, Begins, Hears, Forgets, Rotates, Rests, IsRedeemed, IsRevoked, Knows
  <2> QED BY <2>1, <2>2
<1> QED BY <1>1, <1>3, <1>5, <1>6, <1>7 DEF Knows, Made

LEMMA OwnEnrolledInStep ==
  ASSUME NEW p \in Probes, Own(p)
  PROVE  EnrolledInStep(p)'
<1>1. /\ Typed /\ EnrolledInStep(p) /\ AtHome(p) /\ Effects(p) /\ HubInv /\ HubTyped
      /\ UNCHANGED <<files, announced, secret, switch, start, cancel>> /\ p \notin astray'
  BY DEF Own, ProbeInv
<1>2. UNCHANGED <<files, announced, secret, switch, start, cancel>> /\ Underway' = Underway
  BY <1>1 DEF Underway
<1>3. record[p].state \in {"none", "active", "revoked"} /\ NoPins.current = 0 /\ Nothing.kind = "nothing"
  BY <1>1, ProbeTypes DEF NoPins, Pins, Nothing
<1> USE <1>1, <1>2, <1>3 DEF EnrolledInStep
<1>4. CASE Enrolls(p)
  BY <1>4 DEF Enrolls
<1>5. CASE Begins(p)
  BY <1>5 DEF Begins
<1>6. CASE IsAnswered(p)
  <2>1. enr[p] # NoPins
    BY <1>6 DEF IsAnswered, AtHome
  <2> QED BY <1>6, <2>1 DEF IsAnswered
<1>7. CASE Hears(p)
  BY <1>7 DEF Hears
<1>8. CASE Forgets(p)
  BY <1>8 DEF Forgets
<1>9. CASE Rotates(p)
  BY <1>9 DEF Rotates, AtHome
<1>10. CASE Rests(p)
  BY <1>10 DEF Rests
<1>11. CASE IsRedeemed(p)
  <2>1. /\ ~Switching /\ Up /\ (Underway => record[p].state = "none")
        /\ enrolling'[p] = secret /\ record'[p].state = "active"
        /\ record'[p].pins = record[p].pins /\ enr'[p] = enr[p] /\ answer'[p] = answer[p]
    BY <1>11 DEF IsRedeemed, OutOfTime, Underway
  <2>2. switch = "idle" /\ secret = files.identity
    BY <2>1 DEF Switching, Up, HubTyped, HubInv, HubInStep
  <2>3. answer'[p].kind # "revoked"
    <3>1. CASE record[p].state = "revoked"
      <4>1. enr[p] = NoPins
        BY <1>11, <3>1 DEF IsRedeemed, OutOfTime
      <4> QED BY <2>1, <4>1 DEF AtHome
    <3>2. CASE record[p].state # "revoked"
      BY <2>1, <3>2
    <3> QED BY <3>1, <3>2
  <2> QED BY <2>1, <2>2, <2>3
<1>12. CASE IsRevoked(p)
  BY <1>12 DEF IsRevoked
<1> QED BY <1>4, <1>5, <1>6, <1>7, <1>8, <1>9, <1>10, <1>11, <1>12 DEF Effects

LEMMA OwnUnheard ==
  ASSUME NEW p \in Probes, Own(p)
  PROVE  Unheard(p)'
<1>1. /\ Typed /\ HubTyped /\ Unheard(p) /\ EnrolledInStep(p) /\ Effects(p) /\ HubInv /\ HubKnows
      /\ UNCHANGED <<files, announced, told, start>>
  BY DEF Own, ProbeInv, HubInv
<1>a. Quiet' = Quiet
  BY <1>1 DEF Quiet, Announcing
<1>2. SUFFICES ASSUME Quiet PROVE Unheard(p)'
  BY <1>a DEF Unheard
<1>3. files.next # 0 /\ files.identity # files.next
  BY <1>1, <1>2 DEF HubInv, Rows, HubKnows, Quiet, Announcing
<1>4. Up => told.next = 0 /\ told.current = files.identity
  BY <1>1, <1>2, WhatIsSaid
<1>5. /\ ~Holds(enr[p], files.next) /\ ~Holds(link[p], files.next)
      /\ ~Holds(record[p].pins, files.next)
      /\ \A i \in DOMAIN box[p] : ~Holds(box[p][i].pins, files.next)
      /\ ack[p].key # files.next /\ answer[p].key # files.next
  BY <1>1, <1>2 DEF Unheard
<1>6. ~Holds(Rotated(link[p], ack[p]), files.next) /\ ~Holds(NoPins, files.next) /\ Nothing.key = 0
  BY <1>3, <1>5 DEF Rotated, Holds, Pins, NoPins, Nothing
<1>7. enrolling[p] # 0 => ~Holds(Pins(enrolling[p], 0), files.next)
  BY <1>1, <1>3 DEF EnrolledInStep, Holds, Pins
<1>8. \A i \in DOMAIN box'[p] : ~Holds(box'[p][i].pins, files.next)
  BY <1>1, <1>5, BoxElements
<1>9. ~Holds(enr'[p], files.next) /\ ~Holds(link'[p], files.next) /\ ack'[p].key # files.next
  BY <1>1, <1>3, <1>5, <1>6, <1>7
  DEF Effects, Enrolls, Begins, IsAnswered, Hears, Forgets, Rotates, Rests, IsRedeemed, IsRevoked,
      GoesHome
<1>10. ~Holds(record'[p].pins, files.next)
  BY <1>1, <1>5
  DEF Effects, Enrolls, Begins, IsAnswered, Hears, Forgets, Rotates, Rests, IsRedeemed, IsRevoked
<1>11. answer'[p].key # files.next
  BY <1>1, <1>3, <1>4, <1>5, <1>6
  DEF Effects, Enrolls, Begins, IsAnswered, Hears, Forgets, Rotates, Rests, IsRedeemed, IsRevoked
<1> QED BY <1>1, <1>8, <1>9, <1>10, <1>11 DEF Unheard, Holds

\* A probe that is redeemed when it wasn't active yet has no pins, and is at home.
LEMMA ActiveBefore ==
  ASSUME NEW p \in Probes, Own(p), record'[p].state = "active", enr'[p] # NoPins
  PROVE  record[p].state = "active"
<1>1. CASE IsRedeemed(p)
  BY <1>1, ProbeTypes DEF Own, ProbeInv, IsRedeemed, OutOfTime, EnrolledInStep
<1>2. CASE Enrolls(p)
  BY <1>2 DEF Own, ProbeInv, Enrolls, EnrolledInStep
<1>3. CASE ~IsRedeemed(p) /\ ~Enrolls(p)
  BY <1>3 DEF Own, Effects, Begins, IsAnswered, Hears, Forgets, Rotates, Rests, IsRevoked
<1> QED BY <1>1, <1>2, <1>3

LEMMA OwnSettled ==
  ASSUME NEW p \in Probes, Own(p)
  PROVE  Settled(p)'
<1>1. /\ Typed /\ HubTyped /\ Settled(p) /\ EnrolledInStep(p) /\ AtHome(p) /\ Effects(p) /\ HubInv
      /\ UNCHANGED <<files, announced, switchAge, told, switch, start, cancel, secret>>
      /\ AtHome(p)'
  BY DEF Own, ProbeInv
<1>a. Still' = Still
  BY <1>1 DEF Still, Moved, Recent, Underway
<1>2. SUFFICES ASSUME Still, record'[p].state = "active"
               PROVE  /\ enr'[p] # NoPins => enr'[p].current = files.identity
                      /\ at'[p] \in {"sending", "sent"} =>
                           /\ link'[p].current = files.identity
                           /\ Follows(ack'[p]) /\ Follows(answer'[p])
  BY <1>1, <1>a DEF Settled, InCycle, Follows
<1>b. CASE enr'[p] = NoPins
  BY <1>1, <1>b DEF AtHome
<1>c. SUFFICES ASSUME enr'[p] # NoPins
               PROVE  /\ enr'[p].current = files.identity
                      /\ at'[p] \in {"sending", "sent"} =>
                           /\ link'[p].current = files.identity
                           /\ Follows(ack'[p]) /\ Follows(answer'[p])
  BY <1>b
<1>3. /\ record[p].state = "active"
      /\ enr[p] # NoPins => enr[p].current = files.identity
      /\ InCycle(p) =>
           link[p].current = files.identity /\ Follows(ack[p]) /\ Follows(answer[p])
  BY <1>1, <1>2, <1>c, ActiveBefore DEF Settled
<1>4. Follows(Nothing) /\ NoPins.current = 0
  BY DEF Follows, Nothing, NoPins, Pins
<1>5. enrolling[p] # 0 => Pins(enrolling[p], 0).current = files.identity
  BY <1>1 DEF EnrolledInStep, Pins
<1>6. InCycle(p) => Rotated(link[p], ack[p]).current = files.identity
  BY <1>3 DEF Rotated, Pins, Follows
<1>8. IsAnswered(p) => Follows(answer'[p])
  BY <1>1, <1>2, WhatIsSaid DEF IsAnswered, Follows
<1>9. ~InCycle(p) => answer[p] = Nothing
  BY <1>1 DEF AtHome, InCycle
<1> QED BY <1>1, <1>3, <1>4, <1>5, <1>6, <1>8, <1>9, <1>c
    DEF Effects, Enrolls, Begins, IsAnswered, Hears, Forgets, Rotates, Rests, IsRedeemed,
        IsRevoked, GoesHome, InCycle, AtHome
\* What a probe has when it sends an announced key on: it holds it, has only
\* answers that keep it, and all it says from then on says so.
LEMMA OwnSpread ==
  ASSUME NEW p \in Probes, Own(p)
  PROVE  Spread(p)'
<1>1. /\ Typed /\ HubTyped /\ Settled(p) /\ EnrolledInStep(p) /\ AtHome(p) /\ Effects(p) /\ HubInv
      /\ Spread(p) /\ Unheard(p) /\ UNCHANGED <<files, announced>>
  BY DEF Own, ProbeInv
<1> DEFINE N == files.next
           says(i) == Holds(box'[p][i].pins, N)
           reported == Holds(record'[p].pins, N)
           cycling == at'[p] \in {"sending", "sent"}
<1>2. SUFFICES ASSUME Announcing, record'[p].state = "active", enr'[p] # NoPins
               PROVE  /\ reported => Holds(enr'[p], N) /\ (cycling => Holds(link'[p], N))
                      /\ reported => \A i \in DOMAIN box'[p] : says(i)
                      /\ \A i \in DOMAIN box'[p] : says(i) =>
                           /\ Holds(enr'[p], N) /\ (cycling => Holds(link'[p], N))
                           /\ box'[p][i].key = files.identity
                           /\ box'[p][i].pins.current = files.identity
                      /\ \A i, j \in DOMAIN box'[p] : i <= j /\ says(i) => says(j)
                      /\ cycling /\ Holds(link'[p], N) =>
                           /\ Holds(enr'[p], N) /\ Keeps(ack'[p], N) /\ Keeps(answer'[p], N)
  BY <1>1 DEF Spread, Announcing, Reported, ReportHas, InCycle, Holds, Keeps
<1>3. Still /\ N # 0 /\ record[p].state = "active"
  BY <1>1, <1>2, ActiveBefore DEF Announcing, Moved, Still, Underway
<1>4. Keeps(Nothing, N) /\ ~Holds(NoPins, N)
  BY <1>3 DEF Keeps, Nothing, Holds, NoPins, Pins
<1>5. CASE Enrolls(p)
  <2>1. record[p].pins = NoPins /\ enr[p] = NoPins /\ at[p] = "home" /\ box[p] = <<>>
    BY <1>1, <1>2, <1>5 DEF Enrolls, EnrolledInStep, AtHome, Announcing, Underway
  <2>2. ~reported /\ ~cycling /\ DOMAIN box'[p] = {}
    BY <1>4, <1>5, <2>1 DEF Enrolls
  <2> QED BY <2>2
<1>7. ASSUME enr[p] # NoPins
      PROVE  /\ Reported(p) => Holds(enr[p], N) /\ (InCycle(p) => Holds(link[p], N))
             /\ Reported(p) => \A i \in DOMAIN box[p] : ReportHas(p, i)
             /\ \A i \in DOMAIN box[p] : ReportHas(p, i) =>
                  /\ Holds(enr[p], N) /\ (InCycle(p) => Holds(link[p], N))
                  /\ box[p][i].key = files.identity /\ box[p][i].pins.current = files.identity
             /\ \A i, j \in DOMAIN box[p] : i <= j /\ ReportHas(p, i) => ReportHas(p, j)
             /\ InCycle(p) /\ Holds(link[p], N) =>
                  /\ Holds(enr[p], N) /\ Keeps(ack[p], N) /\ Keeps(answer[p], N)
  BY <1>1, <1>2, <1>3, <1>7 DEF Spread
\* The order in the box stays, whatever goes from its head.
<1>8. ASSUME ~Begins(p), enr[p] # NoPins
      PROVE  /\ \A i \in DOMAIN box'[p] : \E k \in DOMAIN box[p] : box'[p][i] = box[p][k]
             /\ \A i, j \in DOMAIN box'[p] : i <= j /\ says(i) => says(j)
  <2>1. PICK d \in Nat : \A i \in DOMAIN box'[p] :
               i \in Nat /\ i + d \in DOMAIN box[p] /\ box'[p][i] = box[p][i + d]
    BY <1>1, <1>8, BoxFacts
  <2>2. ASSUME NEW i \in DOMAIN box'[p], NEW j \in DOMAIN box'[p], i <= j, says(i) PROVE says(j)
    <3>1. i \in Nat /\ j \in Nat /\ i + d <= j + d /\ ReportHas(p, i + d)
          /\ i + d \in DOMAIN box[p] /\ j + d \in DOMAIN box[p]
      BY <2>1, <2>2 DEF ReportHas
    <3>2. ReportHas(p, j + d)
      BY <1>7, <1>8, <3>1
    <3> QED BY <2>1, <3>1, <3>2 DEF ReportHas
  <2> QED BY <2>1, <2>2
<1>9. CASE Begins(p)
  <2>1. enr[p] # NoPins /\ at[p] = "home" /\ answer'[p] = Nothing /\ ack'[p] = Nothing
        /\ link'[p] = enr[p] /\ enr'[p] = enr[p] /\ record'[p] = record[p]
        /\ enr[p].current = files.identity
    BY <1>1, <1>3, <1>9 DEF Begins, AtHome, Settled
  <2> DEFINE n == Len(box'[p])
  <2>2. PICK d \in Nat : \A i \in DOMAIN box'[p] : i # n =>
               i + d \in DOMAIN box[p] /\ box'[p][i] = box[p][i + d]
    BY <1>1, <1>9, BoxFacts
  <2>3. /\ n \in Nat /\ DOMAIN box'[p] = 1..n /\ n \in DOMAIN box'[p]
        /\ box'[p][n].pins = enr[p] /\ box'[p][n].key = enr[p].current
    BY <1>1, <1>9, BoxFacts
  <2> HIDE DEF n
  <2>4. ASSUME NEW i \in DOMAIN box'[p], says(i)
        PROVE  /\ Holds(enr[p], N) /\ box'[p][i].key = files.identity
               /\ box'[p][i].pins.current = files.identity
    <3>1. CASE i = n
      BY <2>1, <2>3, <2>4, <3>1
    <3>2. CASE i # n
      <4>1. i + d \in DOMAIN box[p] /\ box'[p][i] = box[p][i + d]
        BY <2>2, <3>2
      <4>2. ReportHas(p, i + d)
        BY <2>4, <4>1 DEF ReportHas
      <4> QED BY <1>7, <2>1, <4>1, <4>2
    <3> QED BY <3>1, <3>2
  <2>5. ASSUME NEW i \in DOMAIN box'[p], NEW j \in DOMAIN box'[p], i <= j, says(i) PROVE says(j)
    <3>1. CASE j = n
      BY <2>3, <2>4, <2>5, <3>1
    <3>2. CASE j # n
      <4>1. i \in Nat /\ j \in Nat /\ i # n /\ i + d <= j + d
        BY <2>3, <2>5, <3>2
      <4>2. /\ i + d \in DOMAIN box[p] /\ box'[p][i] = box[p][i + d]
            /\ j + d \in DOMAIN box[p] /\ box'[p][j] = box[p][j + d]
        BY <2>2, <3>2, <4>1
      <4>3. ReportHas(p, j + d)
        BY <1>7, <2>1, <2>5, <4>1, <4>2 DEF ReportHas
      <4> QED BY <4>2, <4>3 DEF ReportHas
    <3> QED BY <3>1, <3>2
  <2>6. reported => \A i \in DOMAIN box'[p] : says(i)
    <3> SUFFICES ASSUME reported, NEW i \in DOMAIN box'[p] PROVE says(i)
      OBVIOUS
    <3>1. Reported(p) /\ Holds(enr[p], N)
      BY <1>7, <2>1 DEF Reported
    <3>2. CASE i = n
      BY <2>3, <3>1, <3>2
    <3>3. CASE i # n
      BY <1>7, <2>1, <2>2, <3>1, <3>3 DEF ReportHas
    <3> QED BY <3>2, <3>3
  <2>7. reported => Holds(enr[p], N)
    BY <1>7, <2>1 DEF Reported
  <2> QED BY <1>4, <2>1, <2>4, <2>5, <2>6, <2>7
<1>10. CASE IsAnswered(p)
  <2>1. /\ enr[p] # NoPins /\ InCycle(p) /\ box'[p] = box[p] /\ enr'[p] = enr[p]
        /\ link'[p] = link[p] /\ ack'[p] = ack[p] /\ 1 \in DOMAIN box[p] /\ Up
        /\ \A i \in DOMAIN box[p] : 1 <= i
    BY <1>1, <1>10, ProbeTypes DEF IsAnswered, AtHome, InCycle
  <2>2. Holds(link[p], N) => told.next = N
    BY <1>1, <1>2, <2>1, WhatIsSaid DEF Unheard
  <2>3. Holds(link[p], N) => Keeps(answer'[p], N)
    BY <1>3, <1>10, <2>2 DEF IsAnswered, Keeps
  <2>4. reported => Reported(p) \/ ReportHas(p, 1)
    BY <1>10 DEF IsAnswered, Reported, ReportHas
  <2>5. reported => Holds(enr[p], N) /\ Holds(link[p], N) /\ \A i \in DOMAIN box[p] : ReportHas(p, i)
    BY <1>7, <2>1, <2>4
  <2> QED BY <1>7, <2>1, <2>3, <2>5 DEF ReportHas
<1>11. CASE Hears(p)
  <2>1. /\ enr[p] # NoPins /\ InCycle(p) /\ enr'[p] = enr[p] /\ link'[p] = link[p]
        /\ record'[p] = record[p] /\ ack'[p] \in {ack[p], answer[p]} /\ answer'[p] = Nothing
        /\ ~Begins(p)
    BY <1>1, <1>11 DEF Hears, AtHome, InCycle, Begins
  <2> QED BY <1>4, <1>7, <1>8, <2>1 DEF ReportHas, Reported
<1>12. CASE Forgets(p)
  BY <1>2, <1>12 DEF Forgets
<1>13. CASE Rotates(p)
  <2>1. /\ enr[p] # NoPins /\ InCycle(p) /\ box'[p] = box[p] /\ record'[p] = record[p] /\ ~cycling
    BY <1>1, <1>13 DEF Rotates, GoesHome, AtHome, InCycle
  <2>2. Holds(link[p], N) => Rotated(link[p], ack[p]) = link[p]
    BY <1>7, <2>1 DEF Rotated, Keeps
  <2>3. Holds(link[p], N) => enr'[p] = enr[p]
    BY <1>13, <2>2 DEF Rotates
  <2>4. reported <=> Reported(p)
    BY <2>1 DEF Reported
  <2> QED BY <1>7, <2>1, <2>3, <2>4 DEF ReportHas
<1>14. CASE Rests(p)
  <2>1. /\ enr[p] # NoPins /\ enr'[p] = enr[p] /\ record'[p] = record[p] /\ answer'[p] = Nothing
        /\ cycling => InCycle(p) /\ link'[p] = link[p] /\ ack'[p] = ack[p]
    BY <1>2, <1>14 DEF Rests, GoesHome, InCycle
  <2>2. ~Begins(p)
    BY <1>14 DEF Rests, GoesHome, Begins
  <2> QED BY <1>4, <1>7, <1>8, <1>14, <2>1, <2>2 DEF Rests, ReportHas, Reported
<1>15. CASE IsRedeemed(p) \/ IsRevoked(p)
  <2>1. /\ enr[p] # NoPins /\ enr'[p] = enr[p] /\ link'[p] = link[p] /\ box'[p] = box[p]
        /\ record'[p].pins = record[p].pins /\ (cycling => InCycle(p))
        /\ ack'[p] = ack[p] /\ answer'[p] = answer[p]
    BY <1>2, <1>15 DEF IsRedeemed, IsRevoked, InCycle
  <2> QED BY <1>7, <2>1 DEF ReportHas, Reported
<1> QED BY <1>1, <1>5, <1>9, <1>10, <1>11, <1>12, <1>13, <1>14, <1>15 DEF Effects

LEMMA OwnIsReadyNow ==
  ASSUME NEW p \in Probes, Own(p)
  PROVE  IsReadyNow(p)'
<1>1. /\ Typed /\ IsReadyNow(p) /\ AtHome(p) /\ Effects(p) /\ HubInv /\ Spread(p)
      /\ UNCHANGED <<files, announced, switch>> /\ p \notin astray'
  BY DEF Own, ProbeInv
<1>2. SUFFICES ASSUME switch \in ToSwitch, record'[p].state = "active"
               PROVE  Holds(record'[p].pins, files.next)
  BY <1>1 DEF IsReadyNow, Reported, Holds
<1>3. Announcing
  BY <1>1, <1>2 DEF HubInv, Rows, Moved, Announcing, ToSwitch
<1>4. ~IsRedeemed(p)
  BY <1>1, <1>2 DEF IsRedeemed, OutOfTime, Switching, ToSwitch
<1>5. record[p].state = "active" /\ Holds(record[p].pins, files.next)
  BY <1>1, <1>2, <1>4
  DEF Effects, Enrolls, Begins, IsAnswered, Hears, Forgets, Rotates, Rests, IsRevoked, IsReadyNow,
      Reported
<1>6. ASSUME IsAnswered(p) PROVE Holds(box[p][1].pins, files.next)
  <2>1. enr[p] # NoPins /\ 1 \in DOMAIN box[p]
    BY <1>1, <1>6 DEF IsAnswered, AtHome
  <2> QED BY <1>1, <1>3, <1>5, <2>1 DEF Spread, Reported, ReportHas
<1> QED BY <1>1, <1>2, <1>4, <1>5, <1>6
    DEF Effects, Enrolls, Begins, IsAnswered, Hears, Forgets, Rotates, Rests, IsRevoked

LEMMA OwnTurning ==
  ASSUME NEW p \in Probes, Own(p)
  PROVE  Turning(p)'
<1>1. /\ Typed /\ Turning(p) /\ EnrolledInStep(p) /\ AtHome(p) /\ Effects(p) /\ HubInv /\ HubTyped
      /\ Settled(p) /\ Both(p) /\ UNCHANGED <<files, announced, switchAge>>
  BY DEF Own, ProbeInv
<1> DEFINE keyed(i) == box'[p][i].key \in {files.identity, files.prev}
<1>2. SUFFICES ASSUME Moved \/ Recent, record'[p].state = "active", enr'[p] # NoPins
               PROVE  /\ Good(enr'[p])
                      /\ at'[p] \in {"sending", "sent"} =>
                           Good(link'[p]) /\ Turns(link'[p], ack'[p]) /\ Turns(link'[p], answer'[p])
                      /\ \A i \in DOMAIN box'[p] : keyed(i)
  BY <1>1 DEF Turning, Moved, Recent, Good, Turns, Follows, InCycle
<1>a. record[p].state = "active"
  BY <1>2, ActiveBefore
<1>3. \A l : Turns(l, Nothing)
  BY DEF Turns, Follows, Nothing
<1>4. ASSUME record[p].state = "active", enr[p] # NoPins
      PROVE  /\ Good(enr[p])
             /\ InCycle(p) => Good(link[p]) /\ Turns(link[p], ack[p]) /\ Turns(link[p], answer[p])
             /\ \A i \in DOMAIN box[p] : box[p][i].key \in {files.identity, files.prev}
  BY <1>1, <1>2, <1>4 DEF Turning
<1>5. ASSUME record[p].state = "active", enr[p] # NoPins PROVE \A i \in DOMAIN box'[p] : keyed(i)
  <2> SUFFICES ASSUME NEW i \in DOMAIN box'[p] PROVE keyed(i)
    OBVIOUS
  <2>1. enr[p].current \in {files.identity, files.prev}
    BY <1>4, <1>5 DEF Good
  <2> QED BY <1>1, <1>4, <1>5, <2>1, BoxElements
<1>6. CASE Enrolls(p)
  <2>1. Good(enr'[p]) /\ record[p].state = "active"
    BY <1>1, <1>2, <1>6 DEF Enrolls, EnrolledInStep, Good, Pins
  <2>2. CASE enr[p] # NoPins
    BY <1>4, <1>5, <1>6, <2>1, <2>2 DEF Enrolls, InCycle
  <2>3. CASE enr[p] = NoPins
    <3>1. at'[p] = "home" /\ DOMAIN box'[p] = {}
      BY <1>1, <1>6, <2>3 DEF Enrolls, AtHome
    <3> QED BY <2>1, <3>1
  <2> QED BY <2>2, <2>3
<1>7. CASE Begins(p)
  BY <1>1, <1>2, <1>3, <1>4, <1>5, <1>7 DEF Begins, AtHome
<1>8. CASE IsAnswered(p)
  <2>1. /\ enr[p] # NoPins /\ InCycle(p) /\ record[p].state = "active" /\ Up
        /\ enr'[p] = enr[p] /\ link'[p] = link[p] /\ ack'[p] = ack[p]
    BY <1>1, <1>2, <1>8 DEF IsAnswered, AtHome, InCycle
  <2>2. answer'[p].kind = "switched" => answer'[p].key = files.identity
    <3> SUFFICES ASSUME answer'[p].kind = "switched" PROVE told.current = files.identity
      BY <1>8 DEF IsAnswered
    <3>1. told.next = 0 /\ box[p][1].pins.current # told.current /\ 1 \in DOMAIN box[p]
      BY <1>8 DEF IsAnswered
    <3>2. ~Lag
      BY <1>1, <2>1, <3>1, WhatIsSaid DEF Both
    <3> QED BY <1>1, <2>1, <3>2, WhatIsSaid
  <2>3. answer'[p].kind = "announced" /\ link[p].current # files.identity => answer'[p].key = files.identity
    BY <1>1, <1>2, <1>8, <2>1, WhatIsSaid DEF IsAnswered, Settled
  <2>4. Turns(link[p], answer'[p])
    BY <2>2, <2>3 DEF Turns, Follows
  <2> QED BY <1>4, <1>5, <2>1, <2>4
<1>9. CASE Hears(p)
  <2>1. /\ enr[p] # NoPins /\ InCycle(p) /\ record[p].state = "active"
        /\ enr'[p] = enr[p] /\ link'[p] = link[p] /\ ack'[p] \in {ack[p], answer[p]}
        /\ answer'[p] = Nothing
    BY <1>1, <1>2, <1>9 DEF Hears, AtHome, InCycle
  <2> QED BY <1>3, <1>4, <1>5, <2>1
<1>10. CASE Forgets(p)
  BY <1>2, <1>10 DEF Forgets
<1>11. CASE Rotates(p)
  <2>1. /\ enr[p] # NoPins /\ InCycle(p) /\ record[p].state = "active"
        /\ at'[p] \notin {"sending", "sent"}
    BY <1>1, <1>2, <1>11 DEF Rotates, GoesHome, AtHome, InCycle
  <2>2. Good(link[p]) /\ Turns(link[p], ack[p]) /\ Good(enr[p])
    BY <1>4, <2>1
  <2>3. Good(Rotated(link[p], ack[p]))
    BY <2>2 DEF Good, Turns, Follows, Rotated, Holds, Pins
  <2> QED BY <1>5, <1>11, <2>1, <2>2, <2>3 DEF Rotates
<1>12. CASE Rests(p)
  <2>1. /\ enr[p] # NoPins /\ record[p].state = "active"
        /\ enr'[p] = enr[p] /\ answer'[p] = Nothing
        /\ at'[p] \in {"sending", "sent"} =>
             InCycle(p) /\ link'[p] = link[p] /\ ack'[p] = ack[p]
    BY <1>2, <1>12 DEF Rests, GoesHome, InCycle
  <2> QED BY <1>3, <1>4, <1>5, <2>1
<1>13. CASE IsRedeemed(p)
  <2>1. /\ enr[p] # NoPins /\ record[p].state = "active"
        /\ enr'[p] = enr[p] /\ link'[p] = link[p] /\ ack'[p] = ack[p] /\ answer'[p] = answer[p]
        /\ at'[p] = at[p]
    BY <1>2, <1>13, <1>a DEF IsRedeemed
  <2> QED BY <1>4, <1>5, <2>1 DEF InCycle
<1>14. CASE IsRevoked(p)
  BY <1>2, <1>14 DEF IsRevoked
<1> QED BY <1>1, <1>6, <1>7, <1>8, <1>9, <1>10, <1>11, <1>12, <1>13, <1>14 DEF Effects

LEMMA OwnBoth ==
  ASSUME NEW p \in Probes, Own(p)
  PROVE  Both(p)'
<1>1. /\ Typed /\ Both(p) /\ EnrolledInStep(p) /\ AtHome(p) /\ Effects(p) /\ HubInv /\ HubTyped
      /\ UNCHANGED <<files, told, switch, secret>> /\ p \notin astray'
  BY DEF Own, ProbeInv
<1> DEFINE K == files.identity
           both == Pins(files.prev, K)
<1>a. Lag' = Lag
  BY <1>1 DEF Lag
<1>2. SUFFICES ASSUME Lag, record'[p].state = "active", enr'[p] # NoPins
               PROVE  /\ enr'[p] = both
                      /\ at'[p] \in {"sending", "sent"} =>
                           link'[p] = both /\ Keeps(ack'[p], K) /\ Keeps(answer'[p], K)
                      /\ \A i \in DOMAIN box'[p] : box'[p][i].pins.current = files.prev
  BY <1>1, <1>a DEF Both, Keeps, InCycle
<1>3. Keeps(Nothing, K) /\ both.current = files.prev /\ Holds(both, K)
  BY DEF Keeps, Nothing, Pins, Holds
<1>4. ~Enrolls(p) /\ ~IsRedeemed(p)
  <2>1. ~Enrolls(p)
    BY <1>1, <1>2 DEF Enrolls, EnrolledInStep, Lag
  <2>2. ~IsRedeemed(p)
    BY <1>1, <1>2, WhatIsSaid DEF IsRedeemed, OutOfTime
  <2> QED BY <2>1, <2>2
<1>5. record[p].state = "active" /\ enr[p] # NoPins
  BY <1>1, <1>2, <1>4, ActiveBefore
  DEF Effects, Begins, IsAnswered, Hears, Forgets, Rotates, Rests, IsRevoked, AtHome
<1>6. /\ enr[p] = both
      /\ InCycle(p) => link[p] = both /\ Keeps(ack[p], K) /\ Keeps(answer[p], K)
      /\ \A i \in DOMAIN box[p] : box[p][i].pins.current = files.prev
  BY <1>1, <1>2, <1>5 DEF Both
<1>7. ASSUME IsAnswered(p) PROVE Keeps(answer'[p], K)
  <2>1. /\ told.next \in {0, K}
        /\ told.next = 0 => told.current = files.prev
        /\ box[p][1].pins.current = files.prev
    BY <1>1, <1>2, <1>6, <1>7, WhatIsSaid DEF IsAnswered
  <2> QED BY <1>7, <2>1 DEF IsAnswered, Keeps
<1>8. ASSUME Rotates(p) PROVE enr'[p] = enr[p]
  <2>1. Holds(link[p], K) /\ Keeps(ack[p], K)
    BY <1>3, <1>6, <1>8 DEF Rotates, InCycle
  <2>2. Rotated(link[p], ack[p]) = link[p]
    BY <2>1 DEF Rotated, Keeps
  <2> QED BY <1>8, <2>2 DEF Rotates
<1>9. \A i \in DOMAIN box'[p] : box'[p][i].pins.current = files.prev
  BY <1>1, <1>3, <1>6, BoxElements
<1> HIDE DEF both
<1> QED BY <1>1, <1>2, <1>3, <1>4, <1>5, <1>6, <1>7, <1>8, <1>9
    DEF Effects, Begins, IsAnswered, Hears, Forgets, Rotates, Rests, IsRevoked, GoesHome, InCycle, AtHome
-----------------------------------------------------------------------------
(***************************************************************************)
(* The steps of the hub alone.                                             *)
(***************************************************************************)
\* A switch begins with every active probe ready, but those gone astray.
WithAllReady ==
  Announcing /\ \A p \in Active \ astray' : Holds(record[p].pins, files.next)

\* All but the moment in which the next key becomes the hub's leave its key, and
\* whether a switch is recent.
Steady ==
  /\ files'.identity = files.identity /\ secret' \in {secret, files.identity}
  /\ Lag' => Lag /\ files'.prev = files.prev
  /\ (Moved \/ Recent)' <=> (Moved \/ Recent)
  /\ Moved \/ Recent => \/ files'.prev = files.prev
                        \/ switch = "keep" /\ Announcing /\ files'.prev = files.identity
  /\ Still' => Still \/ MakeNextKey
  /\ Underway' => Underway \/ MakeNextKey
  /\ Announcing' => files'.next = files.next /\ (Announcing \/ start = "made")
  /\ switch' \in ToSwitch => files'.next = files.next /\ (switch \in ToSwitch \/ WithAllReady)
  /\ switch' \notin {"idle", "down"} => switch \notin {"idle", "down"} \/ WithAllReady
  /\ Quiet' => (start' = "made" /\ files'.next = keys + 1) \/ (Quiet /\ files'.next = files.next)
Moves ==
  /\ switch = "move" /\ Announcing /\ switch' = "record"
  /\ files'.identity = files.next /\ files'.prev = files.prev /\ files'.next = 0
  /\ UNCHANGED <<announced, secret, switchAge, start, cancel>>

LEMMA HubFacts ==
  ASSUME Calm', Basics, HubInv, HubAlone
  PROVE  keys <= keys' /\ (Steady \/ Moves)
<1>1. /\ Rows /\ HubInStep /\ ToldInStep /\ HubKnows /\ HubTyped /\ Retention \in Nat /\ keys \in Nat
      /\ 0 <= Retention
  BY KeysAssumption DEF HubInv, Basics, Typed, HubTyped
<1>2. CASE MakeNextKey
  <2>1. /\ UNCHANGED <<announced, switchAge, secret, told, switch, cancel>> /\ ~announced
        /\ files'.identity = files.identity /\ files'.prev = files.prev /\ switch # "down"
        /\ files'.next = keys + 1 /\ keys' = keys + 1 /\ start' = "made"
    BY <1>1, <1>2 DEF MakeNextKey, HubTyped, Up
  <2>2. switch = "idle"
    <3>1. ~Switching
      BY <1>2, Zenon DEF MakeNextKey, Calm
    <3> QED BY <2>1, <3>1 DEF Switching
  <2> QED BY <1>1, <1>2, <2>1, <2>2 DEF Steady, Lag, Moved, Recent, Announcing, ToSwitch
<1>3. CASE Announce
  <2>1. /\ UNCHANGED <<files, switchAge, secret, told, switch, cancel, keys>> /\ start = "made"
        /\ announced' = TRUE /\ start' = "announced"
    BY <1>3 DEF Announce, bounds
  <2>2. ~announced /\ files.next # 0 /\ switch = "idle"
    BY <1>1, <1>3 DEF Announce, Rows, Switching, Up
  <2> QED BY <1>1, <2>1, <2>2
      DEF Steady, Lag, Moved, Recent, Announcing, ToSwitch, Still, Underway, Quiet
<1>4. CASE FinishStart
  <2>1. /\ UNCHANGED <<files, announced, switchAge, secret, switch, cancel, keys>>
        /\ start' = "none" /\ start = "announced" /\ told' = Credentials(files, announced, secret)
    BY <1>4 DEF FinishStart, disk, bounds
  <2>2. announced /\ files.next # 0 /\ switch = "idle"
    BY <1>1, <1>4 DEF FinishStart, Rows, Switching, Moved, Up
  <2>3. told'.next = files.next
    BY <1>1, <2>1, <2>2, CredentialsFacts
  <2>4. ~Quiet'
    BY <2>1, <2>3 DEF Quiet, Announcing
  <2>5. Lag' = Lag
    BY <2>1, <2>2 DEF Lag
  <2> QED BY <1>1, <2>1, <2>2, <2>4, <2>5
      DEF Steady, Moved, Recent, Announcing, ToSwitch, Still, Underway
<1>5. CASE Cancel
  <2>1. /\ UNCHANGED <<files, switchAge, secret, told, switch, start, keys>> /\ announced
        /\ announced' = FALSE /\ cancel' = "ended" /\ switch # "down"
    BY <1>5 DEF Cancel, Up
  <2>2. switch = "idle" /\ start = "none"
    <3>1. ~Switching /\ start = "none"
      BY <1>5, Zenon DEF Cancel, Calm
    <3> QED BY <2>1, <3>1 DEF Switching
  <2>3. ~Moved
    BY <1>1, <2>2 DEF Rows
  <2> QED BY <1>1, <2>1, <2>2, <2>3
      DEF Steady, Lag, Moved, Recent, Announcing, ToSwitch, Still, Underway, Quiet
<1>6. CASE RemoveNextKey
  <2>1. /\ UNCHANGED <<announced, switchAge, secret, switch, start, keys>> /\ cancel' = "none"
        /\ cancel = "ended" /\ files'.identity = files.identity /\ files'.prev = files.prev
    BY <1>1, <1>6 DEF RemoveNextKey, HubTyped, bounds
  <2>2. ~announced /\ start = "none" /\ switch = "idle"
    BY <1>1, <1>6 DEF RemoveNextKey, Rows, Switching, Up
  <2> QED BY <1>1, <2>1, <2>2
      DEF Steady, Lag, Moved, Recent, Announcing, ToSwitch, Still, Underway, Quiet
<1>7. CASE SwitchNow \/ CheckSwitches
  <2>1. /\ UNCHANGED <<announced, switchAge, secret, told, start, cancel, keys>>
        /\ switch = "idle" /\ switch' = "keep" /\ announced
        /\ files'.identity = files.identity /\ files'.next = files.next
        /\ files'.prev = files.prev \/ (files'.prev = 0 /\ ~Recent)
    BY <1>1, <1>7, BeginSwitchLeaves
  <2>2. start = "none" /\ Announcing /\ ~Moved
    <3>1. start = "none"
      BY <1>7, Zenon DEF SwitchNow, CheckSwitches, BeginSwitch, Calm
    <3> QED BY <1>1, <2>1, <3>1 DEF Rows, Moved, Announcing
  <2>3. WithAllReady
    <3>1. CASE SwitchNow
      BY <2>2, <3>1 DEF SwitchNow, WithAllReady
    <3>2. CASE CheckSwitches
      <4>1. told.next = files.next
        BY <1>1, <2>1, <2>2 DEF ToldInStep, Up
      <4> QED BY <2>2, <3>2, <4>1 DEF CheckSwitches, AllReady, IsReady, WithAllReady
    <3> QED BY <1>7, <3>1, <3>2
  <2>4. ~Lag
    BY <1>1, <2>1 DEF HubInStep, Lag
  <2> QED BY <1>1, <2>1, <2>2, <2>3, <2>4
      DEF Steady, Lag, Moved, Recent, Announcing, ToSwitch, Still, Underway, Quiet
<1>8. CASE CheckRefreshes \/ CheckReads \/ CheckSets
  <2>1. /\ UNCHANGED <<announced, switchAge, secret, switch, start, cancel, keys>> /\ Up
        /\ files'.identity = files.identity /\ files'.next = files.next
        /\ \/ files'.prev = files.prev
           \/ files'.prev = 0 /\ ~Recent /\ switch \notin {"move", "record"}
        /\ told' = told \/ told' = Credentials(files', announced, secret)
    BY <1>1, <1>8, CheckLeaves
  <2>2. \/ told' = told
        \/ ~Moved /\ told'.current = secret /\ told'.next = IF announced THEN files.next ELSE 0
    BY <1>1, <2>1, CredentialsFacts DEF Moved
  <2>3. Lag' => Lag
    <3>1. CASE told' = told
      BY <2>1, <3>1 DEF Lag
    <3>2. CASE told'.current = secret
      BY <1>1, <2>1, <3>2 DEF Lag, HubInStep
    <3> QED BY <2>2, <3>1, <3>2
  <2>4. Lag => files'.prev = files.prev
    BY <1>1, <2>1 DEF Lag, HubInStep, Up
  <2>5. Quiet' => Quiet
    BY <2>1, <2>2 DEF Quiet, Announcing
  <2>6. Moved \/ Recent => files'.prev = files.prev
    BY <1>1, <2>1 DEF Rows, Up
  <2> QED BY <1>1, <2>1, <2>3, <2>4, <2>5, <2>6
      DEF Steady, Moved, Recent, Announcing, ToSwitch, Still, Underway
<1>9. CASE KeepPrevKey
  <2>1. UNCHANGED <<announced, switchAge, secret, told, start, cancel, keys>> /\ switch = "keep"
    BY <1>9 DEF KeepPrevKey, requests, bounds
  <2>2. Announcing /\ ~Moved /\ start = "none"
    BY <1>1, <2>1 DEF Rows, Switching, Moved, Announcing
  <2>3. /\ switch' = "move" /\ files'.identity = files.identity /\ files'.next = files.next
        /\ files'.prev = files.identity
    BY <1>1, <1>9, <2>2 DEF KeepPrevKey, HubTyped, Announcing
  <2>4. ~Lag
    BY <1>1, <2>1 DEF HubInStep, Lag
  <2> QED BY <1>1, <2>1, <2>2, <2>3, <2>4
      DEF Steady, Lag, Moved, Recent, Announcing, ToSwitch, Still, Underway, Quiet
<1>10. CASE MoveNextKey
  <2>1. /\ UNCHANGED <<announced, switchAge, secret, start, cancel, keys>> /\ switch = "move"
    BY <1>10 DEF MoveNextKey, requests, bounds
  <2>2. Announcing
    BY <1>1, <2>1 DEF Rows, Moved, Announcing
  <2>3. /\ switch' = "record" /\ files'.identity = files.next /\ files'.next = 0
        /\ files'.prev = files.prev
    BY <1>1, <1>10, <2>2 DEF MoveNextKey, HubTyped, Announcing
  <2> QED BY <1>1, <2>1, <2>2, <2>3 DEF Moves
<1>11. CASE RecordSwitch
  <2>1. /\ UNCHANGED <<files, secret, told, start, cancel, keys>> /\ switch = "record"
        /\ switch' = "revoke" /\ announced' = FALSE
        /\ switchAge' = IF announced THEN 0 ELSE switchAge
    BY <1>11 DEF RecordSwitch, EndRotation, requests, bounds
  <2>2. Moved /\ switchAge' = 0 /\ start = "none" /\ cancel = "none"
    BY <1>1, <2>1 DEF Rows, Moved, Switching
  <2> QED BY <1>1, <2>1, <2>2
      DEF Steady, Lag, Moved, Recent, Announcing, ToSwitch, Still, Underway, Quiet
<1>12. CASE RevokeCodes
  <2>1. /\ UNCHANGED <<files, announced, switchAge, told, start, cancel, keys>> /\ switch = "revoke"
        /\ switch' = "refresh" /\ secret' = files.identity
    BY <1>12 DEF RevokeCodes, requests, bounds
  <2>2. Lag' => Lag
    BY <1>1, <2>1 DEF Lag, ToldInStep, Up
  <2> QED BY <1>1, <2>1, <2>2
      DEF Steady, Moved, Recent, Announcing, ToSwitch, Still, Underway, Quiet
<1>13. CASE FinishSwitch
  <2>1. /\ UNCHANGED <<files, announced, switchAge, secret, start, cancel, keys>> /\ switch = "refresh"
        /\ switch' = "idle"
    BY <1>13 DEF FinishSwitch, disk, requests, bounds
  <2>2. ~announced /\ start = "none" /\ secret = files.identity
    BY <1>1, <2>1 DEF Rows, HubInStep, Switching
  <2> QED BY <1>1, <2>1, <2>2
      DEF Steady, Lag, Moved, Recent, Announcing, ToSwitch, Still, Underway, Quiet
<1>14. CASE CrashHub
  <2>1. /\ UNCHANGED <<files, announced, switchAge, secret, told, keys>> /\ switch' = "down"
        /\ start' = "none" /\ cancel' = "none"
    BY <1>14 DEF CrashHub, disk
  <2> QED BY <1>1, <2>1 DEF Steady, Lag, Moved, Recent, Announcing, ToSwitch, Still, Underway, Quiet
<1>15. CASE StartHub
  <2>1. /\ UNCHANGED <<files, start, cancel, keys>> /\ switch' = "idle" /\ switch = "down"
        /\ announced' = (announced /\ ~Moved)
        /\ switchAge' = (IF Moved THEN 0 ELSE switchAge) /\ secret' = files.identity
        /\ told' = Credentials(files, announced', files.identity)
    BY <1>1, <1>15 DEF StartHub, EndRotation, CutShort, Moved, requests, bounds, HubTyped
  <2>2. start = "none" /\ cancel = "none"
    BY <1>1, <2>1 DEF Rows
  <2>3. announced' => told'.next = files.next
    BY <1>1, <2>1, CredentialsFacts DEF Moved
  <2>4. ~Quiet'
    BY <2>1, <2>2, <2>3 DEF Quiet, Announcing
  <2>5. ~Lag'
    BY <2>1 DEF Lag
  <2>6. (Moved \/ Recent)' <=> (Moved \/ Recent)
    BY <1>1, <2>1 DEF Moved, Recent
  <2>7. Still' => Still
    BY <1>1, <2>1, <2>2 DEF Moved, Recent, Still, Underway
  <2>8. Underway' => Underway
    BY <2>1, <2>2 DEF Underway
  <2>9. Announcing' => files'.next = files.next /\ Announcing
    BY <2>1 DEF Announcing
  <2> QED BY <1>1, <2>1, <2>4, <2>5, <2>6, <2>7, <2>8, <2>9 DEF Steady, ToSwitch
<1>16. CASE CreateCode
  <2>1. UNCHANGED <<files, announced, switchAge, secret, told, switch, start, cancel, keys>>
    BY <1>16 DEF CreateCode, requests, bounds
  <2> QED BY <1>1, <2>1 DEF Steady, Lag, Moved, Recent, Announcing, ToSwitch, Still, Underway, Quiet
<1> QED BY <1>2, <1>3, <1>4, <1>5, <1>6, <1>7, <1>8, <1>9, <1>10, <1>11, <1>12, <1>13, <1>14,
           <1>15, <1>16 DEF HubAlone, StartSteps, CheckSteps, SwitchSteps

LEMMA HubProbeInv ==
  ASSUME Calm', Basics, HubInv, HubInv', NEW p \in Probes, ProbeInv(p), p \notin astray', HubAlone
  PROVE  ProbeInv(p)'
<1>1. /\ ProbeInv(p) /\ HubInv /\ HubKnows /\ Typed /\ HubTyped /\ AtHome(p) /\ keys <= keys'
      /\ (Steady \/ Moves) /\ keys \in Nat /\ keys' \in Nat
      /\ UNCHANGED <<record, enr, box, link, at, answer, ack, enrolling>>
  <2>1. Typed'
    BY HubAloneTyped DEF Basics
  <2> QED BY <2>1, HubFacts, HubLeavesProbes DEF Basics, Typed, HubTyped, HubInv, probeVars
<1> USE <1>1
<1>2. Knows(p)'
  <2>1. \A pins \in Pairs : Made(pins) => pins.current <= keys' /\ pins.next <= keys'
    BY KeysAssumption DEF Made, Pairs, Keys
  <2>2. \A k \in Keys : k <= keys => k <= keys'
    BY KeysAssumption DEF Keys
  <2>3. ack[p].key \in Keys /\ answer[p].key \in Keys
    BY ProbeTypes DEF Answers
  <2> QED BY <2>1, <2>2, <2>3, ProbeTypes DEF ProbeInv, Knows, Made
<1>3. EnrolledInStep(p)'
  <2>1. CASE enrolling[p] = 0
    BY <2>1 DEF ProbeInv, EnrolledInStep
  <2>2. CASE enrolling[p] # 0
    <3>1. /\ record[p].state = "active" /\ enrolling[p] = files.identity /\ secret = files.identity
          /\ switch \in {"idle", "down"}
          /\ Underway => record[p].pins = NoPins /\ enr[p] = NoPins
      BY <2>2 DEF ProbeInv, EnrolledInStep
    <3>2. ~MakeNextKey
      <4> SUFFICES ASSUME MakeNextKey PROVE p \in astray'
        OBVIOUS
      <4>1. astray' = astray \cup {q \in Active : Behind(q) \/ enrolling[q] # 0}
        BY DEF MakeNextKey
      <4> QED BY <2>2, <3>1, <4>1 DEF Active
    <3>3. ~WithAllReady
      <4> SUFFICES ASSUME WithAllReady PROVE FALSE
        OBVIOUS
      <4>1. p \in Active \ astray' /\ announced /\ files.next # 0
        BY <3>1 DEF Active, WithAllReady, Announcing
      <4>2. record[p].pins = NoPins /\ Holds(record[p].pins, files.next)
        BY <3>1, <4>1 DEF WithAllReady, Underway
      <4> QED BY <4>1, <4>2 DEF Holds, NoPins, Pins
    <3>4. Steady
      BY <3>1 DEF Moves
    <3>5. /\ files'.identity = files.identity /\ secret' = files.identity
          /\ switch' \in {"idle", "down"} /\ (Underway' => Underway)
      BY <3>1, <3>2, <3>3, <3>4 DEF Steady
    <3> QED BY <3>1, <3>5 DEF ProbeInv, EnrolledInStep
  <2> QED BY <2>1, <2>2
<1>4. CASE Steady
  <2>1. Unheard(p)'
    <3> SUFFICES ASSUME Quiet' PROVE Unheard(p)'
      BY DEF Unheard
    <3>1. CASE files'.next = keys + 1
      <4>1. \A pins \in Pairs : Made(pins) => ~Holds(pins, keys + 1)
        BY KeysAssumption DEF Made, Pairs, Keys, Holds
      <4>2. \A k \in Keys : k <= keys => k # keys + 1
        BY KeysAssumption DEF Keys
      <4>3. ack[p].key \in Keys /\ answer[p].key \in Keys
        BY ProbeTypes DEF Answers
      <4> QED BY <3>1, <4>1, <4>2, <4>3, ProbeTypes DEF ProbeInv, Knows, Unheard, Holds
    <3>2. CASE Quiet /\ files'.next = files.next
      BY <3>2 DEF ProbeInv, Unheard, Holds
    <3> QED BY <1>4, <3>1, <3>2 DEF Steady
  <2>2. Settled(p)'
    <3> SUFFICES ASSUME Still', record[p].state = "active" PROVE Settled(p)'
      BY DEF Settled
    <3>1. files'.identity = files.identity
      BY <1>4 DEF Steady
    <3>2. CASE Still
      BY <3>1, <3>2 DEF ProbeInv, Settled, InCycle, Follows
    <3>3. CASE ~Still /\ MakeNextKey
      <4>1. astray' = astray \cup {q \in Active : Behind(q) \/ enrolling[q] # 0}
        BY <3>3 DEF MakeNextKey
      <4>2. ~Behind(p)
        BY <4>1 DEF Active
      <4>3. CASE enr[p] = NoPins
        BY <4>3 DEF AtHome, Settled, InCycle
      <4>4. CASE enr[p] # NoPins
        <5>1. /\ enr[p].current = files.identity
              /\ InCycle(p) => link[p].current = files.identity
          BY <4>2, <4>4 DEF Behind
        <5>2. InCycle(p) => Follows(ack[p]) /\ Follows(answer[p])
          BY <3>3, <4>4 DEF ProbeInv, Turning, Turns, Still
        <5> QED BY <3>1, <5>1, <5>2 DEF Settled, InCycle, Follows
      <4> QED BY <4>3, <4>4
    <3> QED BY <1>4, <3>2, <3>3 DEF Steady
  <2>3. Spread(p)'
    <3> SUFFICES ASSUME Announcing' PROVE Spread(p)'
      BY DEF Spread
    <3>1. files'.next = files.next /\ files'.identity = files.identity
      BY <1>4 DEF Steady
    <3>2. CASE Announcing
      BY <3>1, <3>2 DEF ProbeInv, Spread, Announcing, Reported, ReportHas, InCycle, Holds, Keeps
    <3>3. CASE start = "made"
      BY <3>1, <3>3 DEF ProbeInv, Unheard, Quiet, Spread, Reported, ReportHas, Holds
    <3> QED BY <1>4, <3>2, <3>3 DEF Steady
  <2>4. IsReadyNow(p)'
    <3> SUFFICES ASSUME switch' \in ToSwitch, record[p].state = "active"
                 PROVE  Holds(record[p].pins, files.next) /\ files'.next = files.next
      BY DEF IsReadyNow, Reported, Holds
    <3>1. CASE switch \in ToSwitch
      BY <1>4, <3>1 DEF Steady, ProbeInv, IsReadyNow, Reported
    <3>2. CASE WithAllReady
      BY <1>4, <3>2 DEF Steady, WithAllReady, Active
    <3> QED BY <1>4, <3>1, <3>2 DEF Steady
  <2>5. Turning(p)'
    <3> SUFFICES ASSUME Moved \/ Recent, record[p].state = "active", enr[p] # NoPins PROVE Turning(p)'
      BY <1>4 DEF Steady, Turning
    <3>1. files'.identity = files.identity
      BY <1>4 DEF Steady
    <3>2. CASE files'.prev = files.prev
      BY <3>1, <3>2 DEF ProbeInv, Turning, Good, Turns, Follows, InCycle
    <3>3. CASE switch = "keep" /\ Announcing /\ files'.prev = files.identity
      <4>1. Still /\ Reported(p)
        BY <3>3 DEF Still, Moved, Announcing, Underway, ProbeInv, IsReadyNow, ToSwitch
      <4>2. /\ enr[p].current = files.identity
            /\ InCycle(p) => link[p].current = files.identity
        BY <4>1 DEF ProbeInv, Settled
      <4>3. \A i \in DOMAIN box[p] : box[p][i].key = files.identity
        BY <3>3, <4>1 DEF ProbeInv, Spread
      <4>4. InCycle(p) => Turns(link[p], ack[p]) /\ Turns(link[p], answer[p])
        BY DEF ProbeInv, Turning
      <4> QED BY <3>1, <4>2, <4>3, <4>4 DEF Turning, Good, Turns, Follows, InCycle
    <3> QED BY <1>4, <3>2, <3>3 DEF Steady
  <2>6. Both(p)'
    <3> SUFFICES ASSUME Lag, files'.identity = files.identity, files'.prev = files.prev PROVE Both(p)'
      BY <1>4 DEF Steady, Both
    <3> QED BY DEF ProbeInv, Both, Keeps, InCycle
  <2> QED BY <1>2, <1>3, <2>1, <2>2, <2>3, <2>4, <2>5, <2>6 DEF ProbeInv
<1>5. CASE Moves
  <2> DEFINE N == files.next
             K == files.identity
  <2>1. /\ Still /\ secret = K /\ files.prev = K /\ Moved' /\ switch \in ToSwitch /\ N # K
        /\ files'.identity = N /\ files'.prev = K /\ files'.next = 0 /\ Announcing /\ secret' = K
        /\ switch' = "record" /\ start = "none" /\ start' = "none"
    BY <1>5 DEF Moves, Announcing, Moved, Still, Underway, ToSwitch, Switching, HubInv, Rows, HubInStep,
       HubKnows
  <2>2. Unheard(p)' /\ Settled(p)' /\ Spread(p)' /\ IsReadyNow(p)'
    BY <2>1 DEF Unheard, Quiet, Settled, Still, Spread, Announcing, IsReadyNow, ToSwitch
  <2>3. SUFFICES ASSUME record[p].state = "active", enr[p] # NoPins PROVE Turning(p)' /\ Both(p)'
    BY <1>2, <1>3, <2>2 DEF ProbeInv, Turning, Both
  <2>4. /\ enr[p].current = K
        /\ InCycle(p) => link[p].current = K
    BY <2>1, <2>3 DEF ProbeInv, Settled
  <2>5. Reported(p)
    BY <2>1, <2>3 DEF ProbeInv, IsReadyNow
  <2>6. /\ Holds(enr[p], N)
        /\ InCycle(p) => Holds(link[p], N) /\ Keeps(ack[p], N) /\ Keeps(answer[p], N)
        /\ \A i \in DOMAIN box[p] : box[p][i].key = K /\ box[p][i].pins.current = K
    BY <2>1, <2>3, <2>5 DEF ProbeInv, Spread
  <2>7. \A pins \in Pairs : pins.current = K /\ Holds(pins, N) => pins = Pins(K, N)
    BY <2>1 DEF Pairs, Pins, Holds
  <2>8. enr[p] = Pins(K, N) /\ (InCycle(p) => link[p] = Pins(K, N))
    BY <2>4, <2>6, <2>7, ProbeTypes
  <2>9. Turning(p)'
    BY <2>1, <2>4, <2>6, <2>8 DEF Turning, Good, Turns, Follows, Keeps, InCycle, Pins
  <2>10. Both(p)'
    BY <2>1, <2>6, <2>8 DEF Both, Keeps, InCycle
  <2> QED BY <2>9, <2>10
<1> QED BY <1>4, <1>5
-----------------------------------------------------------------------------
(***************************************************************************)
(* Time, the other probes, and all of it together.                         *)
(***************************************************************************)
LEMMA OthersProbeInv ==
  ASSUME NEW q \in Probes, HubSame, switchAge' = switchAge, Same(q), ProbeInv(q)
  PROVE  ProbeInv(q)'
<1>1. UNCHANGED <<files, announced, switchAge, secret, told, switch, start, cancel, keys>>
  BY DEF HubSame
<1>2. UNCHANGED <<Quiet, Still, Lag, Underway>>
  BY <1>1 DEF Quiet, Still, Lag, Underway, Announcing, Moved, Recent
<1> USE <1>1, <1>2 DEF Same, ProbeInv
<1>3. Knows(q)' /\ EnrolledInStep(q)' /\ Unheard(q)'
  BY DEF Knows, Made, EnrolledInStep, Unheard, Holds
<1>4. Settled(q)' /\ IsReadyNow(q)'
  BY DEF Settled, InCycle, Follows, IsReadyNow, Reported, Holds
<1>5. Spread(q)'
  BY DEF Spread, Announcing, Reported, ReportHas, InCycle, Holds, Keeps
<1>6. Turning(q)' /\ Both(q)'
  BY DEF Turning, Moved, Recent, Good, Turns, Follows, InCycle, Both, Keeps
<1> QED BY <1>3, <1>4, <1>5, <1>6

\* Whoever isn't behind when the previous key expires has the hub's key.
LEMMA OlderProbeInv ==
  ASSUME Basics, Older, NEW p \in Probes, ProbeInv(p), p \notin astray'
  PROVE  ProbeInv(p)'
<1>1. /\ Typed /\ HubTyped /\ Retention \in Nat /\ at[p] = "home"
      /\ UNCHANGED <<files, announced, secret, told, switch, start, cancel, keys>>
      /\ UNCHANGED <<record, enr, link, at, answer, ack, enrolling>>
      /\ DOMAIN box'[p] = DOMAIN box[p]
      /\ \A i \in DOMAIN box[p] : box'[p][i].key = box[p][i].key /\ box'[p][i].pins = box[p][i].pins
      /\ switchAge' = (IF switchAge <= Retention THEN switchAge + 1 ELSE switchAge)
  BY OlderFacts, KeysAssumption DEF Basics, Typed
<1>2. switchAge \in Nat /\ (Recent' => Recent)
  BY <1>1 DEF HubTyped, Recent, Never
<1>3. ~Recent' /\ Recent /\ record[p].state = "active" => enr[p] = NoPins \/ enr[p].current = files.identity
  <2>1. astray' = astray \cup {q \in Active : switchAge = Retention /\ Behind(q)}
    BY DEF Older
  <2>2. ~Recent' /\ Recent => switchAge = Retention
    BY <1>1, <1>2 DEF Recent
  <2> QED BY <2>1, <2>2 DEF Active, Behind
<1>4. UNCHANGED <<Quiet, Lag, Underway>> /\ Moved' = Moved
  BY <1>1 DEF Quiet, Lag, Underway, Announcing, Moved
<1> USE <1>1 DEF ProbeInv
<1>5. Knows(p)' /\ EnrolledInStep(p)' /\ Unheard(p)'
  BY <1>4 DEF Knows, Made, EnrolledInStep, Unheard, Holds
<1>6. Settled(p)' /\ IsReadyNow(p)'
  BY <1>2, <1>3, <1>4 DEF Settled, Still, InCycle, Follows, IsReadyNow, Reported, Holds
<1>7. Spread(p)'
  BY DEF Spread, Announcing, Reported, ReportHas, InCycle, Holds, Keeps
<1>8. Turning(p)' /\ Both(p)'
  BY <1>2, <1>4 DEF Turning, Good, Turns, Follows, InCycle, Both, Keeps
<1> QED BY <1>5, <1>6, <1>7, <1>8

LEMMA OwnProbeInv ==
  ASSUME Basics, HubInv, NEW p \in Probes, ProbeInv(p), AtProbe(p), p \notin astray'
  PROVE  ProbeInv(p)'
<1>1. Own(p)
  BY EffectsFacts, OnlyItself, OwnBasics DEF Own, HubSame, Basics, Typed
<1> QED BY <1>1, OwnKnows, OwnEnrolledInStep, OwnUnheard, OwnSettled, OwnSpread, OwnIsReadyNow,
           OwnTurning, OwnBoth DEF ProbeInv

LEMMA InitIInv == Init => IInv
<1> SUFFICES ASSUME Init, NEW p \in Probes PROVE ProbeInv(p)
  BY InitBasics, InitHubInv DEF IInv, Strong
<1>3. enr[p] \in {NoPins, Pins(1, 0)} /\ (p \notin Enrolled => enr[p] = NoPins)
  BY DEF Init
<1>4. /\ link[p] = NoPins /\ box[p] = <<>> /\ answer[p] = Nothing /\ ack[p] = Nothing
      /\ enrolling[p] = 0 /\ at[p] = "home" /\ record[p].pins = NoPins
      /\ record[p].state \in {"active", "none"} /\ (record[p].state = "none" => p \notin Enrolled)
  BY DEF Init
<1>5. DOMAIN box[p] = {}
  BY <1>4
<1>6. Knows(p)
  BY <1>3, <1>4, <1>5 DEF Init, Knows, Made, NoPins, Pins, Nothing
<1>7. EnrolledInStep(p) /\ Unheard(p) /\ IsReadyNow(p)
  BY <1>3, <1>4, <1>5 DEF Init, EnrolledInStep, Unheard, Quiet, Announcing, IsReadyNow, ToSwitch, Nothing
<1>8. Settled(p) /\ Turning(p)
  BY <1>3, <1>4, <1>5 DEF Init, Settled, InCycle, Turning, Good, Moved, Recent, NoPins, Pins
<1>9. Spread(p) /\ Both(p)
  BY <1>3, <1>4, <1>5 DEF Init, Spread, Announcing, Both, Lag
<1> QED BY <1>6, <1>7, <1>8, <1>9 DEF ProbeInv

LEMMA StrongInductive ==
  ASSUME Calm', Basics, Strong, [Next]_vars, NEW p \in Probes \ astray'
  PROVE  ProbeInv(p)'
<1>1. HubInv /\ ProbeInv(p) /\ ~crossed'
  BY HistoryGrows DEF Strong, Calm
<1>2. HubInv'
  BY <1>1, RowsInductive, HubInvInductive, HubKnowsInductive DEF HubInv
<1>3. CASE HubAlone
  BY <1>1, <1>2, <1>3, HubProbeInv
<1>4. CASE Older
  BY <1>1, <1>2, <1>4, OlderProbeInv
<1>5. ASSUME NEW q \in Probes, AtProbe(q) PROVE ProbeInv(p)'
  <2>1. CASE q = p
    BY <1>1, <1>5, <2>1, OwnProbeInv
  <2>2. CASE q # p
    <3>1. HubSame /\ switchAge' = switchAge /\ Same(p)
      BY <1>5, <2>2, OnlyItself DEF Basics, HubSame
    <3> QED BY <1>1, <3>1, OthersProbeInv
  <2> QED BY <2>1, <2>2
<1>6. CASE UNCHANGED vars
  <2>1. HubSame /\ switchAge' = switchAge /\ Same(p)
    BY <1>6 DEF vars, hubVars, disk, requests, probeVars, bounds, HubSame, Same
  <2> QED BY <1>1, <2>1, OthersProbeInv
<1> QED BY <1>3, <1>4, <1>5, <1>6 DEF Next, HubAlone, AtProbe

LEMMA IInvInductive == IInv /\ [Next]_vars => IInv'
<1> SUFFICES ASSUME IInv, [Next]_vars, Calm' PROVE HubInv' /\ \A p \in Probes \ astray' : ProbeInv(p)'
  BY BasicsInductive DEF IInv, Strong
<1>1. Basics /\ Strong /\ ~crossed'
  BY HistoryGrows DEF IInv, Calm
<1>2. HubInv'
  BY <1>1, RowsInductive, HubInvInductive, HubKnowsInductive DEF HubInv, Strong
<1> QED BY <1>1, <1>2, StrongInductive

LEMMA IInvAlways == Spec => []IInv
BY InitIInv, IInvInductive, PTL DEF Spec

\* Unless requests crossed or a refresh set what had changed meanwhile, a rotation
\* cuts nobody off but those that went astray: whatever is lost, killed, enrolled
\* or restarted on the way, the hub opens what each of the others seals and it
\* trusts what the hub signs, now and once a switch under way or cut short is
\* finished (service/rotation.rs, switch and recover; enrollment.rs, rotated).
THEOREM NobodyIsCutOff == Spec => []NobodyCutOff
<1>1. IInv => NobodyCutOff
  <2> SUFFICES ASSUME IInv, Calm, NEW p \in Active \ astray, enr[p] # NoPins
               PROVE  /\ enr[p].current \in {files.identity, files.prev}
                      /\ Holds(enr[p], secret) /\ Holds(enr[p], files.identity)
    BY DEF NobodyCutOff
  <2>1. /\ p \in Probes /\ record[p].state = "active" /\ HubInStep
        /\ Settled(p) /\ Turning(p) /\ Both(p)
    BY DEF IInv, Strong, HubInv, ProbeInv, Active
  <2>2. Good(enr[p])
    BY <2>1 DEF Settled, Still, Turning, Good
  <2>3. Holds(enr[p], files.identity)
    BY <2>2 DEF Good, Holds
  <2>4. Holds(enr[p], secret)
    BY <2>1, <2>3 DEF Both, Lag, Pins, Holds, HubInStep
  <2> QED BY <2>2, <2>3, <2>4 DEF Good
<1> QED BY <1>1, IInvAlways, PTL

\* Nor does a report in the black box of one that didn't go astray become
\* unreadable before it expires, if it was sealed before the hub switched: the
\* previous key outlives it, and the next rotation waits for it (service/rotation.rs,
\* prune_prev_key and is_ready; storage.rs, MAX_BUFFERED_REPORT_AGE_SECS).
THEOREM BacklogStaysReadable == Spec => []BacklogReadable
<1>1. IInv => BacklogReadable
  <2> SUFFICES ASSUME IInv, Calm, NEW p \in Active \ astray, NEW i \in DOMAIN box[p],
                      box[p][i].age <= Retention, box[p][i].age >= switchAge
               PROVE  box[p][i].key \in {files.identity, files.prev}
    BY DEF BacklogReadable, Readable
  <2>1. /\ p \in Probes /\ record[p].state = "active" /\ Turning(p) /\ AtHome(p) /\ Typed
    BY DEF IInv, Strong, Basics, ProbeInv, Active
  <2>2. box[p][i].age \in Nat /\ switchAge \in Nat /\ Retention \in Nat
    <3>1. box[p] \in Seq(Reports)
      BY <2>1, ProbeTypes
    <3>2. box[p][i] \in Reports
      BY <3>1
    <3> QED BY <2>1, <3>2, KeysAssumption DEF Reports, Typed, HubTyped, Never
  <2>3. Recent
    BY <2>2 DEF Recent
  <2>4. enr[p] # NoPins
    BY <2>1 DEF AtHome
  <2> QED BY <2>1, <2>3, <2>4 DEF Turning
<1> QED BY <1>1, IInvAlways, PTL
===============================================================================
