-------------------------- MODULE ReportDelivery_proofs --------------------------
(***************************************************************************)
(* Proofs about ReportDelivery, for every number of reports, every buffer  *)
(* size and batch, and any number of requests under way at once.           *)
(***************************************************************************)
EXTENDS ReportDelivery, FiniteSetTheorems, TLAPS

(***************************************************************************)
(* The inductive invariant, in parts.                                      *)
(***************************************************************************)

\* Where the probe's reports are, by where its loop is.
Placement ==
  /\ pc \in {"built", "direct"} => current = made /\ current \in Reports
  /\ pc \notin {"built", "direct"} => current = NoReport
  /\ batch \subseteq blackbox
  /\ pc # "flush" => batch = {}
  /\ pc = "direct" => blackbox = {}
  /\ \A n \in batch, m \in blackbox \ batch : n < m

\* Only numbers of reports made are used.
Numbering ==
  /\ \A n \in Reports : fate[n] = "unmade" <=> n > made
  /\ stored \subseteq 1..made
  /\ \A c \in Calls : calls[c] # Free => calls[c].rep <= made

\* The request waited for carries the report whose turn it is; an answer is
\* kept only for it.
Waiting ==
  /\ awaited \in Calls => calls[awaited] # Free /\ NextToDeliver(calls[awaited].rep)
  /\ \A c \in Calls : calls[c].stage \in Answers => c = awaited

\* What the hub saved, it has.
Saved ==
  /\ followed \subseteq stored
  /\ \A c \in Calls : calls[c].stage = "stored" => calls[c].rep \in stored

Structure == TypeOK /\ Placement /\ Numbering /\ Waiting /\ EachAccountedFor

\* With a clock that only moves forward, timestamps order reports as numbers
\* do, and an answer that a report isn't newer means the hub has that report.
Clocked ==
  /\ \A n, m \in 1..made : n < m => stamp[n] < stamp[m]
  /\ \A c \in Calls : calls[c].stage = "not_newer" => calls[c].rep \in stored

IInv ==
  Structure /\ OldestFirst /\ Saved /\ FollowedUpOnce /\ Clocked /\ DeliveredIsStored
-----------------------------------------------------------------------------
(***************************************************************************)
(* Structure is inductive.                                                 *)
(***************************************************************************)

LEMMA StructureInit == Init => Structure
<1> USE BoundsAssumption, ClockAssumption, CallsAssumption
<1>1. Init => TypeOK
  BY DEF Init, TypeOK, CallRecord, Free, Fates, Places, Reports, NoReport
<1>2. Init => Placement /\ Numbering /\ Waiting
  BY DEF Init, Placement, Numbering, Waiting, Free, Answers, Reports, NoReport
<1>3. Init => EachAccountedFor
  BY DEF Init, EachAccountedFor, Held, Reports, NoReport
<1>4. QED
  BY <1>1, <1>2, <1>3 DEF Structure

\* What any step of the hub, or the loss of a request, does to the rest.
LEMMA HubEffect ==
  ASSUME TypeOK, NEW c \in Calls, HubStep(c) \/ Lose(c)
  PROVE  /\ calls[c] # Free
         /\ UNCHANGED <<reportVars, probeVars, awaited>>
         /\ \/ awaited # c /\ calls' = [calls EXCEPT ![c] = Free]
            \/ \E s \in Working \union Answers :
                 /\ s \in Answers => awaited = c
                 /\ calls' = [calls EXCEPT ![c] = [stage |-> s, rep |-> calls[c].rep]]
         /\ active' = active
         /\ stored \subseteq stored'
         /\ stored' \subseteq stored \union {calls[c].rep}
         /\ followed' \subseteq followed \union {calls[c].rep}
<1> DEFINE Effect == \/ awaited # c /\ calls' = [calls EXCEPT ![c] = Free]
                     \/ \E s \in Working \union Answers :
                          /\ s \in Answers => awaited = c
                          /\ calls' = [calls EXCEPT ![c] = [stage |-> s, rep |-> calls[c].rep]]
<1>0. ASSUME NEW a \in Answers, Answer(c, a) PROVE Effect
  BY <1>0 DEF Answer, Proceed

<1> USE DEF TypeOK, CallRecord, Free, Working, Answers, Reports, NoReport, reportVars, probeVars, hubVars
<1>1. CASE Refuse(c)
  BY <1>0, <1>1 DEF Refuse
<1>2. CASE CheckRecord(c)
  <2>1. CASE active
    BY <1>2, <2>1 DEF CheckRecord, Proceed, Effect
  <2>2. CASE ~active
    BY <1>0, <1>2, <2>2 DEF CheckRecord
  <2>3. QED
    BY <2>1, <2>2
<1>3. CASE SaveReport(c)
  <2>1. CASE Answer(c, "not_newer") /\ UNCHANGED stored
    BY <1>0, <1>3, <2>1 DEF SaveReport
  <2>2. CASE stored' = stored \union {calls[c].rep} /\ Proceed(c, "saved")
    BY <1>3, <2>2 DEF SaveReport, Proceed
  <2>3. QED
    BY <1>3, <2>1, <2>2 DEF SaveReport
<1>4. CASE FollowUp(c)
  BY <1>0, <1>4 DEF FollowUp
<1>5. CASE Fail(c)
  BY <1>0, <1>5 DEF Fail
<1>6. CASE Lose(c)
  BY <1>0, <1>6 DEF Lose
<1>7. QED
  BY <1>1, <1>2, <1>3, <1>4, <1>5, <1>6 DEF HubStep, Effect

LEMMA StructureNext == Structure /\ [Next]_vars => Structure'
<1> SUFFICES ASSUME Structure, [Next]_vars PROVE Structure'
  OBVIOUS
<1> USE BoundsAssumption, ClockAssumption, CallsAssumption
    DEF Structure, TypeOK, CallRecord, Free, Working, Answers, Fates, Places, Reports,
        NoReport, Placement, Numbering, Waiting, EachAccountedFor, Held, NextToDeliver
<1>1. CASE BuildReport
  BY <1>1 DEF BuildReport, netVars, hubVars
<1>2. CASE Submit
  <2> PICK kept \in Prunings :
        /\ fate' = [n \in Reports |-> IF n \in blackbox \ kept THEN "pruned" ELSE fate[n]]
        /\ \/ /\ kept = {}
              /\ pc' = "direct"
              /\ blackbox' = kept
              /\ UNCHANGED <<batch, current>>
           \/ /\ kept # {}
              /\ pc' = "flush"
              /\ blackbox' = kept \union {current}
              /\ batch' \in Oldest(kept \union {current})
              /\ current' = NoReport
    BY <1>2 DEF Submit, NoBacklog
  <2>1. kept \subseteq blackbox /\ awaited \notin Calls /\ pc = "built"
    BY <1>2 DEF Submit, Prunings
  <2>2. UNCHANGED <<made, stamp, enrolled, netVars, hubVars>>
    BY <1>2 DEF Submit
  <2>3. batch' \subseteq blackbox' /\ \A n \in batch', m \in blackbox' \ batch' : n < m
    BY <2>1 DEF Oldest
  <2>4. current \in Reports /\ current \notin blackbox /\ batch = {}
    BY <2>1
  <2>5. TypeOK'
    <3>1. blackbox' \subseteq Reports /\ batch' \subseteq Reports
      BY <2>1, <2>3, <2>4
    <3>2. fate' \in [Reports -> Fates] /\ pc' \in Places /\ current' \in Reports \union {NoReport}
      BY <2>4
    <3>3. QED
      BY <2>2, <3>1, <3>2 DEF netVars, hubVars
  <2>6. Placement' /\ Numbering' /\ Waiting'
    BY <2>1, <2>2, <2>3 DEF netVars, hubVars
  <2>7. EachAccountedFor'
    <3>1. Held' = (Held \ (blackbox \ kept))
      BY <2>1
    <3>2. Held = blackbox \union {current}
      BY <2>4
    <3>3. Held' = kept \union {current}
      BY <2>1, <2>4, <3>1, <3>2
    <3>4. CASE kept = {}
      BY <2>1, <2>4, <3>3, <3>4
    <3>5. CASE kept # {}
      <4>1. blackbox' = kept \union {current} /\ current' = NoReport
        BY <3>5
      <4>2. NoReport \notin kept \union {current}
        BY <2>1, <2>4
      <4>3. QED
        BY <3>3, <4>1, <4>2
    <3>6. QED
      BY <3>4, <3>5
  <2>8. QED
    BY <2>5, <2>6, <2>7
<1>3. CASE ClearQueue
  BY <1>3 DEF ClearQueue, netVars, hubVars
<1>4. CASE SetAside
  BY <1>4 DEF SetAside, reportVars, netVars, hubVars
<1>5. CASE Resume
  BY <1>5 DEF Resume, reportVars, netVars, hubVars
<1>6. CASE Restart
  BY <1>6 DEF Restart, reportVars, netVars, hubVars
<1>7. CASE Crash
  <2>1. /\ \A c \in Calls : calls'[c] \in {calls[c], Free}
        /\ \A c \in Calls : calls'[c].stage \notin Answers
        /\ calls' \in [Calls -> CallRecord]
        /\ awaited' = NoCall
    <3>1. CASE awaited \in Calls
      <4>1. /\ calls' = [calls EXCEPT ![awaited] = IF @.stage \in Working THEN @ ELSE Free]
            /\ awaited' = NoCall
        BY <1>7, <3>1 DEF Crash, StopWaiting
      <4>2. \A c \in Calls : calls'[c] = calls[c] \/ c = awaited
        BY <3>1, <4>1
      <4>3. calls'[awaited] = IF calls[awaited].stage \in Working THEN calls[awaited] ELSE Free
        BY <3>1, <4>1
      <4>4. QED
        BY <3>1, <4>1, <4>2, <4>3
    <3>2. CASE awaited \notin Calls
      BY <1>7, <3>2 DEF Crash, netVars
    <3>3. QED
      BY <3>1, <3>2
  <2>2. TypeOK'
    BY <1>7, <2>1 DEF Crash, hubVars
  <2>3. Placement' /\ Numbering' /\ Waiting'
    BY <1>7, <2>1 DEF Crash, hubVars
  <2>4. EachAccountedFor'
    BY <1>7 DEF Crash
  <2>5. QED
    BY <2>2, <2>3, <2>4
<1>8. CASE RevokeProbe
  BY <1>8 DEF RevokeProbe, reportVars, probeVars, netVars
<1>9. CASE EnrollAgain
  BY <1>9 DEF EnrollAgain, reportVars, netVars
<1>10. ASSUME NEW c \in Calls, Deliver(c) PROVE Structure'
  BY <1>10 DEF Deliver, reportVars, probeVars, hubVars
<1>11. ASSUME NEW c \in Calls, Delivered(c) \/ Rejected(c) PROVE Structure'
  <2> DEFINE n == calls[c].rep
  <2>1. /\ awaited = c /\ awaited' = NoCall /\ NextToDeliver(n) /\ n \in Reports
        /\ calls' = [calls EXCEPT ![c] = Free]
    BY <1>11 DEF Delivered, Rejected, Heard, Accepted
  <2>2. /\ \E why \in {"delivered", "rejected"} : fate' = [fate EXCEPT ![n] = why]
        /\ blackbox' = blackbox \ {n}
        /\ current' = NoReport
        /\ batch' = batch \ {n}
        /\ pc' = IF batch' = {} THEN "idle" ELSE "flush"
        /\ UNCHANGED <<made, stamp, enrolled, hubVars>>
    BY <1>11 DEF Delivered, Rejected, LetGo
  <2> HIDE DEF n
  <2>3. TypeOK'
    BY <2>1, <2>2 DEF hubVars
  <2>4. Placement' /\ Waiting'
    BY <2>1, <2>2 DEF hubVars
  <2>5. fate[n] = "held"
    BY <2>1
  <2>6. Numbering' /\ EachAccountedFor'
    BY <2>1, <2>2, <2>5 DEF hubVars
  <2>7. QED
    BY <2>3, <2>4, <2>6
<1>12. ASSUME NEW c \in Calls, Revoked(c) PROVE Structure'
  BY <1>12 DEF Revoked, Heard, LetGo, hubVars
<1>13. ASSUME NEW c \in Calls, Retry(c) PROVE Structure'
  BY <1>13 DEF Retry, Written, StopWaiting, reportVars, hubVars
<1>14. ASSUME NEW c \in Calls, HubStep(c) \/ Lose(c) PROVE Structure'
  <2>1. /\ UNCHANGED <<reportVars, probeVars, awaited, active>>
        /\ \/ awaited # c /\ calls' = [calls EXCEPT ![c] = Free]
           \/ \E s \in Working \union Answers :
                /\ s \in Answers => awaited = c
                /\ calls' = [calls EXCEPT ![c] = [stage |-> s, rep |-> calls[c].rep]]
        /\ calls[c] # Free /\ calls[c].rep \in 1..made
        /\ stored' \subseteq stored \union {calls[c].rep}
        /\ followed' \subseteq followed \union {calls[c].rep}
    BY <1>14, HubEffect
  <2>2. TypeOK' /\ Numbering'
    <3>1. CASE calls' = [calls EXCEPT ![c] = Free]
      BY <2>1, <3>1 DEF reportVars, probeVars
    <3>2. ASSUME NEW s \in Working \union Answers,
                 calls' = [calls EXCEPT ![c] = [stage |-> s, rep |-> calls[c].rep]]
          PROVE  TypeOK' /\ Numbering'
      <4>1. calls' \in [Calls -> CallRecord]
        BY <2>1, <3>2
      <4>2. QED
        BY <2>1, <3>2, <4>1 DEF reportVars, probeVars
    <3>3. QED
      BY <2>1, <3>1, <3>2
  <2>3. Placement' /\ EachAccountedFor'
    BY <2>1 DEF reportVars, probeVars
  <2>4. Waiting'
    <3>1. CASE awaited # c /\ calls' = [calls EXCEPT ![c] = Free]
      BY <2>1, <3>1 DEF probeVars
    <3>2. ASSUME NEW s \in Working \union Answers, s \in Answers => awaited = c,
                 calls' = [calls EXCEPT ![c] = [stage |-> s, rep |-> calls[c].rep]]
          PROVE  Waiting'
      BY <2>1, <3>2 DEF probeVars
    <3>3. QED
      BY <2>1, <3>1, <3>2
  <2>5. QED
    BY <2>2, <2>3, <2>4
<1>15. CASE UNCHANGED vars
  BY <1>15 DEF vars, reportVars, probeVars, netVars, hubVars
<1>16. QED
  BY <1>1, <1>2, <1>3, <1>4, <1>5, <1>6, <1>7, <1>8, <1>9, <1>10, <1>11, <1>12, <1>13,
     <1>14, <1>15 DEF Next, Hear

\* TypeOK always holds.
THEOREM TypeCorrect == Spec => []TypeOK
<1>1. Structure => TypeOK
  BY DEF Structure
<1>2. QED
  BY <1>1, StructureInit, StructureNext, PTL DEF Spec

\* EachAccountedFor: a report still to be delivered is on disk or in memory for
\* its own cycle, never both, and no other is kept (Outbox, BlackBox).
THEOREM Accounting == Spec => []EachAccountedFor
<1>1. Structure => EachAccountedFor
  BY DEF Structure
<1>2. QED
  BY <1>1, StructureInit, StructureNext, PTL DEF Spec
-----------------------------------------------------------------------------
(***************************************************************************)
(* Order: the requests under way and the hub's database never get ahead of *)
(* the reports still held.                                                 *)
(***************************************************************************)

\* What a step of the probe other than a delivery leaves of the requests.
LEMMA ProbeEffect ==
  ASSUME Structure, [Next]_vars
  PROVE  \/ \E c \in Calls : HubStep(c) \/ Lose(c) \/ Deliver(c)
         \/ /\ \A c \in Calls : calls'[c] \in {calls[c], Free}
            /\ UNCHANGED <<stored, followed>>
<1> USE DEF Structure, TypeOK
<1>1. CASE BuildReport \/ Submit \/ ClearQueue \/ SetAside \/ Resume \/ Restart
  BY <1>1 DEF BuildReport, Submit, ClearQueue, SetAside, Resume, Restart, netVars, hubVars
<1>2. CASE RevokeProbe \/ EnrollAgain \/ UNCHANGED vars
  BY <1>2 DEF RevokeProbe, EnrollAgain, vars, netVars, hubVars
<1>3. CASE Crash
  BY <1>3 DEF Crash, StopWaiting, netVars, hubVars
<1>4. ASSUME NEW c \in Calls, Hear(c)
      PROVE  /\ \A d \in Calls : calls'[d] \in {calls[d], Free}
             /\ UNCHANGED <<stored, followed>>
  BY <1>4 DEF Hear, Delivered, Rejected, Revoked, Retry, Heard, StopWaiting, hubVars
<1>5. QED
  BY <1>1, <1>2, <1>3, <1>4 DEF Next

\* Only a new cycle adds to what is held.
LEMMA HeldEffect ==
  ASSUME Structure, [Next]_vars
  PROVE  BuildReport \/ Held' \subseteq Held
<1> USE DEF Structure, TypeOK, Held
<1>1. CASE Submit \/ ClearQueue \/ Crash
  BY <1>1 DEF Submit, ClearQueue, Crash
<1>2. CASE SetAside \/ Resume \/ Restart \/ RevokeProbe \/ EnrollAgain \/ UNCHANGED vars
  BY <1>2 DEF SetAside, Resume, Restart, RevokeProbe, EnrollAgain, vars, reportVars
<1>3. ASSUME NEW c \in Calls, Delivered(c) \/ Rejected(c) \/ Revoked(c)
      PROVE  Held' \subseteq Held
  BY <1>3 DEF Delivered, Rejected, Revoked, LetGo
<1>4. ASSUME NEW c \in Calls, Deliver(c) \/ Retry(c) PROVE Held' \subseteq Held
  BY <1>4 DEF Deliver, Retry, reportVars
<1>5. ASSUME NEW c \in Calls, HubStep(c) \/ Lose(c) PROVE Held' \subseteq Held
  BY <1>5, HubEffect DEF reportVars
<1>6. QED
  BY <1>1, <1>2, <1>3, <1>4, <1>5 DEF Next, Hear

\* What is delivered next is the oldest report held.
LEMMA NextIsOldest ==
  ASSUME Structure, NEW n \in Reports, NextToDeliver(n)
  PROVE  n \in Held /\ \A m \in Held : n <= m
<1> USE DEF Structure, TypeOK, Placement, EachAccountedFor, NextToDeliver, Reports, NoReport
<1>1. CASE pc = "direct"
  BY <1>1
<1>2. CASE pc = "flush"
  <2>1. Held = blackbox /\ n \in batch
    BY <1>2
  <2>2. ASSUME NEW m \in blackbox PROVE n <= m
    BY <1>2, <2>1, <2>2
  <2>3. QED
    BY <2>1, <2>2
<1>3. QED
  BY <1>1, <1>2

LEMMA OrderNext == Structure /\ Structure' /\ OldestFirst /\ [Next]_vars => OldestFirst'
<1> SUFFICES ASSUME Structure, Structure', OldestFirst, [Next]_vars PROVE OldestFirst'
  OBVIOUS
<1> DEFINE Ahead == stored \union Reps
<1>1. Held \subseteq Nat /\ Ahead \subseteq 1..made /\ made \in Nat
  <2> USE BoundsAssumption DEF Structure, TypeOK, Numbering
  <2>1. Held \subseteq Nat /\ stored \subseteq 1..made /\ made \in Nat
    BY DEF Held, Reports
  <2>2. ASSUME NEW d \in Calls, calls[d] # Free PROVE calls[d].rep \in 1..made
    <3>1. calls[d].rep \in Reports /\ calls[d].rep <= made
      BY <2>2 DEF CallRecord
    <3>2. QED
      BY <2>1, <3>1 DEF Reports
  <2>3. QED
    BY <2>1, <2>2 DEF Reps
<1>2. CASE Held' \subseteq Held /\ Ahead' \subseteq Ahead
  BY <1>2 DEF OldestFirst
<1>3. CASE BuildReport
  <2>1. Ahead' = Ahead
    BY <1>3 DEF BuildReport, netVars, hubVars, Reps
  <2>2. Held' \subseteq Held \union {made + 1}
    BY <1>3 DEF BuildReport, Held, Structure, TypeOK
  <2>3. QED
    BY <1>1, <2>1, <2>2 DEF OldestFirst
<1>4. ASSUME NEW c \in Calls, Deliver(c) PROVE OldestFirst'
  <2> PICK n \in Reports :
        NextToDeliver(n) /\ calls' = [calls EXCEPT ![c] = [stage |-> "sent", rep |-> n]]
    BY <1>4 DEF Deliver
  <2>1. stored' = stored /\ fate' = fate
    BY <1>4 DEF Deliver, reportVars, hubVars
  <2>2. Reps' \subseteq Reps \union {n}
    BY <1>4 DEF Deliver, Reps, Structure, TypeOK
  <2>3. Held' = Held
    BY <2>1 DEF Held
  <2>4. QED
    BY <2>1, <2>2, <2>3, NextIsOldest DEF OldestFirst
<1>5. ASSUME NEW c \in Calls, HubStep(c) \/ Lose(c)
      PROVE  Held' \subseteq Held /\ Ahead' \subseteq Ahead
  <2>1. TypeOK /\ Held' = Held
    BY <1>5, HubEffect DEF Structure, Held, reportVars
  <2>2. calls[c].rep \in Reps
    BY <1>5, HubEffect, <2>1 DEF Reps
  <2>3. \A d \in Calls : calls'[d] = Free \/ (calls'[d].rep = calls[d].rep /\ calls[d] # Free)
    <3>1. DOMAIN calls = Calls /\ calls[c] # Free
      BY <1>5, HubEffect, <2>1 DEF TypeOK
    <3>2. \A d \in Calls \ {c} : calls'[d] = calls[d]
      BY <1>5, HubEffect, <2>1, <3>1
    <3>3. calls'[c] = Free \/ calls'[c].rep = calls[c].rep
      BY <1>5, HubEffect, <2>1, <3>1
    <3>4. QED
      BY <3>1, <3>2, <3>3
  <2>4. Reps' \subseteq Reps
    BY <2>3 DEF Reps
  <2>5. QED
    BY <1>5, HubEffect, <2>1, <2>2, <2>4
<1>6. CASE /\ \A c \in Calls : calls'[c] \in {calls[c], Free}
           /\ UNCHANGED <<stored, followed>>
  <2>1. Ahead' \subseteq Ahead
    BY <1>6 DEF Reps
  <2>2. QED
    BY <1>2, <1>3, <2>1, HeldEffect
<1>7. QED
  BY <1>2, <1>4, <1>5, <1>6, ProbeEffect

\* OldestFirst: a new report never jumps ahead of the backlog (Outbox::submit),
\* whatever timed out, crashed or arrived late.
THEOREM Ordering == Spec => []OldestFirst
<1>1. Init => OldestFirst
  BY DEF Init, OldestFirst, Held
<1>2. QED
  BY <1>1, StructureInit, StructureNext, OrderNext, PTL DEF Spec
-----------------------------------------------------------------------------
(***************************************************************************)
(* What the hub keeps, and how often it acts on it.                        *)
(***************************************************************************)

\* A step of one request leaves the others alone.
LEMMA OtherCalls ==
  ASSUME TypeOK, NEW c \in Calls, HubStep(c) \/ Lose(c), NEW d \in Calls \ {c}
  PROVE  calls'[d] = calls[d]
<1>1. DOMAIN calls = Calls
  BY DEF TypeOK
<1>2. QED
  BY <1>1, HubEffect

\* save_report's two outcomes.
LEMMA SaveEffect ==
  ASSUME TypeOK, NEW c \in Calls, SaveReport(c)
  PROVE  \/ /\ \A n \in stored : stamp[n] < stamp[calls[c].rep]
            /\ stored' = stored \union {calls[c].rep}
            /\ Proceed(c, "saved")
         \/ /\ \E n \in stored : stamp[n] >= stamp[calls[c].rep]
            /\ Answer(c, "not_newer")
            /\ stored' = stored
<1>1. calls[c].rep \in Reports
  BY DEF SaveReport, TypeOK, CallRecord, Free
<1>2. \A n \in stored : stamp[n] \in Nat /\ stamp[calls[c].rep] \in Nat
  BY <1>1 DEF TypeOK
<1>3. ~NotNewer(calls[c].rep) => \A n \in stored : stamp[n] < stamp[calls[c].rep]
  BY <1>2 DEF NotNewer
<1>4. QED
  BY <1>3 DEF SaveReport, NotNewer

LEMMA SavedNext ==
  ASSUME Structure, Saved, FollowedUpOnce, [Next]_vars
  PROVE  Saved' /\ FollowedUpOnce'
<1> USE DEF Saved, FollowedUpOnce, Structure, TypeOK
<1>1. CASE /\ \A c \in Calls : calls'[c] \in {calls[c], Free}
           /\ UNCHANGED <<stored, followed>>
  BY <1>1 DEF Free
<1>2. ASSUME NEW c \in Calls, Deliver(c) PROVE Saved' /\ FollowedUpOnce'
  <2>1. UNCHANGED <<stored, followed>>
    BY <1>2 DEF Deliver, hubVars
  <2>2. calls'[c].stage = "sent" /\ \A d \in Calls \ {c} : calls'[d] = calls[d]
    BY <1>2 DEF Deliver
  <2>3. QED
    BY <2>1, <2>2
<1>3. ASSUME NEW c \in Calls, HubStep(c) \/ Lose(c) PROVE Saved' /\ FollowedUpOnce'
  <2> DEFINE rep == calls[c].rep
  <2>0. DOMAIN calls = Calls /\ \A d \in Calls \ {c} : calls'[d] = calls[d]
    BY <1>3, OtherCalls
  <2>1. CASE Refuse(c) \/ Fail(c) \/ Lose(c) \/ CheckRecord(c)
    <3>1. UNCHANGED <<stored, followed>>
      BY <2>1 DEF Refuse, Fail, Lose, CheckRecord, hubVars
    <3>2. calls'[c].stage \notin {"stored", "saved"}
      BY <2>0, <2>1 DEF Refuse, Fail, Lose, CheckRecord, Answer, Proceed, Free
    <3>3. QED
      BY <2>0, <3>1, <3>2
  <2>2. CASE SaveReport(c)
    <3>1. followed' = followed
      BY <2>2 DEF SaveReport
    <3>2. CASE /\ \A n \in stored : stamp[n] < stamp[rep]
               /\ stored' = stored \union {rep}
               /\ Proceed(c, "saved")
      <4>1. rep \in Reports /\ stamp[rep] \in Nat
        BY <1>3, HubEffect DEF CallRecord
      <4>2. rep \notin stored
        BY <3>2, <4>1
      <4>3. calls'[c] = [stage |-> "saved", rep |-> rep]
        BY <2>0, <3>2 DEF Proceed
      <4>4. QED
        BY <2>0, <3>1, <3>2, <4>2, <4>3
    <3>3. CASE Answer(c, "not_newer") /\ UNCHANGED stored
      <4>1. calls'[c].stage \notin {"stored", "saved"}
        BY <2>0, <3>3 DEF Answer, Proceed, Free
      <4>2. QED
        BY <2>0, <3>1, <3>3, <4>1
    <3>4. QED
      BY <2>2, <3>2, <3>3, SaveEffect
  <2>3. CASE FollowUp(c)
    <3>1. /\ calls[c].stage = "saved" /\ rep \in stored
          /\ followed' = followed \union {rep} /\ stored' = stored
      BY <2>3 DEF FollowUp
    <3>2. calls'[c] \in {Free, [stage |-> "stored", rep |-> rep]}
      BY <2>0, <2>3 DEF FollowUp, Answer, Proceed
    <3>3. QED
      BY <2>0, <3>1, <3>2 DEF Free
  <2>4. QED
    BY <1>3, <2>1, <2>2, <2>3 DEF HubStep
<1>4. QED
  BY <1>1, <1>2, <1>3, ProbeEffect

\* FollowedUpOnce: however often a report is sent, the hub records its
\* follow-ups once (save_report's newer-only insert).
THEOREM OnceOnly == Spec => []FollowedUpOnce
<1>1. Init => Saved /\ FollowedUpOnce
  BY DEF Init, Saved, FollowedUpOnce, Free
<1>2. Structure /\ Saved /\ FollowedUpOnce /\ [Next]_vars => Saved' /\ FollowedUpOnce'
  BY SavedNext
<1>3. QED
  BY <1>1, <1>2, StructureInit, StructureNext, PTL DEF Spec
-----------------------------------------------------------------------------
(***************************************************************************)
(* With a clock that only moves forward: delivered means stored.           *)
(***************************************************************************)

LEMMA StampsNext ==
  ASSUME Structure, [Next]_vars, ~ClockStepsBack,
         \A n, m \in 1..made : n < m => stamp[n] < stamp[m]
  PROVE  (\A n, m \in 1..made : n < m => stamp[n] < stamp[m])'
<1> USE BoundsAssumption, ClockAssumption DEF Structure, TypeOK, Reports
<1>1. CASE BuildReport
  <2> PICK t \in Times :
        /\ \A n \in 1..made : stamp[n] < t
        /\ stamp' = [stamp EXCEPT ![made + 1] = t]
    BY <1>1 DEF BuildReport
  <2>1. made' = made + 1 /\ made + 1 \in Reports
    BY <1>1 DEF BuildReport
  <2>2. stamp'[made + 1] = t /\ \A n \in 1..made : stamp'[n] = stamp[n]
    BY <2>1
  <2>3. QED
    BY <2>1, <2>2
<1>2. CASE UNCHANGED <<made, stamp>>
  BY <1>2
<1>3. ASSUME NEW c \in Calls, HubStep(c) \/ Lose(c) PROVE UNCHANGED <<made, stamp>>
  BY <1>3, HubEffect DEF reportVars
<1>4. QED
  BY <1>1, <1>2, <1>3 DEF Next, Submit, ClearQueue, SetAside, Resume, Crash, Restart,
     RevokeProbe, EnrollAgain, Deliver, Hear, Delivered, Rejected, Revoked, Retry,
     reportVars, vars

\* Only an answer that the hub has a report makes it delivered.
LEMMA DeliveredEffect ==
  ASSUME Structure, [Next]_vars, NEW n \in Reports, fate'[n] = "delivered"
  PROVE  \/ fate[n] = "delivered"
         \/ \E c \in Calls : calls[c].stage \in {"stored", "not_newer"} /\ calls[c].rep = n
<1> USE DEF Structure, TypeOK, Reports
<1>1. CASE BuildReport \/ Submit \/ ClearQueue \/ Crash
  BY <1>1 DEF BuildReport, Submit, ClearQueue, Crash
<1>2. ASSUME NEW c \in Calls, Delivered(c) \/ Rejected(c) \/ Revoked(c)
      PROVE  \/ fate[n] = "delivered"
             \/ calls[c].stage \in {"stored", "not_newer"} /\ calls[c].rep = n
  BY <1>2 DEF Delivered, Rejected, Revoked, LetGo, Heard, Accepted
<1>3. ASSUME NEW c \in Calls, HubStep(c) \/ Lose(c) PROVE fate' = fate
  BY <1>3, HubEffect DEF reportVars
<1>4. QED
  BY <1>1, <1>2, <1>3 DEF Next, SetAside, Resume, Restart, RevokeProbe, EnrollAgain,
     Deliver, Hear, Retry, reportVars, vars

LEMMA DeliveryNext ==
  ASSUME Structure, Structure', OldestFirst, Saved, Clocked, DeliveredIsStored,
         [Next]_vars, ~ClockStepsBack
  PROVE  Clocked' /\ DeliveredIsStored'
<1>1. stored \subseteq stored'
  BY ProbeEffect, HubEffect DEF Structure, Deliver, hubVars
<1>2. (\A n, m \in 1..made : n < m => stamp[n] < stamp[m])'
  BY StampsNext DEF Clocked
<1>3. ASSUME NEW c \in Calls, calls'[c].stage = "not_newer" PROVE calls'[c].rep \in stored'
  <2> USE DEF Structure, TypeOK
  <2>1. CASE calls'[c] \in {calls[c], Free}
    BY <1>1, <1>3, <2>1 DEF Clocked, Free
  <2>2. ASSUME NEW d \in Calls, Deliver(d) PROVE calls'[c] = calls[c]
    BY <1>3, <2>2 DEF Deliver
  <2>3. ASSUME NEW d \in Calls \ {c}, HubStep(d) \/ Lose(d) PROVE calls'[c] = calls[c]
    BY <2>3, OtherCalls
  <2>4. CASE HubStep(c) \/ Lose(c)
    <3>1. SaveReport(c)
      BY <1>3, <2>4 DEF HubStep, Refuse, CheckRecord, SaveReport, FollowUp, Fail, Lose,
         Answer, Proceed, Free
    <3>2. /\ \E n \in stored : stamp[n] >= stamp[calls[c].rep]
          /\ Answer(c, "not_newer")
          /\ stored' = stored
      BY <1>3, <3>1, SaveEffect DEF Proceed
    <3>3. awaited = c /\ calls'[c].rep = calls[c].rep
      BY <1>3, <3>2 DEF Answer, Proceed, Free
    <3>4. calls[c].rep \in Held
      BY <3>3, NextIsOldest, HubEffect, <2>4 DEF Waiting, CallRecord
    <3>5. PICK n \in stored : stamp[n] >= stamp[calls[c].rep]
      BY <3>2
    <3>6. n <= calls[c].rep
      BY <3>4, <3>5 DEF OldestFirst
    <3>7. n \in 1..made /\ calls[c].rep \in 1..made /\ stamp[n] \in Nat /\ stamp[calls[c].rep] \in Nat
      <4>1. calls[c].rep \in Reports /\ calls[c].rep <= made
        BY <2>4, HubEffect, <3>4 DEF Numbering, Held
      <4>2. QED
        BY <4>1, <3>5 DEF Numbering, Reports
    <3>8. n = calls[c].rep
      BY <3>5, <3>6, <3>7 DEF Clocked
    <3>9. QED
      BY <3>2, <3>3, <3>8
  <2>5. QED
    BY <2>1, <2>2, <2>3, <2>4, ProbeEffect
<1>4. ASSUME NEW n \in Reports, fate'[n] = "delivered" PROVE n \in stored'
  BY <1>1, <1>4, DeliveredEffect DEF DeliveredIsStored, Saved, Clocked
<1>5. QED
  BY <1>2, <1>3, <1>4 DEF Clocked, DeliveredIsStored

LEMMA IInvInit == Init => IInv
<1>1. Init => OldestFirst /\ Saved /\ FollowedUpOnce
  BY DEF Init, OldestFirst, Held, Saved, FollowedUpOnce, Free
<1>2. Init => Clocked /\ DeliveredIsStored
  BY DEF Init, Clocked, DeliveredIsStored, Free
<1>3. QED
  BY <1>1, <1>2, StructureInit DEF IInv

LEMMA IInvNext == ASSUME ~ClockStepsBack PROVE IInv /\ [Next]_vars => IInv'
  BY StructureNext, OrderNext, SavedNext, DeliveryNext DEF IInv

\* DeliveredIsStored: what the outbox let go of as delivered, the hub has, as
\* long as the probe's clock is never set back.
THEOREM NoneLost == ASSUME ~ClockStepsBack PROVE Spec => []DeliveredIsStored
<1>1. IInv => DeliveredIsStored
  BY DEF IInv
<1>2. QED
  BY <1>1, IInvInit, IInvNext, PTL DEF Spec
-----------------------------------------------------------------------------
(***************************************************************************)
(* The size of the black box.                                              *)
(***************************************************************************)

LEMMA BoundNext == Structure /\ BufferBounded /\ [Next]_vars => BufferBounded'
<1> SUFFICES ASSUME Structure, BufferBounded, [Next]_vars PROVE BufferBounded'
  OBVIOUS
<1> USE BoundsAssumption DEF Structure, TypeOK, BufferBounded
<1>1. \A S \in SUBSET Reports : IsFiniteSet(S) /\ Cardinality(S) \in Nat
  <2>1. IsFiniteSet(Reports)
    BY FS_Interval DEF Reports
  <2>2. QED
    BY <2>1, FS_Subset, FS_CardinalityType
<1>2. CASE blackbox' \subseteq blackbox
  <2>1. Cardinality(blackbox') <= Cardinality(blackbox)
    BY <1>1, <1>2, FS_Subset
  <2>2. QED
    BY <1>1, <1>2, <2>1
<1>3. CASE Submit
  <2> PICK kept \in Prunings : blackbox' \in {{}, kept \union {current}}
    BY <1>3 DEF Submit, NoBacklog
  <2>1. CASE blackbox' = {}
    BY <1>2, <2>1
  <2>2. CASE blackbox' = kept \union {current}
    <3>1. kept \in SUBSET Reports /\ Cardinality(kept) <= MaxBuffered
      BY DEF Prunings
    <3>2. Cardinality(kept \union {current}) <= Cardinality(kept) + 1
      <4>1. IsFiniteSet(kept) /\ Cardinality(kept) \in Nat
        BY <1>1, <3>1
      <4>2. Cardinality(kept \union {current}) \in {Cardinality(kept), Cardinality(kept) + 1}
        BY <4>1, FS_AddElement
      <4>3. QED
        BY <4>1, <4>2
    <3>3. Cardinality(blackbox') \in Nat
      <4>1. current \in Reports
        BY <1>3 DEF Submit, Placement
      <4>2. QED
        BY <1>1, <2>2, <3>1, <4>1
    <3>4. QED
      BY <1>1, <2>2, <3>1, <3>2, <3>3
  <2>3. QED
    BY <2>1, <2>2
<1>4. ASSUME NEW c \in Calls, Retry(c) PROVE BufferBounded'
  <2>1. /\ blackbox' = blackbox \union {calls[c].rep}
        /\ NextToDeliver(calls[c].rep)
    BY <1>4 DEF Retry, Written, Waiting
  <2>2. CASE pc = "flush"
    BY <1>2, <2>1, <2>2 DEF NextToDeliver, Placement
  <2>3. CASE pc = "direct"
    <3>1. blackbox' = {calls[c].rep}
      BY <2>1, <2>3 DEF Placement
    <3>2. Cardinality(blackbox') = 1
      BY <3>1, FS_Singleton
    <3>3. QED
      BY <3>2
  <2>4. QED
    BY <2>1, <2>2, <2>3 DEF NextToDeliver
<1>5. ASSUME NEW c \in Calls, HubStep(c) \/ Lose(c) PROVE blackbox' = blackbox
  BY <1>5, HubEffect DEF probeVars
<1>6. QED
  BY <1>2, <1>3, <1>4, <1>5 DEF Next, BuildReport, ClearQueue, SetAside, Resume, Crash,
     Restart, RevokeProbe, EnrollAgain, Deliver, Hear, Delivered, Rejected, Revoked, LetGo,
     probeVars, vars

\* BufferBounded: the black box never holds more than one over its cap, however
\* long the hub stays away (BlackBox::prune runs before the insert).
THEOREM Bounded == Spec => []BufferBounded
<1>1. Init => BufferBounded
  BY FS_EmptySet, BoundsAssumption DEF Init, BufferBounded
<1>2. QED
  BY <1>1, StructureInit, StructureNext, BoundNext, PTL DEF Spec
-----------------------------------------------------------------------------
(***************************************************************************)
(* Refinement: delivery implements the promise of ReportLog.               *)
(***************************************************************************)

Confirmed == {n \in Reports : fate[n] = "delivered"}

\* What the steps that drop reports undelivered look like to the log.
LEMMA DroppingIsGivingUp ==
  ASSUME Structure, UNCHANGED <<made, stored>>,
         \A n \in Reports : fate'[n] = fate[n] \/ (n \in Held /\ fate'[n] \notin {"held", "delivered"}),
         fate' \in [Reports -> Fates]
  PROVE  [Log!LogNext]_(Log!logVars)
<1>1. Held' \subseteq Held /\ Confirmed' = Confirmed
  BY DEF Held, Confirmed
<1>2. Log!GiveUp(Held \ Held') /\ Held \ Held' \in SUBSET Held
  BY <1>1 DEF Log!GiveUp, Confirmed
<1>3. QED
  BY <1>2 DEF Log!LogNext

LEMMA StampOrder ==
  ASSUME TypeOK, Clocked, NEW n \in 1..made, NEW m \in 1..made, stamp[m] < stamp[n],
         stamp[n] \in Nat, stamp[m] \in Nat
  PROVE  m < n
<1>1. m \in Int /\ n \in Int /\ (n < m => stamp[n] < stamp[m])
  BY DEF Clocked, TypeOK
<1>2. QED
  BY <1>1

LEMMA RefinesNext ==
  ASSUME IInv, IInv', [Next]_vars, ~ClockStepsBack
  PROVE  [Log!LogNext]_(Log!logVars)
<1> USE DEF IInv, Structure, TypeOK
<1>1. CASE BuildReport
  <2>1. made + 1 \in Reports /\ made' = made + 1 /\ stored' = stored
    BY <1>1, BoundsAssumption DEF BuildReport, Reports, hubVars
  <2>2. Held' = Held \union {made + 1} /\ Confirmed' = Confirmed
    BY <1>1, <2>1 DEF BuildReport, Held, Confirmed, Numbering, Reports
  <2>3. Log!Make
    BY <1>1, <2>1, <2>2 DEF BuildReport, Log!Make, Confirmed
  <2>4. QED
    BY <2>3 DEF Log!LogNext
<1>2. CASE Submit \/ ClearQueue \/ Crash
  <2>1. Held = blackbox \union ({current} \ {NoReport})
    BY DEF EachAccountedFor
  <2>2. \A n \in Reports : fate'[n] = fate[n] \/ (n \in Held /\ fate'[n] \notin {"held", "delivered"})
    <3>1. CASE Submit
      BY <2>1, <3>1 DEF Submit
    <3>2. CASE ClearQueue
      BY <2>1, <3>2 DEF ClearQueue
    <3>3. CASE Crash
      BY <2>1, <3>3 DEF Crash, Reports, NoReport
    <3>4. QED
      BY <1>2, <3>1, <3>2, <3>3
  <2>3. QED
    BY <1>2, <2>2, DroppingIsGivingUp DEF Submit, ClearQueue, Crash, hubVars
<1>3. ASSUME NEW c \in Calls, Rejected(c) \/ Revoked(c) PROVE [Log!LogNext]_(Log!logVars)
  <2>1. calls[c].rep \in Held
    BY <1>3, NextIsOldest DEF Rejected, Revoked, Heard, Waiting, CallRecord, Answers, Free
  <2>2. \A n \in Reports : fate'[n] = fate[n] \/ (n \in Held /\ fate'[n] \notin {"held", "delivered"})
    BY <1>3, <2>1 DEF Rejected, Revoked, LetGo
  <2>3. QED
    BY <1>3, <2>2, DroppingIsGivingUp DEF Rejected, Revoked, hubVars
<1>4. ASSUME NEW c \in Calls, Delivered(c) PROVE [Log!LogNext]_(Log!logVars)
  <2>0. calls[c].rep \in Reports
    BY <1>4 DEF Delivered, Heard, Accepted, CallRecord, Answers, Free
  <2> PICK n \in Reports : n = calls[c].rep
    BY <2>0
  <2>1. n \in Held /\ n \in 1..made
    BY <1>4, NextIsOldest DEF Delivered, Heard, Waiting, CallRecord, Answers, Free, Numbering,
       Reports
  <2>2. n \in stored
    BY <1>4 DEF Delivered, Heard, Accepted, Saved, Clocked
  <2>3. fate' = [fate EXCEPT ![n] = "delivered"] /\ UNCHANGED <<made, stored>>
    BY <1>4 DEF Delivered, LetGo, hubVars
  <2>4. Held' = Held \ {n} /\ Confirmed' = Confirmed \union {n}
    BY <2>1, <2>3 DEF Held, Confirmed
  <2>5. Log!Confirm(n)
    BY <2>1, <2>2, <2>3, <2>4 DEF Log!Confirm, Confirmed
  <2>6. \E m \in 1..made : Log!Confirm(m)
    BY <2>1, <2>5
  <2>7. QED
    BY <2>6 DEF Log!LogNext
<1>5. ASSUME NEW c \in Calls, HubStep(c) \/ Lose(c) PROVE [Log!LogNext]_(Log!logVars)
  <2> DEFINE n == calls[c].rep
  <2>1. made' = made /\ fate' = fate
    BY <1>5, HubEffect DEF reportVars
  <2>2. Held' = Held /\ Confirmed' = Confirmed
    BY <2>1 DEF Held, Confirmed
  <2>3. CASE stored' = stored
    BY <2>1, <2>2, <2>3 DEF Log!logVars, Confirmed
  <2>4. CASE (\A m \in stored : stamp[m] < stamp[n]) /\ stored' = stored \union {n}
    <3>1. n \in 1..made
      BY <1>5, HubEffect DEF Numbering, CallRecord, Free, Reports
    <3>2. ASSUME NEW m \in stored PROVE m < n
      <4>1. m \in 1..made /\ stamp[m] < stamp[n] /\ stamp[m] \in Nat /\ stamp[n] \in Nat
        BY <2>4, <3>1 DEF Numbering, Reports
      <4>2. QED
        BY <3>1, <4>1, StampOrder
    <3>3. Log!Store(n)
      BY <2>1, <2>2, <2>4, <3>2 DEF Log!Store, Confirmed
    <3>4. \E m \in 1..made : Log!Store(m)
      BY <3>1, <3>3
    <3>5. QED
      BY <3>4 DEF Log!LogNext
  <2>5. QED
    BY <1>5, <2>3, <2>4, SaveEffect
       DEF HubStep, Refuse, CheckRecord, FollowUp, Fail, Lose, hubVars
<1>6. CASE UNCHANGED <<made, fate, stored>>
  BY <1>6 DEF Log!logVars, Held
<1>7. QED
  BY <1>1, <1>2, <1>3, <1>4, <1>5, <1>6 DEF Next, Hear, SetAside, Resume, Restart, RevokeProbe,
     EnrollAgain, Deliver, Retry, reportVars, hubVars, vars

\* ImplementsLog: every step of delivery is a step ReportLog allows: reports are
\* stored in order and once, and only a stored one is confirmed.
THEOREM Refinement == ASSUME ~ClockStepsBack PROVE Spec => ImplementsLog
<1>1. Init => Log!LogInit
  BY DEF Init, Log!LogInit, Held
<1>2. QED
  BY <1>1, IInvInit, IInvNext, RefinesNext, PTL DEF Spec, ImplementsLog, Log!LogSpec
================================================================================
