------------------------------ MODULE CheckConfig ------------------------------
(***************************************************************************)
(* A probe's checks: records that users of the hub edit at the same time   *)
(* (hub/src/service/checks.rs), linked to what they are behind             *)
(* (service/dependencies.rs), and the config made of them, which the hub   *)
(* puts in its answer to a report until the probe runs it or refuses it    *)
(* (probe/src/config.rs).                                                  *)
(*                                                                         *)
(* A config's revision is a digest of its content, so here it is that      *)
(* content: the enabled checks, each with its secret as sealed.  A sealed  *)
(* secret is the data key it was sealed with and a mark that changes each  *)
(* time it is saved; <<>> is none.  A probe sends one report after the     *)
(* other; one it gave up on may still be under way at the hub ("late").    *)
(***************************************************************************)
EXTENDS Naturals, FiniteSets

CONSTANTS
  Checks,      \* the checks there may ever be
  First,       \* those there at the start ...
  FirstLink,   \* ... and what they are behind then
  Secretive,   \* those that need a secret (an SNMP community)
  NoCheck,
  Editors,     \* requests to the hub under way at once
  MaxEdits,    \* bound: how often a check is made, changed or deleted
  MaxRestarts, \* bound: how often the hub or the probe starts again
  MaxFailures  \* bound: requests given up on, files that can't be saved

ASSUME ChecksAssumption ==
  /\ IsFiniteSet(Checks) /\ First \subseteq Checks /\ Secretive \subseteq Checks
  /\ NoCheck \notin Checks
  /\ FirstLink \in [First -> First \union {NoCheck}]
  /\ \A T \in SUBSET First : T # {} => \E c \in T : FirstLink[c] \notin T \* no loops
  /\ MaxEdits \in Nat /\ MaxRestarts \in Nat /\ MaxFailures \in Nat

VARIABLES
  \* The hub's database, and its data key (hub_data.key).
  checks, shown, dataKey,
  edit,      \* what each editor has checked and is about to write
  requests,  \* the report the probe waits for, and a late one
  \* The probe: what it runs, the last it refused, config.json.
  active, rejected, file,
  outdated,  \* history: the editors that another one's new link overtook
  unchecked, \* history: the checks whose link such an editor wrote
  edits, restarts, failures

probeVars == <<active, rejected, file>>
linkHistory == <<outdated, unchecked>>
boundVars == <<edits, restarts, failures>>
configVars == <<checks, shown, dataKey, edit, requests, probeVars, linkHistory, boundVars>>

Keys == {1, 2}
NoSecret == <<>>
NoRevision == [known |-> FALSE, checks |-> {}]
NoConfig == [revision |-> NoRevision, opened |-> FALSE]
NoEdit == [check |-> NoCheck]
NoRequest == [stage |-> "none"]

There(c) == checks[c].is = "there"
CheckRecord(enabled, dependsOn, secret) ==
  [is |-> "there", enabled |-> enabled, dependsOn |-> dependsOn, secret |-> secret]
Before(is) == [is |-> is, enabled |-> FALSE, dependsOn |-> NoCheck, secret |-> NoSecret]

ConfigInit ==
  /\ checks = [c \in Checks |->
       IF c \in First
       THEN CheckRecord(TRUE, FirstLink[c], IF c \in Secretive THEN <<1, 0>> ELSE NoSecret)
       ELSE Before("new")]
  /\ shown = [revision |-> NoRevision, rejected |-> NoRevision]
  /\ dataKey = 1
  /\ edit = [e \in Editors |-> NoEdit]
  /\ requests = [r \in {"now", "late"} |-> NoRequest]
  /\ active = NoConfig /\ rejected = NoRevision /\ file = NoConfig
  /\ outdated = {} /\ unchecked = {}
  /\ edits = 0 /\ restarts = 0 /\ failures = 0

-----------------------------------------------------------------------------
(***************************************************************************)
(* The links (service/dependencies.rs).                                    *)
(***************************************************************************)
\* What c is behind, 1, 2, ... links up.
Up(c) ==
  LET up[n \in 0 .. Cardinality(Checks)] ==
        IF n = 0 THEN c
        ELSE IF up[n - 1] = NoCheck THEN NoCheck ELSE checks[up[n - 1]].dependsOn
  IN up
\* ancestors: stops where it comes back to a check it has seen.
AncestorsAt(c) ==
  {n \in 1 .. Cardinality(Checks) :
     Up(c)[n] # NoCheck /\ Up(c)[n] \notin {Up(c)[m] : m \in 0 .. n - 1}}
Ancestors(c) == {Up(c)[n] : n \in AncestorsAt(c)}

\* Wrong on purpose: what the parent is behind is not looked at.
AnyOther(c) == {NoCheck} \union {p \in Checks \ {c} : There(p)}
\* validate: what c may depend on.
Parents(c) ==
  {NoCheck} \union {p \in Checks \ {c} : There(p) /\ c \notin Ancestors(p)}

\* Wrong on purpose: the nearest check that is down is named.
NearestDown(c, down) ==
  Up(c)[CHOOSE n \in AncestorsAt(c) :
          Up(c)[n] \in down /\ \A m \in AncestorsAt(c) : Up(c)[m] \in down => m >= n]
\* apply: the farthest one is.
Behind(c, down) == Ancestors(c) \cap down # {}
Root(c, down) ==
  Up(c)[CHOOSE n \in AncestorsAt(c) :
          Up(c)[n] \in down /\ \A m \in AncestorsAt(c) : Up(c)[m] \in down => m <= n]

-----------------------------------------------------------------------------
(***************************************************************************)
(* Users (service/checks.rs).                                              *)
(***************************************************************************)
\* Sealing draws a nonce: the same secret saved again is another one sealed.
Sealed(before) == <<dataKey, IF before = NoSecret THEN 0 ELSE 1 - before[2]>>
Readable(secret) == secret \in {NoSecret, <<dataKey, 0>>, <<dataKey, 1>>}

\* Wrong on purpose: what a check lacks is not looked at.
AllowsAny(c, enabled, secret) == TRUE
\* request_secrets: an enabled check has what it needs.
Allows(c, enabled, secret) == enabled /\ c \in Secretive => secret # NoSecret

Edits == edits < MaxEdits /\ edits' = edits + 1

\* update_check reads the checks and looks at the request ...
BeginUpdate(e, c, enabled, parent, given) ==
  LET secret == IF given THEN Sealed(checks[c].secret) ELSE checks[c].secret IN
  /\ Edits
  /\ edit[e] = NoEdit /\ There(c)
  /\ parent \in Parents(c)
  /\ given => c \in Secretive
  /\ Readable(checks[c].secret) /\ Allows(c, enabled, secret)
  /\ edit' = [edit EXCEPT ![e] = [check |-> c, after |-> CheckRecord(enabled, parent, secret)]]
  /\ UNCHANGED <<checks, shown, dataKey, requests, probeVars, linkHistory, restarts, failures>>

\* ... and writes the whole record, unless it or its parent is gone.
IsWritten(e) ==
  There(edit[e].check) /\ edit[e].after.dependsOn \in {NoCheck} \union {p \in Checks : There(p)}
Write(e) ==
  IF IsWritten(e) THEN checks' = [checks EXCEPT ![edit[e].check] = edit[e].after]
  ELSE UNCHANGED checks

\* A new link overtakes the other edits under way: they were validated without it.
Changes(e) == IsWritten(e) /\ edit[e].after.dependsOn # checks[edit[e].check].dependsOn
AddsLink(e) == Changes(e) /\ edit[e].after.dependsOn # NoCheck
UnderWay == {o \in Editors : edit[o] # NoEdit}
NoteLink(e) ==
  /\ outdated' = (IF AddsLink(e) THEN UnderWay ELSE outdated) \ {e}
  /\ unchecked' = IF ~Changes(e) THEN unchecked
                  ELSE IF AddsLink(e) /\ e \in outdated THEN unchecked \union {edit[e].check}
                  ELSE unchecked \ {edit[e].check}

FinishUpdate(e) ==
  /\ edit[e] # NoEdit
  /\ Write(e)
  /\ NoteLink(e)
  /\ edit' = [edit EXCEPT ![e] = NoEdit]
  /\ UNCHANGED <<shown, dataKey, requests, probeVars, boundVars>>

\* create_check; add_checks makes one that lacks its secret disabled.
Create(c, enabled, parent, given) ==
  LET secret == IF given THEN Sealed(NoSecret) ELSE NoSecret IN
  /\ Edits
  /\ checks[c].is = "new"
  /\ parent \in {NoCheck} \union {p \in Checks : There(p)}
  /\ given => c \in Secretive
  /\ Allows(c, enabled, secret)
  /\ checks' = [checks EXCEPT ![c] = CheckRecord(enabled, parent, secret)]
  /\ UNCHANGED <<shown, dataKey, edit, requests, probeVars, linkHistory, restarts, failures>>

\* delete_check: the links to it go too (ON DELETE SET NULL).
Delete(c) ==
  /\ Edits
  /\ There(c)
  /\ checks' = [d \in Checks |->
       IF d = c THEN Before("deleted")
       ELSE IF checks[d].dependsOn = c THEN [checks[d] EXCEPT !.dependsOn = NoCheck]
       ELSE checks[d]]
  /\ UNCHANGED <<shown, dataKey, edit, requests, probeVars, linkHistory, restarts, failures>>

Users ==
  \/ \E e \in Editors, c \in Checks, enabled, given \in BOOLEAN, p \in Checks \union {NoCheck} :
       BeginUpdate(e, c, enabled, p, given)
  \/ \E e \in Editors : FinishUpdate(e)
  \/ \E c \in Checks, enabled, given \in BOOLEAN, p \in Checks \union {NoCheck} :
       Create(c, enabled, p, given)
  \/ \E c \in Checks : Delete(c)

-----------------------------------------------------------------------------
(***************************************************************************)
(* The hub's handling of a report (service/ingest.rs).                     *)
(***************************************************************************)
\* desired_config, its revision.
Desired ==
  [known |-> TRUE,
   checks |-> {<<c, checks[c].secret>> : c \in {d \in Checks : There(d) /\ checks[d].enabled}}]

\* with_secrets: those that can't be opened are left out.
WithSecrets(revision) ==
  [revision |-> revision, opened |-> \A k \in revision.checks : Readable(k[2])]

Stage(r, stage) == requests' = [requests EXCEPT ![r].stage = stage]

\* The checks are read and the report saved, unless a newer one was.
Take(r) ==
  /\ requests[r].stage = "sent"
  /\ requests' =
       IF r = "now"
       THEN [requests EXCEPT !["now"].stage = "saved", !["now"].desired = Desired,
                             !["late"] = IF @.stage = "sent" THEN NoRequest ELSE @]
       ELSE [requests EXCEPT !["late"].stage = "saved", !["late"].desired = Desired]
  /\ UNCHANGED <<checks, shown, dataKey, edit, probeVars, linkHistory, boundVars>>

\* Wrong on purpose: no refusal leaves the one before.
RecordRefusal(r) ==
  /\ requests[r].stage = "saved"
  /\ shown' = [revision |-> requests[r].revision,
               rejected |-> IF requests[r].rejected.known THEN requests[r].rejected
                            ELSE shown.rejected]
  /\ Stage(r, "recorded")
  /\ UNCHANGED <<checks, dataKey, edit, probeVars, linkHistory, boundVars>>
\* record_probe_state
RecordState(r) ==
  /\ requests[r].stage = "saved"
  /\ shown' = [revision |-> requests[r].revision, rejected |-> requests[r].rejected]
  /\ Stage(r, "recorded")
  /\ UNCHANGED <<checks, dataKey, edit, probeVars, linkHistory, boundVars>>

\* Wrong on purpose: a probe that refuses a config gets no other.
SendsUnlessRefusing(r) ==
  requests[r].revision # requests[r].desired /\ ~requests[r].rejected.known
\* config_to_send
Sends(r) ==
  requests[r].desired \notin {requests[r].revision, requests[r].rejected}

AnswerLate ==
  /\ requests["late"].stage = "recorded"
  /\ requests' = [requests EXCEPT !["late"] = NoRequest]
  /\ UNCHANGED <<checks, shown, dataKey, edit, probeVars, linkHistory, boundVars>>

-----------------------------------------------------------------------------
(***************************************************************************)
(* The probe (main.rs, config.rs).                                         *)
(***************************************************************************)
Report ==
  /\ requests["now"] = NoRequest
  /\ requests' = [requests EXCEPT !["now"] =
       [stage |-> "sent", revision |-> active.revision, rejected |-> rejected,
        desired |-> NoRevision]]
  /\ UNCHANGED <<checks, shown, dataKey, edit, probeVars, linkHistory, boundVars>>

\* validate: it needs every secret.
Usable(config) ==
  config.opened /\ \A k \in config.revision.checks : k[1] \in Secretive => k[2] # NoSecret

\* ActiveConfig::apply; a config that can't be saved runs all the same.
Apply(offered) ==
  \/ /\ offered = active
     /\ UNCHANGED <<probeVars, failures>>
  \/ /\ offered # active /\ ~Usable(offered)
     /\ rejected' = offered.revision
     /\ UNCHANGED <<active, file, failures>>
  \/ /\ offered # active /\ Usable(offered)
     /\ active' = offered /\ rejected' = NoRevision
     /\ \/ file' = offered /\ UNCHANGED failures
        \/ failures < MaxFailures /\ failures' = failures + 1 /\ UNCHANGED file

Hear ==
  /\ requests["now"].stage = "recorded"
  /\ requests' = [requests EXCEPT !["now"] = NoRequest]
  /\ IF Sends("now") THEN Apply(WithSecrets(requests["now"].desired))
     ELSE UNCHANGED <<probeVars, failures>>
  /\ UNCHANGED <<checks, shown, dataKey, edit, linkHistory, edits, restarts>>

\* The answer doesn't come in time; the hub may or may not have the request.
GiveUp ==
  /\ requests["now"] # NoRequest /\ failures < MaxFailures
  /\ \/ requests["late"] = NoRequest
        /\ requests' = [requests EXCEPT !["now"] = NoRequest, !["late"] = requests["now"]]
     \/ requests["now"].stage = "sent" /\ requests' = [requests EXCEPT !["now"] = NoRequest]
  /\ failures' = failures + 1
  /\ UNCHANGED <<checks, shown, dataKey, edit, probeVars, linkHistory, edits, restarts>>

\* It starts with config.json, if that can be read.
ProbeRestarts ==
  /\ restarts < MaxRestarts /\ restarts' = restarts + 1
  /\ rejected' = NoRevision
  /\ \/ active' = file /\ UNCHANGED <<file, failures>>
     \/ active' = NoConfig /\ file' = NoConfig /\ failures < MaxFailures /\ failures' = failures + 1
  /\ requests["late"] = NoRequest \/ requests["now"] = NoRequest
  /\ requests' = IF requests["now"] = NoRequest THEN requests
                 ELSE [requests EXCEPT !["now"] = NoRequest, !["late"] = requests["now"]]
  /\ UNCHANGED <<checks, shown, dataKey, edit, linkHistory, edits>>

\* Restored with another data key, or with the first one put back.
HubRestarts ==
  /\ restarts < MaxRestarts /\ restarts' = restarts + 1
  /\ dataKey' \in Keys
  /\ edit' = [e \in Editors |-> NoEdit] /\ outdated' = {}
  /\ requests' = [r \in {"now", "late"} |-> NoRequest]
  /\ UNCHANGED <<checks, shown, probeVars, unchecked, edits, failures>>

Cycle == Report \/ Take("now") \/ RecordState("now") \/ Hear
Late == Take("late") \/ RecordState("late") \/ AnswerLate

ConfigNext == Users \/ Cycle \/ Late \/ GiveUp \/ ProbeRestarts \/ HubRestarts

ConfigSpec == ConfigInit /\ [][ConfigNext]_configVars
FairConfigSpec == ConfigSpec /\ WF_configVars(Cycle)

-----------------------------------------------------------------------------
Secrets == {NoSecret} \union (Keys \X {0, 1})
Revisions == [known : BOOLEAN, checks : SUBSET (Checks \X Secrets)]
Configs == [revision : Revisions, opened : BOOLEAN]
CheckRecords ==
  [is : {"new", "there", "deleted"}, enabled : BOOLEAN,
   dependsOn : Checks \union {NoCheck}, secret : Secrets]
Requests ==
  [stage : {"sent", "saved", "recorded"},
   revision : Revisions, rejected : Revisions, desired : Revisions]

\* Every variable has its type.
ConfigTypeOK ==
  /\ checks \in [Checks -> CheckRecords]
  /\ shown \in [revision : Revisions, rejected : Revisions]
  /\ dataKey \in Keys
  /\ edit \in [Editors -> {NoEdit} \union [check : Checks, after : CheckRecords]]
  /\ requests \in [{"now", "late"} -> {NoRequest} \union Requests]
  /\ active \in Configs /\ file \in Configs /\ rejected \in Revisions
  /\ outdated \in SUBSET Editors /\ unchecked \in SUBSET Checks
  /\ edits \in 0..MaxEdits /\ restarts \in 0..MaxRestarts /\ failures \in 0..MaxFailures

(***************************************************************************)
(* Every link leads to a check that is there, and links never make a loop, *)
(* whatever is made, linked, changed and deleted meanwhile, but through a  *)
(* link that was validated before another edit wrote one and written after *)
(* it: nothing in the code keeps that loop out (D-68).                     *)
(***************************************************************************)
LinksLeadUp ==
  \A c \in Checks :
    /\ checks[c].dependsOn # NoCheck => There(c) /\ There(checks[c].dependsOn)
    /\ \A n \in 1 .. Cardinality(Checks) :
         Up(c)[n] = c => \E m \in 0 .. n - 1 : Up(c)[m] \in unchecked

(***************************************************************************)
(* Whichever of the checks the probe runs are down: each is told itself,   *)
(* or is behind one that is.  No outage is hidden behind one that is       *)
(* hidden too, unless an edit that was overtaken wrote one of the links up *)
(* from it.                                                                *)
(***************************************************************************)
Reported == {c \in Checks : There(c) /\ \E k \in active.revision.checks : k[1] = c}
OutageIsNamed ==
  \A down \in SUBSET Reported : \A c \in down :
    Behind(c, down) /\ ({c} \union Ancestors(c)) \intersect unchecked = {} =>
      Root(c, down) \in down /\ ~Behind(Root(c, down), down)

(***************************************************************************)
(* An enabled check has the secret it needs, however its edits overlap: a  *)
(* probe refuses its config only for one the hub can't open.               *)
(***************************************************************************)
EnabledHasSecret ==
  \A c \in Secretive : checks[c].enabled => checks[c].secret # NoSecret

(***************************************************************************)
(* Once nobody changes anything, the probe runs the checks its hub has, or *)
(* has refused exactly those; it is never left with others.                *)
(***************************************************************************)
Agreed == Desired \in {active.revision, rejected}
Converges == <>[]Agreed

(***************************************************************************)
(* ... and the hub shows what the probe runs and what it refused.          *)
(***************************************************************************)
ShownAsItIs == <>[](shown = [revision |-> active.revision, rejected |-> rejected])
===============================================================================
