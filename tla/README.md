# Blentinel in TLA+

Specifications of the parts of Blentinel whose correctness lies in the order
of things: a probe that delivers its reports to a hub over a network that loses
and delays them, and a hub whose requests, background tasks and sweeps work on
one database at the same time. TLC checks them on small instances; TLAPS proves
every safety property of the runs that pass for every value of the constants.

- [Running it](#running-it)
- [Inventory of the system](#inventory-of-the-system)
- [What is modelled](#what-is-modelled)
- [The runs](#the-runs)
- [What the model found](#what-the-model-found)
- [What is proved](#what-is-proved)
- [What is left out](#what-is-left-out)
- [Plan](#plan)

## Running it

    tlc -workers 2 -config MCReportDelivery.cfg MCReportDelivery.tla
    tlapm ReportDelivery_proofs.tla     # and the same for every other *_proofs module

The table of [runs](#the-runs) names each configuration. Nine runs end without an error;
three are expected to end with a counterexample (*What the model found*).

A definition marked "wrong on purpose" is a plausible bug of the definition below it. Put
in its place, it makes the property it is paired with in `PROJECT.json` fail.

## Inventory of the system

The program has two processes that matter here. A **probe** runs checks inside a
client's network every interval, builds a report, signs, seals and posts it. The
**hub** verifies it, stores it, answers with a signed and sealed acknowledgement
(which may carry a config, an update, commands, new keys), and alerts people. The
hub never connects to a probe. A third process is short-lived: the **upgrade command**
an admin runs beside the hub.

| Part | Its state | Its operations | What makes it correct | Module |
|---|---|---|---|---|
| Probe loop (`probe/src/main.rs`) | the enrollment, the report of this cycle | one pass per interval: follow the enrollment, run checks, build a report, submit it, act on the answer | it always comes round again; a revoked probe stops and waits | ReportDelivery |
| Outbox and black box (`outbox.rs`, `storage.rs`) | `pending_reports` on disk | prune, queue, oldest, delete, clear, purge for another hub | in order, bounded, nothing forgotten that is not settled | ReportDelivery, KeyRotation |
| Transport (`transport.rs`) | none; a 10 s timeout | post a report, classify the answer | an answer is believed only for what it says | ReportDelivery |
| Ingest (`hub/src/ingest.rs`, `service/ingest.rs`, `queries.rs`) | `reports`, `check_results` | authenticate, look the probe up, judge, save if newer, follow up, answer | stored once and in order; follow-ups at most once | ReportDelivery; its follow-ups in the others |
| Liveness (`liveness.rs`, `engine.rs`, `state.rs`) | `probe_heartbeats`, the probe's row in `alert_states` | heartbeat at ingest, sweep every 10 s, evaluate in a task, re-arm | one alert for one outage, and one for every outage | ProbeExpiry |
| Check alerts (`engine.rs`, `flap.rs`, `silence.rs`) | the check's row in `alert_states` | evaluate a result in the probe's turn | no result counted twice or lost; people know what is confirmed | CheckAlerts |
| Incidents, reminders, escalation (`incidents.rs`, `followups.rs`, routing in `notify.rs`, `model.rs`) | `incidents`, at most one open for a subject; the routing rules | open, change, close, acknowledge; sweep: remind, escalate | the open incident is the outage; nobody nagged too often, nobody forgotten | CheckAlerts, ProbeExpiry, IncidentFollowUps |
| Silences, maintenance windows | `alert_silences`, `maintenance_windows` | create, end, run out; open and close by schedule | they hide what they were made for and no more | CheckAlerts, ProbeExpiry, IncidentFollowUps |
| Commands and their poll (`service/commands.rs`, `poll.rs`, `probe/src/commands.rs`, `poller.rs`) | `probe_commands`; who is held; the probe's list of what it ran | queue, cancel, send, hold, wake, run, record a result, expire | each arrives or expires, runs once for each start of the probe, its result comes back | CommandLog, CommandChannel |
| Checks and config (`service/checks.rs`, `dependencies.rs`, `probe/src/config.rs`) | `checks` with their links and sealed secrets; what a probe runs or refused | edit, link, delete, send, apply, refuse | no loops; the probe ends up on the newest it accepts | CheckConfig |
| Enrollment, key rotation (`service/probes.rs`, `rotation.rs`, `enrollment.rs`) | codes; the hub's current, next and previous keys; the probe's pins; the hub a black box belongs to | enroll, revoke; announce, cancel, switch, recover | no probe is cut off, no backlog becomes unreadable | KeyRotation |
| Rollout, probe updates (`rollout.rs`, `probe/src/update/`) | rollout state; `update.json`, `update-failed.json`, `probe.prev`, the brake | approve, soak, promote, pause; fetch, test, swap, confirm, fall back | never left without a working version | ProbeUpdates |
| Hub upgrade (`ops/hub_upgrade.rs`, `ops/upgrade.rs`, `ops/backup.rs`) | `hub`, `hub.prev`, the database, backups, the service | back up, stop, swap, start, watch, put back; migrate at start | there is always a way back, and nothing accepted is lost | HubUpgrade |
| Thresholds, maintenance calendar, digest, accounts, certificates | limits; schedules; sessions; a certificate | judge, schedule, sign in, renew | | not modelled |

**How they interact.** A report's request runs through ingest step by step, each
step an `await` on the database after which any other request may run; after the
save it touches liveness, the probe's record, its incident, commands and rollout, and then
hands the report to a background task that waits for the probe's *turn*. Three sweeps run
beside that (liveness, follow-ups, rollout and rotation), each on a list it read before.
People change silences, windows, rules, checks, probes, releases and keys through the API
meanwhile. The answer goes back to the probe if it still waits for it, and is where
config, commands, update offers and new pins travel. The upgrade command replaces the
program and the database under the hub while the service manager starts it again.

**Hard behaviours.** A request that timed out at the probe and goes on at the hub;
an answer lost after the save; a crash between the hub's acceptance and the
deletion of the row; evaluations that overlap; a value read before an `await`
and used after it; several statements, or several files, that are one operation to the user;
clocks that disagree; a process started again by a service manager in the middle of
somebody else's work. `PROJECT.json` lists each hazard at its line.

## What is modelled

### ReportLog, ReportDelivery

`ReportLog` is the promise: reports are made, held, and either *confirmed*, which
needs the hub to have them, or *given up*; the hub's record only grows at its
newest end.

`ReportDelivery` is one probe and the hub. A report is its number; its timestamp is
kept because the hub's replay protection compares timestamps. The probe's place in
its loop is `pc`:

| `pc` | In the code |
|---|---|
| `idle`, `built` | between cycles; a sealed report in memory, `Outbox::submit` called |
| `direct`, `flush` | the fast path's or the flush's `deliver(...).await` |
| `revoked`, `cleared`, `waiting` | `clear()`, `set_aside_revoked`, `wait_for_enrollment` |
| `down` | the process is not running |

A request is an entry of `calls`, with its stage on the hub: `sent`, `checked` (the
record was read), `saved`, then the answer. `StopWaiting` leaves a request
that the hub works on where it is: the probe's timeout does not stop it, so a
late copy may be stored after the probe gave it up, or beside its retry. `Lose` ends
a request at any stage: the connection breaks (the server drops the handler then), the
hub stops, or the answer gets lost.

Abstracted: contents, signatures and sealing (a report that does not verify is
`Refuse`), the age a pruned row must have (any oldest rows may be too old), the
delay between retries (the next cycle). The black box's binding to one hub is in KeyRotation. Two reports never have the same timestamp: a cycle takes longer than
the clock's resolution.

### ProbeExpiry

One probe's liveness on the hub. `heartbeat` and `stale` are its row in
`probe_heartbeats` and whether the timeout has passed; `alertState` the row under
`probe_expiry:...`; `turns` the chain of one-shot channels in `IN_ORDER`, as the
sequence of tasks that hold or wait for a turn. An `ingest` goes through the
heartbeat, the re-arming, the incident and `spawn_in_order`; an evaluation is `listed`
by a sweep, takes its turn, reads, opens the incident, records, and sends. Each of
these is an action, because each is an `await` apart. A failed step of ingest is
logged and the next goes on; a failed step of an evaluation ends it and drops
its turn, except the incident, without which it goes on (`IngestFault`,
`EvaluationFault`). Another probe's evaluation in the same list appears only
as a failure that ends the list early.

### CheckAlerts

One check on the hub. `state` is its row in `alert_states`, whose flap suppression is
`After` and `Tells` (`flap::next`, `flap::held`); the row is written by `Keep` from what
`Judge` read. `incident` is the status of the open incident. `silences` are scopes:
the check's own (ended by a recovery) and a wider one. `deletion` is how far
`delete_check` got with its three statements. A report is one status, marked with
whether a window was open. `Unknown` (behind a check that is down) changes nothing.

`due` is the state that all results so far call for in the order of their turns; `last` and `run`
count equal results in a row; `told` is what people were last told, `repeated` that they were
told it again, and `muted` what the check's silence was made in: an outage, the last moment of
a recovery (`ending`: after `clear_silence_on_recovery`, before the incident's end), or neither. All
history, read by no action. The probe sends one request at a time, but gives one up after
10 s, so two may be under way at once: each takes its turn when it gets there.

### Exceptions are history

Several properties fail when something happens that the code doesn't prevent. It does happen in the
models. A history variable, read by no action, records exactly that event, and the property
says: this holds, *unless that happened*. So a run explores both sides, and a theorem holds of
every behaviour; what the exception leads to is described under *Also seen*.

| Module | Variable | What it records |
|---|---|---|
| CheckAlerts | `muted` | a silence made in the last moment of a recovery |
| CheckConfig | `outdated`, `unchecked` | an edit that links checks was validated before another edit wrote a link, and written after it; the checks whose link such an edit wrote |
| ProbeUpdates | `left` | the version that a rollback cut short by a crash left in place |
| HubUpgrade | `cut`, `dropped`, `since` | a `restore_database` cut short and not made good; the log it left behind; backups made of a migrated database since the last one of an old schema |
| IncidentFollowUps | `told`: `lost`, `heard` | a message recorded and never sent, because the sweep failed or the hub restarted in between |
| KeyRotation | `astray`, `crossed`, `stale` | the probes whom what people do may leave behind; a request that came beside another, or beside a switch; a refresh that set what had changed since it was read |

What else a module has as a constant to take behaviours out is used only by the runs that end with a
counterexample, to show that it needs nothing more: `ClockStepsBack`, and in
IncidentFollowUps `Care`.

### CommandLog, CommandChannel

`CommandLog` is the promise: of each command, what the hub has recorded, which goes from queued to
delivered to done, or to cancelled while it was never sent; how often it ran; and how often the probe
went down. A command runs only once it was recorded as sent or cancelled, again only after the
probe went down, and is done only if it ran.

`CommandChannel` is one probe's commands with everything between. `cmd` is `probe_commands.state`; `expired` those past `expires_at`. A
`req` is a request the hub works on, the report or a poll, with how far its handler is
(`saved`, `arrived`, `listed`, `holding`, `held`, `woken`, `answered`) and the commands it has
read: reading the pending ones, marking them delivered and answering are three
steps. `waiter` and `permits` are `CommandWaiters.held` and the `Notify` of each poll, so that a
wake between two steps of a poll goes where tokio lets it go. At the probe: `done`
(what it remembers having run), `results` for the next report, `outbox` for those in reports
not delivered, `polled` on the way from the poller to the loop. `runs` and `crashes` are history.
A restart of the probe forgets `done` and `results`. Commands of one kind only; the report
itself is ReportDelivery's. `Recorded` is the refinement mapping: a click that is not in the database
yet is nothing yet. "Expired" is not recorded: the code works it out when it shows a command, and a result that comes
after that is recorded all the same.

### KeyRotation

The hub's key files (`files`), the last row of `hub_rotations` (`announced`), the probes' records,
and beside them what the running hub has in memory (`secret`, `told`): the gap
between the two is where answers go wrong. `switch` walks through `rotation::switch`: keep the
previous key, move the next one, record, revoke codes, refresh; a crash between any two is followed
by what `StartHub` recovers. The code keeps only switches apart (`SWITCHING`), so a request to start a
rotation (`start`), one to cancel it (`cancel`) and the hub's own check every minute (`check`) go on beside
the switch and each other; the check's refresh may read, wait, and set (`seen`). A probe has its enrollment's
pins, its black box with the key each report was sealed for, and the pins its cycle began with (`link`). A key
stands for all the pins that rotate together. Time is in units of the previous key's life, and only passes
between requests. One start, one cancellation and one code at a time; a code for one use.

A probe goes `astray` when

- an admin switches now although it hasn't reported the next pins;
- a rotation starts while it is still behind the last switch, or enrolls;
- it is enrolled during a switch, enrolled again during a rotation, or enrolled again after a revocation it
  hasn't heard of;
- it doesn't follow a switch for as long as the previous key is kept.

`crossed` is set when a start or a cancellation comes beside the other or beside a switch, and when the
check deletes as expired the previous key that a switch beside it has just written.

### ProbeUpdates

A rollout on the hub (`rollout`, `canary`, `follows`, and `record`, what each probe last said), whose
sweep reads, decides and changes in steps, with admins between them; and on each
probe the four files (`exe`, `prev`, `pending`, `noted`) that a switch and a way back change one by one,
with a crash between any two. What a release is like is chosen at the start: it works, it runs
but its reports don't arrive, it dies at each start, or it fails its self-test. Versions are
numbered by age. A crash may cut `roll_back` short too, after which the version it left (`left`) stays: the
probe is `Stranded`.

### IncidentFollowUps

A check's incidents (`rows`), the routing rules, and two tasks: an evaluation (`judged`, `found`,
`recorded`) and a sweep. The sweep reads the incidents and the time (`listed`), then the rules (`ruled`), asks what covers the
check, and records and sends the escalation (`escalating`, `escalated`) and the reminder (`reminding`, `reminded`). What
it has read, the time included, decides to its end; a record precedes each send. `told` counts what
was said of each incident: `heard` when people last heard of it, `lost` that its escalation was recorded and never
sent. The rules are evaluated as `model.rs` does, with stops, the shortest
reminder and the earliest escalation. Time is in units of the shortest interval. The list is one incident
long: that an error on one ends the sweep before the next one's turn is not modelled. `Care`
(*quiet*, *overlap*) is used by the run woken_unheard only, to show that what it finds needs neither.

### HubUpgrade

`step` is how far `hub upgrade` is, one action for each of its operations on files, service and
database; `exe` and `prev` are the programs in `hub` and `hub.prev`; `db` and `backups` each have a
schema and the rows they hold, and `log` is what is only in the write-ahead log beside the database. The hub is a process of its own (`starting`, `migrating`, `dbAside`,
`logAside`, `up`) which the service manager starts again, and a start with an older schema backs up and
migrates (`open_database`). Reports are accepted by whichever hub runs. What the new release is like is
chosen at the start: good, dying some time after its start, or unable to migrate
(*stuck*). A backup's name is its second, so two in one second are one failure. `restore_database`
moves the database aside, then its log, then writes: each is a step that may be the last, of the
command and of the starting hub. The command watches for 15 s, so a hub that dies later may be
declared upgraded (`Healthy`), and its stop may end a hub that is restoring.

### CheckConfig

The check records with their links and sealed secrets; two editors, each of whom has read and
validated before writing (`edit`); and a probe that fetches its config. A revision is a digest
of the content, so it is that content. A request keeps what the hub read when it took the report
(`desired`), what the report said, and how far it is; a request the probe gave up on
(`late`) may still be saved, and recorded after a newer one. `Apply` is `ActiveConfig::apply` with a
file that can't be saved. A hub started again may come with another `hub_data.key`: sealed
secrets then can't be opened, the config goes out without them, and the probe refuses it.
`Root` and `Behind` are `dependencies::apply`, over any set of checks that are down.
A backlog of older reports is left out (it is ReportDelivery's): it would delay what
is shown, and an answer to it is not the last one. The checks that are there at the start may be linked
(`FirstLink`), without a loop. The names that every other module has too (`Init`, `Next`,
`TypeOK`...) are prefixed here, because one proof module extends this one and
ProbeExpiry. Two edits that link checks may overlap: `outdated` and `unchecked` say which did.

## The runs

| Run | Configuration | Checks | States |
|---|---|---|---|
| delivery | MCReportDelivery | `DeliveredIsStored`, `OldestFirst`, `FollowedUpOnce`, implements `ReportLog`; `SubmitReturns` | 349 k |
| expiry | MCProbeExpiry | `AlertedOnce`; `SilenceAnnounced`, `Settles` | 74 k |
| check_alerts | MCCheckAlerts | `FollowsResults`, `IncidentFollowsState`, `EnoughIsConfirmed`, `ToldWhatIsConfirmed`, `SilenceEndsWithOutage` | 1.5 M |
| commands | MCCommandChannel | `ResultOnItsWay`, implements `CommandLog`; `CommandsArrive`, `ResultsArrive` | 489 k |
| keys | MCKeyRotation | `NobodyCutOff`, `BacklogReadable`, `AnnouncedKeyKept`; `RotationEnds`, `EveryoneFollows` | 1.1 M |
| updates | MCProbeUpdates | `CanGoBack`, `NotTriedAgain`, `PromotesWhatRuns`; `BadGoesAway`, `CanaryStageEnds` | 262 k |
| followups | MCIncidentFollowUps | `NoMoreThanAsked`, `StopsWhenOver`; `NobodyForgotten` | 776 k |
| hub_upgrade | MCHubUpgrade | `WayBack`, `RunsOnItsSchema`, `ServesWhatWasBackedUp`, `NothingLost`; `EndsServing` | 1.7 M |
| check_config | MCCheckConfig | `LinksLeadUp`, `OutageIsNamed`, `EnabledHasSecret`; `Converges`, `ShownAsItIs` | 689 k |
| clock_set_back | MCClockStepsBack | `DeliveredIsStored`, violated | |
| woken_unheard | MCWokenUnheard | `WokenHearItIsOver`, violated | |
| crash_loop | MCCrashLoop | `ThatBackupIsThere`, violated | |

Each module has its `TypeOK` (`ConfigTypeOK`). They are theorems, and the runs leave them out to
spend their time on the rest. So are `BufferBounded`, `EachAccountedFor` and `RunsNeedRestarts`, which
`CommandLog` implies.

**Bounds.**
- *delivery*: three reports, a black box of one and batches of two reach pruning by count, a
  backlog longer than the box, and a report made after a crash that left a backlog; two
  requests at once give every pair of a late copy and its retry.
- *expiry*: two evaluations and two ingests, because the races are between two of a kind or
  one of each; one fault.
- *check_alerts*: two results to confirm each way and four reports give an outage, its recovery
  and an interrupted streak; two evaluations at once are enough for one to wait for
  the other; one fault.
- *commands*: one command and two polls, so that an abandoned poll and its successor overlap
  while the command travels by report as well; two faults, so that a retry may fail too. (With two commands, one poll and one
  fault, 377 k states, everything holds as well; with two commands, two people, one poll and two faults, 9.4 M,
  `ImplementsCommandLog`.)
- *keys*: three keys are two rotations; one probe that was enrolled before and one that enrolls
  during them; a box of one and a life of one unit make every report's age matter. `MaxFaults` counts
  losses, crashes and the carelessness that leads somebody astray alike. What follows once requests crossed
  isn't explored further (`CONSTRAINT Uncrossed`), because every property excuses it from there on; the theorems cover it.
- *updates*: one release after the installed one, a canary and another probe; every kind of
  release; two starts and two attempts stand for the code's three. With two releases the only older one works,
  so that the exception in `CanGoBack` (an older one left by a rollback cut short) is the theorem's alone.
- *followups*: one incident and a clock of two intervals: two reminders and an escalation
  between them; one fault; rules that change.
- *hub_upgrade*: two upgrades, so that what the first left is the second's ground; two
  restarts and one fault, with the code's own number of backups (3), are enough for the starts
  of a new hub to push out every older backup, with and without a fault; two accepted rows: before the backup
  and after it.
- *check_config*: three checks, two of them there and the third, which needs a secret,
  made later; two edits link them, one after the other or overlapping, and the second kind closes a loop; one
  restart and one fault.

**Deadlock** is checked where the program never stops for good. keys, hub_upgrade, crash_loop,
woken_unheard and check_config turn it off: their bounded people and faults come to an end.

**Fairness.** Never of people, of faults, of crashes or of the network; those are bounded.
- *delivery*: the loop goes on while its process runs, the client gives up a request at
  its timeout (`Hear`, of which `Retry` is always possible), the hub ends requests.
- *expiry*: the sweep's loop runs (a 10 s sleep), tasks and requests go on. `Settles` says
  what follows *if* the probe keeps reporting. `SilenceAnnounced` is claimed only of
  behaviours without faults: an alert is recorded before it is sent, so that a failure in between
  costs the alert (the code chooses that, D-27).
- *commands*: a click's steps, each poll's (a hold ends after `HOLD_SECS`), the report's and the
  probe's loops.
- *keys*: the switch, the check, the awaits of a start and of a cancellation go on, each beside the others, and
  each probe's steps; a service manager starts a hub or probe that crashed.
- *updates*: the hub's sweep and each probe's steps, and a download ends.
- *followups*: only the sweep, which its loop starts again every few seconds. `NobodyForgotten` excuses who was told
  nothing of what was recorded (`lost`), and rules edited for ever.
- *hub_upgrade*: the command's next step, and the starting hub's.
- *check_config*: the probe's cycle and the hub's steps for it.

**Symmetry** is used over tasks in check_alerts and over requests in clock_set_back, where no
liveness is checked.

## What the model found

1. **clock_set_back.** The hub answers 409 to every report that is not newer than its
   newest; the probe takes 409 for "the hub already has it". When the probe's clock was set
   back (within the accepted window) its new reports are deleted as delivered and never
   stored, until the clock has passed the newest stored timestamp.
   `NoneLost` below proves that this is the only way to lose one so.
2. **woken_unheard.** `reference()` works out the kind of alert an incident was escalated as
   from its status *now*. A Down that was escalated, improved to Warning and recovered asks
   the rules for the escalation of a Warning: whoever was woken is not told that it is over, though
   the guide promises that.
3. **crash_loop.** A new hub whose migration fails takes a `-pre-upgrade` backup at each start,
   and the service manager starts it every 5 s while the command waits up to 90 s. `make` keeps
   three of them, so the command's own is pruned; the database can't be put back
   from it, and the service is left stopped.

### Also seen

Behaviours the models have that a document or comment speaks against, or that a careful reader would like to know. No run is kept for them: each is reached by stating the property
without its exception, or the obvious property.

- *Delivery.* The black box may hold one report more than `MAX_BUFFERED_REPORTS` (pruning comes
  before the insert).
- *Expiry.* `evaluate_probe_expiry` asks "not alerted yet?" and records "expired" several awaits
  later (`engine.rs:412`); a report in between re-arms nothing. The next report repairs it
  (`Settles`); an outage that starts before that is not announced.
- *Check alerts.* A RECOVERED is sent for an outage nobody was alerted about when its silence ended
  first (`engine.rs:316`; `alerting.md:254`). A silence made in the last moment of a recovery, when
  `clear_silence_on_recovery` has run (313) and the incident is not closed yet, stays and hides the next outage, though
  `alerting.md:254` says that it ends with the outage. An evaluation that waits while its check
  is deleted opens an incident nothing closes (`alerting.md:144`). A turn is taken after the save
  (D-63): with two requests of one probe at once the newer report may be judged
  first. A crash between the incident and `keep` leaves an incident the recorded state knows nothing of.
- *Follow-ups.* A sweep with an old list may escalate after the recovery. One that listed an incident before it was
  acknowledged may still escalate it once and remind of it once (`alerting.md:101` says that acknowledging
  stops both). The rules are read after the list (`followups.rs:107`): an edit in between decides about what was listed before it.
  A restart between a record and its send loses that message: `alerting.md:103` and `followups.rs:7` say that a
  restart neither loses nor repeats one; an escalation lost so is never made up for.
  Silences at the recovery, and rules edited in between, keep the woken uninformed. Deletion tells
  nobody. A database error ends the sweep for the rest of its list.
- *Commands.* Two clicks at once queue a command twice (`commands.rs:120`). One cancelled while an
  answer is being made runs all the same (`commands.rs:195`). One queued between a poll's reading
  and its holding wakes nobody and is up to 25 s late (`poll.rs:152`; the comment at 103).
- *Keys.* A 401 for reports between `hub_secret.set` and the refresh. A probe enrolled again
  keeps its recorded pins and counts as ready (`storage/sqlite/probes.rs:92`). The previous key's week counts
  from the hub's switch, so a probe that hears late loses reports sealed meanwhile. A code made
  between the revocation and the refresh carries the old pins. A restart between
  `enrollment.json` and the black box's key purges the backlog (`main.rs:504`). And what has no lock:
  - a cancellation while the hub switches takes the next files away between two moves, or the switch is recorded as a
    cancellation (`service/rotation.rs:179`);
  - a start between a cancellation's row (186) and its removal of the files (193) loses the new
    rotation's files, and the next restart records a switch that never happened;
  - `prune_prev_key` (385) runs beside a "Switch now": when the previous switch's week is over, it may delete the
    previous key that `switch_files` (257) has just written, before `end_rotation`, and whoever hasn't
    heard yet is cut off;
  - the check's refresh (`hub/rotation.rs:217`) that reads before a switch and sets after it goes on telling the old
    pins: a probe on the new key is told that the hub switched to the old one;
  - a rotation that starts while a probe is still behind the last switch: `for_probe` announces the next pins instead of
    the switch, the probe saves (previous, next) and is cut off at once.
- *Updates.* `probe updates on` removes `update-failed.json`, but the running probe keeps the refusal
  and goes on reporting it (`update/state.rs:154`; `probe.md:126`). A Pause decided on old records stops
  a rollout promoted meanwhile. Approving an older release than a canary runs waits for
  ever (excluded in `Waiting`). A backlog report delivered by the new version confirms it. A
  crash inside `roll_back` leaves the bad version in place, and nothing takes it up again (`Stranded`).
- *Hub upgrade.* An error after the stop and before the rename leaves the service stopped. A crash between
  two renames leaves no program in place. One inside `restore_database` lets the next start
  create an empty database, which `healthy` takes for a good one, so that the upgrade may even be declared done;
  SQLite deletes the old log if that was not moved yet (`backup.rs:307`). The command's own stop may be what
  cuts the new hub's restore short. A kill in the midst of a migration, and as many starts as
  backups are kept (`Restart=always`), prune every backup of the old schema; so does a second upgrade of a
  half-migrated database. Nothing keeps two upgrade commands apart.
- *Checks.* Two edits at once can close the loop that `validate` refuses (`docs/DECISIONS.md:737`);
  when both checks are down, each is Unknown behind the other. `checks.rs:119`
  advises to save a secret again that can't be opened, but `resolve_secrets` opens the stored one first,
  and fails. A config refused for that stays refused after `hub_data.key` is put back, until a
  check is saved or the probe starts again.

## What is proved

### ReportDelivery

`ReportDelivery_proofs` proves, for any number of reports and requests, any buffer
limit, batch size and set of timestamps:

| Theorem | Statement |
|---|---|
| `TypeCorrect` | `Spec => []TypeOK` |
| `Accounting` | `Spec => []EachAccountedFor` |
| `Ordering` | `Spec => []OldestFirst` |
| `OnceOnly` | `Spec => []FollowedUpOnce` |
| `Bounded` | `Spec => []BufferBounded` |
| `NoneLost` | `~ClockStepsBack` implies `Spec => []DeliveredIsStored` |
| `Refinement` | `~ClockStepsBack` implies `Spec => ImplementsLog` |

They rest on the assumptions the module names: limits are naturals, a batch is not
empty, timestamps are naturals, `NoCall` is no request.

**The invariant.** None of the properties is inductive alone. `IInv` is

- `Structure`: types, which variables go together (`current` only while a report is in
  memory, `awaited` only while delivering, the batch within the black box), and
  `EachAccountedFor`. The probe's part of it is what makes the report under
  delivery the oldest one held;
- `OldestFirst`: only the oldest held report is sent, and what is under way or stored is
  never newer than a held one;
- `Saved`: a request in stage `saved`, or answered "stored", has its report stored;
- `FollowedUpOnce`, which needs that `save_report` decides and inserts in one step;
- `Clocked` and `DeliveredIsStored`, with a clock that only moves forward: the timestamp order is the
  number order, so a 409 for report *n* means that some report not older than *n* is
  stored; none newer can be, since *n* is still held (`OldestFirst`), so it is *n* itself.

`IInvInit` and `IInvNext` prove it inductive, one lemma for each part and one step for
each action. `Refinement` maps each step to a step of `ReportLog` or a stutter; its
`Store` case is `OldestFirst` again.

### ProbeExpiry and CheckAlerts

For any number of reports, tasks and faults, and any `FailAfter` and `RecoverAfter`:

| Theorem | Statement |
|---|---|
| `ProbeOnHub_proofs!TypeCorrect` | `Spec => []TypeOK` |
| `ProbeOnHub_proofs!OneAlert` | `Spec => []AlertedOnce` |
| `CheckAlerts_proofs!TypeCorrect` | `Spec => []TypeOK` |
| `CheckAlerts_proofs!Promise` | `Spec => []EnoughIsConfirmed` |
| `CheckAlerts_proofs!ResultsInOrder` | `Spec => []FollowsResults` |
| `CheckAlerts_proofs!IncidentFollows` | `Spec => []IncidentFollowsState` |
| `CheckAlerts_proofs!PeopleKnow` | `Spec => []ToldWhatIsConfirmed` |
| `CheckAlerts_proofs!SilenceEnds` | `Spec => []SilenceEndsWithOutage` |

They assume only that the policy's numbers are at least 1 and the bounds naturals.

**The turns** carry all of them: `Turns` says that who holds a turn has taken one, and
that a task acts only at the head of the queue, hence alone. `AppendFacts` and `TailFacts` say what
taking and dropping a turn do to the queue.

- `OneAlert`: who has read "not alerted yet" is alone until it has recorded
  (`Recorded`), so whoever reads next finds the alert recorded, or the probe re-armed.
- `Promise`: `RunWithinStreak` says that a run of equal results not yet confirmed is
  within the streak, and that the streak is too short to confirm them.
- `ResultsInOrder`: the results under way are a chain of flap states, one link for
  each turn, from the state kept (or what the head of the queue has
  judged) to what is due (`Linked`). A report adds to its end, a turn taken makes it a link,
  `Judge` reads its first link and `Keep` removes it. That holds however requests overlap, because it is
  about the order of the turns.
- The last three: `Followed` says how far ahead of the recorded state an
  evaluation is at each of its stages: the incident from its record on (`IncidentInStep`), people
  from the alert on (`ToldInStep`), the check's silence from the judgement on (`MutedInStep`), and
  that what it found is news exactly if it changes what is confirmed (`NewsIsChange`). Since
  evaluations act one at a time, the state it read is still the state when it writes.

### CommandChannel

For any commands, people, polls, limits and faults. `NamesAssumption` says that a poll is
not called "report" or "none".

| Theorem | Statement |
|---|---|
| `TypeCorrect` | `Spec => []TypeOK` |
| `RestartsOnly` | `Spec => []RunsNeedRestarts` |
| `ResultsUnderWay` | `Spec => []ResultOnItsWay` |
| `Refinement` | `Spec => ImplementsCommandLog` |

`Remembered`: a command the probe remembers has run at most once more than the probe went down, one
it doesn't remember at most as often as that; the type bound on `runs` follows. `OnlyKnown`: nothing is
sent, run or reported that was never queued. `Accounted`: while nothing has failed, a saved
report's list is what the outbox holds, and once it is recorded the hub waits for none of it.
That is what lets the probe empty the outbox on an answer without losing a result.

`Refinement` needs two more parts. `SentFirst`: what is on its way to the probe, or ran, was marked as sent
or was cancelled, but for the list a handler has read and not marked yet; so a command that ran is
not queued any more, and `cancel`, which takes only queued ones, comes too late for it. `RanFirst`: results, and
what a saved report says, are of commands that ran. Both hold whatever is lost, because a mark is in the
database before its answer leaves, and only the probe makes results. Each step that receives commands
is then `Run` of those not remembered (`Remembered`), `RecordResults` is `Complete`, `MarkDelivered` is `Send`.

### KeyRotation

For any number of probes, keys, enrollments and faults, and any length of the black box.

| Theorem | Statement |
|---|---|
| `TypeCorrect` | `Spec => []TypeOK` |
| `AnnouncedIsThere` | `Spec => []AnnouncedKeyKept` |
| `NobodyIsCutOff` | `Spec => []NobodyCutOff` |
| `BacklogStaysReadable` | `Spec => []BacklogReadable` |

All three hold of every behaviour; what they say is about the probes that nothing has led astray, until requests cross or
a late refresh sets what is not so any more (`Calm`). `IInv` is `Basics`, which always holds (types, and that a
probe between cycles has nothing of one), and `Calm => Strong`, which has a part for the hub and one for each probe not in `astray`.
History only grows (`HistoryGrows`), so a step into a calm state comes from one. `AnnouncedIsThere` needs only
`~crossed`.

- `Rows`, `HubInStep`, `ToldInStep`: how the key files, the row of `hub_rotations` and the
  running hub's secret stand to each other at each step of the switch, also when it was cut short, and
  beside each request and the check. `WhatIsSaid`: what an answer made in such a state says.
- `Unheard`: before the announcement no probe has the next key. `Spread`: how it gets there. The
  probe has it before the hub hears so; every report made after the first that says so says so too, and
  a probe that has it does not lose it. `IsReadyNow`: the switch begins when all have said so.
- `Turning`: from the switch to the end of the previous key, an active probe goes on with the
  hub's key, or with the previous one and the hub's as the next. `Settled`: after that, with
  the hub's only. `Both`: while the hub signs with another key than its files have, it has both.
- `EnrolledInStep`, `Knows`: an enrollment under way is for the hub's key; nothing but made keys is about.

### ProbeUpdates

For any number of probes, releases, starts, attempts and crashes.

| Theorem | Statement |
|---|---|
| `TypeCorrect` | `Spec => []TypeOK` |
| `GivenUpStaysOut` | `Spec => NotTriedAgain` |
| `CanariesRanIt` | `Spec => PromotesWhatRuns` |
| `AlwaysAbleToGoBack` | `Spec => []CanGoBack` |

`NotTriedAgain` and `PromotesWhatRuns` are action properties: no step puts a given-up version in
place; no step promotes one the canaries could not run. `Fetching` says what is known of a download at each
of its steps, `Standing` that a version on trial has an older one behind it and is not given up, `Notes`
how the note on disk and the one in memory stand, `Reporting` that whatever made, carries or recorded a
report can run. `SweepInv` carries that to the hub's sweep, from reading the records to
promoting. `AlwaysAbleToGoBack` adds `GoodBefore`: a version on trial stands before a good one, and a probe
without one runs a good one, or in either case one that a rollback cut short left there.

### IncidentFollowUps

For any saved routing rules, number of incidents, clock and faults, whatever overlaps.

| Theorem | Statement |
|---|---|
| `TypeCorrect` | `Spec => []TypeOK`, which includes that at most one incident is open |
| `OnlyAsAsked` | `Spec => []NoMoreThanAsked` |
| `OverIsOver` | `Spec => []StopsWhenOver` |

- `Asked`: for each incident, n reminders are spread over the time from its opening to its last recorded
  reminder by one of the intervals (`Spaced`), with one more while a recorded reminder is not yet sent.
  `SpacedOnceMore` adds a reminder: of two intervals the shorter one spaces all of them. `DueAfterInterval`: one
  that is due waited for an interval some saved rule has, which needs that `follow_up`'s minimum
  exists (`LeastIn`). An escalation is sent only by who recorded it first.
- `Stopped`: a message is late only if the sweep had listed the incident before it was over; up to the
  escalation none is, up to the reminder at most one.
- `OneOpen`: an evaluation that opens an incident has seen none, and none was opened since.

### HubUpgrade

For any number of upgrades, backups, restarts, rows and faults.

| Theorem | Statement |
|---|---|
| `TypeCorrect` | `Spec => []TypeOK` |
| `OwnSchema` | `Spec => []RunsOnItsSchema` |
| `AllKept` | `Spec => []NothingLost` |
| `BackupServed` | `Spec => []ServesWhatWasBackedUp` |
| `AlwaysAWayBack` | `Spec => []WayBack` |

`Programs`, `Processes` and `Databases` say what is in place, running and being written at each
step of the command; `Named` that backups have names of their own, `Kept` that what was accepted is in
the database, its log, or set aside. `MineHolds` and `Holds` add that every database still to be put back has what
the command backed up, unless a restore was cut short. `OldKept`: a database that is not of the old schema any more was
backed up while it was (`Reachable`), and the backups newer than that one are no more than those made since
(`since`), so a `make` that keeps `KeepPreUpgrade` has not pruned it before there are as many. No bound on restarts or
faults is assumed; the finding crash_loop is the case beyond.

### CheckConfig

For any checks and editors, any links to begin with that have no loop, any restarts and failures. The theorems are in
`ProbeOnHub_proofs`, whose second half they are.

| Theorem | Statement |
|---|---|
| `ConfigTypeCorrect` | `ConfigSpec => []ConfigTypeOK` |
| `SecretsThere` | `ConfigSpec => []EnabledHasSecret` |
| `NoWayBack` | `ConfigSpec => []LinksLeadUp` |
| `NoOutageHidden` | `ConfigSpec => []OutageIsNamed` |

- `SecretsInv`: what an editor is about to write has its secret too, whatever the other wrote since.
- `LinksInv`: links are between checks that are there, and an edit under way is of checks that are, or were:
  a check may be deleted between the look and the write.
- `LoopsInv`: without the links that an overtaken edit wrote (`Sound`) there is no loop, now and once any one edit that
  links checks, and that none has overtaken, is written. It says *no loop* without walking:
  every nonempty set of checks has one whose link leaves it (`Loopless`). That is easy to keep:
  taking links away keeps it (`FewerLinks`), and a new link keeps it unless its end leads
  back to its beginning (`NewLink`).
- The code walks (`ancestors`, `Up`). `ValidLink` brings the two together: if `validate`, walking
  up from the new link's end, doesn't meet the check, the link makes no loop; `LeadUp` the other way round: without a loop
  no walk comes back. `WayEnds` says why a walk of as many steps as there are checks is enough: it would
  otherwise have met more checks than there are. `RootNamed`: the farthest check that is down (`Farthest`) is the
  one told, and nothing above it is down.

The library's induction theorems take a predicate, which the provers can't instantiate. A property of
every place of a walk is proved instead as one of a *set* of numbers (`Upwards`: a set that has a, and n + 1 whenever it
has n below b, has a..b), which rests on `LeastNumber`. 

### Only model-checked

Every safety property of the runs that pass is a theorem. What stays with TLC:

- All liveness, which is outside TLAPS's reach.
- The three counterexamples, which are about instances by nature.

## What is left out

Cryptography and parsing (a signature is right or the request is refused); the contents
of reports, mails and pages; the checks themselves (I/O); the web UI; ACME;
installation; build and deployment tools. These are most of the code by lines, and have no
order of steps to get wrong. Left for later, as they have: what thresholds judge, the
maintenance calendar, the uses and expiry of enrollment codes, the digest's day, sign-in delays,
`hub restore`, pinned companies and update windows. `PROJECT.json` gives the reason for every
part that is not modelled.

## Plan

1. An abstract specification of an outage as people see it (CheckAlerts, ProbeExpiry) beside
   `ReportLog` and `CommandLog`, and its refinement.
2. Pure operators against reference definitions: thresholds, window schedules.
3. Enrollment codes; the daily digest; sign-in delays.
4. `hub restore` and the archive beside HubUpgrade's backups; two upgrade commands.
