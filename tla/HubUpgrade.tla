------------------------------ MODULE HubUpgrade ------------------------------
(***************************************************************************)
(* `hub upgrade` (hub/src/ops/hub_upgrade.rs): the command tests the new   *)
(* hub, backs the hub up, stops the service, puts the new program in place *)
(* and starts it; unless it stays up, the old program and the database of  *)
(* that backup come back.  The hub that starts meanwhile backs up and      *)
(* migrates the database by itself (ops/upgrade.rs), and the service       *)
(* manager starts it again whenever it ends.                               *)
(*                                                                         *)
(* A program and a schema are "old" or "new"; a migration cut short leaves *)
(* "half".  What the new hub is like is chosen at the start:               *)
(*   good:     it migrates the database and runs;                          *)
(*   crashing: it migrates the database, runs, and dies, soon or late;     *)
(*   stuck:    the copy migrates in its self-test, the database does not.  *)
(* Backups are named by the second they were begun in; `clock` only moves  *)
(* when that matters.  The database's contents are the rows it holds.      *)
(***************************************************************************)
EXTENDS Naturals, FiniteSets

CONSTANTS
  Kinds,          \* what the new hub may be like
  KeepPreUpgrade, \* KEEP_PRE_UPGRADE
  MaxUpgrades,    \* bound: how often the command is run
  MaxRestarts,    \* bound: how often the service manager starts the hub again
  MaxRows,        \* bound: what the hub accepts
  MaxFaults       \* bound: steps that fail, a process killed, a reboot

ASSUME UpgradeAssumption ==
  /\ Kinds \subseteq {"good", "crashing", "stuck"}
  /\ KeepPreUpgrade \in Nat \ {0} /\ MaxUpgrades \in Nat /\ MaxRestarts \in Nat
  /\ MaxRows \in Nat /\ MaxFaults \in Nat

VARIABLES
  kind,
  \* The command.
  step,     \* how far it is
  mine,     \* the second it began in, which names its backup
  base,     \* history: the rows of its backup
  \* The machine's disk.
  exe,      \* the program in place
  prev,     \* hub.prev
  db,       \* the database
  log,      \* the rows that are only in its write-ahead log, a file beside it
  backups,  \* the pre-upgrade backups
  aside,    \* the rows in the failed-upgrade folders
  \* The service.
  managed,  \* the service manager keeps it running
  hub,      \* how far the hub's process is
  runs,     \* the program it runs
  \* History.
  since,    \* how many backups were made since the last one of an old schema
  cut,      \* a restore_database was cut short, and neither the command's own
            \* restore nor a new command's backup has ended since
  dropped,  \* the rows of a log that was left behind by one
  \* What it accepted, and the bounds.
  accepted, clock, upgrades, restarts, faults

commandVars == <<step, mine, base>>
programVars == <<exe, prev>>
dataVars == <<db, log, backups, aside>>
serviceVars == <<managed, hub, runs>>
historyVars == <<since, cut, dropped>>
boundVars == <<clock, upgrades, restarts, faults>>
vars == <<kind, commandVars, programVars, dataVars, serviceVars, historyVars, accepted,
          boundVars>>

NoDatabase == [schema |-> "none", rows |-> {}]
Over == {"idle", "refused", "failed", "upgraded", "rolledBack", "killed"}

Init ==
  /\ kind \in Kinds
  /\ step = "idle" /\ mine = 0 /\ base = {}
  /\ exe = "old" /\ prev = "none"
  /\ db = [schema |-> "old", rows |-> {}] /\ log = {} /\ backups = {} /\ aside = {}
  /\ managed = TRUE /\ hub = "up" /\ runs = "old"
  /\ since = 0 /\ cut = FALSE /\ dropped = {}
  /\ accepted = 0 /\ clock = 0 /\ upgrades = 0 /\ restarts = 0 /\ faults = 0

-----------------------------------------------------------------------------
(***************************************************************************)
(* Backups.                                                                *)
(***************************************************************************)
\* Wrong on purpose: one is kept.
OnlyTheNewest(files) == {b \in files : \A c \in files : c.at <= b.at}

\* What prune leaves: the newest.
Newest(files) ==
  {b \in files : Cardinality({c \in files : c.at > b.at}) < KeepPreUpgrade}

\* make: one is never written over another of the same second.
Taken(at) == \E b \in backups : b.at = at
MakeBackup(at) ==
  /\ ~Taken(at) /\ db # NoDatabase
  /\ backups' = Newest(backups \union {[at |-> at, schema |-> db.schema, rows |-> db.rows]})
  /\ since' = IF db.schema = "old" THEN 0 ELSE since + 1

\* Wrong on purpose: what the failed upgrade left is overwritten.
Overwritten(at) == Taken(at) /\ db' = NoDatabase /\ UNCHANGED aside
\* Wrong on purpose: the first backup found.
WriteFirst(at) ==
  \E b \in backups :
    /\ \A c \in backups : b.at <= c.at
    /\ db' = [schema |-> b.schema, rows |-> b.rows]

\* restore_database: the backup is read, the database there set aside, ...
SetAside(at) ==
  /\ Taken(at)
  /\ aside' = aside \union (db.rows \ log)
  /\ db' = NoDatabase
\* ... then its log (and -shm, which holds nothing of its own), ...
SetLogAside ==
  /\ aside' = aside \union log
  /\ log' = {}
\* ... and the one from the backup is written.  (A write cut short leaves an empty
\* file, which is no database to any hub, or a part, with which none starts.)
WriteBack(at) ==
  \E b \in backups : b.at = at /\ db' = [schema |-> b.schema, rows |-> b.rows]

-----------------------------------------------------------------------------
(***************************************************************************)
(* The hub's process.                                                      *)
(***************************************************************************)
Start ==
  /\ exe # "none"
  /\ managed' = TRUE /\ hub' = "starting" /\ runs' = exe

\* Restart=always, five seconds later.
Restart ==
  /\ managed /\ hub = "off" /\ restarts < MaxRestarts
  /\ Start
  /\ clock' = clock + 1 /\ restarts' = restarts + 1
  /\ UNCHANGED <<kind, commandVars, programVars, dataVars, historyVars, accepted, upgrades,
                 faults>>

\* older_schema: nothing that isn't there is older.
Older == runs = "new" /\ db.schema \in {"old", "half"}

\* open_database: an older schema is backed up first.
BackUpFirst ==
  /\ hub = "starting" /\ Older
  /\ \/ MakeBackup(clock) /\ hub' = "migrating"
     \/ Taken(clock) /\ hub' = "off" /\ UNCHANGED <<backups, since>>
  /\ UNCHANGED <<kind, commandVars, programVars, db, log, aside, managed, runs, cut, dropped,
                 accepted, boundVars>>

\* open_database otherwise: a newer one is refused, ...
Open ==
  /\ hub = "starting" /\ ~Older /\ db # NoDatabase
  /\ hub' = IF db.schema = runs THEN "up" ELSE "off"
  /\ UNCHANGED <<kind, commandVars, programVars, dataVars, managed, runs, historyVars, accepted,
                 boundVars>>

\* ... and a missing one created (SQLite deletes a log that was left there).
Create ==
  /\ hub = "starting" /\ db = NoDatabase
  /\ db' = [schema |-> runs, rows |-> {}] /\ hub' = "up"
  /\ log' = {} /\ dropped' = dropped \union log
  /\ UNCHANGED <<kind, commandVars, programVars, backups, aside, managed, runs, since, cut,
                 accepted, boundVars>>

\* The first migrations are in.
MigrateSome ==
  /\ hub = "migrating" /\ db.schema = "old"
  /\ db' = [db EXCEPT !.schema = "half"]
  /\ UNCHANGED <<kind, commandVars, programVars, log, backups, aside, serviceVars, historyVars,
                 accepted, boundVars>>

\* All are in; or one fails, and the database is put back as it was.
Migrate ==
  /\ hub = "migrating"
  /\ IF kind = "stuck"
     THEN SetAside(clock) /\ hub' = "dbAside"
     ELSE db' = [db EXCEPT !.schema = "new"] /\ hub' = "up" /\ UNCHANGED aside
  /\ UNCHANGED <<kind, commandVars, programVars, log, backups, managed, runs, historyVars,
                 accepted, boundVars>>

PutLogAside ==
  /\ hub = "dbAside"
  /\ SetLogAside
  /\ hub' = "logAside"
  /\ UNCHANGED <<kind, commandVars, programVars, db, backups, managed, runs, historyVars,
                 accepted, boundVars>>

PutBackAndExit ==
  /\ hub = "logAside"
  /\ WriteBack(clock)
  /\ hub' = "off"
  /\ UNCHANGED <<kind, commandVars, programVars, log, backups, aside, managed, runs, historyVars,
                 accepted, boundVars>>

StaysUp == runs = "old" \/ kind # "crashing"
Die ==
  /\ hub = "up" /\ ~StaysUp
  /\ hub' = "off"
  /\ UNCHANGED <<kind, commandVars, programVars, dataVars, managed, runs, historyVars, accepted,
                 boundVars>>

\* A report, or anything else the hub was told and said yes to.  It is in the
\* log, which SQLite may write into the database then.
Accept ==
  /\ hub = "up" /\ accepted < MaxRows
  /\ accepted' = accepted + 1
  /\ db' = [db EXCEPT !.rows = @ \union {accepted'}]
  /\ log' \in {{}, log \union {accepted'}}
  /\ UNCHANGED <<kind, commandVars, programVars, backups, aside, serviceVars, historyVars,
                 boundVars>>

\* A restore_database has begun to move files and not yet written the database.
HubRestores == hub \in {"dbAside", "logAside"}
CommandRestores == step \in {"dbAside", "logAside"}

-----------------------------------------------------------------------------
(***************************************************************************)
(* The command, up to the switch.                                          *)
(***************************************************************************)
Goes(from, to) == step = from /\ step' = to

\* prepare: only from the old program, and to a newer one.
Prepare ==
  /\ step \in Over /\ exe = "old" /\ upgrades < MaxUpgrades
  /\ clock' \in clock .. clock + 1 /\ mine' = clock'
  /\ step' = "staged" /\ upgrades' = upgrades + 1
  /\ UNCHANGED <<kind, base, programVars, dataVars, serviceVars, historyVars, accepted, restarts,
                 faults>>

SelfTest ==
  /\ Goes("staged", "tested") \/ Goes("staged", "refused")
  /\ UNCHANGED <<kind, mine, base, programVars, dataVars, serviceVars, historyVars, accepted,
                 boundVars>>

\* Nothing was changed if this fails.
BackUp ==
  /\ \/ Goes("tested", "backedUp") /\ MakeBackup(mine) /\ base' = db.rows /\ cut' = FALSE
     \/ Goes("tested", "refused") /\ (Taken(mine) \/ db = NoDatabase)
        /\ UNCHANGED <<backups, base, since, cut>>
  /\ UNCHANGED <<kind, mine, programVars, db, log, aside, serviceVars, dropped, accepted,
                 boundVars>>

\* Wrong on purpose: the process may still be there.
StopAsked == managed' = FALSE /\ UNCHANGED <<hub, runs, cut>>

\* stop: the process ends wherever it is, and stays off.
Stopped ==
  /\ managed' = FALSE /\ hub' = "off" /\ cut' = (cut \/ HubRestores)
  /\ UNCHANGED runs
StopOld ==
  /\ Goes("backedUp", "stopped")
  /\ Stopped
  /\ UNCHANGED <<kind, mine, base, programVars, dataVars, since, dropped, accepted, boundVars>>

MoveOldAside ==
  /\ Goes("stopped", "moved")
  /\ prev' = exe /\ exe' = "none"
  /\ UNCHANGED <<kind, mine, base, dataVars, serviceVars, historyVars, accepted, boundVars>>

PutNew ==
  /\ Goes("moved", "placed")
  /\ exe' = "new" /\ UNCHANGED prev
  /\ UNCHANGED <<kind, mine, base, dataVars, serviceVars, historyVars, accepted, boundVars>>

\* The first start may still fall in the second the command began in.
StartNew ==
  /\ Goes("placed", "watching")
  /\ Start
  /\ clock' \in clock .. clock + 1
  /\ UNCHANGED <<kind, mine, base, programVars, dataVars, historyVars, accepted, upgrades,
                 restarts, faults>>

\* healthy: it answers in time, and every second for a while.  One that dies
\* may do so then or later: the command can't tell.
Healthy ==
  /\ Goes("watching", "upgraded") \/ Goes("checking", "rolledBack")
  /\ hub = "up"
  /\ UNCHANGED <<kind, mine, base, programVars, dataVars, serviceVars, historyVars, accepted,
                 boundVars>>
Unhealthy ==
  /\ Goes("watching", "unhealthy") \/ Goes("checking", "failed")
  /\ ~(hub = "up" /\ StaysUp)
  /\ UNCHANGED <<kind, mine, base, programVars, dataVars, serviceVars, historyVars, accepted,
                 boundVars>>

-----------------------------------------------------------------------------
(***************************************************************************)
(* The command, on its way back.                                           *)
(***************************************************************************)
StopNew ==
  /\ Goes("unhealthy", "stoppedNew")
  /\ Stopped
  /\ UNCHANGED <<kind, mine, base, programVars, dataVars, since, dropped, accepted, boundVars>>

MoveNewAside ==
  /\ Goes("stoppedNew", "movedNew")
  /\ exe' = "none" /\ UNCHANGED prev
  /\ UNCHANGED <<kind, mine, base, dataVars, serviceVars, historyVars, accepted, boundVars>>

PutOldBack ==
  /\ Goes("movedNew", "oldBack")
  /\ exe' = prev /\ prev' = "none"
  /\ UNCHANGED <<kind, mine, base, dataVars, serviceVars, historyVars, accepted, boundVars>>

\* Wrong on purpose: the old program gets the database as the new one left it.
LeaveDatabase ==
  /\ Goes("oldBack", "dbBack")
  /\ UNCHANGED <<kind, mine, base, programVars, dataVars, serviceVars, historyVars, accepted,
                 boundVars>>

\* Without its backup the command ends here, and the service stays off.
SetDatabaseAside ==
  /\ \/ Goes("oldBack", "dbAside") /\ SetAside(mine)
     \/ Goes("oldBack", "failed") /\ ~Taken(mine) /\ UNCHANGED <<db, aside>>
  /\ UNCHANGED <<kind, mine, base, programVars, log, backups, serviceVars, historyVars, accepted,
                 boundVars>>

SetDatabaseLogAside ==
  /\ Goes("dbAside", "logAside")
  /\ SetLogAside
  /\ UNCHANGED <<kind, mine, base, programVars, db, backups, serviceVars, historyVars, accepted,
                 boundVars>>

PutDatabaseBack ==
  /\ Goes("logAside", "dbBack")
  /\ WriteBack(mine)
  /\ cut' = FALSE
  /\ UNCHANGED <<kind, mine, base, programVars, log, backups, aside, serviceVars, since, dropped,
                 accepted, boundVars>>

StartOld ==
  /\ Goes("dbBack", "checking")
  /\ Start
  /\ clock' = clock + 1
  /\ UNCHANGED <<kind, mine, base, programVars, dataVars, historyVars, accepted, upgrades,
                 restarts, faults>>

-----------------------------------------------------------------------------
(***************************************************************************)
(* What goes wrong.                                                        *)
(***************************************************************************)
Fault == faults < MaxFaults /\ faults' = faults + 1

\* A step that returns an error ends the command with all as it is ...
Bails ==
  /\ Fault
  /\ \/ Goes("tested", "refused")
     \/ \E s \in {"backedUp", "stopped", "unhealthy", "stoppedNew", "movedNew", "oldBack",
                 "dbAside", "logAside", "dbBack"} : Goes(s, "failed")
  /\ cut' = (cut \/ CommandRestores)
  /\ UNCHANGED <<kind, mine, base, programVars, dataVars, serviceVars, since, dropped, accepted,
                 clock, upgrades, restarts>>

\* ... but if the new program can't be put in place, the old one is started,
PutsOldBackAtOnce ==
  /\ Fault
  /\ Goes("moved", "failed")
  /\ exe' = prev /\ prev' = "none"
  /\ managed' = TRUE /\ hub' = "starting" /\ runs' = prev
  /\ UNCHANGED <<kind, mine, base, dataVars, historyVars, accepted, clock, upgrades, restarts>>

\* ... and if it can't be started, the command goes back.
CantStart ==
  /\ Fault
  /\ Goes("placed", "unhealthy")
  /\ UNCHANGED <<kind, mine, base, programVars, dataVars, serviceVars, historyVars, accepted,
                 clock, upgrades, restarts>>

Killed == step' = IF step \in Over THEN step ELSE "killed"
Kill ==
  /\ Fault
  /\ step \notin Over /\ Killed
  /\ cut' = (cut \/ CommandRestores)
  /\ UNCHANGED <<kind, mine, base, programVars, dataVars, serviceVars, since, dropped, accepted,
                 clock, upgrades, restarts>>

\* The hub's process is killed, or its restore_database fails.
HubEnds ==
  /\ Fault
  /\ hub # "off" /\ hub' = "off"
  /\ cut' = (cut \/ HubRestores)
  /\ UNCHANGED <<kind, commandVars, programVars, dataVars, managed, runs, since, dropped,
                 accepted, clock, upgrades, restarts>>

\* The service is enabled: it starts with the machine, if there is a program.
Reboot ==
  /\ Fault
  /\ Killed
  /\ IF exe = "none" THEN managed' = TRUE /\ hub' = "off" /\ UNCHANGED runs ELSE Start
  /\ clock' = clock + 1
  /\ cut' = (cut \/ CommandRestores \/ HubRestores)
  /\ UNCHANGED <<kind, mine, base, programVars, dataVars, since, dropped, accepted, upgrades,
                 restarts>>

Command ==
  \/ SelfTest \/ BackUp \/ StopOld \/ MoveOldAside \/ PutNew \/ StartNew \/ Healthy \/ Unhealthy
  \/ StopNew \/ MoveNewAside \/ PutOldBack \/ SetDatabaseAside \/ SetDatabaseLogAside
  \/ PutDatabaseBack \/ StartOld
Process ==
  BackUpFirst \/ Open \/ Create \/ MigrateSome \/ Migrate \/ PutLogAside \/ PutBackAndExit
Trouble == Bails \/ PutsOldBackAtOnce \/ CantStart \/ Kill \/ HubEnds \/ Reboot

Next == Prepare \/ Command \/ Process \/ Restart \/ Die \/ Accept \/ Trouble

Spec == Init /\ [][Next]_vars
FairSpec == Spec /\ WF_vars(Command) /\ WF_vars(Process)

-----------------------------------------------------------------------------
\* Every variable has its type, and prune keeps as many as it may.
TypeOK ==
  /\ kind \in Kinds
  /\ step \in Over \union
       {"staged", "tested", "backedUp", "stopped", "moved", "placed", "watching", "unhealthy",
        "stoppedNew", "movedNew", "oldBack", "dbAside", "logAside", "dbBack", "checking"}
  /\ mine \in Nat /\ base \subseteq 1 .. accepted
  /\ exe \in {"none", "old", "new"} /\ prev \in {"none", "old"}
  /\ db \in [schema : {"none", "old", "half", "new"}, rows : SUBSET (1 .. accepted)]
  /\ backups \subseteq [at : Nat, schema : {"old", "half", "new"}, rows : SUBSET (1 .. accepted)]
  /\ Cardinality(backups) <= KeepPreUpgrade
  /\ log \subseteq 1 .. accepted /\ aside \subseteq 1 .. accepted
  /\ managed \in BOOLEAN /\ runs \in {"old", "new"}
  /\ hub \in {"off", "starting", "migrating", "dbAside", "logAside", "up"}
  /\ since \in Nat /\ cut \in BOOLEAN /\ dropped \subseteq 1 .. accepted
  /\ accepted \in 0 .. MaxRows /\ clock \in Nat
  /\ upgrades \in 0 .. MaxUpgrades /\ restarts \in 0 .. MaxRestarts /\ faults \in 0 .. MaxFaults

(***************************************************************************)
(* Whatever happens to the command, the machine or the new hub, the old    *)
(* program is on the disk; and so is a database it can open, in its place  *)
(* or in a backup, until KEEP_PRE_UPGRADE backups have been made of one    *)
(* that was already migrated, in part or whole: till then an admin can go  *)
(* back.                                                                   *)
(***************************************************************************)
WayBack ==
  /\ "old" \in {exe, prev}
  /\ \/ db.schema = "old"
     \/ \E b \in backups : b.schema = "old"
     \/ since >= KeepPreUpgrade

(***************************************************************************)
(* A hub that answers has a database of its own schema: no database is     *)
(* replaced while a hub has it open, and none is opened by the other       *)
(* program's hub.                                                          *)
(***************************************************************************)
RunsOnItsSchema == hub = "up" => db.schema = runs

(***************************************************************************)
(* A hub that answers has everything the command's backup has: what a way  *)
(* back costs is at most what was accepted after that backup began.  The   *)
(* one exception is a restore_database that was cut short between its      *)
(* first move and the end of its write, and not made good by the command's *)
(* own: the next hub to start finds no database, and makes an empty one.   *)
(***************************************************************************)
ServesWhatWasBackedUp == hub = "up" /\ ~cut => base \subseteq db.rows

(***************************************************************************)
(* Nothing that any of the hubs accepted is deleted: it is in the          *)
(* database, in a folder set aside, or in a backup.  The one exception is  *)
(* what was in the log of a database that was set aside alone, because     *)
(* restore_database was cut short before the log's move: the next hub's    *)
(* empty database takes its place.                                         *)
(***************************************************************************)
NothingLost ==
  \A r \in (1 .. accepted) \ dropped :
    r \in db.rows \union log \union aside \/ \E b \in backups : r \in b.rows

(***************************************************************************)
(* A command that is about to stop a hub that answers ends, and a hub      *)
(* answers again, the new one or the old one, unless a step fails or is    *)
(* cut short, or the backups of a new hub that keeps being started have    *)
(* pruned the command's own (the run crash_loop).                          *)
(***************************************************************************)
EndsServing ==
  (step = "backedUp" /\ hub = "up")
    ~> (faults > 0 \/ (step \in Over /\ hub = "up") \/ (step = "failed" /\ ~Taken(mine)))

(***************************************************************************)
(* docs/install/hub.md:190: a new hub that does not keep running is        *)
(* replaced by the old program "and the database from that backup".  So    *)
(* that backup has to be there when it is needed.                          *)
(***************************************************************************)
ThatBackupIsThere ==
  step \in {"watching", "unhealthy", "stoppedNew", "movedNew", "oldBack"} => Taken(mine)
===============================================================================
