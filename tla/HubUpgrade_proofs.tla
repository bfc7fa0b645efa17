--------------------------- MODULE HubUpgrade_proofs ---------------------------
(***************************************************************************)
(* Proofs about HubUpgrade, for any number of upgrades, restarts, rows and *)
(* faults.  The command and the hub's process keep out of each other's way *)
(* because the command stops the service before it moves anything; what a  *)
(* way back needs is a backup that the later ones have not pushed out.     *)
(***************************************************************************)
EXTENDS HubUpgrade, FiniteSetTheorems, WellFoundedInduction, TLAPS

BeforeSwitch == {"staged", "tested", "backedUp", "stopped"}
NewInPlace == {"placed", "watching", "unhealthy", "stoppedNew"}
OldInPlace == {"oldBack", "dbAside", "logAside", "dbBack", "checking"}
ServiceOff ==
  {"stopped", "moved", "placed", "stoppedNew", "movedNew", "oldBack", "dbAside", "logAside",
   "dbBack"}
\* From the command's backup to its use.
HasBackup ==
  {"backedUp", "stopped", "moved", "placed", "watching", "unhealthy", "stoppedNew",
   "movedNew", "oldBack", "dbAside", "logAside"}

\* Where the command is says which program is in place, and the old one is kept.
Programs ==
  /\ mine <= clock
  /\ step \in BeforeSwitch \union OldInPlace => exe = "old"
  /\ step \in {"moved", "movedNew"} => exe = "none"
  /\ step \in NewInPlace => exe = "new"
  /\ exe # "old" => prev = "old"

\* A process runs the program in place, and none runs while the command changes
\* programs or the database.
Processes ==
  /\ step \in ServiceOff => ~managed /\ hub = "off"
  /\ hub # "off" => runs = exe
  /\ hub \in {"migrating", "dbAside", "logAside"} => runs = "new"

\* What is there of a database, and of its log, while it is migrated or replaced.
Databases ==
  /\ hub = "migrating" => db.schema \in {"old", "half"}
  /\ HubRestores \/ CommandRestores => db = NoDatabase
  /\ hub = "logAside" \/ step = "logAside" => log = {}
  /\ db.schema = "none" => db = NoDatabase
  /\ db # NoDatabase => log \subseteq db.rows

\* Backups have names of their own, none from the future.
Named ==
  /\ IsFiniteSet(backups)
  /\ \A b, c \in backups : b.at = c.at => b = c
  /\ \A b \in backups : b.at <= clock

\* What was accepted is in the database, its log, or set aside.
Kept == \A r \in (1 .. accepted) \ dropped : r \in db.rows \union log \union aside

IInv == TypeOK /\ Programs /\ Processes /\ Databases /\ Named /\ Kept /\ RunsOnItsSchema

\* The command's backup is there at first, and has what it backed up; ...
MineHolds ==
  step \in HasBackup =>
    /\ \A b \in backups : b.at = mine => base \subseteq b.rows
    /\ clock = mine => Taken(mine)

\* ... so does wherever a database is taken from, unless a restore was cut short.
Holds ==
  ~cut =>
    /\ db = NoDatabase => HubRestores \/ CommandRestores
    /\ db # NoDatabase => base \subseteq db.rows
    /\ hub \in {"migrating", "dbAside", "logAside"} =>
         \A b \in backups : b.at = clock => base \subseteq b.rows

\* An old schema is backed up before it is replaced, and that backup is pushed out
\* only by the later ones, which are of another schema.
Newer(b) == {c \in backups : c.at > b.at}
Reachable(b) == b.schema = "old" /\ Cardinality(Newer(b)) <= since
OldKept ==
  /\ step \in {"staged", "tested"} => \A b \in backups : b.at <= mine
  /\ step = "backedUp" => db # NoDatabase
  /\ hub = "migrating" \/ step \in HasBackup \/ db.schema # "old" =>
       since >= KeepPreUpgrade \/ \E b \in backups : Reachable(b)
-----------------------------------------------------------------------------
(***************************************************************************)
(* Backups.                                                                *)
(***************************************************************************)
Dated(files) ==
  /\ IsFiniteSet(files)
  /\ \A b \in files : b.at \in Nat
  /\ \A b, c \in files : b.at = c.at => b = c

\* A nonempty set of backups has an oldest one.
LEMMA OldestExists ==
  ASSUME NEW files, Dated(files), files # {}
  PROVE  \E b \in files : \A c \in files : b.at <= c.at
<1> DEFINE Before(b) == {c \in files : c.at < b.at}
           T == {Before(b) : b \in files}
<1>1. T \subseteq FiniteSubsetsOf(files) /\ T # {}
  <2>1. \A b \in files : Before(b) \in SUBSET files /\ IsFiniteSet(Before(b))
    BY FS_Subset DEF Dated
  <2> QED BY <2>1 DEF FiniteSubsetsOf
<1>2. PICK X \in T : \A Y \in T : <<Y, X>> \notin StrictSubsetOrdering(files)
  BY <1>1, FS_StrictSubsetOrderingWellFounded, WFMin, Zenon
<1>3. PICK b \in files : X = Before(b)
  OBVIOUS
<1>4. ASSUME NEW c \in files, c.at < b.at
      PROVE  FALSE
  <2>1. Before(c) \in SUBSET files /\ Before(b) \in SUBSET files
    OBVIOUS
  <2>2. Before(c) \subseteq Before(b)
    BY <1>4 DEF Dated
  <2>3. c \in Before(b) /\ c \notin Before(c)
    BY <1>4 DEF Dated
  <2>4. <<Before(c), Before(b)>> \in StrictSubsetOrdering(files)
    BY <2>1, <2>2, <2>3 DEF StrictSubsetOrdering
  <2> QED BY <1>2, <1>3, <2>4
<1> QED BY <1>4 DEF Dated

\* prune leaves no more than it may.
LEMMA NewestAreFew ==
  ASSUME NEW files, Dated(files)
  PROVE  IsFiniteSet(Newest(files)) /\ Cardinality(Newest(files)) <= KeepPreUpgrade
<1> DEFINE N == Newest(files)
<1>1. N \in SUBSET files
  BY DEF Newest
<1>2. IsFiniteSet(N)
  BY <1>1, FS_Subset, Zenon DEF Dated
<1>3. CASE N = {}
  BY <1>3, FS_EmptySet, UpgradeAssumption
<1>4. CASE N # {}
  <2>1. PICK b \in N : \A c \in N : b.at <= c.at
    <3>1. Dated(N)
      BY <1>1, <1>2 DEF Dated
    <3> QED BY <1>4, <3>1, OldestExists, Zenon
  <2> DEFINE G == {c \in files : c.at > b.at}
  <2>2. Cardinality(G) < KeepPreUpgrade
    BY DEF Newest
  <2>3. IsFiniteSet(G) /\ IsFiniteSet(N \ {b})
    BY <1>2, FS_Subset, FS_RemoveElement DEF Dated
  <2>4. N \ {b} \in SUBSET G
    BY <1>1, <2>1 DEF Dated
  <2>5. Cardinality(N \ {b}) <= Cardinality(G)
    BY <2>3, <2>4, FS_Subset, Zenon
  <2>6. Cardinality(N \ {b}) = Cardinality(N) - 1
    BY <1>2, FS_RemoveElement, Zenon
  <2>7. Cardinality(N) \in Nat /\ Cardinality(G) \in Nat
    BY <1>2, <2>3, FS_CardinalityType, Zenon
  <2> QED BY <1>2, <2>2, <2>5, <2>6, <2>7, UpgradeAssumption
<1> QED BY <1>2, <1>3, <1>4
\* One more backup, no newer than now: it has a name of its own, one of this
\* very second is kept, and it is one more that is newer than an older one.
FileOf(at) == [at |-> at, schema |-> db.schema, rows |-> db.rows]

LEMMA MakeBackupFacts ==
  ASSUME TypeOK, Named, Databases, NEW at \in Nat, at <= clock, MakeBackup(at)
  PROVE  /\ backups' \subseteq backups \union {FileOf(at)}
         /\ backups' \subseteq [at : Nat, schema : {"old", "half", "new"}, rows : SUBSET (1 .. accepted)]
         /\ IsFiniteSet(backups') /\ Cardinality(backups') <= KeepPreUpgrade
         /\ \A b, c \in backups' : b.at = c.at => b = c
         /\ \A b \in backups' : b.at <= clock
         /\ (\A b \in backups : b.at <= at) => FileOf(at) \in backups'
         /\ \A b \in backups :
              LET newer == Cardinality(Newer(b))
              IN  /\ newer \in Nat
                  /\ newer + 1 < KeepPreUpgrade => b \in backups'
                  /\ Cardinality({c \in backups' : c.at > b.at}) \in 0 .. newer + 1
<1> DEFINE f == FileOf(at)
           files == backups \union {f}
<1>1. backups' = Newest(files) /\ db # NoDatabase /\ ~Taken(at)
  BY DEF MakeBackup, FileOf
<1>2. f \in [at : Nat, schema : {"old", "half", "new"}, rows : SUBSET (1 .. accepted)]
  BY <1>1 DEF TypeOK, Databases, FileOf
<1>3. files \subseteq [at : Nat, schema : {"old", "half", "new"}, rows : SUBSET (1 .. accepted)]
  BY <1>2 DEF TypeOK
<1>4. \A b \in backups : b.at # at
  BY <1>1 DEF Taken
<1>5. Dated(files)
  <2>1. IsFiniteSet(files)
    BY FS_AddElement, Zenon DEF Named
  <2>2. \A b, c \in files : b.at = c.at => b = c
    BY <1>4 DEF Named, FileOf
  <2> QED BY <1>3, <2>1, <2>2 DEF Dated
<1>6. backups' \in SUBSET files /\ IsFiniteSet(backups') /\ Cardinality(backups') <= KeepPreUpgrade
  BY <1>1, <1>5, NewestAreFew DEF Newest
<1>7. \A b \in files : b.at <= clock
  BY DEF Named, FileOf
<1>8. ASSUME \A b \in backups : b.at <= at
      PROVE  f \in backups'
  <2>1. {c \in files : c.at > f.at} = {}
    BY <1>3, <1>8 DEF FileOf, TypeOK
  <2>2. Cardinality({c \in files : c.at > f.at}) < KeepPreUpgrade
    BY <2>1, FS_EmptySet, UpgradeAssumption
  <2> QED BY <1>1, <2>2 DEF Newest
<1>9. ASSUME NEW b \in backups
      PROVE  LET newer == Cardinality(Newer(b))
             IN  /\ newer \in Nat
                 /\ newer + 1 < KeepPreUpgrade => b \in backups'
                 /\ Cardinality({c \in backups' : c.at > b.at}) \in 0 .. newer + 1
  <2> DEFINE G == {c \in files : c.at > b.at}
             H == {c \in backups' : c.at > b.at}
  <2>1. IsFiniteSet(Newer(b)) /\ Cardinality(Newer(b)) \in Nat
    BY FS_Subset, FS_CardinalityType DEF Newer, Named
  <2>2. /\ IsFiniteSet(Newer(b) \union {f})
        /\ Cardinality(Newer(b) \union {f}) <= Cardinality(Newer(b)) + 1
    <3>1. /\ IsFiniteSet(Newer(b) \union {f})
          /\ Cardinality(Newer(b) \union {f}) =
               IF f \in Newer(b) THEN Cardinality(Newer(b)) ELSE Cardinality(Newer(b)) + 1
      BY <2>1, FS_AddElement, Zenon
    <3> QED BY <2>1, <3>1
  <2>3. G \in SUBSET (Newer(b) \union {f}) /\ H \in SUBSET G
    BY <1>6 DEF Newer
  <2>4. IsFiniteSet(G) /\ Cardinality(G) <= Cardinality(Newer(b) \union {f})
    BY <2>2, <2>3, FS_Subset, Zenon
  <2>5. IsFiniteSet(H) /\ Cardinality(H) <= Cardinality(G)
    BY <2>3, <2>4, FS_Subset, Zenon
  <2>6. /\ Cardinality(H) \in Nat /\ Cardinality(G) \in Nat
        /\ Cardinality(Newer(b) \union {f}) \in Nat
    BY <2>2, <2>4, <2>5, FS_CardinalityType, Zenon
  <2>7. Cardinality(H) \in 0 .. Cardinality(Newer(b)) + 1
    BY <2>1, <2>2, <2>4, <2>5, <2>6
  <2>8. ASSUME Cardinality(Newer(b)) + 1 < KeepPreUpgrade
        PROVE  b \in backups'
    <3>1. Cardinality(G) < KeepPreUpgrade
      BY <2>1, <2>2, <2>4, <2>6, <2>8, UpgradeAssumption
    <3> QED BY <1>1, <3>1 DEF Newest
  <2> QED BY <2>1, <2>7, <2>8
<1>10. \A b, c \in backups' : b.at = c.at => b = c
  BY <1>5, <1>6 DEF Dated
<1> QED BY <1>3, <1>6, <1>7, <1>8, <1>9, <1>10
-----------------------------------------------------------------------------
(***************************************************************************)
(* The part of the invariant that needs no history.                        *)
(***************************************************************************)
\* A process that starts, or is stopped, and the steps of the command.
Stages == Over \union BeforeSwitch \union NewInPlace \union OldInPlace \union {"moved", "movedNew"}

ControlTypes ==
  /\ kind \in Kinds /\ step \in Stages /\ mine \in Nat
  /\ exe \in {"none", "old", "new"} /\ prev \in {"none", "old"}
  /\ managed \in BOOLEAN /\ runs \in {"old", "new"}
  /\ hub \in {"off", "starting", "migrating", "dbAside", "logAside", "up"}
  /\ clock \in Nat
  /\ upgrades \in 0 .. MaxUpgrades /\ restarts \in 0 .. MaxRestarts /\ faults \in 0 .. MaxFaults

LEMMA ControlKept ==
  ASSUME ControlTypes, Programs, Processes, [Next]_vars
  PROVE  ControlTypes' /\ Programs' /\ Processes'
<1> USE UpgradeAssumption
    DEF ControlTypes, Programs, Processes, Stages, Over, BeforeSwitch, NewInPlace, OldInPlace,
        ServiceOff, Goes, commandVars, programVars, dataVars, serviceVars, boundVars
<1>1. CASE Prepare
  BY <1>1 DEF Prepare
<1>2. CASE SelfTest \/ BackUp
  BY <1>2 DEF SelfTest, BackUp
<1>3. CASE StopOld \/ MoveOldAside \/ PutNew
  <2>1. CASE StopOld
    BY <2>1 DEF StopOld, Stopped
  <2>2. CASE MoveOldAside
    BY <2>2 DEF MoveOldAside
  <2>3. CASE PutNew
    BY <2>3 DEF PutNew
  <2> QED BY <1>3, <2>1, <2>2, <2>3
<1>4. CASE StartNew
  BY <1>4 DEF StartNew, Start
<1>5. CASE Healthy \/ Unhealthy
  BY <1>5 DEF Healthy, Unhealthy
<1>6. CASE StopNew \/ MoveNewAside \/ PutOldBack
  <2>1. CASE StopNew
    BY <2>1 DEF StopNew, Stopped
  <2>2. CASE MoveNewAside
    BY <2>2 DEF MoveNewAside
  <2>3. CASE PutOldBack
    BY <2>3 DEF PutOldBack
  <2> QED BY <1>6, <2>1, <2>2, <2>3
<1>7. CASE SetDatabaseAside \/ SetDatabaseLogAside \/ PutDatabaseBack
  BY <1>7 DEF SetDatabaseAside, SetDatabaseLogAside, PutDatabaseBack
<1>8. CASE StartOld
  BY <1>8 DEF StartOld, Start
<1>9. CASE BackUpFirst \/ Open \/ Create
  BY <1>9 DEF BackUpFirst, Open, Create, Older
<1>10. CASE MigrateSome \/ Migrate \/ PutLogAside \/ PutBackAndExit
  BY <1>10 DEF MigrateSome, Migrate, PutLogAside, PutBackAndExit
<1>11. CASE Restart
  BY <1>11 DEF Restart, Start
<1>12. CASE Die \/ Accept
  BY <1>12 DEF Die, Accept
<1>13. CASE Bails
  BY <1>13 DEF Bails, Fault
<1>14. CASE PutsOldBackAtOnce \/ CantStart
  <2>1. CASE PutsOldBackAtOnce
    BY <2>1 DEF PutsOldBackAtOnce, Fault
  <2>2. CASE CantStart
    BY <2>2 DEF CantStart, Fault
  <2> QED BY <1>14, <2>1, <2>2
<1>15. CASE Kill \/ HubEnds
  BY <1>15 DEF Kill, Killed, HubEnds, Fault
<1>16. CASE Reboot
  <2>1. step' \in Over
    BY <1>16 DEF Reboot, Killed
  <2>2. CASE exe = "none"
    BY <1>16, <2>1, <2>2 DEF Reboot, Fault
  <2>3. CASE exe # "none"
    BY <1>16, <2>1, <2>3 DEF Reboot, Fault, Start
  <2> QED BY <2>2, <2>3
<1>17. CASE UNCHANGED vars
  BY <1>17 DEF vars
<1> QED BY <1>1, <1>2, <1>3, <1>4, <1>5, <1>6, <1>7, <1>8, <1>9, <1>10, <1>11, <1>12, <1>13,
           <1>14, <1>15, <1>16, <1>17
        DEF Next, Command, Process, Trouble

Rows == SUBSET (1 .. accepted)
DataTypes ==
  /\ base \in Rows /\ log \in Rows /\ aside \in Rows /\ dropped \in Rows
  /\ accepted \in 0 .. MaxRows
  /\ db \in [schema : {"none", "old", "half", "new"}, rows : Rows]
  /\ backups \subseteq [at : Nat, schema : {"old", "half", "new"}, rows : Rows]
  /\ Cardinality(backups) <= KeepPreUpgrade

DataOK == DataTypes /\ Databases /\ Named /\ Kept /\ RunsOnItsSchema

\* The two that only the properties read.
HistoryTypes == since \in Nat /\ cut \in BOOLEAN

LEMMA TypeParts == TypeOK <=> ControlTypes /\ DataTypes /\ HistoryTypes
BY DEF TypeOK, ControlTypes, DataTypes, HistoryTypes, Rows, Stages, Over, BeforeSwitch,
       NewInPlace, OldInPlace

LEMMA InitHolds == Init => IInv
<1> SUFFICES ASSUME Init PROVE IInv
  OBVIOUS
<1> USE DEF Init
<1>1. IsFiniteSet(backups) /\ Cardinality(backups) = 0
  BY FS_EmptySet
<1>2. TypeOK
  <2>1. ControlTypes
    BY UpgradeAssumption DEF ControlTypes, Stages, Over
  <2>2. DataTypes
    BY <1>1, UpgradeAssumption DEF DataTypes, Rows
  <2>3. HistoryTypes
    BY DEF HistoryTypes
  <2> QED BY <2>1, <2>2, <2>3, TypeParts
<1>3. Programs /\ Processes /\ Databases /\ RunsOnItsSchema
  BY DEF Programs, Processes, Databases, HubRestores, CommandRestores, RunsOnItsSchema,
         BeforeSwitch, OldInPlace, NewInPlace, ServiceOff
<1>4. Named /\ Kept
  BY <1>1 DEF Named, Kept
<1> QED BY <1>2, <1>3, <1>4 DEF IInv

LEMMA HistoryKept ==
  ASSUME HistoryTypes, [Next]_vars
  PROVE  HistoryTypes'
<1> USE DEF HistoryTypes, historyVars
<1>1. CASE Prepare
  BY <1>1 DEF Prepare
<1>2. CASE Command
  <2>1. CASE SelfTest \/ MoveOldAside \/ PutNew \/ StartNew \/ Healthy \/ Unhealthy
    BY <2>1 DEF SelfTest, MoveOldAside, PutNew, StartNew, Healthy, Unhealthy
  <2>2. CASE BackUp
    <3>1. CASE UNCHANGED <<since, cut>>
      BY <3>1
    <3>2. CASE MakeBackup(mine) /\ cut' = FALSE
      <4>1. since' = IF db.schema = "old" THEN 0 ELSE since + 1
        BY <3>2 DEF MakeBackup
      <4>2. since' \in Nat
        BY <4>1
      <4>3. cut' \in BOOLEAN
        BY <3>2, Zenon
      <4> QED BY <4>2, <4>3, Zenon
    <3> QED BY <2>2, <3>1, <3>2 DEF BackUp
  <2>3. CASE StopOld \/ StopNew
    BY <2>3 DEF StopOld, StopNew, Stopped
  <2>4. CASE MoveNewAside \/ PutOldBack \/ StartOld
    BY <2>4 DEF MoveNewAside, PutOldBack, StartOld
  <2>5. CASE SetDatabaseAside \/ SetDatabaseLogAside \/ PutDatabaseBack
    BY <2>5 DEF SetDatabaseAside, SetDatabaseLogAside, PutDatabaseBack
  <2> QED BY <1>2, <2>1, <2>2, <2>3, <2>4, <2>5 DEF Command
<1>3. CASE Process
  <2>1. CASE BackUpFirst
    BY <2>1 DEF BackUpFirst, MakeBackup
  <2>2. CASE Open \/ Create \/ MigrateSome \/ Migrate \/ PutLogAside \/ PutBackAndExit
    BY <2>2 DEF Open, Create, MigrateSome, Migrate, PutLogAside, PutBackAndExit
  <2> QED BY <1>3, <2>1, <2>2 DEF Process
<1>4. CASE Restart \/ Die \/ Accept
  BY <1>4 DEF Restart, Die, Accept
<1>5. CASE Trouble
  BY <1>5 DEF Trouble, Bails, PutsOldBackAtOnce, CantStart, Kill, HubEnds, Reboot
<1>6. CASE UNCHANGED vars
  BY <1>6 DEF vars
<1> QED BY <1>1, <1>2, <1>3, <1>4, <1>5, <1>6 DEF Next

\* The steps that touch neither the database nor a backup, and put a process
\* at most where it is off or starts.
LEMMA DataApart ==
  ASSUME IInv, UNCHANGED <<dataVars, dropped, base, accepted>>,
         clock' \in Nat, clock <= clock',
         UNCHANGED <<hub, runs>> \/ hub' \in {"off", "starting"},
         step' \in {"dbAside", "logAside"} => UNCHANGED step
  PROVE  DataOK'
<1>1. DataOK
  BY TypeParts DEF IInv, DataOK
<1>2. DataTypes' /\ Kept' /\ clock \in Nat
  BY <1>1 DEF DataOK, DataTypes, Kept, Rows, dataVars, IInv, TypeOK
<1>3. Databases' /\ RunsOnItsSchema'
  BY <1>1
     DEF DataOK, Databases, HubRestores, CommandRestores, RunsOnItsSchema, dataVars, NoDatabase
<1>4. Named'
  BY <1>1, <1>2 DEF DataOK, Named, DataTypes, dataVars
<1> QED BY <1>2, <1>3, <1>4 DEF DataOK

\* A backup is made, by the command or by a hub that starts.
LEMMA BackupMade ==
  ASSUME IInv, NEW at \in Nat, at <= clock, MakeBackup(at),
         UNCHANGED <<db, log, aside, dropped, accepted, clock>>, base' \in {base, db.rows},
         \/ UNCHANGED <<hub, runs>> /\ step' \notin {"dbAside", "logAside"}
         \/ UNCHANGED step /\ hub' = "migrating" /\ db.schema \in {"old", "half"} /\ hub # "off"
  PROVE  DataOK'
<1>1. DataOK
  BY TypeParts DEF IInv, DataOK
<1>2. /\ backups' \subseteq [at : Nat, schema : {"old", "half", "new"}, rows : Rows]
      /\ IsFiniteSet(backups') /\ Cardinality(backups') <= KeepPreUpgrade
      /\ \A b, c \in backups' : b.at = c.at => b = c
      /\ \A b \in backups' : b.at <= clock
  BY <1>1, MakeBackupFacts, TypeParts DEF IInv, DataOK, Rows
<1>3. DataTypes' /\ Named' /\ Kept'
  BY <1>1, <1>2 DEF DataOK, DataTypes, Named, Kept, Rows
<1>4. Databases' /\ RunsOnItsSchema'
  BY <1>1
     DEF DataOK, Databases, HubRestores, CommandRestores, RunsOnItsSchema, NoDatabase, MakeBackup,
         IInv, Processes, ServiceOff
<1> QED BY <1>3, <1>4 DEF DataOK

\* The database changes: what it held is still there or set aside.
LEMMA DatabaseChanged ==
  ASSUME IInv, UNCHANGED <<base, backups, clock, accepted>>,
         db' \in [schema : {"none", "old", "half", "new"}, rows : Rows],
         aside' \in Rows, log' \in Rows, dropped' \in Rows, dropped \subseteq dropped',
         db.rows \union log \union aside
           \subseteq db'.rows \union log' \union aside' \union dropped',
         Databases', RunsOnItsSchema'
  PROVE  DataOK'
BY TypeParts DEF IInv, DataOK, DataTypes, Named, Kept, Rows

LEMMA DataKept ==
  ASSUME IInv, [Next]_vars
  PROVE  DataOK'
<1>1. DataOK /\ ControlTypes
  BY TypeParts DEF IInv, DataOK
<1>2. /\ ControlTypes' /\ Programs' /\ Processes'
      /\ Programs /\ Processes /\ DataTypes /\ Databases /\ Named
  BY <1>1, ControlKept DEF IInv, DataOK
<1> USE DEF commandVars, programVars, serviceVars, historyVars, boundVars, Goes, ControlTypes
<1>3. CASE Prepare \/ SelfTest \/ StopOld \/ MoveOldAside \/ PutNew \/ Healthy \/ Unhealthy
  BY <1>1, <1>2, <1>3, DataApart
     DEF Prepare, SelfTest, StopOld, MoveOldAside, PutNew, Healthy, Unhealthy, Stopped
<1>4. CASE StartNew \/ StartOld \/ StopNew \/ MoveNewAside \/ PutOldBack \/ Restart \/ Die
  BY <1>1, <1>2, <1>4, DataApart
     DEF StartNew, StartOld, StopNew, MoveNewAside, PutOldBack, Restart, Die, Start, Stopped
<1>5. CASE Trouble
  BY <1>1, <1>2, <1>5, DataApart
     DEF Trouble, Bails, PutsOldBackAtOnce, CantStart, Kill, HubEnds, Reboot, Fault, Killed, Over,
         Start
<1>6. CASE UNCHANGED vars
  BY <1>1, <1>6, DataApart DEF vars
<1>7. CASE BackUp
  <2>1. CASE Goes("tested", "refused") /\ UNCHANGED <<backups, base>>
    BY <1>1, <1>7, <2>1, DataApart DEF BackUp, dataVars
  <2>2. CASE Goes("tested", "backedUp") /\ MakeBackup(mine) /\ base' = db.rows
    <3>1. mine <= clock
      BY <1>2 DEF Programs
    <3> QED BY <1>1, <1>7, <2>2, <3>1, BackupMade DEF BackUp
  <2> QED BY <1>7, <2>1, <2>2 DEF BackUp
<1>8. CASE BackUpFirst
  <2>1. CASE Taken(clock) /\ hub' = "off" /\ UNCHANGED backups
    BY <1>1, <1>8, <2>1, DataApart DEF BackUpFirst, dataVars
  <2>2. CASE MakeBackup(clock) /\ hub' = "migrating"
    BY <1>1, <1>8, <2>2, BackupMade DEF BackUpFirst, Older
  <2> QED BY <1>8, <2>1, <2>2 DEF BackUpFirst
<1>9. CASE Open
  <2>1. UNCHANGED dataVars /\ hub' \in {"up", "off"} /\ (hub' = "up" => db.schema = runs)
    BY <1>9 DEF Open
  <2>2. CASE hub' = "off"
    BY <1>1, <1>2, <1>9, <2>2, DataApart DEF Open
  <2>3. CASE hub' = "up"
    BY <1>1, <1>2, <1>9, <2>1, <2>3, DatabaseChanged
       DEF Open, Rows, DataTypes, dataVars, Databases, HubRestores, CommandRestores,
           RunsOnItsSchema, Processes, ServiceOff
  <2> QED BY <2>1, <2>2, <2>3
<1> USE DEF Databases, HubRestores, CommandRestores, RunsOnItsSchema, Processes, ServiceOff,
            NoDatabase, dataVars
<1>19. CASE Create
  <2>1. /\ db' = [schema |-> runs, rows |-> {}] /\ hub' = "up" /\ log' = {}
        /\ dropped' = dropped \union log
        /\ UNCHANGED <<step, base, runs, aside, backups, clock, accepted>>
    BY <1>19 DEF Create
  <2>2. db = NoDatabase /\ ~CommandRestores
    BY <1>2, <1>19 DEF Create
  <2>3. Databases' /\ RunsOnItsSchema'
    BY <1>1, <2>1, <2>2
  <2>4. dropped' \in Rows
    BY <1>2, <2>1 DEF DataTypes, Rows
  <2> QED BY <1>1, <1>2, <2>1, <2>2, <2>3, <2>4, DatabaseChanged DEF Rows, DataTypes
<1>10. CASE MigrateSome
  BY <1>1, <1>2, <1>10, DatabaseChanged DEF MigrateSome, Rows, DataTypes
<1>11. CASE Migrate
  <2>1. CASE kind = "stuck"
    BY <1>1, <1>2, <1>11, <2>1, DatabaseChanged DEF Migrate, SetAside, Rows, DataTypes
  <2>2. CASE kind # "stuck"
    BY <1>1, <1>2, <1>11, <2>2, DatabaseChanged DEF Migrate, Rows, DataTypes
  <2> QED BY <2>1, <2>2
<1>17. CASE PutLogAside \/ SetDatabaseLogAside
  <2>1. db = NoDatabase /\ db' = db /\ log' = {} /\ aside' = aside \union log
    BY <1>2, <1>17 DEF PutLogAside, SetDatabaseLogAside, SetLogAside
  <2>2. UNCHANGED <<base, dropped, backups, clock, accepted>>
    BY <1>17 DEF PutLogAside, SetDatabaseLogAside
  <2>3. aside' \in Rows /\ log' \in Rows
    BY <1>2, <2>1 DEF DataTypes, Rows
  <2>4. Databases' /\ RunsOnItsSchema'
    BY <1>1, <1>2, <1>17, <2>1 DEF PutLogAside, SetDatabaseLogAside
  <2> QED BY <1>1, <1>2, <2>1, <2>2, <2>3, <2>4, DatabaseChanged DEF DataTypes
<1>12. CASE PutBackAndExit
  <2>1. PICK b \in backups : db' = [schema |-> b.schema, rows |-> b.rows]
    BY <1>12 DEF PutBackAndExit, WriteBack
  <2>2. b \in [at : Nat, schema : {"old", "half", "new"}, rows : Rows]
    BY <1>2 DEF DataTypes
  <2> QED BY <1>1, <1>2, <1>12, <2>1, <2>2, DatabaseChanged DEF PutBackAndExit, DataTypes
<1>13. CASE SetDatabaseAside
  <2>1. CASE Goes("oldBack", "dbAside") /\ SetAside(mine)
    BY <1>1, <1>2, <1>13, <2>1, DatabaseChanged DEF SetDatabaseAside, SetAside, Rows, DataTypes
  <2>2. CASE Goes("oldBack", "failed") /\ UNCHANGED <<db, aside>>
    BY <1>1, <1>2, <1>13, <2>2, DatabaseChanged DEF SetDatabaseAside, Rows, DataTypes
  <2> QED BY <1>13, <2>1, <2>2 DEF SetDatabaseAside
<1>14. CASE PutDatabaseBack
  <2>1. PICK b \in backups : db' = [schema |-> b.schema, rows |-> b.rows]
    BY <1>14 DEF PutDatabaseBack, WriteBack
  <2>2. b \in [at : Nat, schema : {"old", "half", "new"}, rows : Rows]
    BY <1>2 DEF DataTypes
  <2> QED BY <1>1, <1>2, <1>14, <2>1, <2>2, DatabaseChanged DEF PutDatabaseBack, DataTypes
<1>15. CASE Accept
  <2>1. /\ accepted' = accepted + 1 /\ accepted' \in 1 .. MaxRows
        /\ 1 .. accepted' = (1 .. accepted) \union {accepted'}
    BY <1>2, <1>15, UpgradeAssumption DEF Accept, DataTypes
  <2>2. db' = [schema |-> db.schema, rows |-> db.rows \union {accepted'}]
    BY <1>2, <1>15 DEF Accept, DataTypes
  <2>3. /\ UNCHANGED <<base, aside, dropped, backups, clock, hub, runs, step>>
        /\ log' = {} \/ log' = log \union {accepted'}
    BY <1>15 DEF Accept
  <2>7. hub = "up" /\ db # NoDatabase /\ log \subseteq db.rows
    BY <1>1, <1>2, <1>15 DEF Accept, DataOK
  <2>4. DataTypes'
    <3>1. log' \in Rows'
      BY <1>2, <2>1, <2>3 DEF DataTypes, Rows
    <3>2. db' \in [schema : {"none", "old", "half", "new"}, rows : Rows']
      BY <1>2, <2>1, <2>2 DEF DataTypes, Rows
    <3>3. base' \in Rows' /\ aside' \in Rows' /\ dropped' \in Rows'
      BY <1>2, <2>1, <2>3 DEF DataTypes, Rows
    <3>4. backups' \subseteq [at : Nat, schema : {"old", "half", "new"}, rows : Rows']
      BY <1>2, <2>1, <2>3 DEF DataTypes, Rows
    <3> QED BY <1>2, <2>1, <2>3, <3>1, <3>2, <3>3, <3>4 DEF DataTypes
  <2>5. Kept'
    BY <1>1, <2>1, <2>2, <2>3, <2>7 DEF DataOK, Kept
  <2>6. Databases' /\ RunsOnItsSchema' /\ Named'
    <3>1. db' # NoDatabase /\ log' \subseteq db'.rows
      BY <1>1, <1>2, <2>2, <2>3, <2>7 DEF DataOK, DataTypes
    <3> QED BY <1>1, <1>2, <2>2, <2>3, <2>7, <3>1 DEF Named, DataOK, DataTypes
  <2> QED BY <2>4, <2>5, <2>6 DEF DataOK
<1> QED BY <1>3, <1>4, <1>5, <1>6, <1>7, <1>8, <1>9, <1>10, <1>11, <1>12, <1>13, <1>14, <1>15,
           <1>17, <1>19
        DEF Next, Command, Process

LEMMA IInvInductive == IInv /\ [Next]_vars => IInv'
<1> SUFFICES ASSUME IInv, [Next]_vars PROVE IInv'
  OBVIOUS
<1>1. ControlTypes /\ Programs /\ Processes
  BY TypeParts DEF IInv
<1>2. ControlTypes' /\ Programs' /\ Processes'
  BY <1>1, ControlKept
<1>3. DataOK'
  BY DataKept
<1>4. TypeOK'
  <2>1. HistoryTypes'
    BY HistoryKept, TypeParts DEF IInv
  <2> QED BY <1>2, <1>3, <2>1
     DEF DataOK, TypeOK, ControlTypes, DataTypes, HistoryTypes, Rows, Stages, Over, BeforeSwitch,
         NewInPlace, OldInPlace
<1> QED BY <1>2, <1>3, <1>4 DEF IInv, DataOK

LEMMA IInvAlways == Spec => []IInv
BY InitHolds, IInvInductive, PTL DEF Spec
-----------------------------------------------------------------------------
(***************************************************************************)
(* What a database that comes back holds.                                  *)
(***************************************************************************)
LEMMA HoldsAtFirst == Init => MineHolds /\ Holds
BY DEF Init, MineHolds, Holds, NoDatabase, HasBackup

LEMMA MineHoldsApart ==
  ASSUME IInv, MineHolds, UNCHANGED <<backups, base>>, clock' \in Nat, clock <= clock',
         step' \in HasBackup => step \in HasBackup /\ mine' = mine
  PROVE  MineHolds'
<1>1. mine \in Nat /\ clock \in Nat /\ mine <= clock
  BY TypeParts DEF IInv, ControlTypes, Programs
<1> QED BY <1>1 DEF MineHolds, Taken

LEMMA MineHoldsKept ==
  ASSUME IInv, MineHolds, [Next]_vars
  PROVE  MineHolds'
<1>1. ControlTypes /\ ControlTypes' /\ Programs
  BY ControlKept, TypeParts DEF IInv
<1> USE DEF commandVars, dataVars, boundVars, Goes, HasBackup, ControlTypes
<1>2. CASE Prepare
  BY <1>1, <1>2, MineHoldsApart DEF Prepare, Over
<1>3. CASE SelfTest \/ StopOld \/ MoveOldAside \/ PutNew \/ StartNew \/ Healthy \/ Unhealthy
  BY <1>1, <1>3, MineHoldsApart
     DEF SelfTest, StopOld, MoveOldAside, PutNew, StartNew, Healthy, Unhealthy
<1>4. CASE StopNew \/ MoveNewAside \/ PutOldBack \/ StartOld
  BY <1>1, <1>4, MineHoldsApart DEF StopNew, MoveNewAside, PutOldBack, StartOld
<1>5. CASE SetDatabaseAside \/ SetDatabaseLogAside \/ PutDatabaseBack
  BY <1>1, <1>5, MineHoldsApart DEF SetDatabaseAside, SetDatabaseLogAside, PutDatabaseBack
<1>6. CASE Trouble
  BY <1>1, <1>6, MineHoldsApart
     DEF Trouble, Bails, PutsOldBackAtOnce, CantStart, Kill, HubEnds, Reboot, Killed, Over
<1>7. CASE Restart \/ Die \/ Accept \/ UNCHANGED vars
  BY <1>1, <1>7, MineHoldsApart DEF Restart, Die, Accept, vars
<1>8. CASE Open \/ Create \/ MigrateSome \/ Migrate \/ PutLogAside \/ PutBackAndExit
  BY <1>1, <1>8, MineHoldsApart
     DEF Open, Create, MigrateSome, Migrate, PutLogAside, PutBackAndExit
<1>9. CASE BackUp
  <2>1. CASE Goes("tested", "refused") /\ UNCHANGED <<backups, base>>
    BY <1>1, <1>9, <2>1, MineHoldsApart DEF BackUp
  <2>2. CASE Goes("tested", "backedUp") /\ MakeBackup(mine) /\ base' = db.rows
    <3>1. /\ backups' \subseteq backups \union {FileOf(mine)}
          /\ (\A b \in backups : b.at <= mine) => FileOf(mine) \in backups'
      BY <1>1, <2>2, MakeBackupFacts DEF IInv, Programs
    <3>2. UNCHANGED <<mine, clock>>
      BY <1>9 DEF BackUp
    <3>3. \A b \in backups' : b.at = mine => base' \subseteq b.rows
      <4>1. \A b \in backups : b.at # mine
        BY <2>2 DEF MakeBackup, Taken
      <4>2. \A b \in backups' : b.at = mine => b = FileOf(mine)
        BY <3>1, <3>2, <4>1
      <4>3. base' = FileOf(mine).rows
        BY <2>2 DEF FileOf
      <4> HIDE DEF FileOf
      <4> QED BY <3>2, <4>2, <4>3
    <3>4. clock = mine => Taken(mine)'
      <4>1. \A b \in backups : b.at <= clock
        BY DEF IInv, Named
      <4> QED BY <3>1, <3>2, <4>1 DEF Taken, FileOf
    <3> QED BY <3>2, <3>3, <3>4 DEF MineHolds
  <2> QED BY <1>9, <2>1, <2>2 DEF BackUp
<1>10. CASE BackUpFirst
  <2>1. CASE Taken(clock) /\ UNCHANGED backups
    BY <1>1, <1>10, <2>1, MineHoldsApart DEF BackUpFirst
  <2>2. CASE MakeBackup(clock)
    <3>1. UNCHANGED <<step, mine, base, clock>> /\ ~Taken(clock)
      BY <1>10, <2>2 DEF BackUpFirst, MakeBackup
    <3>2. backups' \subseteq backups \union {FileOf(clock)}
      BY <1>1, <2>2, MakeBackupFacts DEF IInv
    <3> QED BY <3>1, <3>2 DEF MineHolds, FileOf
  <2> QED BY <1>10, <2>1, <2>2 DEF BackUpFirst
<1> QED BY <1>2, <1>3, <1>4, <1>5, <1>6, <1>7, <1>8, <1>9, <1>10 DEF Next, Command, Process

LEMMA HoldsApart ==
  ASSUME IInv, Holds, UNCHANGED <<db, backups, base>>,
         ~cut' => ~cut,
         ~cut' /\ (HubRestores \/ CommandRestores) => HubRestores' \/ CommandRestores',
         hub' \in {"migrating", "dbAside", "logAside"} => UNCHANGED <<hub, clock>>
  PROVE  Holds'
BY DEF Holds, NoDatabase

LEMMA HoldsKept ==
  ASSUME IInv, MineHolds, Holds, [Next]_vars
  PROVE  Holds'
<1>1. Programs /\ Processes /\ Databases /\ ControlTypes /\ DataTypes /\ HistoryTypes
  BY TypeParts DEF IInv
<1> USE DEF commandVars, programVars, dataVars, serviceVars, historyVars, boundVars, Goes,
            HubRestores, CommandRestores
<1>2. CASE Prepare \/ SelfTest
  BY <1>1, <1>2, HoldsApart DEF Prepare, SelfTest, Over, Programs, Processes
<1>3. CASE StopOld \/ MoveOldAside \/ PutNew \/ StartNew
  BY <1>1, <1>3, HoldsApart
     DEF StopOld, MoveOldAside, PutNew, StartNew, Start, Stopped, Processes, ServiceOff,
         HistoryTypes
<1>4. CASE Healthy \/ Unhealthy \/ StopNew \/ MoveNewAside \/ PutOldBack
  BY <1>1, <1>4, HoldsApart
     DEF Healthy, Unhealthy, StopNew, MoveNewAside, PutOldBack, Stopped, HistoryTypes
<1>5. CASE StartOld \/ Restart \/ Die
  BY <1>1, <1>5, HoldsApart DEF StartOld, Restart, Die, Start, Processes, ServiceOff
<1>6. CASE Trouble
  <2>1. CASE Bails \/ Kill
    BY <1>1, <2>1, HoldsApart DEF Bails, Kill, Killed, Over, HistoryTypes
  <2>2. CASE PutsOldBackAtOnce \/ CantStart
    BY <1>1, <2>2, HoldsApart DEF PutsOldBackAtOnce, CantStart, Processes, ServiceOff
  <2>3. CASE HubEnds \/ Reboot
    BY <1>1, <2>3, HoldsApart DEF HubEnds, Reboot, Killed, Over, Start, HistoryTypes
  <2> QED BY <1>6, <2>1, <2>2, <2>3 DEF Trouble
<1>7. CASE UNCHANGED vars
  BY <1>7, HoldsApart DEF vars
<1>8. CASE BackUp
  <2>1. CASE Goes("tested", "refused") /\ UNCHANGED <<backups, base, cut>>
    BY <1>1, <1>8, <2>1, HoldsApart DEF BackUp
  <2>2. CASE Goes("tested", "backedUp") /\ MakeBackup(mine) /\ base' = db.rows
    <3>1. UNCHANGED <<db, hub>> /\ hub \notin {"migrating", "dbAside", "logAside"}
      BY <1>1, <1>8, <2>2 DEF BackUp, Programs, Processes, BeforeSwitch
    <3>2. db # NoDatabase
      BY <2>2 DEF MakeBackup
    <3> QED BY <2>2, <3>1, <3>2 DEF Holds, NoDatabase
  <2> QED BY <1>8, <2>1, <2>2 DEF BackUp
<1>9. CASE BackUpFirst
  <2>1. CASE Taken(clock) /\ hub' = "off" /\ UNCHANGED backups
    BY <1>1, <1>9, <2>1, HoldsApart DEF BackUpFirst
  <2>2. CASE MakeBackup(clock) /\ hub' = "migrating"
    <3>1. UNCHANGED <<step, base, db, clock, cut>> /\ hub = "starting" /\ db # NoDatabase
      BY <1>9, <2>2 DEF BackUpFirst, MakeBackup
    <3>2. \A b \in backups' : b \in backups \/ b.rows = db.rows
      <4>1. clock \in Nat /\ clock <= clock
        BY <1>1 DEF ControlTypes
      <4>2. backups' \subseteq backups \union {FileOf(clock)}
        BY <2>2, <4>1, MakeBackupFacts DEF IInv
      <4> QED BY <4>2 DEF FileOf
    <3>3. \A b \in backups : b.at # clock
      BY <2>2 DEF MakeBackup, Taken
    <3> QED BY <2>2, <3>1, <3>2, <3>3 DEF Holds, NoDatabase
  <2> QED BY <1>9, <2>1, <2>2 DEF BackUpFirst
<1>10. CASE Open
  BY <1>1, <1>10, HoldsApart DEF Open
<1>11. CASE Create
  <2>1. cut /\ cut' = cut
    BY <1>1, <1>11 DEF Create, Holds, Processes, ServiceOff
  <2> QED BY <2>1 DEF Holds
<1>12. CASE MigrateSome
  BY <1>1, <1>12 DEF MigrateSome, Holds, NoDatabase, DataTypes
<1>13. CASE Migrate
  <2>1. CASE kind = "stuck"
    BY <1>1, <1>13, <2>1 DEF Migrate, SetAside, Holds, NoDatabase
  <2>2. CASE kind # "stuck"
    BY <1>1, <1>13, <2>2 DEF Migrate, Holds, NoDatabase, DataTypes, Databases
  <2> QED BY <2>1, <2>2
<1>14. CASE PutLogAside \/ SetDatabaseLogAside
  BY <1>1, <1>14 DEF PutLogAside, SetDatabaseLogAside, Holds, Databases, Processes, ServiceOff
<1>15. CASE PutBackAndExit
  <2>1. PICK b \in backups : b.at = clock /\ db' = [schema |-> b.schema, rows |-> b.rows]
    BY <1>15 DEF PutBackAndExit, WriteBack
  <2>2. b.schema # "none" /\ (~cut => base \subseteq b.rows)
    BY <1>1, <1>15, <2>1 DEF PutBackAndExit, DataTypes, Holds
  <2> QED BY <1>1, <1>15, <2>1, <2>2 DEF PutBackAndExit, Holds, NoDatabase
<1>16. CASE SetDatabaseAside
  <2>1. CASE Goes("oldBack", "dbAside") /\ SetAside(mine)
    BY <1>1, <1>16, <2>1 DEF SetDatabaseAside, SetAside, Holds, NoDatabase, Processes, ServiceOff
  <2>2. CASE Goes("oldBack", "failed") /\ UNCHANGED <<db, aside>>
    BY <1>1, <1>16, <2>2, HoldsApart DEF SetDatabaseAside
  <2> QED BY <1>16, <2>1, <2>2 DEF SetDatabaseAside
<1>17. CASE PutDatabaseBack
  <2>1. PICK b \in backups : b.at = mine /\ db' = [schema |-> b.schema, rows |-> b.rows]
    BY <1>17 DEF PutDatabaseBack, WriteBack
  <2>2. b.schema # "none" /\ base \subseteq b.rows
    BY <1>1, <1>17, <2>1 DEF PutDatabaseBack, DataTypes, MineHolds, HasBackup
  <2> QED BY <1>1, <1>17, <2>1, <2>2 DEF PutDatabaseBack, Holds, NoDatabase, Processes, ServiceOff
<1>18. CASE Accept
  <2>1. db # NoDatabase /\ db.schema # "none" /\ hub = "up"
    BY <1>1, <1>18 DEF Accept, DataTypes, IInv, RunsOnItsSchema, NoDatabase, ControlTypes
  <2>2. db'.schema = db.schema /\ db.rows \subseteq db'.rows
    BY <1>1, <1>18 DEF Accept, DataTypes
  <2>3. UNCHANGED <<base, cut, hub>>
    BY <1>18 DEF Accept
  <2> QED BY <2>1, <2>2, <2>3 DEF Holds, NoDatabase
<1> QED BY <1>2, <1>3, <1>4, <1>5, <1>6, <1>7, <1>8, <1>9, <1>10, <1>11, <1>12, <1>13, <1>14,
           <1>15, <1>16, <1>17, <1>18
        DEF Next, Command, Process
-----------------------------------------------------------------------------
(***************************************************************************)
(* The way back.                                                           *)
(***************************************************************************)
LEMMA OldKeptAtFirst == Init => OldKept
BY DEF Init, OldKept, HasBackup

\* The steps that make no backup, and replace an old schema only when it is kept.
LEMMA OldKeptApart ==
  ASSUME OldKept, UNCHANGED <<backups, since>>,
         step' \in {"staged", "tested"} => step \in {"staged", "tested"} /\ mine' = mine,
         step' = "backedUp" => step = "backedUp" /\ (db # NoDatabase => db' # NoDatabase),
         hub' = "migrating" => hub = "migrating",
         step' \in HasBackup => step \in HasBackup,
         db'.schema # "old" => db.schema # "old" \/ hub = "migrating" \/ step \in HasBackup
  PROVE  OldKept'
<1>1. /\ step' \in {"staged", "tested"} => \A b \in backups' : b.at <= mine'
      /\ step' = "backedUp" => db' # NoDatabase
  BY DEF OldKept
<1>2. CASE ~(hub' = "migrating" \/ step' \in HasBackup \/ db'.schema # "old")
  BY <1>1, <1>2 DEF OldKept
<1>3. CASE hub' = "migrating" \/ step' \in HasBackup \/ db'.schema # "old"
  <2>1. since >= KeepPreUpgrade \/ \E b \in backups : Reachable(b)
    BY <1>3 DEF OldKept
  <2>2. since' >= KeepPreUpgrade \/ \E b \in backups' : Reachable(b)'
    BY <2>1 DEF Reachable, Newer
  <2> QED BY <1>1, <2>2 DEF OldKept
<1> QED BY <1>2, <1>3

\* A backup that is the newest: of the old schema it can be had again, of another
\* it pushes an older one no further than it counts.
LEMMA OldBackedUp ==
  ASSUME IInv, NEW at \in Nat, at <= clock, MakeBackup(at), \A b \in backups : b.at <= at,
         UNCHANGED db,
         db.schema = "old" \/ since >= KeepPreUpgrade \/ \E b \in backups : Reachable(b)
  PROVE  since' >= KeepPreUpgrade \/ \E b \in backups' : Reachable(b)'
<1>1. TypeOK /\ Named /\ Databases
  BY DEF IInv
<1>2. /\ FileOf(at) \in backups'
      /\ backups' \subseteq backups \union {FileOf(at)}
      /\ \A b \in backups :
           LET newer == Cardinality(Newer(b))
           IN  /\ newer \in Nat
               /\ newer + 1 < KeepPreUpgrade => b \in backups'
               /\ Cardinality({c \in backups' : c.at > b.at}) \in 0 .. newer + 1
  BY <1>1, MakeBackupFacts
<1>3. since \in Nat /\ KeepPreUpgrade \in Nat
  BY <1>1, UpgradeAssumption DEF TypeOK
<1>4. CASE db.schema = "old"
  <2> DEFINE f == FileOf(at)
  <2>1. {c \in backups' : c.at > f.at} = {}
    BY <1>1, <1>2 DEF FileOf, TypeOK
  <2>2. Cardinality({c \in backups' : c.at > f.at}) = 0
    BY <2>1, FS_EmptySet
  <2>3. since' = 0 /\ f.schema = "old" /\ f \in backups'
    BY <1>2, <1>4 DEF MakeBackup, FileOf
  <2>4. \E b \in backups' : b.schema = "old" /\ Cardinality({c \in backups' : c.at > b.at}) <= since'
    BY <2>2, <2>3
  <2> QED BY <2>4 DEF Reachable, Newer
<1>5. CASE db.schema # "old" /\ since + 1 >= KeepPreUpgrade
  BY <1>5 DEF MakeBackup
<1>6. CASE db.schema # "old" /\ since + 1 < KeepPreUpgrade
  <2>1. PICK b \in backups : Reachable(b)
    BY <1>3, <1>6
  <2> DEFINE newer == Cardinality(Newer(b))
             newerNow == Cardinality({c \in backups' : c.at > b.at})
  <2>2. newer \in Nat /\ (newer + 1 < KeepPreUpgrade => b \in backups') /\ newerNow \in 0 .. newer + 1
    BY <1>2
  <2>3. newer <= since /\ b.schema = "old" /\ since' = since + 1
    BY <1>6, <2>1 DEF Reachable, MakeBackup
  <2> HIDE DEF newer, newerNow
  <2>4. b \in backups' /\ newerNow <= since'
    BY <1>3, <1>6, <2>2, <2>3
  <2>5. \E c \in backups' : c.schema = "old" /\ Cardinality({d \in backups' : d.at > c.at}) <= since'
    BY <2>3, <2>4 DEF newerNow
  <2> QED BY <2>5 DEF Reachable, Newer
<1> QED BY <1>3, <1>4, <1>5, <1>6

LEMMA OldKeptKept ==
  ASSUME IInv, OldKept, [Next]_vars
  PROVE  OldKept'
<1>1. Programs /\ Processes /\ Databases /\ Named /\ ControlTypes /\ DataTypes
  BY TypeParts DEF IInv
<1> USE DEF commandVars, programVars, dataVars, serviceVars, historyVars, boundVars, Goes, HasBackup
<1>2. CASE Prepare
  <2>1. \A b \in backups' : b.at <= mine'
    BY <1>1, <1>2 DEF Prepare, Named, ControlTypes, DataTypes
  <2>2. UNCHANGED <<backups, since, db, hub>> /\ step' = "staged"
    BY <1>2 DEF Prepare
  <2> QED BY <2>1, <2>2 DEF OldKept, Reachable, Newer
<1>3. CASE SelfTest \/ StopOld \/ MoveOldAside \/ PutNew \/ StartNew \/ Healthy \/ Unhealthy
  BY <1>3, OldKeptApart
     DEF SelfTest, StopOld, MoveOldAside, PutNew, StartNew, Healthy, Unhealthy, Start, Stopped
<1>4. CASE StopNew \/ MoveNewAside \/ PutOldBack \/ StartOld
  BY <1>4, OldKeptApart DEF StopNew, MoveNewAside, PutOldBack, StartOld, Start, Stopped
<1>5. CASE Restart \/ Die \/ UNCHANGED vars
  BY <1>5, OldKeptApart DEF Restart, Die, Start, vars
<1>6. CASE Trouble
  BY <1>6, OldKeptApart
     DEF Trouble, Bails, PutsOldBackAtOnce, CantStart, Kill, HubEnds, Reboot, Killed, Over, Start
<1>7. CASE BackUp
  <2>1. CASE Goes("tested", "refused") /\ UNCHANGED <<backups, base, since, cut>>
    BY <1>7, <2>1, OldKeptApart DEF BackUp
  <2>2. CASE Goes("tested", "backedUp") /\ MakeBackup(mine)
    <3>1. mine \in Nat /\ mine <= clock /\ UNCHANGED db /\ db # NoDatabase
      BY <1>1, <1>7, <2>2 DEF BackUp, ControlTypes, Programs, MakeBackup
    <3>2. \A b \in backups : b.at <= mine
      BY <2>2 DEF OldKept
    <3>3. db.schema = "old" \/ since >= KeepPreUpgrade \/ \E b \in backups : Reachable(b)
      BY DEF OldKept
    <3>4. since' >= KeepPreUpgrade \/ \E b \in backups' : Reachable(b)'
      BY <2>2, <3>1, <3>2, <3>3, OldBackedUp
    <3> QED BY <2>2, <3>1, <3>4 DEF OldKept
  <2> QED BY <1>7, <2>1, <2>2 DEF BackUp
<1>8. CASE BackUpFirst
  <2>1. CASE Taken(clock) /\ hub' = "off" /\ UNCHANGED <<backups, since>>
    BY <1>8, <2>1, OldKeptApart DEF BackUpFirst
  <2>2. CASE MakeBackup(clock) /\ hub' = "migrating"
    <3>1. UNCHANGED <<step, db>> /\ clock \in Nat /\ clock <= clock
      BY <1>1, <1>8, <2>2 DEF BackUpFirst, ControlTypes
    <3>2. step \notin {"staged", "tested", "backedUp"}
      BY <1>1, <1>8 DEF BackUpFirst, Older, Programs, Processes, BeforeSwitch
    <3>3. db.schema = "old" \/ since >= KeepPreUpgrade \/ \E b \in backups : Reachable(b)
      BY DEF OldKept
    <3>4. since' >= KeepPreUpgrade \/ \E b \in backups' : Reachable(b)'
      BY <1>1, <2>2, <3>1, <3>3, OldBackedUp DEF Named
    <3> QED BY <3>1, <3>2, <3>4 DEF OldKept
  <2> QED BY <1>8, <2>1, <2>2 DEF BackUpFirst
<1>9. CASE Open
  BY <1>9, OldKeptApart DEF Open
<1>10. CASE Create
  BY <1>10, OldKeptApart DEF Create, NoDatabase
<1>11. CASE MigrateSome \/ Migrate
  <2>1. hub = "migrating" /\ UNCHANGED <<step, mine, backups, since>> /\ hub' \in {hub, "dbAside", "up"}
    BY <1>11 DEF MigrateSome, Migrate
  <2>2. step \notin {"staged", "tested", "backedUp"}
    BY <1>1, <2>1 DEF Programs, Processes, BeforeSwitch
  <2> QED BY <2>1, <2>2, OldKeptApart
<1>12. CASE PutLogAside \/ SetDatabaseLogAside
  BY <1>12, OldKeptApart DEF PutLogAside, SetDatabaseLogAside
<1>13. CASE PutBackAndExit \/ PutDatabaseBack
  <2>1. db.schema = "none"
    BY <1>1, <1>13 DEF PutBackAndExit, PutDatabaseBack, Databases, HubRestores, CommandRestores, NoDatabase
  <2>2. UNCHANGED <<mine, backups, since>> /\ (UNCHANGED step \/ step' = "dbBack")
    BY <1>13 DEF PutBackAndExit, PutDatabaseBack
  <2>3. step' # "backedUp"
    BY <1>1, <1>13 DEF PutBackAndExit, PutDatabaseBack, Programs, Processes, BeforeSwitch
  <2>4. hub' # "migrating"
    BY <1>1, <1>13 DEF PutBackAndExit, PutDatabaseBack, Processes, ServiceOff
  <2> QED BY <2>1, <2>2, <2>3, <2>4, OldKeptApart
<1>14. CASE SetDatabaseAside
  BY <1>14, OldKeptApart DEF SetDatabaseAside
<1>15. CASE Accept
  <2>1. db'.schema = db.schema /\ (db # NoDatabase => db' # NoDatabase)
    BY <1>1, <1>15 DEF Accept, DataTypes, Databases, NoDatabase
  <2> QED BY <1>15, <2>1, OldKeptApart DEF Accept
<1> QED BY <1>2, <1>3, <1>4, <1>5, <1>6, <1>7, <1>8, <1>9, <1>10, <1>11, <1>12, <1>13, <1>14,
           <1>15
        DEF Next, Command, Process
-----------------------------------------------------------------------------
\* Every variable has its type, and prune keeps as many backups as it may.
THEOREM TypeCorrect == Spec => []TypeOK
<1>1. IInv => TypeOK
  BY DEF IInv
<1> QED BY <1>1, IInvAlways, PTL

\* A hub that answers has a database of its own schema, whatever fails or is
\* cut short: the command stops the service before it moves anything, and
\* open_database refuses the other's.
THEOREM OwnSchema == Spec => []RunsOnItsSchema
<1>1. IInv => RunsOnItsSchema
  BY DEF IInv
<1> QED BY <1>1, IInvAlways, PTL

\* Nothing a hub accepted is deleted, whatever fails or is cut short, and even
\* when every backup that had it is pruned: restore_database sets aside.  What
\* it leaves of that when it is cut short between its moves is a log alone,
\* which the next hub's empty database takes the place of.
THEOREM AllKept == Spec => []NothingLost
<1>1. IInv => NothingLost
  BY DEF IInv, Kept, NothingLost
<1> QED BY <1>1, IInvAlways, PTL

\* A hub that answers has what the command's backup has, unless a restore was
\* cut short and not made good: every database that is put back was copied
\* after it.
THEOREM BackupServed == Spec => []ServesWhatWasBackedUp
<1>1. Init => IInv /\ MineHolds /\ Holds
  BY InitHolds, HoldsAtFirst
<1>2. (IInv /\ MineHolds /\ Holds) /\ [Next]_vars => (IInv /\ MineHolds /\ Holds)'
  BY IInvInductive, MineHoldsKept, HoldsKept
<1>3. IInv /\ Holds => ServesWhatWasBackedUp
  BY DEF IInv, Databases, HubRestores, CommandRestores, Processes, ServiceOff, Holds,
         ServesWhatWasBackedUp, RunsOnItsSchema, NoDatabase, TypeOK
<1> QED BY <1>1, <1>2, <1>3, PTL DEF Spec

\* The old program is there, and a database it can open until as many backups
\* as are kept have been made of one already migrated.
THEOREM AlwaysAWayBack == Spec => []WayBack
<1>1. Init => IInv /\ OldKept
  BY InitHolds, OldKeptAtFirst
<1>2. (IInv /\ OldKept) /\ [Next]_vars => (IInv /\ OldKept)'
  BY IInvInductive, OldKeptKept
<1>3. IInv /\ OldKept => WayBack
  <2> SUFFICES ASSUME IInv, OldKept PROVE WayBack
    OBVIOUS
  <2>1. "old" \in {exe, prev}
    BY DEF IInv, Programs
  <2>2. db.schema = "old" \/ since >= KeepPreUpgrade \/ \E b \in backups : b.schema = "old"
    BY DEF OldKept, Reachable
  <2> QED BY <2>1, <2>2 DEF WayBack
<1> QED BY <1>1, <1>2, <1>3, PTL DEF Spec
===============================================================================
