--------------------------- MODULE SchemaMigration ---------------------------
(***************************************************************************)
(* db_writer_open (src/infra/persistence/db_sqlite.c): how a gateway       *)
(* process brings the database file to schema version 2.  The migration is *)
(* a series of statements that commit one by one, so a process may die     *)
(* between any two of them, and another gateway may be opening the same    *)
(* file.  What SQLite keeps in the file (version, table, columns, indexes, *)
(* journal mode) outlives a process; the pragmas synchronous and           *)
(* foreign_keys belong to one connection and die with it.                  *)
(*                                                                         *)
(* A definition marked (slip) is a bug this code could have had, used      *)
(* nowhere: put in place of the definition below it, it breaks a property. *)
(***************************************************************************)
EXTENDS Integers, Sequences

CONSTANTS
    Gateways,       \* processes that may open the file
    Core,           \* columns that only CREATE TABLE makes
    Keys,           \* those of Core the two indexes are on
    Motor,          \* cols[]: the columns added by ensure_column, in order
    Files,          \* the database files a behaviour may start from
    ReadMayFail,    \* reading user_version may fail, which leaves it 0
    MaxCrashes      \* bound: processes killed in a behaviour

Elements(s) == {s[i] : i \in DOMAIN s}

MotorColumns == Elements(Motor)
AllColumns   == Core \cup MotorColumns

\* What the file holds.  A file has either no table or one with some columns.
FileType == [version : Nat, columns : SUBSET AllColumns, table : BOOLEAN,
             indexed : BOOLEAN, wal : BOOLEAN]

ASSUME ColumnsAssumption ==
    Keys \subseteq Core /\ Motor \in Seq(STRING) /\ Motor # <<>>
ASSUME FilesAssumption   ==
    Files \subseteq FileType /\ \A f \in Files : f.columns # {} => f.table
ASSUME ReadAssumption    == ReadMayFail \in BOOLEAN
ASSUME CrashAssumption   == MaxCrashes \in Nat

\* A file this code has brought to version 2, or one it has still to upgrade.
ASSUME StampedFilesAssumption ==
    \A f \in Files :
        /\ f.version = 2 => f.table /\ MotorColumns \subseteq f.columns /\ f.wal
        /\ f.version = 1 => f.table

VARIABLES
    file,       \* the database file
    pc,         \* per gateway: the statement it is about to execute
    plan,       \* per gateway: "migrate" (from 0) or "upgrade" (from 1)
    col,        \* per gateway: i of the loop over cols[], from 1
    tuned,      \* per gateway: its connection has synchronous and foreign_keys set
    present,    \* the gateways that take part in this behaviour
    crashes,    \* how many processes were killed
    misread     \* history: user_version was once read as 0 when it was not

histVars == <<present, crashes, misread>>
vars == <<file, pc, plan, col, tuned, histVars>>

Steps == {"closed", "version", "wal", "tune", "table", "indexes", "check",
          "alter", "prepare", "open", "failed"}

Init ==
    /\ file \in Files
    /\ pc = [g \in Gateways |-> "closed"]
    /\ plan = [g \in Gateways |-> "migrate"]
    /\ col = [g \in Gateways |-> 1]
    /\ tuned = [g \in Gateways |-> FALSE]
    /\ present \in SUBSET Gateways \ {{}} /\ crashes = 0 /\ misread = FALSE

Goto(g, step) == pc' = [pc EXCEPT ![g] = step]

-----------------------------------------------------------------------------
\* sqlite3_open_v2: a new connection, with the pragmas at their defaults.
Open(g) ==
    /\ g \in present /\ pc[g] = "closed"
    /\ Goto(g, "version")
    /\ tuned' = [tuned EXCEPT ![g] = FALSE]
    /\ UNCHANGED <<file, plan, col, histVars>>

\* (slip) every version but 2 is taken for one to upgrade
UpgradeAny(v) == IF v = 2 THEN "prepare" ELSE "wal"

\* db_ensure_schema: versions 0 and 1 are migrated, a later one is refused.
StepFor(v) == CASE v \in {0, 1} -> "wal"
                [] v = 2        -> "prepare"
                [] OTHER        -> "failed"

\* PRAGMA user_version; when the step returns no row the version stays 0.
ReadVersion(g) ==
    /\ pc[g] = "version"
    /\ \E v \in {file.version} \cup (IF ReadMayFail THEN {0} ELSE {}) :
        /\ plan' = [plan EXCEPT ![g] = IF v = 0 THEN "migrate" ELSE "upgrade"]
        /\ misread' = (misread \/ v # file.version)
        /\ Goto(g, StepFor(v))
    /\ UNCHANGED <<file, col, tuned, present, crashes>>

\* (slip) the journal mode is left as it is
SkipWal(g) ==
    /\ pc[g] = "wal"
    /\ Goto(g, "tune")
    /\ UNCHANGED <<file, plan, col, tuned, histVars>>

\* db_apply_pragmas, first statement: the journal mode stays with the file.
SetWal(g) ==
    /\ pc[g] = "wal"
    /\ file' = [file EXCEPT !.wal = TRUE]
    /\ Goto(g, "tune")
    /\ UNCHANGED <<plan, col, tuned, histVars>>

\* (slip) the loop over cols[] starts before the first column
StartBeforeFirst == 0

\* size_t i=0
FirstColumn == 1

\* db_apply_pragmas, the other two: they set this connection only.
SetConnection(g) ==
    /\ pc[g] = "tune"
    /\ tuned' = [tuned EXCEPT ![g] = TRUE]
    /\ col' = [col EXCEPT ![g] = FirstColumn]
    /\ Goto(g, IF plan[g] = "migrate" THEN "table" ELSE "check")
    /\ UNCHANGED <<file, plan, histVars>>

\* CREATE TABLE IF NOT EXISTS, with every column.
CreateTable(g) ==
    /\ pc[g] = "table"
    /\ file' = IF file.table THEN file
                             ELSE [file EXCEPT !.table = TRUE, !.columns = AllColumns]
    /\ Goto(g, "indexes")
    /\ UNCHANGED <<plan, col, tuned, histVars>>

\* CREATE INDEX IF NOT EXISTS, twice: an error when a key column is missing.
CreateIndexes(g) ==
    /\ pc[g] = "indexes"
    /\ IF file.indexed \/ Keys \subseteq file.columns
        THEN file' = [file EXCEPT !.indexed = TRUE] /\ Goto(g, "check")
        ELSE UNCHANGED file /\ Goto(g, "failed")
    /\ UNCHANGED <<plan, col, tuned, histVars>>

\* (slip) the loop over cols[] ends one column early
LastColumnSkipped(g) == col[g] >= Len(Motor)

\* i == sizeof(cols)/sizeof(cols[0])
ColumnsDone(g) == col[g] > Len(Motor)

\* (slip) column_exists finds nothing
NeverFound(c) == FALSE

\* PRAGMA table_info names the column.
ColumnExists(c) == c \in file.columns

\* ensure_column up to column_exists: skip the column, or go and add it.
CheckColumn(g) ==
    /\ pc[g] = "check" /\ ~ColumnsDone(g)
    /\ IF ColumnExists(Motor[col[g]])
        THEN col' = [col EXCEPT ![g] = @ + 1] /\ UNCHANGED pc
        ELSE UNCHANGED col /\ Goto(g, "alter")
    /\ UNCHANGED <<file, plan, tuned, histVars>>

\* ALTER TABLE ADD COLUMN: an error if another gateway has added it meanwhile.
AddColumn(g) ==
    /\ pc[g] = "alter"
    /\ IF file.table /\ Motor[col[g]] \notin file.columns
        THEN /\ file' = [file EXCEPT !.columns = @ \cup {Motor[col[g]]}]
             /\ col' = [col EXCEPT ![g] = @ + 1]
             /\ Goto(g, "check")
        ELSE UNCHANGED <<file, col>> /\ Goto(g, "failed")
    /\ UNCHANGED <<plan, tuned, histVars>>

\* (slip) the version is not written
StampForgotten(g) ==
    /\ pc[g] = "check" /\ ColumnsDone(g)
    /\ Goto(g, "prepare")
    /\ UNCHANGED <<file, plan, col, tuned, histVars>>

\* PRAGMA user_version=2.
Stamp(g) ==
    /\ pc[g] = "check" /\ ColumnsDone(g)
    /\ file' = [file EXCEPT !.version = 2]
    /\ Goto(g, "prepare")
    /\ UNCHANGED <<plan, col, tuned, histVars>>

\* sqlite3_prepare_v2 of the INSERT, which names every column.
PrepareInsert(g) ==
    /\ pc[g] = "prepare"
    /\ Goto(g, IF file.table /\ AllColumns \subseteq file.columns THEN "open" ELSE "failed")
    /\ UNCHANGED <<file, plan, col, tuned, histVars>>

-----------------------------------------------------------------------------
\* A statement that writes finds the file locked by another gateway.  No busy
\* timeout is set, so it fails at once and db_writer_open with it.
Locked(g) ==
    /\ pc[g] \in {"wal", "table", "indexes", "check", "alter", "prepare"}
    /\ \E h \in Gateways \ {g} : pc[h] \notin {"closed", "failed"}
    /\ Goto(g, "failed")
    /\ UNCHANGED <<file, plan, col, tuned, histVars>>

\* The gateway stops, or gives up after db_writer_open has failed.
Close(g) ==
    /\ pc[g] \in {"open", "failed"}
    /\ Goto(g, "closed")
    /\ UNCHANGED <<file, plan, col, tuned, histVars>>

\* The process is killed between two statements.
Crash(g) ==
    /\ crashes < MaxCrashes
    /\ pc[g] \notin {"closed", "failed"}
    /\ crashes' = crashes + 1
    /\ Goto(g, "closed")
    /\ UNCHANGED <<file, plan, col, tuned, present, misread>>

Migrate(g) ==
    \/ ReadVersion(g) \/ SetWal(g) \/ SetConnection(g) \/ CreateTable(g)
    \/ CreateIndexes(g) \/ CheckColumn(g) \/ AddColumn(g) \/ Stamp(g)
    \/ PrepareInsert(g)

Next == \E g \in Gateways : Open(g) \/ Migrate(g) \/ Locked(g) \/ Close(g) \/ Crash(g)

Spec == Init /\ [][Next]_vars

\* A gateway goes on with the statements, and a killed one is started again.
FairSpec == Spec /\ \A g \in Gateways : WF_vars(Open(g)) /\ WF_vars(Migrate(g))

-----------------------------------------------------------------------------
TypeOK ==
    /\ file \in FileType
    /\ pc \in [Gateways -> Steps]
    /\ plan \in [Gateways -> {"migrate", "upgrade"}]
    /\ col \in [Gateways -> 1 .. Len(Motor) + 1]
    /\ tuned \in [Gateways -> BOOLEAN]
    /\ present \subseteq Gateways /\ crashes \in 0..MaxCrashes /\ misread \in BOOLEAN

\* user_version 2 in the file means the table has every motor column, wherever
\* a migration was cut off and whoever else was migrating.
StampMeansComplete ==
    file.version = 2 => file.table /\ MotorColumns \subseteq file.columns

\* A writer that db_writer_open hands out inserts into a version 2 schema in WAL
\* mode, which lets the history reader read while a batch is written.
OpenIsReady ==
    \A g \in Gateways : pc[g] = "open" =>
        file.version = 2 /\ AllColumns \subseteq file.columns /\ file.wal

\* A file no gateway could use: a later version, or a table made without Core.
Unusable(f) == f.version \notin 0..2 \/ (f.table /\ ~(Core \subseteq f.columns))

\* No two gateways open the file.
Alone == \A g, h \in present : g = h

\* With one gateway at a time, no crash leaves a file that the next start
\* refuses: db_writer_open fails only on a file it could never have used.
CrashesAreRepaired ==
    Alone => \A g \in Gateways : pc[g] = "failed" => Unusable(file)

\* A file of a later schema version is left exactly as it is, by every gateway
\* and with every crash, unless its version was misread.
LaterVersionUntouched == [][file.version \notin 0..2 /\ ~misread' => file' = file]_vars

\* However often it is killed on the way (finitely many times), a gateway alone
\* that is started again gets the file to version 2, unless it is unusable.
MigrationEnds == Alone => <>(file.version = 2 \/ Unusable(file))

\* docs/database.md: SQLite "is configured with" synchronous=NORMAL and
\* foreign_keys=ON, whatever file the gateway opens.
OpenIsTuned == \A g \in Gateways : pc[g] = "open" => tuned[g]
=============================================================================
