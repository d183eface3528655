------------------------ MODULE SchemaMigrationProofs ------------------------
(***************************************************************************)
(* Theorems about SchemaMigration for every set of gateways, every list of *)
(* columns, every file to start from and every number of crashes: types,   *)
(* what the version stamp means, and what a writer finds that was opened.  *)
(***************************************************************************)
EXTENDS SchemaMigration, TLAPS

-----------------------------------------------------------------------------
(* Type correctness.                                                       *)

LEMMA MotorIsListed ==
    /\ Len(Motor) \in Nat \ {0}
    /\ \A i \in 1..Len(Motor) : Motor[i] \in MotorColumns
    /\ \A c \in MotorColumns : \E i \in 1..Len(Motor) : Motor[i] = c
BY ColumnsAssumption DEF MotorColumns, Elements

LEMMA TypeInit == Init => TypeOK
<1> SUFFICES ASSUME Init PROVE TypeOK
    OBVIOUS
<1>1. file \in FileType
    BY FilesAssumption DEF Init
<1>2. 1 \in 1..Len(Motor) + 1 /\ 0 \in 0..MaxCrashes
    BY MotorIsListed, CrashAssumption
<1> QED BY <1>1, <1>2 DEF Init, TypeOK, Steps

\* A gateway adds a column only inside the loop over cols[].
LoopShape == \A g \in Gateways : pc[g] = "alter" => col[g] <= Len(Motor)

LEMMA TypeStep == ASSUME TypeOK, LoopShape, [Next]_vars PROVE TypeOK'
<1> USE DEF Goto, histVars
<1>0. CASE UNCHANGED vars
    BY <1>0 DEF TypeOK, vars
<1> SUFFICES ASSUME NEW g \in Gateways,
                    Open(g) \/ Migrate(g) \/ Locked(g) \/ Close(g) \/ Crash(g)
             PROVE  TypeOK'
    BY <1>0 DEF Next
<1>1. CASE Open(g)
    BY <1>1 DEF Open, TypeOK, Steps
<1>2. CASE ReadVersion(g)
  <2>1. PICK v : /\ plan' = [plan EXCEPT ![g] = IF v = 0 THEN "migrate" ELSE "upgrade"]
                 /\ pc' = [pc EXCEPT ![g] = StepFor(v)]
      BY <1>2 DEF ReadVersion
  <2>2. StepFor(v) \in Steps
      BY DEF StepFor, Steps
  <2> QED BY <1>2, <2>1, <2>2 DEF ReadVersion, TypeOK
<1>3. CASE SetWal(g)
    BY <1>3 DEF SetWal, TypeOK, Steps, FileType
<1>4. CASE SetConnection(g)
    BY <1>4, MotorIsListed DEF SetConnection, FirstColumn, TypeOK, Steps
<1>5. CASE CreateTable(g)
    BY <1>5 DEF CreateTable, TypeOK, Steps, FileType
<1>6. CASE CreateIndexes(g)
    BY <1>6 DEF CreateIndexes, TypeOK, Steps, FileType
<1>. pc \in [Gateways -> Steps] /\ col \in [Gateways -> 1..Len(Motor) + 1]
    BY DEF TypeOK
<1>7. CASE CheckColumn(g)
  <2>1. pc[g] = "check" /\ col[g] \in 1..Len(Motor)
      BY <1>7, MotorIsListed DEF CheckColumn, ColumnsDone, TypeOK
  <2>2. pc' \in [Gateways -> Steps] /\ col' \in [Gateways -> 1..Len(Motor) + 1]
    <3>1. CASE ColumnExists(Motor[col[g]])
        BY <1>7, <2>1, <3>1, MotorIsListed DEF CheckColumn
    <3>2. CASE ~ColumnExists(Motor[col[g]])
        BY <1>7, <3>2 DEF CheckColumn, TypeOK, Steps
    <3> QED BY <3>1, <3>2
  <2> QED BY <1>7, <2>2 DEF CheckColumn, TypeOK
<1>8. CASE AddColumn(g)
  <2>1. pc' \in [Gateways -> Steps]
      BY <1>8, ZenonT(40) DEF AddColumn, TypeOK, Steps
  <2>2. pc[g] = "alter" /\ col[g] \in 1..Len(Motor)
      BY <1>8, MotorIsListed DEF AddColumn, TypeOK, LoopShape
  <2>3. col' \in [Gateways -> 1..Len(Motor) + 1]
      BY <1>8, <2>2, MotorIsListed DEF AddColumn
  <2>4. Motor[col[g]] \in AllColumns
      BY <2>2, MotorIsListed DEF AllColumns
  <2>5. file' \in FileType
    <3>1. file \in FileType
        BY DEF TypeOK
    <3>2. file' = file \/ file' = [file EXCEPT !.columns = @ \cup {Motor[col[g]]}]
        BY <1>8 DEF AddColumn
    <3> QED BY <2>4, <3>1, <3>2 DEF FileType
  <2> QED BY <1>8, <2>1, <2>3, <2>5 DEF AddColumn, TypeOK
<1>9. CASE Stamp(g)
    BY <1>9 DEF Stamp, TypeOK, Steps, FileType
<1>10. CASE PrepareInsert(g)
    BY <1>10 DEF PrepareInsert, TypeOK, Steps
<1>11. CASE Locked(g)
    BY <1>11 DEF Locked, TypeOK, Steps
<1>12. CASE Close(g)
    BY <1>12 DEF Close, TypeOK, Steps
<1>13. CASE Crash(g)
    BY <1>13, CrashAssumption DEF Crash, TypeOK, Steps
<1> QED BY <1>1, <1>2, <1>3, <1>4, <1>5, <1>6, <1>7, <1>8, <1>9, <1>10,
           <1>11, <1>12, <1>13 DEF Migrate

LEMMA LoopShapeStep == ASSUME TypeOK, LoopShape, [Next]_vars PROVE LoopShape'
<1> USE DEF Goto, LoopShape, TypeOK
<1>0. CASE UNCHANGED vars
    BY <1>0 DEF vars
<1> SUFFICES ASSUME NEW g \in Gateways,
                    Open(g) \/ Migrate(g) \/ Locked(g) \/ Close(g) \/ Crash(g)
             PROVE  LoopShape'
    BY <1>0 DEF Next
<1>1. CASE Open(g) \/ Locked(g) \/ Close(g) \/ Crash(g)
    BY <1>1 DEF Open, Locked, Close, Crash
<1>2. CASE ReadVersion(g)
  <2>1. \A v : StepFor(v) # "alter"
      BY DEF StepFor
  <2> QED BY <1>2, <2>1 DEF ReadVersion
<1>3. CASE SetWal(g) \/ CreateTable(g) \/ Stamp(g) \/ PrepareInsert(g)
    BY <1>3 DEF SetWal, CreateTable, Stamp, PrepareInsert
<1>4. CASE SetConnection(g) \/ CreateIndexes(g)
    BY <1>4 DEF SetConnection, CreateIndexes
<1>5. CASE CheckColumn(g)
    BY <1>5, MotorIsListed DEF CheckColumn, ColumnsDone
<1>6. CASE AddColumn(g)
    BY <1>6 DEF AddColumn
<1> QED BY <1>1, <1>2, <1>3, <1>4, <1>5, <1>6 DEF Migrate

\* Types of all variables, whatever the list of columns.
THEOREM TypeCorrect == Spec => [](TypeOK /\ LoopShape)
<1>1. Init => LoopShape
    BY DEF Init, LoopShape
<1> QED BY <1>1, TypeInit, TypeStep, LoopShapeStep, PTL DEF Spec

-----------------------------------------------------------------------------
(* What the version stamp means.                                           *)

\* No statement takes anything from the file.
Grows ==
    /\ file.columns \subseteq file'.columns
    /\ file.table => file'.table
    /\ file.wal => file'.wal
    /\ file.version = 2 => file'.version = 2

\* What the file holds by itself: columns only in a table, and a complete one
\* in WAL mode under the stamp.
Shared ==
    /\ file.columns # {} => file.table
    /\ file.version = 2 => file.table /\ MotorColumns \subseteq file.columns /\ file.wal

\* What gateway g has established on its way through the migration.
Achieved(g) ==
    /\ pc[g] \in {"tune", "table", "indexes", "check", "alter"} => file.wal
    /\ pc[g] \in {"table", "indexes", "check", "alter"} =>
           \A i \in 1..Len(Motor) : i < col[g] => Motor[i] \in file.columns
    /\ pc[g] \in {"prepare", "open"} => file.version = 2
    /\ pc[g] = "open" => AllColumns \subseteq file.columns

Stamped == Shared /\ \A g \in Gateways : Achieved(g)

\* The step of a gateway leaves what the others have established.
LEMMA OthersKeep ==
    ASSUME TypeOK, Stamped, NEW g \in Gateways, Grows, Shared', Achieved(g)',
           \A h \in Gateways : h # g => pc'[h] = pc[h] /\ col'[h] = col[h]
    PROVE  Stamped'
<1> SUFFICES ASSUME NEW h \in Gateways, h # g PROVE Achieved(h)'
    BY DEF Stamped
<1>1. Achieved(h) /\ pc'[h] = pc[h] /\ col'[h] = col[h]
    BY DEF Stamped
<1> QED BY <1>1 DEF Achieved, Grows

\* A step that leaves the file alone.
LEMMA FileKept ==
    ASSUME Stamped, UNCHANGED file
    PROVE  Grows /\ Shared'
BY DEF Stamped, Shared, Grows

LEMMA StampedStep == ASSUME TypeOK, LoopShape, Stamped, [Next]_vars PROVE Stamped'
<1>0. CASE UNCHANGED vars
    BY <1>0 DEF vars, Stamped, Shared, Achieved
<1> SUFFICES ASSUME NEW g \in Gateways,
                    Open(g) \/ Migrate(g) \/ Locked(g) \/ Close(g) \/ Crash(g)
             PROVE  Stamped'
    BY <1>0 DEF Next
<1>1. /\ pc \in [Gateways -> Steps] /\ col \in [Gateways -> 1..Len(Motor) + 1]
      /\ file \in FileType
    BY DEF TypeOK
<1>2. Shared /\ Achieved(g)
    BY DEF Stamped
<1>3. \A h \in Gateways : h # g => pc'[h] = pc[h] /\ col'[h] = col[h]
    BY <1>1 DEF Open, Migrate, ReadVersion, SetWal, SetConnection, CreateTable,
                CreateIndexes, CheckColumn, AddColumn, Stamp, PrepareInsert,
                Locked, Close, Crash, Goto
<1>4. CASE Open(g) \/ Locked(g) \/ Close(g) \/ Crash(g)
  <2>1. pc'[g] \in {"closed", "version", "failed"} /\ file' = file
      BY <1>1, <1>4 DEF Open, Locked, Close, Crash, Goto
  <2>2. Achieved(g)'
      BY <2>1 DEF Achieved
  <2> QED BY <1>3, <2>1, <2>2, FileKept, OthersKeep
<1>5. CASE ReadVersion(g)
  <2>1. PICK v \in {file.version} \cup {0} : pc'[g] = StepFor(v)
      BY <1>1, <1>5 DEF ReadVersion, Goto
  <2>2. file' = file /\ pc'[g] \in {"wal", "prepare", "failed"}
        /\ (pc'[g] = "prepare" => file.version = 2)
      BY <1>5, <2>1 DEF ReadVersion, StepFor
  <2>3. Achieved(g)'
      BY <2>2 DEF Achieved
  <2> QED BY <1>3, <2>2, <2>3, FileKept, OthersKeep
<1>6. CASE SetWal(g)
  <2>1. /\ file'.wal = TRUE /\ file'.columns = file.columns
        /\ file'.table = file.table /\ file'.version = file.version
      BY <1>1, <1>6 DEF SetWal, FileType
  <2>2. pc'[g] = "tune"
      BY <1>1, <1>6 DEF SetWal, Goto
  <2>3. Grows /\ Shared'
      BY <1>2, <2>1 DEF Grows, Shared
  <2>4. Achieved(g)'
      BY <2>1, <2>2 DEF Achieved
  <2> QED BY <1>3, <2>3, <2>4, OthersKeep
<1>7. CASE SetConnection(g)
  <2>1. /\ file' = file /\ pc[g] = "tune" /\ pc'[g] \in {"table", "check"}
        /\ col'[g] = 1
      BY <1>1, <1>7 DEF SetConnection, FirstColumn, Goto
  <2>2. Achieved(g)'
      BY <1>2, <2>1, MotorIsListed DEF Achieved
  <2> QED BY <1>3, <2>1, <2>2, FileKept, OthersKeep
<1>8. CASE CreateTable(g)
  <2>1. pc[g] = "table" /\ pc'[g] = "indexes" /\ col'[g] = col[g]
      BY <1>1, <1>8 DEF CreateTable, Goto
  <2>2. /\ file'.wal = file.wal /\ file'.table /\ file'.version = file.version
        /\ file.columns \subseteq file'.columns
      BY <1>1, <1>8 DEF CreateTable, FileType
  <2>3. Grows /\ Shared'
      BY <1>2, <2>2 DEF Grows, Shared
  <2>4. Achieved(g)'
      BY <1>2, <2>1, <2>2 DEF Achieved
  <2> QED BY <1>3, <2>3, <2>4, OthersKeep
<1>9. CASE CreateIndexes(g)
  <2>1. /\ pc[g] = "indexes" /\ pc'[g] \in {"check", "failed"}
        /\ file'.wal = file.wal /\ file'.table = file.table
        /\ file'.version = file.version /\ file'.columns = file.columns
      BY <1>1, <1>9 DEF CreateIndexes, Goto, FileType
  <2>2. Grows /\ Shared'
      BY <1>2, <2>1 DEF Grows, Shared
  <2>3. col'[g] = col[g]
      BY <1>9 DEF CreateIndexes
  <2>4. Achieved(g)'
      BY <1>2, <2>1, <2>3 DEF Achieved
  <2> QED BY <1>3, <2>2, <2>4, OthersKeep
<1>10. CASE CheckColumn(g)
  <2>1. /\ file' = file /\ pc[g] = "check" /\ pc'[g] \in {"check", "alter"}
        /\ col[g] \in 1..Len(Motor)
      BY <1>1, <1>10, MotorIsListed DEF CheckColumn, ColumnsDone, Goto
  <2>2. \/ col'[g] = col[g]
        \/ col'[g] = col[g] + 1 /\ Motor[col[g]] \in file.columns
      BY <1>1, <1>10 DEF CheckColumn, ColumnExists
  <2>3. \A i \in 1..Len(Motor) : i < col'[g] => Motor[i] \in file.columns
      BY <1>2, <2>1, <2>2 DEF Achieved
  <2>4. Achieved(g)'
      BY <1>2, <2>1, <2>3 DEF Achieved
  <2> QED BY <1>3, <2>1, <2>4, FileKept, OthersKeep
<1>11. CASE AddColumn(g)
  <2>1. pc[g] = "alter" /\ col[g] \in 1..Len(Motor)
      BY <1>1, <1>11, MotorIsListed DEF AddColumn, LoopShape
  <2>2. CASE file.table /\ Motor[col[g]] \notin file.columns
    <3>1. /\ file'.columns = file.columns \cup {Motor[col[g]]}
          /\ file'.wal = file.wal /\ file'.table = file.table
          /\ file'.version = file.version
        BY <1>1, <1>11, <2>2 DEF AddColumn, FileType
    <3>2. pc'[g] = "check" /\ col'[g] = col[g] + 1
        BY <1>1, <1>11, <2>2 DEF AddColumn, Goto
    <3>3. Grows /\ Shared'
        BY <1>2, <2>2, <3>1 DEF Grows, Shared
    <3>4. \A i \in 1..Len(Motor) : i < col[g] => Motor[i] \in file.columns
        BY <1>2, <2>1 DEF Achieved
    <3>5. \A i \in 1..Len(Motor) : i < col'[g] => Motor[i] \in file'.columns
        BY <2>1, <3>1, <3>2, <3>4
    <3>6. Achieved(g)'
        BY <1>2, <2>1, <3>1, <3>2, <3>5 DEF Achieved
    <3> QED BY <1>3, <3>3, <3>6, OthersKeep
  <2>3. CASE ~(file.table /\ Motor[col[g]] \notin file.columns)
    <3>1. file' = file /\ pc'[g] = "failed"
        BY <1>1, <1>11, <2>3 DEF AddColumn, Goto
    <3>2. Achieved(g)'
        BY <3>1 DEF Achieved
    <3> QED BY <1>3, <3>1, <3>2, FileKept, OthersKeep
  <2> QED BY <2>2, <2>3
<1>12. CASE Stamp(g)
  <2>1. pc[g] = "check" /\ col[g] > Len(Motor) /\ pc'[g] = "prepare"
      BY <1>1, <1>12 DEF Stamp, ColumnsDone, Goto
  <2>2. /\ file'.columns = file.columns /\ file'.wal = file.wal
        /\ file'.table = file.table /\ file'.version = 2
      BY <1>1, <1>12 DEF Stamp, FileType
  <2>3. \A i \in 1..Len(Motor) : Motor[i] \in file.columns
      BY <1>1, <1>2, <2>1, MotorIsListed DEF Achieved
  <2>4. MotorColumns \subseteq file.columns /\ file.columns # {}
      BY <2>3, MotorIsListed
  <2>5. file.table /\ file.wal
      BY <1>2, <2>1, <2>4 DEF Shared, Achieved
  <2>6. Grows /\ Shared'
      BY <2>2, <2>4, <2>5 DEF Grows, Shared
  <2>7. Achieved(g)'
      BY <2>1, <2>2 DEF Achieved
  <2> QED BY <1>3, <2>6, <2>7, OthersKeep
<1>13. CASE PrepareInsert(g)
  <2>1. /\ file' = file /\ pc[g] = "prepare" /\ pc'[g] \in {"open", "failed"}
        /\ (pc'[g] = "open" => AllColumns \subseteq file.columns)
      BY <1>1, <1>13 DEF PrepareInsert, Goto
  <2>2. Achieved(g)'
      BY <1>2, <2>1 DEF Achieved
  <2> QED BY <1>3, <2>1, <2>2, FileKept, OthersKeep
<1> QED BY <1>4, <1>5, <1>6, <1>7, <1>8, <1>9, <1>10, <1>11, <1>12, <1>13 DEF Migrate

LEMMA StampedInit == Init => Stamped
<1> SUFFICES ASSUME Init PROVE Stamped
    OBVIOUS
<1>1. Shared
    BY FilesAssumption, StampedFilesAssumption DEF Init, Shared
<1>2. \A g \in Gateways : Achieved(g)
    BY DEF Init, Achieved
<1> QED BY <1>1, <1>2 DEF Stamped

\* user_version 2 means a table with every motor column, wherever a migration
\* was cut off and however many gateways were migrating.
THEOREM StampedIsComplete == Spec => []StampMeansComplete
<1>1. Stamped => StampMeansComplete
    BY DEF Stamped, Shared, StampMeansComplete
<1>2. Init => LoopShape
    BY DEF Init, LoopShape
<1> QED BY <1>1, <1>2, TypeCorrect, StampedInit, StampedStep, PTL DEF Spec

\* A writer that was opened finds every column it inserts into, version 2 and
\* WAL mode, and keeps them while other gateways open the file.
THEOREM OpenedIsReady == Spec => []OpenIsReady
<1>1. Stamped => OpenIsReady
    BY DEF Stamped, Shared, Achieved, OpenIsReady
<1>2. Init => LoopShape
    BY DEF Init, LoopShape
<1> QED BY <1>1, <1>2, TypeCorrect, StampedInit, StampedStep, PTL DEF Spec

-----------------------------------------------------------------------------
(* Files of a later version.                                               *)

\* A gateway that migrates has read a version it knows, or misread it.
Early ==
    ~misread => \A g \in Gateways :
        pc[g] \in {"wal", "tune", "table", "indexes", "check", "alter"} =>
            file.version \in 0..2

\* Only a gateway that migrates changes the file, and it leaves the version
\* alone or sets it to 2.
LEMMA MigratorsWrite ==
    ASSUME TypeOK, NEW g \in Gateways,
           Open(g) \/ Migrate(g) \/ Locked(g) \/ Close(g) \/ Crash(g)
    PROVE  /\ \/ file' = file
              \/ pc[g] \in {"wal", "tune", "table", "indexes", "check", "alter"}
           /\ file'.version = file.version \/ file'.version = 2
<1>1. file \in FileType
    BY DEF TypeOK
<1>2. CASE Open(g) \/ Locked(g) \/ Close(g) \/ Crash(g)
    BY <1>2 DEF Open, Locked, Close, Crash
<1>3. CASE ReadVersion(g) \/ SetConnection(g) \/ CheckColumn(g) \/ PrepareInsert(g)
    BY <1>3 DEF ReadVersion, SetConnection, CheckColumn, PrepareInsert
<1>4. CASE SetWal(g)
    BY <1>1, <1>4 DEF SetWal, FileType
<1>5. CASE CreateTable(g)
    BY <1>1, <1>5 DEF CreateTable, FileType
<1>6. CASE CreateIndexes(g)
    BY <1>1, <1>6 DEF CreateIndexes, FileType
<1>7. CASE AddColumn(g)
    BY <1>1, <1>7 DEF AddColumn, FileType
<1>8. CASE Stamp(g)
    BY <1>1, <1>8 DEF Stamp, FileType
<1> QED BY <1>2, <1>3, <1>4, <1>5, <1>6, <1>7, <1>8 DEF Migrate

\* A misreading is remembered.
LEMMA MisreadStays ==
    ASSUME NEW g \in Gateways,
           Open(g) \/ Migrate(g) \/ Locked(g) \/ Close(g) \/ Crash(g)
    PROVE  misread = TRUE => misread' = TRUE
<1>1. CASE ReadVersion(g)
    BY <1>1, Zenon DEF ReadVersion
<1>2. CASE ~ReadVersion(g)
    BY <1>2 DEF Open, Migrate, SetWal, SetConnection, CreateTable, CreateIndexes,
                CheckColumn, AddColumn, Stamp, PrepareInsert, Locked, Close, Crash,
                histVars
<1> QED BY <1>1, <1>2

LEMMA EarlyStep ==
    ASSUME TypeOK, Early, [Next]_vars
    PROVE  Early'
<1>0. CASE UNCHANGED vars
    BY <1>0 DEF vars, histVars, Early
<1> SUFFICES ASSUME NEW g \in Gateways,
                    Open(g) \/ Migrate(g) \/ Locked(g) \/ Close(g) \/ Crash(g)
             PROVE  Early'
    BY <1>0 DEF Next
<1> SUFFICES ASSUME ~misread'
             PROVE  (\A h \in Gateways :
                        pc[h] \in {"wal", "tune", "table", "indexes", "check", "alter"} =>
                            file.version \in 0..2)'
    BY DEF Early
<1>a. misread = FALSE
    BY MisreadStays DEF TypeOK
<1> DEFINE Migrating == {"wal", "tune", "table", "indexes", "check", "alter"}
<1>1. pc \in [Gateways -> Steps]
    BY DEF TypeOK
<1>2. file.version \in 0..2 => file'.version \in 0..2
    BY MigratorsWrite
<1>3. \A h \in Gateways : h # g => pc'[h] = pc[h]
    BY <1>1 DEF Open, Migrate, ReadVersion, SetWal, SetConnection, CreateTable,
                CreateIndexes, CheckColumn, AddColumn, Stamp, PrepareInsert,
                Locked, Close, Crash, Goto
<1>4. pc'[g] \in Migrating => file.version \in 0..2
  <2>1. CASE Open(g) \/ Locked(g) \/ Close(g) \/ Crash(g)
      BY <1>1, <2>1 DEF Open, Locked, Close, Crash, Goto
  <2>2. CASE ReadVersion(g)
    <3>1. PICK v : /\ pc' = [pc EXCEPT ![g] = StepFor(v)]
                   /\ misread' = (misread \/ v # file.version)
        BY <2>2, Zenon DEF ReadVersion, Goto
    <3>2. v = file.version
        BY <3>1, Zenon
    <3> QED BY <1>1, <3>1, <3>2 DEF StepFor
  <2>3. CASE PrepareInsert(g)
      BY <1>1, <2>3 DEF PrepareInsert, Goto
  <2>4. CASE SetWal(g) \/ SetConnection(g) \/ CreateTable(g) \/ CreateIndexes(g)
             \/ CheckColumn(g) \/ AddColumn(g) \/ Stamp(g)
      BY <1>a, <2>4 DEF SetWal, SetConnection, CreateTable, CreateIndexes, CheckColumn,
                  AddColumn, Stamp, Early
  <2> QED BY <2>1, <2>2, <2>3, <2>4 DEF Migrate
<1> QED BY <1>2, <1>3, <1>4, <1>a DEF Early

\* A file of a later schema version is left exactly as it is, whatever gateways
\* open it and crash, as long as its version is not misread.
THEOREM LaterVersionsAreLeft == Spec => LaterVersionUntouched
<1>1. Init => Early
    BY DEF Init, Early
<1>2. ASSUME TypeOK, Early, [Next]_vars
      PROVE  [file.version \notin 0..2 /\ ~misread' => file' = file]_vars
  <2>1. CASE UNCHANGED vars
      BY <2>1
  <2>2. ASSUME NEW g \in Gateways,
               Open(g) \/ Migrate(g) \/ Locked(g) \/ Close(g) \/ Crash(g)
        PROVE  file.version \notin 0..2 /\ ~misread' => file' = file
    <3>1. misread' = FALSE => misread = FALSE
        BY <2>2, <1>2, MisreadStays DEF TypeOK
    <3> QED BY <2>2, <3>1, <1>2, MigratorsWrite DEF Early, TypeOK
  <2> QED BY <1>2, <2>1, <2>2 DEF Next
<1>3. TypeOK /\ Early /\ [Next]_vars => Early'
    BY EarlyStep
<1> QED BY <1>1, <1>2, <1>3, TypeCorrect, PTL DEF Spec, LaterVersionUntouched

-----------------------------------------------------------------------------
(* What a crash leaves behind.                                             *)

\* Version 1 was given to tables only, and a gateway that is absent does nothing.
Sound ==
    /\ file.version = 1 => file.table
    /\ \A g \in Gateways \ present : pc[g] = "closed"

\* What a gateway that has the file for itself finds at each statement.
Undisturbed(g) ==
    /\ pc[g] = "failed" => Unusable(file)
    /\ pc[g] \in {"wal", "tune"} /\ plan[g] = "upgrade" => file.table
    /\ pc[g] \in {"indexes", "check", "alter"} => file.table
    /\ pc[g] = "alter" => Motor[col[g]] \notin file.columns

Repairable == Sound /\ (Alone => \A g \in Gateways : Undisturbed(g))

LEMMA RepairableInit == Init => Repairable
<1> SUFFICES ASSUME Init PROVE Repairable
    OBVIOUS
<1>1. Sound
    BY FilesAssumption, StampedFilesAssumption DEF Init, Sound
<1>2. \A g \in Gateways : Undisturbed(g)
    BY DEF Init, Undisturbed
<1> QED BY <1>1, <1>2 DEF Repairable

\* Only gateways that are present take steps; none joins later, and a step is
\* that of one gateway.
LEMMA OneActs ==
    ASSUME TypeOK, Repairable, NEW g \in Gateways,
           Open(g) \/ Migrate(g) \/ Locked(g) \/ Close(g) \/ Crash(g)
    PROVE  /\ g \in present /\ present' = present
           /\ \A h \in Gateways : h # g => pc'[h] = pc[h] /\ col'[h] = col[h] /\ plan'[h] = plan[h]
<1>1. pc \in [Gateways -> Steps] /\ col \in [Gateways -> 1..Len(Motor) + 1]
      /\ plan \in [Gateways -> {"migrate", "upgrade"}]
    BY DEF TypeOK
<1>2. g \in present
  <2>1. CASE Open(g)
      BY <2>1 DEF Open
  <2>2. CASE ~Open(g)
    <3>1. pc[g] # "closed"
        BY <2>2 DEF Migrate, ReadVersion, SetWal, SetConnection, CreateTable,
                    CreateIndexes, CheckColumn, AddColumn, Stamp, PrepareInsert,
                    Locked, Close, Crash
    <3> QED BY <3>1 DEF Repairable, Sound
  <2> QED BY <2>1, <2>2
<1>3. present' = present
    BY DEF Open, Migrate, ReadVersion, SetWal, SetConnection, CreateTable,
           CreateIndexes, CheckColumn, AddColumn, Stamp, PrepareInsert,
           Locked, Close, Crash, histVars
<1>4. \A h \in Gateways : h # g => pc'[h] = pc[h] /\ col'[h] = col[h] /\ plan'[h] = plan[h]
    BY <1>1 DEF Open, Migrate, ReadVersion, SetWal, SetConnection, CreateTable,
                CreateIndexes, CheckColumn, AddColumn, Stamp, PrepareInsert,
                Locked, Close, Crash, Goto
<1> QED BY <1>2, <1>3, <1>4

LEMMA SoundStep ==
    ASSUME TypeOK, Repairable, NEW g \in Gateways,
           Open(g) \/ Migrate(g) \/ Locked(g) \/ Close(g) \/ Crash(g)
    PROVE  Sound'
<1>1. file'.version = 1 => file'.table
  <2>1. file \in FileType
      BY DEF TypeOK
  <2>2. file.version = 1 => file.table
      BY DEF Repairable, Sound
  <2>3. CASE SetWal(g) \/ CreateTable(g) \/ CreateIndexes(g)
      BY <2>1, <2>2, <2>3 DEF SetWal, CreateTable, CreateIndexes, FileType
  <2>4. CASE AddColumn(g) \/ Stamp(g)
      BY <2>1, <2>2, <2>4 DEF AddColumn, Stamp, FileType
  <2>5. CASE \/ Open(g) \/ Locked(g) \/ Close(g) \/ Crash(g) \/ ReadVersion(g)
             \/ SetConnection(g) \/ CheckColumn(g) \/ PrepareInsert(g)
      BY <2>2, <2>5 DEF Open, Locked, Close, Crash, ReadVersion, SetConnection,
                        CheckColumn, PrepareInsert
  <2> QED BY <2>3, <2>4, <2>5 DEF Migrate
<1>2. \A h \in Gateways \ present' : pc'[h] = "closed"
    BY OneActs DEF Repairable, Sound
<1> QED BY <1>1, <1>2 DEF Sound

LEMMA UndisturbedStep ==
    ASSUME TypeOK, LoopShape, Stamped, Repairable, Alone, NEW g \in Gateways,
           Open(g) \/ Migrate(g) \/ Locked(g) \/ Close(g) \/ Crash(g)
    PROVE  Undisturbed(g)'
<1>1. /\ pc \in [Gateways -> Steps] /\ col \in [Gateways -> 1..Len(Motor) + 1]
      /\ plan \in [Gateways -> {"migrate", "upgrade"}] /\ file \in FileType
    BY DEF TypeOK
<1>2. Undisturbed(g) /\ Sound /\ Shared /\ Achieved(g)
    BY DEF Repairable, Stamped
<1>3. CASE Open(g) \/ Close(g) \/ Crash(g)
    BY <1>1, <1>3 DEF Open, Close, Crash, Goto, Undisturbed
<1>4. ~Locked(g)
  <2>1. \A h \in Gateways \ {g} : pc[h] = "closed"
      BY OneActs, <1>2 DEF Alone, Sound
  <2> QED BY <2>1 DEF Locked
<1>5. CASE ReadVersion(g)
  <2>1. PICK v \in {file.version} \cup {0} :
               /\ plan' = [plan EXCEPT ![g] = IF v = 0 THEN "migrate" ELSE "upgrade"]
               /\ pc' = [pc EXCEPT ![g] = StepFor(v)]
      BY <1>5 DEF ReadVersion, Goto
  <2>2. file' = file
      BY <1>5 DEF ReadVersion
  <2>3. v = 1 => file.table
      BY <1>2 DEF Sound
  <2>4. v \notin {0, 1, 2} => Unusable(file)
      BY DEF Unusable
  <2> QED BY <1>1, <2>1, <2>2, <2>3, <2>4 DEF StepFor, Undisturbed
<1>6. CASE SetWal(g)
    BY <1>1, <1>2, <1>6 DEF SetWal, Goto, FileType, Undisturbed
<1>7. CASE SetConnection(g)
    BY <1>1, <1>2, <1>7 DEF SetConnection, Goto, Undisturbed
<1>8. CASE CreateTable(g)
    BY <1>1, <1>8 DEF CreateTable, Goto, FileType, Undisturbed
<1>9. CASE CreateIndexes(g)
  <2>1. pc[g] = "indexes" /\ file.table
      BY <1>2, <1>9 DEF CreateIndexes, Undisturbed
  <2>2. CASE file.indexed \/ Keys \subseteq file.columns
      BY <1>1, <1>9, <2>1, <2>2 DEF CreateIndexes, Goto, FileType, Undisturbed
  <2>3. CASE ~(file.indexed \/ Keys \subseteq file.columns)
    <3>1. Unusable(file)
        BY <2>1, <2>3, ColumnsAssumption DEF Unusable
    <3>2. file' = file /\ pc'[g] = "failed"
        BY <1>1, <1>9, <2>3 DEF CreateIndexes, Goto
    <3> QED BY <3>1, <3>2 DEF Undisturbed
  <2> QED BY <2>2, <2>3
<1>10. CASE CheckColumn(g)
  <2>1. pc[g] = "check" /\ file.table /\ file' = file
      BY <1>2, <1>10 DEF CheckColumn, Undisturbed
  <2>2. \/ pc'[g] = "check"
        \/ pc'[g] = "alter" /\ col'[g] = col[g] /\ Motor[col[g]] \notin file.columns
      BY <1>1, <1>10 DEF CheckColumn, ColumnExists, Goto
  <2> QED BY <2>1, <2>2 DEF Undisturbed
<1>11. CASE AddColumn(g)
  <2>1. file.table /\ Motor[col[g]] \notin file.columns
      BY <1>2, <1>11 DEF AddColumn, Undisturbed
  <2>2. file'.table = file.table /\ pc'[g] = "check"
      BY <1>1, <1>11, <2>1 DEF AddColumn, Goto, FileType
  <2> QED BY <2>1, <2>2 DEF Undisturbed
<1>12. CASE Stamp(g)
    BY <1>1, <1>12 DEF Stamp, Goto, Undisturbed
<1>13. CASE PrepareInsert(g)
  <2>1. pc[g] = "prepare" /\ file' = file /\ file.table /\ MotorColumns \subseteq file.columns
      BY <1>2, <1>13 DEF PrepareInsert, Achieved, Shared
  <2>2. \/ pc'[g] = "open"
        \/ pc'[g] = "failed" /\ ~(AllColumns \subseteq file.columns)
      BY <1>1, <1>13, <2>1 DEF PrepareInsert, Goto
  <2>3. ~(AllColumns \subseteq file.columns) => Unusable(file)
      BY <2>1 DEF AllColumns, Unusable
  <2> QED BY <2>1, <2>2, <2>3 DEF Undisturbed
<1> QED BY <1>3, <1>4, <1>5, <1>6, <1>7, <1>8, <1>9, <1>10, <1>11, <1>12, <1>13 DEF Migrate

LEMMA RepairableStep ==
    ASSUME TypeOK, LoopShape, Stamped, Repairable, [Next]_vars
    PROVE  Repairable'
<1>0. CASE UNCHANGED vars
    BY <1>0 DEF vars, histVars, Repairable, Sound, Alone, Undisturbed, Unusable
<1> SUFFICES ASSUME NEW g \in Gateways,
                    Open(g) \/ Migrate(g) \/ Locked(g) \/ Close(g) \/ Crash(g)
             PROVE  Repairable'
    BY <1>0 DEF Next
<1>1. g \in present /\ present' = present /\ (Alone' <=> Alone)
    BY OneActs DEF Alone
<1>2. ASSUME Alone, NEW h \in Gateways, h # g PROVE Undisturbed(h)'
  <2>1. pc[h] = "closed" /\ pc'[h] = pc[h]
      BY <1>1, <1>2, OneActs DEF Alone, Repairable, Sound
  <2> QED BY <2>1 DEF Undisturbed
<1> QED BY <1>1, <1>2, SoundStep, UndisturbedStep DEF Repairable

\* Wherever a gateway that has the file for itself was killed, the next start
\* finishes its migration: db_writer_open refuses only what it never could use.
THEOREM CrashesRepaired == Spec => []CrashesAreRepaired
<1>1. Repairable => CrashesAreRepaired
    BY DEF Repairable, Undisturbed, CrashesAreRepaired
<1>2. Init => LoopShape
    BY DEF Init, LoopShape
<1> QED BY <1>1, <1>2, TypeCorrect, StampedInit, StampedStep, RepairableInit,
           RepairableStep, PTL DEF Spec
=============================================================================
