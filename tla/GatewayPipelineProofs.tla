------------------------ MODULE GatewayPipelineProofs ------------------------
(***************************************************************************)
(* Theorems about GatewayPipeline for every batch size, every bound on the *)
(* messages and every set of faults: types, the handshake between the      *)
(* writer and its wakers, the accounts, and what stop leaves behind.       *)
(*                                                                         *)
(* Then, with its histories (PipelineHistory), where the samples stand.    *)
(* Those on their way are all behind the durable rows and the stream, and  *)
(* in the order they arrived in: hence the pipeline implements SampleLog,  *)
(* each raw buffer is freed once, by its owner, and every message received *)
(* is in one place, whatever calls fail.                                   *)
(***************************************************************************)
EXTENDS PipelineHistory, SequenceTheorems, FiniteSetTheorems, TLAPS

-----------------------------------------------------------------------------
(* Type correctness.                                                       *)

LEMMA PopCountBounds ==
    ASSUME queue \in Seq(Nat)
    PROVE  /\ PopCount \in 0..Len(queue) /\ PopCount <= BatchSize
           /\ queue # <<>> => PopCount > 0
BY BatchSizeAssumption DEF PopCount

\* A sequence cut in two: what each half holds.
LEMMA CutInTwo ==
    ASSUME NEW s \in Seq(Nat), NEW n \in 0..Len(s)
    PROVE  LET taken == SubSeq(s, 1, n)
               rest  == SubSeq(s, n + 1, Len(s))
           IN  /\ taken \in Seq(Nat) /\ Len(taken) = n
               /\ \A i \in 1..n : taken[i] = s[i]
               /\ rest \in Seq(Nat) /\ Len(rest) = Len(s) - n
               /\ \A i \in 1..Len(rest) : rest[i] = s[n + i]
OBVIOUS

\* What PopBatch takes and what it leaves.
LEMMA PopSplits ==
    ASSUME queue \in Seq(Nat)
    PROVE  LET taken == SubSeq(queue, 1, PopCount)
               rest  == SubSeq(queue, PopCount + 1, Len(queue))
           IN  /\ taken \in Seq(Nat) /\ Len(taken) = PopCount
               /\ \A i \in 1..PopCount : taken[i] = queue[i]
               /\ rest \in Seq(Nat) /\ Len(rest) = Len(queue) - PopCount
               /\ \A i \in 1..Len(rest) : rest[i] = queue[PopCount + i]
BY PopCountBounds, CutInTwo, Zenon

\* The raw buffers stay a set of sample numbers.
LEMMA FreeRawTypes ==
    ASSUME heap \subseteq Nat, freed \subseteq Nat, NEW S, FreeRaw(S)
    PROVE  heap' \subseteq Nat /\ freed' \subseteq Nat
BY DEF FreeRaw

LEMMA TypeInit == Init => TypeOK
<1> SUFFICES ASSUME Init PROVE TypeOK
    OBVIOUS
<1>1. snap \in Counters /\ last \in Counters
    BY DEF Init, Counters
<1>2. <<>> \in Seq(Nat) /\ Len(<<>>) <= BatchSize
    BY BatchSizeAssumption
<1>3. rx_msgs \in 0..MaxMsgs /\ row \in Nat \ {0}
      /\ db_rows \in Nat /\ commit_count \in Nat /\ dropped \in Nat
    BY MaxMsgsAssumption DEF Init
<1>4. running \in BOOLEAN /\ ok \in BOOLEAN /\ txn \in BOOLEAN
    BY Zenon DEF Init
<1>5. /\ main = "run" /\ net = "idle" /\ q_mu = "free" /\ writer = "loop"
      /\ reporter \in {"sleep", "queue", "done"} /\ heap = {} /\ freed = {}
      /\ queue = <<>> /\ batch = <<>> /\ pending = <<>> /\ stored = <<>> /\ live = <<>>
    BY Zenon DEF Init
<1> QED BY <1>1, <1>2, <1>3, <1>4, <1>5, Zenon DEF TypeOK

\* Which phases of the writer have a batch, and that its two loops stay in it.
BatchShape ==
    /\ writer \in {"begin", "insert", "end", "count", "send"} <=> batch # <<>>
    /\ writer \in {"insert", "send"} => row <= Len(batch)

LEMMA TypeStep == BatchShape /\ TypeOK /\ [Next]_vars => TypeOK'
<1> SUFFICES ASSUME BatchShape, TypeOK, [Next]_vars PROVE TypeOK'
    OBVIOUS
<1> USE MaxMsgsAssumption DEF TypeOK, netVars, writerVars, dbVars, countVars, statsVars, rawVars
<1>1. CASE OnMessage
    BY <1>1 DEF OnMessage
<1>2. CASE UnpackFails
    BY <1>2 DEF UnpackFails
<1>3. CASE BuildSample
  <2>1. heap' \subseteq Nat
    <3>1. rx_msgs \in Nat /\ heap \subseteq Nat
        OBVIOUS
    <3>2. heap' = heap \cup {rx_msgs} \/ heap' = heap
        BY <1>3, Zenon DEF BuildSample
    <3> HIDE DEF TypeOK
    <3> QED BY <3>1, <3>2
  <2> QED BY <1>3, <2>1 DEF BuildSample
<1>4. CASE QueuePush
    BY <1>4 DEF QueuePush, WakeWriter, LinkedAtTail
<1>5. CASE QueuePushFails
    BY <1>5, FreeRawTypes DEF QueuePushFails
<1>6. CASE WriterLoop
    BY <1>6 DEF WriterLoop
<1>7. CASE WriterLock
    BY <1>7 DEF WriterLock
<1>8. CASE WriterFindsNothing
    BY <1>8 DEF WriterFindsNothing
<1>9. CASE WriterWait
    BY <1>9 DEF WriterWait
<1>10. CASE PopBatch
  <2>1. batch' \in Seq(Nat) /\ Len(batch') <= BatchSize /\ queue' \in Seq(Nat)
      BY <1>10, PopSplits, PopCountBounds DEF PopBatch
  <2> QED BY <1>10, <2>1, ZenonT(30) DEF PopBatch
<1>11. CASE Begin
  <2>1. ok' \in BOOLEAN /\ txn' \in BOOLEAN
      BY <1>11, Zenon DEF Begin, dbVars
  <2> QED BY <1>11, <2>1 DEF Begin
<1>12. CASE BeginFails
    BY <1>12, FreeRawTypes, BatchSizeAssumption DEF BeginFails
<1>13. CASE Insert
  <2>1. batch[row] \in Nat
      BY <1>13 DEF Insert, BatchShape
  <2>2. pending' \in Seq(Nat) /\ stored' \in Seq(Nat)
    <3>1. pending \in Seq(Nat) /\ stored \in Seq(Nat)
        OBVIOUS
    <3>2. \/ pending' = Append(pending, batch[row]) /\ stored' = stored
          \/ stored' = Append(stored, batch[row]) /\ pending' = pending
        BY <1>13 DEF Insert
    <3> HIDE DEF TypeOK
    <3>3. CASE pending' = Append(pending, batch[row]) /\ stored' = stored
        BY <2>1, <3>1, <3>3
    <3>4. CASE stored' = Append(stored, batch[row]) /\ pending' = pending
        BY <2>1, <3>1, <3>4
    <3> QED BY <3>2, <3>3, <3>4
  <2> QED BY <1>13, <2>2 DEF Insert, NextRow
<1>14. CASE InsertFails
  <2>1. ok' \in BOOLEAN /\ txn' \in BOOLEAN
      BY <1>14, Zenon DEF InsertFails, dbVars
  <2> QED BY <1>14, <2>1 DEF InsertFails, NextRow
<1>15. CASE InsertAborts
  <2>1. ok' \in BOOLEAN /\ txn' \in BOOLEAN
      BY <1>15, Zenon DEF InsertAborts, dbVars
  <2> QED BY <1>15, <2>1 DEF InsertAborts, NextRow
<1>16. CASE Commit
  <2>1. ok' \in BOOLEAN /\ txn' \in BOOLEAN
      BY <1>16, Zenon DEF Commit
  <2>2. stored' \in Seq(Nat) /\ pending' \in Seq(Nat)
      BY <1>16 DEF Commit
  <2> QED BY <1>16, <2>1, <2>2 DEF Commit
<1>17. CASE CommitFails
  <2>1. ok' \in BOOLEAN /\ txn' \in BOOLEAN
    <3>1. ok' = ok /\ (txn' = FALSE \/ txn' = txn)
        BY <1>17 DEF CommitFails
    <3> QED BY <3>1, Zenon
  <2>2. pending' \in Seq(Nat)
    <3>1. CASE pending' = <<>>
        BY <3>1
    <3>2. CASE pending' = pending
        BY <3>2
    <3> QED BY <1>17, <3>1, <3>2, Zenon DEF CommitFails
  <2>3. UNCHANGED <<running, main, netVars, q_mu, queue, batch, row, stored,
                    countVars, live, statsVars, rawVars, dropped>>
      BY <1>17 DEF CommitFails
  <2>4. writer' = "count"
      BY <1>17 DEF CommitFails
  <2> QED BY <2>1, <2>2, <2>3, <2>4
<1>18. CASE Rollback
  <2>1. ok' \in BOOLEAN /\ txn' \in BOOLEAN
      BY <1>18, Zenon DEF Rollback, dbVars
  <2> QED BY <1>18, <2>1 DEF Rollback
<1>19. CASE CountBatch
    BY <1>19 DEF CountBatch, RowsCounted
<1>20. CASE Broadcast
  <2>1. batch[row] \in Nat
      BY <1>20 DEF Broadcast, BatchShape
  <2>2. live' \in Seq(Nat)
    <3>1. live \in Seq(Nat)
        OBVIOUS
    <3>2. live' = Append(live, batch[row]) \/ live' = live
        BY <1>20, Zenon DEF Broadcast
    <3> HIDE DEF TypeOK
    <3> QED BY <2>1, <3>1, <3>2
  <2>3. batch' \in Seq(Nat) /\ Len(batch') <= BatchSize
    <3>1. batch \in Seq(Nat) /\ Len(batch) <= BatchSize
        OBVIOUS
    <3>2. batch' = <<>> \/ batch' = batch
        BY <1>20, Zenon DEF Broadcast
    <3> HIDE DEF TypeOK
    <3>3. CASE batch' = <<>>
        BY <3>3, BatchSizeAssumption
    <3> QED BY <3>1, <3>2, <3>3, Zenon
  <2>4. heap' \subseteq Nat /\ freed' \subseteq Nat
      BY <1>20, FreeRawTypes DEF Broadcast
  <2> QED BY <1>20, <2>2, <2>3, <2>4, SMTT(30) DEF Broadcast
<1>21. CASE SpuriousWakeup
    BY <1>21 DEF SpuriousWakeup
<1>22. CASE ReadCounters
  <2>1. snap' \in Counters
    <3>1. /\ snap \in Counters
          /\ rx_msgs \in Nat /\ db_rows \in Nat /\ commit_count \in Nat
        OBVIOUS
    <3> HIDE DEF TypeOK
    <3>2. \/ snap' = [rx |-> rx_msgs, db |-> db_rows, commits |-> commit_count]
          \/ snap' = snap
        BY <1>22, Zenon DEF ReadCounters
    <3> QED BY <3>1, <3>2 DEF Counters
  <2> QED BY <1>22, <2>1 DEF ReadCounters
<1>23. CASE Report
    BY <1>23 DEF Report
<1>24. CASE StopFlag
  <2>1. running' \in BOOLEAN
      BY <1>24, Zenon DEF StopFlag
  <2> QED BY <1>24, <2>1 DEF StopFlag
<1>25. CASE StopWake
    BY <1>25 DEF StopWake, WakeWriter
<1>26. CASE StopJoinWriter
    BY <1>26 DEF StopJoinWriter
<1>27. CASE StopJoinStats
    BY <1>27 DEF StopJoinStats
<1>28. CASE StopCloseMqtt
    BY <1>28 DEF StopCloseMqtt
<1>29. CASE StopFree
  <2>1. txn' \in BOOLEAN
      BY <1>29, Zenon DEF StopFree
  <2>2. heap' \subseteq Nat /\ freed' \subseteq Nat
      BY <1>29, FreeRawTypes DEF StopFree
  <2> QED BY <1>29, <2>1, <2>2 DEF StopFree
<1>30. CASE UNCHANGED vars
    BY <1>30 DEF vars
<1> QED BY <1>1, <1>2, <1>3, <1>4, <1>5, <1>6, <1>7, <1>8, <1>9, <1>10,
           <1>11, <1>12, <1>13, <1>14, <1>15, <1>16, <1>17, <1>18, <1>19,
           <1>20, <1>21, <1>22, <1>23, <1>24, <1>25, <1>26, <1>27, <1>28,
           <1>29, <1>30
       DEF Next, Network, Writer, Pop, Persist, Reporter, Stop, Stopped

LEMMA BatchShapeStep == TypeOK /\ BatchShape /\ [Next]_vars => BatchShape'
<1> SUFFICES ASSUME TypeOK, BatchShape, [Next]_vars PROVE BatchShape'
    OBVIOUS
<1> USE DEF TypeOK, BatchShape, netVars, writerVars, dbVars, countVars, statsVars, rawVars
<1>1. CASE OnMessage
    BY <1>1 DEF OnMessage
<1>2. CASE UnpackFails
    BY <1>2 DEF UnpackFails
<1>3. CASE BuildSample
    BY <1>3 DEF BuildSample
<1>4. CASE QueuePush
    BY <1>4 DEF QueuePush, WakeWriter, LinkedAtTail
<1>5. CASE QueuePushFails
    BY <1>5 DEF QueuePushFails
<1>6. CASE WriterLoop
    BY <1>6 DEF WriterLoop
<1>7. CASE WriterLock
    BY <1>7 DEF WriterLock
<1>8. CASE WriterFindsNothing
    BY <1>8 DEF WriterFindsNothing
<1>9. CASE WriterWait
    BY <1>9 DEF WriterWait
<1>10. CASE PopBatch
    BY <1>10, PopSplits, PopCountBounds, SMTT(30) DEF PopBatch
<1>11. CASE Begin
    BY <1>11 DEF Begin
<1>12. CASE BeginFails
    BY <1>12 DEF BeginFails
<1>13. CASE Insert
    BY <1>13 DEF Insert, NextRow
<1>14. CASE InsertFails
    BY <1>14 DEF InsertFails, NextRow
<1>15. CASE InsertAborts
    BY <1>15 DEF InsertAborts, NextRow
<1>16. CASE Commit
    BY <1>16 DEF Commit
<1>17. CASE CommitFails
    BY <1>17 DEF CommitFails
<1>18. CASE Rollback
    BY <1>18 DEF Rollback
<1>19. CASE CountBatch
    BY <1>19 DEF CountBatch, RowsCounted
<1>20. CASE Broadcast
    BY <1>20 DEF Broadcast
<1>21. CASE SpuriousWakeup
    BY <1>21 DEF SpuriousWakeup
<1>22. CASE ReadCounters
    BY <1>22 DEF ReadCounters
<1>23. CASE Report
    BY <1>23 DEF Report
<1>24. CASE StopFlag
    BY <1>24 DEF StopFlag
<1>25. CASE StopWake
    BY <1>25 DEF StopWake, WakeWriter
<1>26. CASE StopJoinWriter
    BY <1>26 DEF StopJoinWriter
<1>27. CASE StopJoinStats
    BY <1>27 DEF StopJoinStats
<1>28. CASE StopCloseMqtt
    BY <1>28 DEF StopCloseMqtt
<1>29. CASE StopFree
    BY <1>29 DEF StopFree
<1>30. CASE UNCHANGED vars
    BY <1>30 DEF vars
<1> QED BY <1>1, <1>2, <1>3, <1>4, <1>5, <1>6, <1>7, <1>8, <1>9, <1>10,
           <1>11, <1>12, <1>13, <1>14, <1>15, <1>16, <1>17, <1>18, <1>19,
           <1>20, <1>21, <1>22, <1>23, <1>24, <1>25, <1>26, <1>27, <1>28,
           <1>29, <1>30
       DEF Next, Network, Writer, Pop, Persist, Reporter, Stop, Stopped

\* Type correctness; the batch never exceeds the buffer of BatchSize samples that
\* writer_thread allocates, and both of its loops index inside the batch.
THEOREM TypeCorrect == Spec => [](TypeOK /\ BatchShape)
<1>1. Init => BatchShape
    BY DEF Init, BatchShape
<1> QED BY TypeInit, <1>1, TypeStep, BatchShapeStep, PTL DEF Spec

-----------------------------------------------------------------------------
(* The handshake on q_mu and q_cv.                                         *)

\* Why no wakeup is lost: who keeps the mutex has not decided yet or has seen an
\* empty queue, and stop cannot broadcast before that thread is a waiter.
Handshake ==
    /\ running <=> main = "run"
    /\ q_mu = "writer" <=> writer \in {"test", "park"}
    /\ writer \in {"park", "wait"} => queue = <<>> /\ main \in {"run", "wake"}

LEMMA HandshakeStep == TypeOK /\ Handshake /\ [Next]_vars => Handshake'
<1> SUFFICES ASSUME TypeOK, Handshake, [Next]_vars PROVE Handshake'
    OBVIOUS
<1> USE DEF Handshake, netVars, writerVars, dbVars, countVars, statsVars, rawVars
<1>1. CASE OnMessage
    BY <1>1 DEF OnMessage
<1>2. CASE UnpackFails
    BY <1>2 DEF UnpackFails
<1>3. CASE BuildSample
    BY <1>3 DEF BuildSample
<1>4. CASE QueuePush
    BY <1>4 DEF QueuePush, WakeWriter
<1>5. CASE QueuePushFails
    BY <1>5 DEF QueuePushFails
<1>6. CASE WriterLoop
    BY <1>6 DEF WriterLoop
<1>7. CASE WriterLock
    BY <1>7 DEF WriterLock
<1>8. CASE WriterFindsNothing
    BY <1>8 DEF WriterFindsNothing
<1>9. CASE WriterWait
    BY <1>9 DEF WriterWait
<1>10. CASE PopBatch
    BY <1>10 DEF PopBatch
<1>11. CASE Begin
    BY <1>11 DEF Begin
<1>12. CASE BeginFails
    BY <1>12 DEF BeginFails
<1>13. CASE Insert
    BY <1>13 DEF Insert, NextRow
<1>14. CASE InsertFails
    BY <1>14 DEF InsertFails, NextRow
<1>15. CASE InsertAborts
    BY <1>15 DEF InsertAborts, NextRow
<1>16. CASE Commit
    BY <1>16 DEF Commit
<1>17. CASE CommitFails
    BY <1>17 DEF CommitFails
<1>18. CASE Rollback
    BY <1>18 DEF Rollback
<1>19. CASE CountBatch
    BY <1>19 DEF CountBatch, RowsCounted
<1>20. CASE Broadcast
    BY <1>20 DEF Broadcast
<1>21. CASE SpuriousWakeup
    BY <1>21 DEF SpuriousWakeup
<1>22. CASE ReadCounters
    BY <1>22 DEF ReadCounters
<1>23. CASE Report
    BY <1>23 DEF Report
<1>24. CASE StopFlag
    BY <1>24 DEF StopFlag
<1>25. CASE StopWake
    BY <1>25 DEF StopWake, WakeWriter
<1>26. CASE StopJoinWriter
    BY <1>26 DEF StopJoinWriter
<1>27. CASE StopJoinStats
    BY <1>27 DEF StopJoinStats
<1>28. CASE StopCloseMqtt
    BY <1>28 DEF StopCloseMqtt
<1>29. CASE StopFree
    BY <1>29 DEF StopFree
<1>30. CASE UNCHANGED vars
    BY <1>30 DEF vars
<1> QED BY <1>1, <1>2, <1>3, <1>4, <1>5, <1>6, <1>7, <1>8, <1>9, <1>10,
           <1>11, <1>12, <1>13, <1>14, <1>15, <1>16, <1>17, <1>18, <1>19,
           <1>20, <1>21, <1>22, <1>23, <1>24, <1>25, <1>26, <1>27, <1>28,
           <1>29, <1>30
       DEF Next, Network, Writer, Pop, Persist, Reporter, Stop, Stopped

\* A push and stop always find the writer awake or wake it up: the writer never
\* sleeps on a queue that has samples or after the broadcast of stop.
THEOREM WakeupsAreKept == Spec => []NoLostWakeup
<1>1. Init => Handshake
    BY DEF Init, Handshake
<1>2. Handshake => NoLostWakeup
    BY DEF Handshake, NoLostWakeup
<1> QED BY <1>1, <1>2, HandshakeStep, TypeCorrect, PTL DEF Spec

-----------------------------------------------------------------------------
(* Stop and quiescence.                                                    *)

\* How far stop has come and which threads have ended by then.
Shutdown ==
    /\ writer = "done" => ~running
    /\ main \in {"join_stats", "close_mqtt", "free", "done"} => writer = "done"
    /\ main \in {"close_mqtt", "free", "done"} => reporter = "done"
    /\ net = "closed" <=> main \in {"free", "done"}

LEMMA ShutdownStep == TypeOK /\ Handshake /\ Shutdown /\ [Next]_vars => Shutdown'
<1> SUFFICES ASSUME TypeOK, Handshake, Shutdown, [Next]_vars PROVE Shutdown'
    OBVIOUS
<1> USE DEF TypeOK, Handshake, Shutdown, netVars, writerVars, dbVars, countVars, statsVars, rawVars
<1>1. CASE OnMessage
    BY <1>1 DEF OnMessage
<1>2. CASE UnpackFails
    BY <1>2 DEF UnpackFails
<1>3. CASE BuildSample
    BY <1>3 DEF BuildSample
<1>4. CASE QueuePush
    BY <1>4 DEF QueuePush, WakeWriter, LinkedAtTail
<1>5. CASE QueuePushFails
    BY <1>5 DEF QueuePushFails
<1>6. CASE WriterLoop
    BY <1>6 DEF WriterLoop
<1>7. CASE WriterLock
    BY <1>7 DEF WriterLock
<1>8. CASE WriterFindsNothing
    BY <1>8 DEF WriterFindsNothing
<1>9. CASE WriterWait
    BY <1>9 DEF WriterWait
<1>10. CASE PopBatch
    BY <1>10 DEF PopBatch
<1>11. CASE Begin
    BY <1>11 DEF Begin
<1>12. CASE BeginFails
    BY <1>12 DEF BeginFails
<1>13. CASE Insert
    BY <1>13 DEF Insert, NextRow
<1>14. CASE InsertFails
    BY <1>14 DEF InsertFails, NextRow
<1>15. CASE InsertAborts
    BY <1>15 DEF InsertAborts, NextRow
<1>16. CASE Commit
    BY <1>16 DEF Commit
<1>17. CASE CommitFails
    BY <1>17 DEF CommitFails
<1>18. CASE Rollback
    BY <1>18 DEF Rollback
<1>19. CASE CountBatch
    BY <1>19 DEF CountBatch, RowsCounted
<1>20. CASE Broadcast
    BY <1>20 DEF Broadcast
<1>21. CASE SpuriousWakeup
    BY <1>21 DEF SpuriousWakeup
<1>22. CASE ReadCounters
    BY <1>22 DEF ReadCounters
<1>23. CASE Report
    BY <1>23 DEF Report
<1>24. CASE StopFlag
    BY <1>24 DEF StopFlag
<1>25. CASE StopWake
    BY <1>25 DEF StopWake, WakeWriter
<1>26. CASE StopJoinWriter
    BY <1>26 DEF StopJoinWriter
<1>27. CASE StopJoinStats
    BY <1>27 DEF StopJoinStats
<1>28. CASE StopCloseMqtt
    BY <1>28 DEF StopCloseMqtt
<1>29. CASE StopFree
    BY <1>29 DEF StopFree
<1>30. CASE UNCHANGED vars
    BY <1>30 DEF vars
<1> QED BY <1>1, <1>2, <1>3, <1>4, <1>5, <1>6, <1>7, <1>8, <1>9, <1>10,
           <1>11, <1>12, <1>13, <1>14, <1>15, <1>16, <1>17, <1>18, <1>19,
           <1>20, <1>21, <1>22, <1>23, <1>24, <1>25, <1>26, <1>27, <1>28,
           <1>29, <1>30
       DEF Next, Network, Writer, Pop, Persist, Reporter, Stop, Stopped

\* When stop closes the writer's connection, destroys q_mu and stats_mu and frees
\* the queue, the writer, the stats thread and the network thread have all ended
\* and q_mu is free.  Detached client threads use none of these.
THEOREM NobodyLeftBehind == Spec => []QuiescentWhenFreed
<1>1. Init => Handshake
    BY DEF Init, Handshake
<1>2. Init => Shutdown
    BY StatsAssumption DEF Init, Shutdown
<1>3. TypeOK /\ Handshake /\ Shutdown => QuiescentWhenFreed
    BY DEF TypeOK, Handshake, Shutdown, QuiescentWhenFreed
<1> QED BY <1>1, <1>2, <1>3, HandshakeStep, ShutdownStep, TypeCorrect, PTL DEF Spec

-----------------------------------------------------------------------------
(* The accounts.                                                           *)

BatchCount == IF writer \in {"begin", "insert", "end", "count"} THEN Len(batch) ELSE 0

\* The counters alone: rx_msgs and db_rows differ by what is on its way and what
\* was disposed of.
Balance == rx_msgs = InHand + Len(queue) + BatchCount + db_rows + dropped

LEMMA AccountsStep == TypeOK /\ BatchShape /\ Balance /\ [Next]_vars => Balance'
<1> SUFFICES ASSUME TypeOK, BatchShape, Balance, [Next]_vars PROVE Balance'
    OBVIOUS
<1> USE DEF Balance, netVars, writerVars, dbVars, countVars, statsVars, rawVars
<1>a. /\ rx_msgs \in Nat /\ db_rows \in Nat /\ dropped \in Nat
      /\ Len(queue) \in Nat /\ Len(batch) \in Nat /\ InHand \in Nat /\ BatchCount \in Nat
  <2>1. rx_msgs \in Nat /\ db_rows \in Nat /\ dropped \in Nat
      BY MaxMsgsAssumption DEF TypeOK
  <2>2. Len(queue) \in Nat /\ Len(batch) \in Nat
      BY DEF TypeOK
  <2>3. InHand \in Nat /\ BatchCount \in Nat
      BY <2>2 DEF InHand, BatchCount
  <2> QED BY <2>1, <2>2, <2>3
<1>1. CASE OnMessage
  <2>1. InHand = 0 /\ InHand' = 1 /\ BatchCount' = BatchCount
      BY <1>1 DEF OnMessage, InHand, BatchCount
  <2> QED BY <1>1, <1>a, <2>1 DEF OnMessage
<1>2. CASE UnpackFails
  <2>1. InHand = 1 /\ InHand' = 0 /\ BatchCount' = BatchCount
      BY <1>2 DEF UnpackFails, InHand, BatchCount
  <2> QED BY <1>2, <1>a, <2>1 DEF UnpackFails
<1>3. CASE BuildSample
    BY <1>3 DEF BuildSample, InHand, BatchCount
<1>4. CASE QueuePush
  <2>1. InHand = 1 /\ InHand' = 0 /\ BatchCount' = BatchCount
      BY <1>4 DEF QueuePush, WakeWriter, InHand, BatchCount
  <2>2. Len(queue') = Len(queue) + 1
      BY <1>4 DEF QueuePush, LinkedAtTail, TypeOK
  <2> QED BY <1>4, <1>a, <2>1, <2>2 DEF QueuePush
<1>5. CASE QueuePushFails
  <2>1. InHand = 1 /\ InHand' = 0 /\ BatchCount' = BatchCount
      BY <1>5 DEF QueuePushFails, InHand, BatchCount
  <2> QED BY <1>5, <1>a, <2>1 DEF QueuePushFails
<1>6. CASE WriterLoop
    BY <1>6 DEF WriterLoop, InHand, BatchCount
<1>7. CASE WriterLock
    BY <1>7 DEF WriterLock, InHand, BatchCount
<1>8. CASE WriterFindsNothing
    BY <1>8 DEF WriterFindsNothing, InHand, BatchCount
<1>9. CASE WriterWait
    BY <1>9 DEF WriterWait, InHand, BatchCount
<1>10. CASE PopBatch
  <2>1. queue \in Seq(Nat)
      BY DEF TypeOK
  <2>2. Len(batch') = PopCount /\ Len(queue') = Len(queue) - PopCount
      BY <1>10, <2>1, PopSplits DEF PopBatch
  <2>3. PopCount \in Nat
      BY <2>1, PopCountBounds
  <2>4. CASE queue = <<>>
    <3>1. PopCount = 0 /\ BatchCount = 0 /\ BatchCount' = 0 /\ InHand' = InHand
        BY <1>10, <2>1, <2>4, PopCountBounds DEF PopBatch, InHand, BatchCount
    <3> QED BY <1>10, <1>a, <2>2, <3>1 DEF PopBatch
  <2>5. CASE queue # <<>>
    <3>1. BatchCount = 0 /\ BatchCount' = PopCount /\ InHand' = InHand
        BY <1>10, <2>2, <2>5 DEF PopBatch, InHand, BatchCount
    <3> QED BY <1>10, <1>a, <2>2, <2>3, <3>1 DEF PopBatch
  <2> QED BY <2>4, <2>5
<1>11. CASE Begin
    BY <1>11 DEF Begin, InHand, BatchCount
<1>12. CASE BeginFails
  <2>1. BatchCount = Len(batch) /\ BatchCount' = 0 /\ InHand' = InHand
      BY <1>12 DEF BeginFails, InHand, BatchCount
  <2> QED BY <1>12, <1>a, <2>1 DEF BeginFails
<1>13. CASE Insert
    BY <1>13 DEF Insert, NextRow, InHand, BatchCount
<1>14. CASE InsertFails
    BY <1>14 DEF InsertFails, NextRow, InHand, BatchCount
<1>15. CASE InsertAborts
    BY <1>15 DEF InsertAborts, NextRow, InHand, BatchCount
<1>16. CASE Commit
    BY <1>16 DEF Commit, InHand, BatchCount
<1>17. CASE CommitFails
    BY <1>17 DEF CommitFails, InHand, BatchCount
<1>18. CASE Rollback
    BY <1>18 DEF Rollback, InHand, BatchCount
<1>19. CASE CountBatch
  <2>1. BatchCount = Len(batch) /\ BatchCount' = 0 /\ InHand' = InHand
      BY <1>19 DEF CountBatch, InHand, BatchCount
  <2> QED BY <1>19, <1>a, <2>1 DEF CountBatch, RowsCounted
<1>20. CASE Broadcast
    BY <1>20 DEF Broadcast, InHand, BatchCount
<1>21. CASE SpuriousWakeup
    BY <1>21 DEF SpuriousWakeup, InHand, BatchCount
<1>22. CASE ReadCounters
    BY <1>22 DEF ReadCounters, InHand, BatchCount
<1>23. CASE Report
    BY <1>23 DEF Report, InHand, BatchCount
<1>24. CASE StopFlag
    BY <1>24 DEF StopFlag, InHand, BatchCount
<1>25. CASE StopWake
    BY <1>25 DEF StopWake, WakeWriter, InHand, BatchCount
<1>26. CASE StopJoinWriter
    BY <1>26 DEF StopJoinWriter, InHand, BatchCount
<1>27. CASE StopJoinStats
    BY <1>27 DEF StopJoinStats, InHand, BatchCount
<1>28. CASE StopCloseMqtt
    BY <1>28 DEF StopCloseMqtt, InHand, BatchCount
<1>29. CASE StopFree
  <2>1. Len(queue') = 0 /\ BatchCount' = BatchCount /\ InHand' = InHand
      BY <1>29 DEF StopFree, InHand, BatchCount
  <2> QED BY <1>29, <1>a, <2>1 DEF StopFree
<1>30. CASE UNCHANGED vars
    BY <1>30 DEF vars, InHand, BatchCount, InHand, BatchCount
<1> QED BY <1>1, <1>2, <1>3, <1>4, <1>5, <1>6, <1>7, <1>8, <1>9, <1>10,
           <1>11, <1>12, <1>13, <1>14, <1>15, <1>16, <1>17, <1>18, <1>19,
           <1>20, <1>21, <1>22, <1>23, <1>24, <1>25, <1>26, <1>27, <1>28,
           <1>29, <1>30
       DEF Next, Network, Writer, Pop, Persist, Reporter, Stop, Stopped

LEMMA BalanceKept == Spec => []Balance
<1>1. Init => Balance
    BY DEF Init, Balance, InHand, BatchCount
<1> QED BY <1>1, AccountsStep, TypeCorrect, PTL DEF Spec

-----------------------------------------------------------------------------
(* The statistics.                                                         *)

\* The counters of one batch: at least one row for each commit.
Counted ==
    /\ commit_count <= db_rows
    /\ snap.rx <= rx_msgs /\ snap.db <= db_rows /\ snap.commits <= commit_count
    /\ snap.commits <= snap.db /\ snap.db <= snap.rx
    /\ last.rx <= snap.rx /\ last.db <= snap.db /\ last.commits <= snap.commits

LEMMA CountedStep == TypeOK /\ BatchShape /\ Balance /\ Counted /\ [Next]_vars => Counted'
<1> SUFFICES ASSUME TypeOK, BatchShape, Balance, Counted, [Next]_vars PROVE Counted'
    OBVIOUS
<1> USE DEF TypeOK, Counted, netVars, writerVars, dbVars, countVars, statsVars, rawVars
<1>1. CASE OnMessage
    BY <1>1 DEF OnMessage, Counters
<1>2. CASE UnpackFails
    BY <1>2 DEF UnpackFails
<1>3. CASE BuildSample
    BY <1>3 DEF BuildSample
<1>4. CASE QueuePush
    BY <1>4 DEF QueuePush, WakeWriter, LinkedAtTail
<1>5. CASE QueuePushFails
    BY <1>5 DEF QueuePushFails
<1>6. CASE WriterLoop
    BY <1>6 DEF WriterLoop
<1>7. CASE WriterLock
    BY <1>7 DEF WriterLock
<1>8. CASE WriterFindsNothing
    BY <1>8 DEF WriterFindsNothing
<1>9. CASE WriterWait
    BY <1>9 DEF WriterWait
<1>10. CASE PopBatch
    BY <1>10 DEF PopBatch
<1>11. CASE Begin
    BY <1>11 DEF Begin
<1>12. CASE BeginFails
    BY <1>12 DEF BeginFails
<1>13. CASE Insert
    BY <1>13 DEF Insert, NextRow
<1>14. CASE InsertFails
    BY <1>14 DEF InsertFails, NextRow
<1>15. CASE InsertAborts
    BY <1>15 DEF InsertAborts, NextRow
<1>16. CASE Commit
    BY <1>16 DEF Commit
<1>17. CASE CommitFails
    BY <1>17 DEF CommitFails
<1>18. CASE Rollback
    BY <1>18 DEF Rollback
<1>19. CASE CountBatch
  <2>1. Len(batch) \in Nat \ {0}
      BY <1>19 DEF CountBatch, BatchShape
  <2>2. db_rows \in Nat /\ commit_count \in Nat /\ snap \in Counters /\ rx_msgs \in Nat
      OBVIOUS
  <2>3. snap.rx \in Nat /\ snap.db \in Nat /\ snap.commits \in Nat
      BY <2>2 DEF Counters
  <2> HIDE DEF TypeOK
  <2>4. /\ db_rows' = db_rows + Len(batch) /\ commit_count' = commit_count + 1
        /\ UNCHANGED <<rx_msgs, snap, last>>
      BY <1>19 DEF CountBatch, RowsCounted
  <2> QED BY <2>1, <2>2, <2>3, <2>4
<1>20. CASE Broadcast
    BY <1>20 DEF Broadcast
<1>21. CASE SpuriousWakeup
    BY <1>21 DEF SpuriousWakeup
<1>22. CASE ReadCounters
  <2>1. db_rows <= rx_msgs
    <3>1. /\ rx_msgs \in Nat /\ db_rows \in Nat /\ dropped \in Nat
          /\ Len(queue) \in Nat /\ InHand \in Nat /\ BatchCount \in Nat
        BY DEF InHand, BatchCount
    <3> HIDE DEF TypeOK, Counted
    <3> QED BY <3>1 DEF Balance
  <2>2. CASE running
    <3>1. snap' = [rx |-> rx_msgs, db |-> db_rows, commits |-> commit_count]
        BY <1>22, <2>2 DEF ReadCounters
    <3>2. snap'.rx = rx_msgs /\ snap'.db = db_rows /\ snap'.commits = commit_count
        BY <3>1
    <3> QED BY <1>22, <2>1, <3>2 DEF ReadCounters, Counters
  <2>3. CASE ~running
      BY <1>22, <2>3 DEF ReadCounters
  <2> QED BY <2>2, <2>3
<1>23. CASE Report
    BY <1>23 DEF Report, Counters
<1>24. CASE StopFlag
    BY <1>24 DEF StopFlag
<1>25. CASE StopWake
    BY <1>25 DEF StopWake, WakeWriter
<1>26. CASE StopJoinWriter
    BY <1>26 DEF StopJoinWriter
<1>27. CASE StopJoinStats
    BY <1>27 DEF StopJoinStats
<1>28. CASE StopCloseMqtt
    BY <1>28 DEF StopCloseMqtt
<1>29. CASE StopFree
    BY <1>29 DEF StopFree
<1>30. CASE UNCHANGED vars
    BY <1>30 DEF vars
<1> QED BY <1>1, <1>2, <1>3, <1>4, <1>5, <1>6, <1>7, <1>8, <1>9, <1>10,
           <1>11, <1>12, <1>13, <1>14, <1>15, <1>16, <1>17, <1>18, <1>19,
           <1>20, <1>21, <1>22, <1>23, <1>24, <1>25, <1>26, <1>27, <1>28,
           <1>29, <1>30
       DEF Next, Network, Writer, Pop, Persist, Reporter, Stop, Stopped

\* stats_thread subtracts counters that only grow, so that its unsigned differences
\* cannot wrap, and in the counters it reads db_rows never runs ahead of rx_msgs.
THEOREM ReportsNeverWrap == Spec => []ReportsAreSane
<1>1. Init => Balance
    BY DEF Init, Balance, InHand, BatchCount
<1>2. Init => Counted
    BY DEF Init, Counted
<1>3. Counted => ReportsAreSane
    BY DEF Counted, ReportsAreSane
<1> QED BY <1>1, <1>2, <1>3, AccountsStep, CountedStep, TypeCorrect, PTL DEF Spec

-----------------------------------------------------------------------------
(* The order of the samples.                                               *)

\* Each sample of s is newer than the one before it.
Rising(s) == \A i, j \in 1..Len(s) : i < j => s[i] < s[j]

\* Every sample of s is older than every one of t.
Before(s, t) == \A i \in 1..Len(s), j \in 1..Len(t) : s[i] < t[j]

\* Every sample of s is older than those of the batch a loop has still to do.
BeforeRest(s) == \A i \in 1..Len(s), j \in row..Len(batch) : s[i] < batch[j]

\* Every sample of s has arrived and is not the one on_message has in hand.
Arrived(s) == \A i \in 1..Len(s) : s[i] \in 1..(rx_msgs - InHand)

AllRising == Rising(queue) /\ Rising(batch) /\ Rising(pending) /\ Rising(stored) /\ Rising(live)

AllArrived ==
    Arrived(queue) /\ Arrived(batch) /\ Arrived(pending) /\ Arrived(stored) /\ Arrived(live)

\* What waits in the queue is newer than all that was taken from it.
QueueIsNewest ==
    Before(batch, queue) /\ Before(pending, queue) /\ Before(stored, queue) /\ Before(live, queue)

\* The stream is behind the batch at hand, and the durable rows are until it is
\* inserted; both are behind the rows a COMMIT will make durable.
BatchIsNext ==
    /\ ~txn => pending = <<>>
    /\ writer \in {"begin", "insert", "end", "count"} => Before(live, batch)
    /\ writer = "send" => BeforeRest(live)
    /\ writer = "begin" => Before(stored, batch)
    /\ writer = "insert" => BeforeRest(stored) /\ BeforeRest(pending)
    /\ writer \in {"insert", "end"} => Before(stored, pending) /\ Before(live, pending)

Order == AllRising /\ AllArrived /\ QueueIsNewest /\ BatchIsNext

-----------------------------------------------------------------------------
(* Sequences that grow.                                                    *)

\* A newer sample behind a rising sequence.
LEMMA AppendRises ==
    ASSUME NEW s \in Seq(Nat), NEW n \in Nat, Rising(s), \A i \in 1..Len(s) : s[i] < n
    PROVE  Rising(Append(s, n))
BY DEF Rising

LEMMA AppendBefore ==
    ASSUME NEW s \in Seq(Nat), NEW n \in Nat, NEW t \in Seq(Nat),
           Before(s, t), \A j \in 1..Len(t) : n < t[j]
    PROVE  Before(Append(s, n), t)
BY DEF Before

LEMMA BeforeAppend ==
    ASSUME NEW s \in Seq(Nat), NEW n \in Nat, NEW t \in Seq(Nat),
           Before(s, t), \A i \in 1..Len(s) : s[i] < n
    PROVE  Before(s, Append(t, n))
<1> SUFFICES ASSUME NEW i \in 1..Len(s), NEW j \in 1..Len(Append(t, n))
             PROVE  s[i] < Append(t, n)[j]
    BY DEF Before
<1>1. CASE j <= Len(t)
    BY <1>1 DEF Before
<1>2. CASE j = Len(t) + 1
    BY <1>2
<1> QED BY <1>1, <1>2

\* Two sequences of which one is behind the other.
LEMMA ConcatRises ==
    ASSUME NEW s \in Seq(Nat), NEW t \in Seq(Nat), Rising(s), Rising(t), Before(s, t)
    PROVE  Rising(s \o t)
<1> SUFFICES ASSUME NEW i \in 1..Len(s \o t), NEW j \in 1..Len(s \o t), i < j
             PROVE  (s \o t)[i] < (s \o t)[j]
    BY DEF Rising
<1>1. CASE j <= Len(s)
    BY <1>1 DEF Rising
<1>2. CASE i > Len(s)
  <2>1. i - Len(s) \in 1..Len(t) /\ j - Len(s) \in 1..Len(t)
      BY <1>2
  <2>2. (s \o t)[i] = t[i - Len(s)] /\ (s \o t)[j] = t[j - Len(s)]
      BY <1>2
  <2>3. \A k, l \in 1..Len(t) : k < l => t[k] < t[l]
      BY DEF Rising
  <2>4. i - Len(s) < j - Len(s)
      OBVIOUS
  <2> QED BY <2>1, <2>2, <2>3, <2>4
<1>3. CASE i <= Len(s) /\ j > Len(s)
    BY <1>3 DEF Before
<1> QED BY <1>1, <1>2, <1>3

LEMMA ConcatBefore ==
    ASSUME NEW s \in Seq(Nat), NEW t \in Seq(Nat), NEW u \in Seq(Nat),
           Before(s, u), Before(t, u)
    PROVE  Before(s \o t, u)
<1> SUFFICES ASSUME NEW i \in 1..Len(s \o t), NEW j \in 1..Len(u)
             PROVE  (s \o t)[i] < u[j]
    BY DEF Before
<1>1. CASE i <= Len(s)
    BY <1>1 DEF Before
<1>2. CASE i > Len(s)
  <2>1. i - Len(s) \in 1..Len(t) /\ (s \o t)[i] = t[i - Len(s)]
      BY <1>2
  <2> QED BY <2>1 DEF Before
<1> QED BY <1>1, <1>2

-----------------------------------------------------------------------------
(* The order is kept.                                                      *)

\* A step that moves no sample: the writer stays where it is or outside a batch.
MovesNone ==
    /\ UNCHANGED <<queue, batch, row, txn, pending, stored, live>>
    /\ rx_msgs - InHand <= rx_msgs' - InHand'
    /\ writer' = writer \/ writer' \in {"loop", "lock", "test", "park", "wait", "woken", "done"}

LEMMA OrderWithoutMove ==
    ASSUME TypeOK, TypeOK', Order, MovesNone
    PROVE  Order'
<1>1. AllRising' /\ QueueIsNewest'
    BY DEF MovesNone, Order, AllRising, QueueIsNewest, Rising, Before
<1>2. rx_msgs - InHand \in Int /\ rx_msgs' - InHand' \in Int
    BY SMTT(30) DEF TypeOK, InHand
<1>3. AllArrived'
  <2>1. ASSUME NEW n \in 1..(rx_msgs - InHand) PROVE n \in 1..(rx_msgs' - InHand')
      BY <1>2 DEF MovesNone
  <2> QED BY <2>1 DEF MovesNone, Order, AllArrived, Arrived
<1>4. BatchIsNext'
    BY DEF MovesNone, Order, BatchIsNext, Before, BeforeRest
<1> QED BY <1>1, <1>3, <1>4 DEF Order

LEMMA OtherStepsMoveNone ==
    ASSUME TypeOK,
           \/ OnMessage \/ UnpackFails \/ BuildSample \/ QueuePushFails
           \/ WriterLoop \/ WriterLock \/ WriterFindsNothing \/ WriterWait
           \/ SpuriousWakeup \/ Reporter \/ StopFlag
           \/ StopWake \/ StopJoinWriter \/ StopJoinStats \/ StopCloseMqtt
           \/ UNCHANGED vars
    PROVE  MovesNone
<1> USE DEF TypeOK, MovesNone, InHand, netVars, writerVars, dbVars, countVars, statsVars, rawVars
<1>1. CASE OnMessage
    BY <1>1 DEF OnMessage
<1>2. CASE UnpackFails
    BY <1>2 DEF UnpackFails
<1>3. CASE BuildSample
    BY <1>3 DEF BuildSample
<1>4. CASE QueuePushFails
    BY <1>4 DEF QueuePushFails
<1>5. CASE WriterLoop
    BY <1>5 DEF WriterLoop
<1>6. CASE WriterLock
    BY <1>6 DEF WriterLock
<1>7. CASE WriterFindsNothing
    BY <1>7 DEF WriterFindsNothing
<1>8. CASE WriterWait
    BY <1>8 DEF WriterWait
<1>9. CASE SpuriousWakeup
    BY <1>9 DEF SpuriousWakeup
<1>10. CASE Reporter
    BY <1>10 DEF Reporter, ReadCounters, Report
<1>11. CASE StopFlag
    BY <1>11 DEF StopFlag
<1>12. CASE StopWake
    BY <1>12 DEF StopWake, WakeWriter
<1>13. CASE StopJoinWriter
    BY <1>13 DEF StopJoinWriter
<1>14. CASE StopJoinStats
    BY <1>14 DEF StopJoinStats
<1>15. CASE StopCloseMqtt
    BY <1>15 DEF StopCloseMqtt
<1>16. CASE UNCHANGED vars
    BY <1>16 DEF vars
<1> QED BY <1>1, <1>2, <1>3, <1>4, <1>5, <1>6, <1>7, <1>8, <1>9, <1>10,
           <1>11, <1>12, <1>13, <1>14, <1>15, <1>16

\* The message in hand is one that was counted.
LEMMA HandHasArrived ==
    ASSUME TypeOK, Balance
    PROVE  InHand <= rx_msgs
<1>1. Len(queue) \in Nat /\ BatchCount \in Nat /\ InHand \in {0, 1}
    BY DEF TypeOK, BatchCount, InHand
<1> QED BY <1>1 DEF TypeOK, Balance

\* queue_push links the newest sample behind all the others.
LEMMA PushKeepsOrder ==
    ASSUME TypeOK, Balance, Order, QueuePush
    PROVE  Order'
<1> USE DEF QueuePush, LinkedAtTail, netVars, writerVars, dbVars
<1>1. /\ rx_msgs \in Nat \ {0} /\ InHand = 1 /\ InHand' = 0 /\ rx_msgs' = rx_msgs
      /\ queue \in Seq(Nat) /\ batch \in Seq(Nat) /\ pending \in Seq(Nat)
      /\ stored \in Seq(Nat) /\ live \in Seq(Nat)
    BY HandHasArrived, MaxMsgsAssumption DEF TypeOK, InHand
<1>2. /\ queue' = Append(queue, rx_msgs)
      /\ UNCHANGED <<batch, row, txn, pending, stored, live>>
      /\ writer' = writer \/ writer' = "woken"
    BY DEF WakeWriter
<1>3. ASSUME NEW s \in Seq(Nat), Arrived(s)
      PROVE  \A i \in 1..Len(s) : s[i] < rx_msgs /\ s[i] \in 1..rx_msgs
    BY <1>1, <1>3 DEF Arrived
<1>4. AllRising'
  <2>1. Rising(Append(queue, rx_msgs))
      BY <1>1, <1>3, AppendRises DEF Order, AllRising, AllArrived
  <2> QED BY <2>1, <1>2 DEF Order, AllRising, Rising
<1>5. AllArrived'
  <2>1. Arrived(batch)' /\ Arrived(pending)' /\ Arrived(stored)' /\ Arrived(live)'
      BY <1>1, <1>2, <1>3, SMTT(30) DEF Order, AllArrived, Arrived
  <2>2. ASSUME NEW i \in 1..Len(Append(queue, rx_msgs))
        PROVE  Append(queue, rx_msgs)[i] \in 1..rx_msgs
    <3>1. CASE i <= Len(queue)
        BY <3>1, <1>1, <1>3 DEF Order, AllArrived
    <3>2. CASE i = Len(queue) + 1
        BY <3>2, <1>1
    <3>3. Len(Append(queue, rx_msgs)) = Len(queue) + 1 /\ Len(queue) \in Nat
        BY <1>1
    <3> QED BY <3>1, <3>2, <3>3
  <2>3. Arrived(queue)'
    <3>1. rx_msgs' - InHand' = rx_msgs
        BY <1>1
    <3> QED BY <3>1, <1>2, <2>2 DEF Arrived
  <2> QED BY <2>1, <2>3 DEF AllArrived
<1>6. QueueIsNewest'
  <2>1. ASSUME NEW s \in Seq(Nat), Before(s, queue), Arrived(s)
        PROVE  Before(s, Append(queue, rx_msgs))
      BY <1>1, <1>3, <2>1, BeforeAppend
  <2>2. /\ Before(batch, Append(queue, rx_msgs)) /\ Before(pending, Append(queue, rx_msgs))
        /\ Before(stored, Append(queue, rx_msgs)) /\ Before(live, Append(queue, rx_msgs))
      BY <1>1, <2>1 DEF Order, QueueIsNewest, AllArrived
  <2> QED BY <1>2, <2>2 DEF QueueIsNewest
<1>7. BatchIsNext'
    BY <1>2 DEF Order, BatchIsNext, Before, BeforeRest
<1> QED BY <1>4, <1>5, <1>6, <1>7 DEF Order

\* queue_pop_batch takes the oldest samples and leaves the others.
LEMMA PopKeepsOrder ==
    ASSUME TypeOK, Order, PopBatch
    PROVE  Order'
<1> DEFINE taken == SubSeq(queue, 1, PopCount)
           rest  == SubSeq(queue, PopCount + 1, Len(queue))
<1>1. /\ batch' = taken /\ queue' = rest
      /\ UNCHANGED <<row, txn, pending, stored, live, net, rx_msgs>>
      /\ writer' \in {"loop", "begin"}
    BY DEF PopBatch, netVars, dbVars
<1>2. /\ taken \in Seq(Nat) /\ Len(taken) = PopCount /\ \A i \in 1..PopCount : taken[i] = queue[i]
      /\ rest \in Seq(Nat) /\ Len(rest) = Len(queue) - PopCount
      /\ \A i \in 1..Len(rest) : rest[i] = queue[PopCount + i]
      /\ PopCount \in 0..Len(queue) /\ Len(queue) \in Nat
  <2>1. queue \in Seq(Nat) /\ Len(queue) \in Nat
      BY DEF TypeOK
  <2>2. /\ taken \in Seq(Nat) /\ Len(taken) = PopCount /\ \A i \in 1..PopCount : taken[i] = queue[i]
        /\ rest \in Seq(Nat) /\ Len(rest) = Len(queue) - PopCount
        /\ \A i \in 1..Len(rest) : rest[i] = queue[PopCount + i]
      BY <2>1, PopSplits, Zenon
  <2> QED BY <2>1, <2>2, PopCountBounds, Zenon
<1> HIDE DEF taken, rest
<1>3. /\ \A i \in 1..Len(taken) : i \in 1..Len(queue) /\ taken[i] = queue[i] /\ i <= PopCount
      /\ \A i \in 1..Len(rest) : /\ PopCount + i \in 1..Len(queue) /\ rest[i] = queue[PopCount + i]
                                 /\ i \in Nat \ {0}
    BY <1>2
<1>4. AllRising'
  <2>1. Rising(taken)
      BY <1>3 DEF Order, AllRising, Rising
  <2>2. Rising(rest)
    <3> SUFFICES ASSUME NEW i \in 1..Len(rest), NEW j \in 1..Len(rest), i < j
                 PROVE  rest[i] < rest[j]
        BY DEF Rising
    <3>1. PopCount + i < PopCount + j
        BY <1>2, <1>3
    <3> QED BY <3>1, <1>3 DEF Order, AllRising, Rising
  <2> QED BY <1>1, <2>1, <2>2 DEF Order, AllRising, Rising
<1>5. AllArrived'
  <2>1. Arrived(taken) /\ Arrived(rest)
      BY <1>3 DEF Order, AllArrived, Arrived
  <2>2. rx_msgs' - InHand' = rx_msgs - InHand
      BY <1>1 DEF InHand
  <2> QED BY <1>1, <2>1, <2>2 DEF Order, AllArrived, Arrived
<1>6. QueueIsNewest'
  <2>1. Before(taken, rest)
    <3> SUFFICES ASSUME NEW i \in 1..Len(taken), NEW j \in 1..Len(rest)
                 PROVE  taken[i] < rest[j]
        BY DEF Before
    <3>1. i < PopCount + j
        BY <1>2, <1>3
    <3> QED BY <3>1, <1>3 DEF Order, AllRising, Rising
  <2>2. Before(pending, rest) /\ Before(stored, rest) /\ Before(live, rest)
      BY <1>3 DEF Order, QueueIsNewest, Before
  <2> QED BY <1>1, <2>1, <2>2 DEF QueueIsNewest, Before
<1>7. BatchIsNext'
  <2>1. Before(stored, taken) /\ Before(live, taken)
      BY <1>3 DEF Order, QueueIsNewest, Before
  <2> QED BY <1>1, <2>1 DEF Order, BatchIsNext, Before
<1> QED BY <1>4, <1>5, <1>6, <1>7 DEF Order

\* db_writer_insert_state adds a row to the open transaction, or to the database.
LEMMA InsertKeepsOrder ==
    ASSUME TypeOK, BatchShape, Order, Insert
    PROVE  Order'
<1> DEFINE n == batch[row]
<1>1. /\ queue \in Seq(Nat) /\ batch \in Seq(Nat) /\ pending \in Seq(Nat)
      /\ stored \in Seq(Nat) /\ live \in Seq(Nat)
      /\ row \in 1..Len(batch) /\ n \in Nat
    BY DEF TypeOK, BatchShape, Insert
<1>2. /\ UNCHANGED <<queue, batch, txn, live, net, rx_msgs>>
      /\ writer = "insert" /\ row' = row + 1 /\ writer' \in {"insert", "end"}
    BY DEF Insert, NextRow, netVars
<1>3. \/ txn /\ pending' = Append(pending, n) /\ stored' = stored
      \/ ~txn /\ stored' = Append(stored, n) /\ pending' = pending
    BY DEF Insert
<1>4. /\ \A i \in 1..Len(stored) : stored[i] < n
      /\ \A i \in 1..Len(pending) : pending[i] < n
      /\ \A i \in 1..Len(live) : live[i] < n
      /\ \A j \in 1..Len(queue) : n < queue[j]
      /\ \A j \in row + 1..Len(batch) : n < batch[j]
      /\ n \in 1..(rx_msgs - InHand)
    BY <1>1, <1>2, SMTT(30) DEF Order, AllRising, AllArrived, QueueIsNewest, BatchIsNext, Rising,
                      Arrived, Before, BeforeRest
<1>5. ASSUME NEW s \in Seq(Nat)
      PROVE  /\ Append(s, n) \in Seq(Nat) /\ Len(Append(s, n)) = Len(s) + 1
             /\ \A i \in 1..Len(Append(s, n)) :
                   (i \in 1..Len(s) /\ Append(s, n)[i] = s[i]) \/ Append(s, n)[i] = n
    BY <1>1
<1> HIDE DEF n
<1>6. AllRising'
  <2>1. Rising(Append(stored, n)) /\ Rising(Append(pending, n))
      BY <1>1, <1>4, AppendRises DEF Order, AllRising
  <2> QED BY <1>2, <1>3, <2>1 DEF Order, AllRising, Rising
<1>7. AllArrived'
  <2>1. Arrived(Append(stored, n)) /\ Arrived(Append(pending, n))
      BY <1>1, <1>4, <1>5 DEF Order, AllArrived, Arrived
  <2>2. rx_msgs' - InHand' = rx_msgs - InHand
      BY <1>2 DEF InHand
  <2> QED BY <1>2, <1>3, <2>1, <2>2 DEF Order, AllArrived, Arrived
<1>8. QueueIsNewest'
  <2>1. Before(Append(stored, n), queue) /\ Before(Append(pending, n), queue)
      BY <1>1, <1>4, AppendBefore DEF Order, QueueIsNewest
  <2> QED BY <1>2, <1>3, <2>1 DEF Order, QueueIsNewest, Before
<1>9. BatchIsNext'
  <2>1. CASE txn
    <3>1. pending' = Append(pending, n) /\ stored' = stored
        BY <2>1, <1>3
    <3>2. Before(live, Append(pending, n)) /\ Before(stored, Append(pending, n))
        BY <1>1, <1>2, <1>4, BeforeAppend DEF Order, BatchIsNext
    <3>3. ASSUME NEW j \in row + 1..Len(batch)
          PROVE  /\ \A i \in 1..Len(stored) : stored[i] < batch[j]
                 /\ \A i \in 1..Len(Append(pending, n)) : Append(pending, n)[i] < batch[j]
      <4>1. /\ \A i \in 1..Len(stored) : stored[i] < batch[j]
            /\ \A i \in 1..Len(pending) : pending[i] < batch[j]
          BY <1>1, <1>2, SMTT(30) DEF Order, BatchIsNext, BeforeRest
      <4>2. n < batch[j]
          BY <1>4
      <4> QED BY <1>1, <1>5, <4>1, <4>2, ZenonT(30)
    <3> QED BY <1>2, <2>1, <3>1, <3>2, <3>3 DEF Order, BatchIsNext, Before, BeforeRest
  <2>2. CASE ~txn
    <3>1. stored' = Append(stored, n) /\ pending' = pending /\ pending = <<>>
        BY <2>2, <1>3 DEF Order, BatchIsNext
    <3>2. ASSUME NEW j \in row + 1..Len(batch)
          PROVE  \A i \in 1..Len(Append(stored, n)) : Append(stored, n)[i] < batch[j]
        BY <1>1, <1>2, <1>4, <1>5, SMTT(30) DEF Order, BatchIsNext, BeforeRest
    <3> QED BY <1>2, <2>2, <3>1, <3>2 DEF Order, BatchIsNext, Before, BeforeRest
  <2> QED BY <2>1, <2>2
<1> QED BY <1>6, <1>7, <1>8, <1>9 DEF Order

\* ws_server_broadcast is given the next sample of the batch.
LEMMA BroadcastKeepsOrder ==
    ASSUME TypeOK, BatchShape, Order, Broadcast
    PROVE  Order'
<1> DEFINE n == batch[row]
<1>1. /\ queue \in Seq(Nat) /\ batch \in Seq(Nat) /\ live \in Seq(Nat)
      /\ row \in 1..Len(batch) /\ n \in Nat
    BY DEF TypeOK, BatchShape, Broadcast
<1>2. /\ UNCHANGED <<queue, txn, pending, stored, net, rx_msgs>>
      /\ writer = "send"
      /\ \/ writer' = "loop" /\ batch' = <<>>
         \/ writer' = "send" /\ row' = row + 1 /\ batch' = batch
    BY DEF Broadcast, netVars, dbVars
<1>3. live' = live \/ live' = Append(live, n)
    BY DEF Broadcast
<1>4. /\ \A i \in 1..Len(live) : live[i] < n
      /\ \A j \in 1..Len(queue) : n < queue[j]
      /\ \A j \in row + 1..Len(batch) : n < batch[j]
      /\ n \in 1..(rx_msgs - InHand)
    BY <1>1, <1>2 DEF Order, AllRising, AllArrived, QueueIsNewest, BatchIsNext, Rising,
                      Arrived, Before, BeforeRest
<1>5. /\ Append(live, n) \in Seq(Nat) /\ Len(Append(live, n)) = Len(live) + 1
      /\ \A i \in 1..Len(Append(live, n)) :
            (i \in 1..Len(live) /\ Append(live, n)[i] = live[i]) \/ Append(live, n)[i] = n
    BY <1>1
<1>6. batch' = batch \/ batch' = <<>>
    BY <1>2
<1> HIDE DEF n
<1>7. AllRising'
  <2>1. Rising(live)'
      BY <1>1, <1>3, <1>4, AppendRises DEF Order, AllRising, Rising
  <2>2. Rising(batch)'
      BY <1>6 DEF Order, AllRising, Rising
  <2> QED BY <1>2, <2>1, <2>2 DEF Order, AllRising, Rising
<1>8. AllArrived'
  <2>1. Arrived(Append(live, n))
      BY <1>1, <1>4, <1>5 DEF Order, AllArrived, Arrived
  <2>2. rx_msgs' - InHand' = rx_msgs - InHand
      BY <1>2 DEF InHand
  <2>3. Arrived(batch)'
      BY <1>6, <2>2 DEF Order, AllArrived, Arrived
  <2>4. Arrived(live)'
      BY <1>3, <2>1, <2>2 DEF Order, AllArrived, Arrived
  <2> QED BY <1>2, <2>2, <2>3, <2>4 DEF Order, AllArrived, Arrived
<1>9. QueueIsNewest'
  <2>1. Before(Append(live, n), queue)
      BY <1>1, <1>4, AppendBefore DEF Order, QueueIsNewest
  <2>2. Before(live, queue)'
      BY <1>2, <1>3, <2>1 DEF Order, QueueIsNewest, Before
  <2>3. Before(batch, queue)'
      BY <1>2, <1>6 DEF Order, QueueIsNewest, Before
  <2> QED BY <1>2, <2>2, <2>3 DEF Order, QueueIsNewest, Before
<1>10. BatchIsNext'
  <2>1. CASE writer' = "loop"
      BY <2>1, <1>2 DEF Order, BatchIsNext
  <2>2. CASE writer' = "send"
    <3>1. row' = row + 1 /\ batch' = batch
        BY <2>2, <1>2
    <3>2. ASSUME NEW j \in row + 1..Len(batch)
          PROVE  /\ \A i \in 1..Len(live) : live[i] < batch[j]
                 /\ \A i \in 1..Len(Append(live, n)) : Append(live, n)[i] < batch[j]
      <4>1. \A i \in 1..Len(live) : live[i] < batch[j]
          BY <1>1, <1>2 DEF Order, BatchIsNext, BeforeRest
      <4>2. n < batch[j]
          BY <1>4
      <4> QED BY <1>5, <4>1, <4>2
    <3>3. BeforeRest(live)'
        BY <1>3, <3>1, <3>2 DEF BeforeRest
    <3> QED BY <1>2, <2>2, <3>3 DEF Order, BatchIsNext
  <2> QED BY <1>2, <2>1, <2>2
<1> QED BY <1>7, <1>8, <1>9, <1>10 DEF Order

\* The other steps of a transaction, and the release of everything by stop.
LEMMA RestKeepsOrder ==
    ASSUME TypeOK, BatchShape, Order,
           \/ Begin \/ BeginFails \/ InsertFails \/ InsertAborts
           \/ Commit \/ CommitFails \/ Rollback \/ CountBatch \/ StopFree
    PROVE  Order'
<1> USE DEF netVars, writerVars, dbVars
<1>1. /\ queue \in Seq(Nat) /\ batch \in Seq(Nat) /\ pending \in Seq(Nat)
      /\ stored \in Seq(Nat) /\ live \in Seq(Nat) /\ row \in Nat \ {0}
    BY DEF TypeOK
<1>2. /\ UNCHANGED <<live, net, rx_msgs>>
      /\ queue' = queue \/ queue' = <<>>
      /\ batch' = batch \/ batch' = <<>>
      /\ pending' = pending \/ pending' = <<>>
      /\ stored' = stored \/ (Commit /\ stored' = stored \o pending)
    BY DEF Begin, BeginFails, InsertFails, InsertAborts, Commit, CommitFails, Rollback,
           CountBatch, StopFree
<1>3. /\ Commit => writer = "end"
      /\ stored \o pending \in Seq(Nat) /\ Len(stored \o pending) = Len(stored) + Len(pending)
      /\ \A i \in 1..Len(stored \o pending) :
            \/ i \in 1..Len(stored) /\ (stored \o pending)[i] = stored[i]
            \/ i - Len(stored) \in 1..Len(pending)
               /\ (stored \o pending)[i] = pending[i - Len(stored)]
    BY <1>1 DEF Commit
<1>4. AllRising'
  <2>1. Rising(stored)'
    <3>1. CASE stored' = stored
        BY <3>1 DEF Order, AllRising, Rising
    <3>2. CASE Commit /\ stored' = stored \o pending
      <4>1. Rising(stored \o pending)
          BY <3>2, <1>1, <1>3, ConcatRises DEF Order, AllRising, BatchIsNext
      <4> QED BY <3>2, <4>1 DEF Rising
    <3> QED BY <1>2, <3>1, <3>2
  <2>2. Rising(queue)'
      BY <1>2 DEF Order, AllRising, Rising
  <2>3. Rising(batch)'
      BY <1>2 DEF Order, AllRising, Rising
  <2>4. Rising(pending)'
      BY <1>2 DEF Order, AllRising, Rising
  <2>5. Rising(live)'
      BY <1>2 DEF Order, AllRising, Rising
  <2> QED BY <2>1, <2>2, <2>3, <2>4, <2>5 DEF AllRising
<1>5. AllArrived'
  <2>1. rx_msgs' - InHand' = rx_msgs - InHand
      BY <1>2 DEF InHand
  <2>2. Arrived(stored)'
    <3>1. CASE stored' = stored
        BY <3>1, <2>1 DEF Order, AllArrived, Arrived
    <3>2. CASE stored' = stored \o pending
        BY <3>2, <2>1, <1>3 DEF Order, AllArrived, Arrived
    <3> QED BY <1>2, <3>1, <3>2
  <2>3. Arrived(queue)'
      BY <1>2, <2>1 DEF Order, AllArrived, Arrived
  <2>4. Arrived(batch)'
      BY <1>2, <2>1 DEF Order, AllArrived, Arrived
  <2>5. Arrived(pending)'
      BY <1>2, <2>1 DEF Order, AllArrived, Arrived
  <2>6. Arrived(live)'
      BY <1>2, <2>1 DEF Order, AllArrived, Arrived
  <2> QED BY <2>2, <2>3, <2>4, <2>5, <2>6 DEF AllArrived
<1>6. QueueIsNewest'
  <2>1. Before(stored, queue)'
    <3>1. CASE stored' = stored
        BY <3>1, <1>2 DEF Order, QueueIsNewest, Before
    <3>2. CASE stored' = stored \o pending
      <4>1. Before(stored \o pending, queue)
          BY <1>1, ConcatBefore DEF Order, QueueIsNewest
      <4> QED BY <3>2, <4>1, <1>2 DEF Before
    <3> QED BY <1>2, <3>1, <3>2
  <2>2. Before(batch, queue)'
      BY <1>2 DEF Order, QueueIsNewest, Before
  <2>3. Before(pending, queue)'
      BY <1>2 DEF Order, QueueIsNewest, Before
  <2>4. Before(live, queue)'
      BY <1>2 DEF Order, QueueIsNewest, Before
  <2> QED BY <2>1, <2>2, <2>3, <2>4 DEF QueueIsNewest
<1>7. BatchIsNext'
  <2>1. CASE Begin
      BY <2>1 DEF Begin, Order, BatchIsNext, Before, BeforeRest
  <2>2. CASE BeginFails
      BY <2>2 DEF BeginFails, Order, BatchIsNext
  <2>3. CASE InsertFails
      BY <2>3, <1>1 DEF InsertFails, NextRow, Order, BatchIsNext, Before, BeforeRest
  <2>4. CASE InsertAborts
      BY <2>4, <1>1 DEF InsertAborts, NextRow, Order, BatchIsNext, Before, BeforeRest
  <2>5. CASE Commit
      BY <2>5 DEF Commit, Order, BatchIsNext, Before
  <2>6. CASE CommitFails
      BY <2>6 DEF CommitFails, Order, BatchIsNext, Before
  <2>7. CASE Rollback
      BY <2>7 DEF Rollback, Order, BatchIsNext, Before
  <2>8. CASE CountBatch
      BY <2>8, <1>1 DEF CountBatch, Order, BatchIsNext, Before, BeforeRest
  <2>9. CASE StopFree
      BY <2>9 DEF StopFree, Order, BatchIsNext, Before, BeforeRest
  <2> QED BY <2>1, <2>2, <2>3, <2>4, <2>5, <2>6, <2>7, <2>8, <2>9
<1> QED BY <1>4, <1>5, <1>6, <1>7 DEF Order

LEMMA OrderStep ==
    ASSUME TypeOK, TypeOK', BatchShape, Balance, Order, [Next]_vars
    PROVE  Order'
<1>1. CASE QueuePush
    BY <1>1, PushKeepsOrder
<1>2. CASE PopBatch
    BY <1>2, PopKeepsOrder
<1>3. CASE Insert
    BY <1>3, InsertKeepsOrder
<1>4. CASE Broadcast
    BY <1>4, BroadcastKeepsOrder
<1>5. CASE \/ Begin \/ BeginFails \/ InsertFails \/ InsertAborts
           \/ Commit \/ CommitFails \/ Rollback \/ CountBatch \/ StopFree
    BY <1>5, RestKeepsOrder
<1>6. CASE \/ OnMessage \/ UnpackFails \/ BuildSample \/ QueuePushFails
           \/ WriterLoop \/ WriterLock \/ WriterFindsNothing \/ WriterWait
           \/ SpuriousWakeup \/ Reporter \/ StopFlag
           \/ StopWake \/ StopJoinWriter \/ StopJoinStats \/ StopCloseMqtt
           \/ UNCHANGED vars
    BY <1>6, OtherStepsMoveNone, OrderWithoutMove
<1> QED BY <1>1, <1>2, <1>3, <1>4, <1>5, <1>6
       DEF Next, Network, Writer, Pop, Persist, Stop, Stopped

\* The order of the samples is an invariant.
LEMMA OrderKept == Spec => []Order
<1>1. Init => Order
    BY DEF Init, Order, AllRising, AllArrived, QueueIsNewest, BatchIsNext, Rising, Arrived,
           Before, BeforeRest
<1>2. TypeOK /\ TypeOK' /\ BatchShape /\ Balance /\ Order /\ [Next]_vars => Order'
    BY OrderStep
<1> QED BY <1>1, <1>2, TypeCorrect, BalanceKept, PTL DEF Spec

-----------------------------------------------------------------------------
(* The simulation.                                                         *)

\* A step that leaves what the log can see.
LEMMA UnseenStutters ==
    ASSUME UNCHANGED <<rx_msgs, stored, live>>
    PROVE  UNCHANGED Log!logVars
BY DEF Log!logVars

\* Newer rows behind the durable ones, none older than the stream.
LEMMA RowsExtend ==
    ASSUME TypeOK, Order,
           NEW new \in Seq(Nat), Rising(new), Arrived(new), Before(stored, new), Before(live, new)
    PROVE  Log!Extends(stored \o new, stored, live)
<1>1. stored \in Seq(Nat) /\ live \in Seq(Nat) /\ Len(stored) \in Nat
    BY DEF TypeOK
<1>2. /\ Len(stored \o new) = Len(stored) + Len(new) /\ Len(new) \in Nat
      /\ SubSeq(stored \o new, 1, Len(stored)) = stored
    BY <1>1
<1>3. Log!InOrder(stored \o new)
    BY <1>1, ConcatRises DEF Order, AllRising, Rising, Log!InOrder
<1>4. ASSUME NEW i \in Len(stored) + 1 .. Len(stored \o new)
      PROVE  /\ (stored \o new)[i] \in 1..rx_msgs
             /\ \A j \in 1..Len(live) : live[j] < (stored \o new)[i]
  <2>1. i - Len(stored) \in 1..Len(new) /\ (stored \o new)[i] = new[i - Len(stored)]
      BY <1>1, <1>2
  <2>2. new[i - Len(stored)] \in 1..rx_msgs
      BY <2>1, SMTT(30) DEF Arrived, InHand, TypeOK
  <2> QED BY <2>1, <2>2 DEF Before
<1> QED BY <1>2, <1>3, <1>4 DEF Log!Extends

LEMMA InsertRefines ==
    ASSUME TypeOK, BatchShape, Order, Insert
    PROVE  [Log!LogNext]_(Log!logVars)
<1>1. UNCHANGED <<rx_msgs, live>>
    BY DEF Insert, netVars
<1>2. CASE txn
    BY <1>1, <1>2, UnseenStutters DEF Insert
<1>3. CASE ~txn
  <2> DEFINE n == batch[row]
  <2>1. batch \in Seq(Nat) /\ row \in 1..Len(batch) /\ n \in Nat /\ stored \in Seq(Nat)
      BY DEF TypeOK, BatchShape, Insert
  <2>2. stored' = stored \o <<n>>
    <3>1. stored' = Append(stored, n)
        BY <1>3 DEF Insert
    <3> HIDE DEF n
    <3>2. Append(stored, n) = stored \o <<n>>
        BY <2>1, AppendIsConcat
    <3> QED BY <3>1, <3>2
  <2>3. Rising(<<n>>) /\ Arrived(<<n>>) /\ Before(stored, <<n>>) /\ Before(live, <<n>>) /\ <<n>> \in Seq(Nat)
      BY <2>1 DEF Order, AllArrived, BatchIsNext, Insert, Rising, Arrived, Before, BeforeRest
  <2> HIDE DEF n
  <2>4. Log!Extends(stored', stored, live)
      BY <2>2, <2>3, RowsExtend
  <2> QED BY <1>1, <2>4 DEF Log!LogNext, Log!Persist
<1> QED BY <1>2, <1>3

LEMMA CommitRefines ==
    ASSUME TypeOK, Order, Commit
    PROVE  [Log!LogNext]_(Log!logVars)
<1>1. UNCHANGED <<rx_msgs, live>> /\ stored' = stored \o pending
    BY DEF Commit, netVars
<1>2. /\ pending \in Seq(Nat) /\ Rising(pending) /\ Arrived(pending)
      /\ Before(stored, pending) /\ Before(live, pending)
    BY DEF TypeOK, Order, AllRising, AllArrived, BatchIsNext, Commit
<1>3. Log!Extends(stored', stored, live)
    BY <1>1, <1>2, RowsExtend
<1> QED BY <1>1, <1>3 DEF Log!LogNext, Log!Persist

LEMMA BroadcastRefines ==
    ASSUME TypeOK, BatchShape, Order, Broadcast
    PROVE  [Log!LogNext]_(Log!logVars)
<1> DEFINE n == batch[row]
<1>1. UNCHANGED <<rx_msgs, stored>>
    BY DEF Broadcast, netVars, dbVars
<1>2. /\ batch \in Seq(Nat) /\ row \in 1..Len(batch) /\ n \in Nat /\ live \in Seq(Nat)
      /\ n \in 1..(rx_msgs - InHand) /\ writer = "send"
    BY DEF TypeOK, BatchShape, Broadcast, Order, AllArrived, Arrived
<1>3. \A j \in 1..Len(live) : live[j] < n
    BY <1>2 DEF Order, BatchIsNext, BeforeRest
<1>4. n \in 1..rx_msgs
    BY <1>2 DEF InHand, TypeOK
<1> HIDE DEF n
<1>5. /\ Append(live, n) \in Seq(Nat) /\ Len(Append(live, n)) = Len(live) + 1 /\ Len(live) \in Nat
      /\ SubSeq(Append(live, n), 1, Len(live)) = live
      /\ Append(live, n)[Len(live) + 1] = n
    BY <1>2
<1>6. CASE live' = live
    BY <1>1, <1>6, UnseenStutters
<1>7. CASE live' = Append(live, n)
  <2>1. Rising(Append(live, n))
      BY <1>2, <1>3, AppendRises DEF Order, AllRising
  <2>2. \A i \in Len(live) + 1 .. Len(Append(live, n)) : Append(live, n)[i] = n
      BY <1>5
  <2>3. Log!Extends(live', live, live)
      BY <1>3, <1>4, <1>5, <1>7, <2>1, <2>2 DEF Log!Extends, Log!InOrder, Rising
  <2> QED BY <1>1, <1>5, <1>7, <2>3 DEF Log!LogNext, Log!Publish
<1> QED BY <1>6, <1>7 DEF Broadcast, n

LEMMA StepRefines ==
    ASSUME TypeOK, BatchShape, Order, [Next]_vars
    PROVE  [Log!LogNext]_(Log!logVars)
<1> USE DEF netVars, writerVars, dbVars
<1>1. CASE OnMessage
    BY <1>1 DEF OnMessage, Log!LogNext, Log!Arrive
<1>2. CASE Insert
    BY <1>2, InsertRefines
<1>3. CASE Commit
    BY <1>3, CommitRefines
<1>4. CASE Broadcast
    BY <1>4, BroadcastRefines
<1>5. CASE UnpackFails \/ BuildSample \/ QueuePush \/ QueuePushFails
    BY <1>5, UnseenStutters DEF UnpackFails, BuildSample, QueuePush, QueuePushFails
<1>6. CASE Pop \/ SpuriousWakeup
    BY <1>6, UnseenStutters DEF Pop, WriterLoop, WriterLock, WriterFindsNothing, WriterWait,
       PopBatch, SpuriousWakeup
<1>7. CASE Begin \/ BeginFails \/ InsertFails \/ InsertAborts \/ CommitFails \/ Rollback \/ CountBatch
    BY <1>7, UnseenStutters DEF Begin, BeginFails, InsertFails, InsertAborts, CommitFails,
       Rollback, CountBatch
<1>8. CASE Reporter \/ StopFlag \/ Stop
    BY <1>8, UnseenStutters DEF Reporter, ReadCounters, Report, StopFlag, Stop, StopWake,
       StopJoinWriter, StopJoinStats, StopCloseMqtt, StopFree
<1>9. CASE UNCHANGED vars
    BY <1>9, UnseenStutters DEF vars
<1> QED BY <1>1, <1>2, <1>3, <1>4, <1>5, <1>6, <1>7, <1>8, <1>9
       DEF Next, Network, Writer, Persist, Stopped

\* The gateway keeps the promises of SampleLog, whatever SQLite, the memory and the
\* scheduler do: the database and the stream each grow with newer samples only, and
\* no row becomes durable after the stream has reached or passed it.
THEOREM PipelineImplementsLog == Spec => ImplementsSampleLog
<1>1. Init => Log!LogInit
    BY DEF Init, Log!LogInit
<1>2. TypeOK /\ BatchShape /\ Order /\ [Next]_vars => [Log!LogNext]_(Log!logVars)
    BY StepRefines
<1> QED BY <1>1, <1>2, TypeCorrect, OrderKept, PTL
       DEF Spec, ImplementsSampleLog, Log!LogSpec

-----------------------------------------------------------------------------
(* The raw buffers.                                                        *)

\* Nothing is freed before it has arrived.
FreedArrived == freed \subseteq 1..(rx_msgs - InHand)

\* free(raw) for samples that nobody holds afterwards.
LEMMA FreeKeepsOwners ==
    ASSUME NEW S, RawBuffersOwned, FreeRaw(S), Owned' = Owned \ S
    PROVE  RawBuffersOwned' /\ heap' \subseteq heap /\ freed' \subseteq freed \cup S
BY DEF RawBuffersOwned, FreeRaw

\* The three places of a sample are apart: batch, queue and on_message.
LEMMA OwnersAreApart ==
    ASSUME TypeOK, Order
    PROVE  /\ Elements(batch) \cap Elements(queue) = {}
           /\ net \in {"unpack", "push"} => rx_msgs \notin Elements(batch) \cup Elements(queue)
           /\ Elements(batch) \cup Elements(queue) \subseteq 1..(rx_msgs - InHand)
<1>4. DOMAIN batch = 1..Len(batch) /\ DOMAIN queue = 1..Len(queue)
    BY DEF TypeOK
<1>1. Elements(batch) \cup Elements(queue) \subseteq 1..(rx_msgs - InHand)
    BY <1>4 DEF Order, AllArrived, Arrived, Elements
<1>2. net \in {"unpack", "push"} => rx_msgs \notin 1..(rx_msgs - InHand)
    BY DEF TypeOK, InHand
<1>3. ASSUME NEW i \in 1..Len(batch), NEW j \in 1..Len(queue) PROVE batch[i] # queue[j]
    BY DEF TypeOK, Order, QueueIsNewest, Before
<1> QED BY <1>1, <1>2, <1>3, <1>4 DEF Elements

\* The steps that free nothing and move no sample out of or into the hands of a thread.
LEMMA OwnersUnmoved ==
    ASSUME TypeOK, BatchShape,
           \/ OnMessage \/ UnpackFails
           \/ WriterLoop \/ WriterLock \/ WriterFindsNothing \/ WriterWait
           \/ Begin \/ Insert \/ InsertFails \/ InsertAborts \/ Commit \/ CommitFails
           \/ Rollback \/ CountBatch \/ SpuriousWakeup \/ Reporter \/ StopFlag
           \/ StopWake \/ StopJoinWriter \/ StopJoinStats \/ StopCloseMqtt
           \/ UNCHANGED vars
    PROVE  Owned' = Owned /\ UNCHANGED rawVars
<1> USE DEF netVars, writerVars, dbVars, countVars, statsVars, rawVars
<1>1. UNCHANGED <<queue, batch, heap, freed>>
    BY DEF OnMessage, UnpackFails, WriterLoop, WriterLock, WriterFindsNothing, WriterWait,
           Begin, Insert, InsertFails, InsertAborts, Commit, CommitFails, Rollback, CountBatch,
           SpuriousWakeup, Reporter, ReadCounters, Report, StopFlag, StopWake, StopJoinWriter,
           StopJoinStats, StopCloseMqtt, vars
<1>2. (IF net = "push" THEN {rx_msgs} ELSE {})' = IF net = "push" THEN {rx_msgs} ELSE {}
    BY DEF OnMessage, UnpackFails, WriterLoop, WriterLock, WriterFindsNothing, WriterWait,
           Begin, Insert, InsertFails, InsertAborts, Commit, CommitFails, Rollback, CountBatch,
           SpuriousWakeup, Reporter, ReadCounters, Report, StopFlag, StopWake, StopJoinWriter,
           StopJoinStats, StopCloseMqtt, vars
<1>3. Unsent' = Unsent
  <2>1. CASE CountBatch
      BY <2>1, <1>1 DEF CountBatch, Unsent, Elements, TypeOK
  <2>2. CASE writer = "send" /\ writer' = "send" /\ row' = row
      BY <2>2, <1>1 DEF Unsent
  <2>3. CASE writer # "send" /\ writer' # "send"
      BY <2>3, <1>1 DEF Unsent, Elements
  <2> QED BY <2>1, <2>2, <2>3
      DEF OnMessage, UnpackFails, WriterLoop, WriterLock, WriterFindsNothing, WriterWait,
           Begin, Insert, InsertFails, InsertAborts, Commit, CommitFails, Rollback, NextRow,
           SpuriousWakeup, Reporter, ReadCounters, Report, StopFlag, StopWake, WakeWriter,
           StopJoinWriter, StopJoinStats, StopCloseMqtt, vars
<1>4. Elements(queue)' = Elements(queue)
    BY <1>1 DEF Elements
<1> QED BY <1>1, <1>2, <1>3, <1>4 DEF Owned

LEMMA OwnersStep ==
    ASSUME TypeOK, TypeOK', BatchShape, Balance, Order,
           RawBuffersOwned, FreedArrived, [Next]_vars
    PROVE  RawBuffersOwned' /\ FreedArrived'
<1> USE DEF netVars, writerVars, dbVars, rawVars
<1> DEFINE Hand == IF net = "push" THEN {rx_msgs} ELSE {}
<1>1. /\ Owned = Unsent \cup Elements(queue) \cup Hand
      /\ Unsent \subseteq Elements(batch)
      /\ writer # "send" => Unsent = Elements(batch)
    BY SMTT(60) DEF Owned, Unsent, Elements, TypeOK
<1>2. rx_msgs \in Nat /\ InHand \in {0, 1} /\ InHand' \in {0, 1} /\ rx_msgs' \in Nat
    BY MaxMsgsAssumption DEF TypeOK, InHand
<1>3. CASE \/ OnMessage \/ UnpackFails
           \/ WriterLoop \/ WriterLock \/ WriterFindsNothing \/ WriterWait
           \/ Begin \/ Insert \/ InsertFails \/ InsertAborts \/ Commit \/ CommitFails
           \/ Rollback \/ CountBatch \/ SpuriousWakeup \/ Reporter \/ StopFlag
           \/ StopWake \/ StopJoinWriter \/ StopJoinStats \/ StopCloseMqtt
           \/ UNCHANGED vars
  <2>1. Owned' = Owned /\ UNCHANGED rawVars
      BY <1>3, OwnersUnmoved
  <2>2. rx_msgs - InHand <= rx_msgs' - InHand'
    <3>1. \/ UNCHANGED <<net, rx_msgs>>
          \/ net = "idle" /\ net' = "unpack" /\ rx_msgs' = rx_msgs + 1
          \/ net = "unpack" /\ net' = "idle" /\ rx_msgs' = rx_msgs
          \/ net = "idle" /\ net' = "closed" /\ rx_msgs' = rx_msgs
        BY <1>3
        DEF OnMessage, UnpackFails, WriterLoop, WriterLock, WriterFindsNothing, WriterWait,
           Begin, Insert, InsertFails, InsertAborts, Commit, CommitFails, Rollback, CountBatch,
           SpuriousWakeup, Reporter, ReadCounters, Report, StopFlag, StopWake, StopJoinWriter,
           StopJoinStats, StopCloseMqtt, vars
    <3>2. \/ rx_msgs' = rx_msgs /\ InHand' = InHand
          \/ rx_msgs' = rx_msgs + 1 /\ InHand = 0 /\ InHand' = 1
          \/ rx_msgs' = rx_msgs /\ InHand = 1 /\ InHand' = 0
        BY <3>1 DEF InHand
    <3>3. rx_msgs \in Int /\ InHand \in Int
        BY <1>2
    <3>4. CASE rx_msgs' = rx_msgs /\ InHand' = InHand
        BY <3>3, <3>4
    <3>5. CASE rx_msgs' = rx_msgs + 1 /\ InHand = 0 /\ InHand' = 1
        BY <3>3, <3>5
    <3>6. CASE rx_msgs' = rx_msgs /\ InHand = 1 /\ InHand' = 0
        BY <3>3, <3>6
    <3> QED BY <3>2, <3>4, <3>5, <3>6
  <2>3. FreedArrived'
    <3>1. ASSUME NEW n \in 1..(rx_msgs - InHand) PROVE n \in 1..(rx_msgs' - InHand')
      <4>1. rx_msgs - InHand \in Int /\ rx_msgs' - InHand' \in Int
          BY <1>2
      <4> QED BY <2>2, <4>1
    <3> QED BY <2>1, <3>1 DEF FreedArrived
  <2> QED BY <2>1, <2>3 DEF RawBuffersOwned
<1>4. CASE BuildSample
  <2>1. /\ UNCHANGED <<queue, batch, row, writer, rx_msgs, freed>> /\ net = "unpack" /\ net' = "push"
        /\ heap' = heap \cup {rx_msgs} \/ heap' = heap
      BY <1>4 DEF BuildSample
  <2>2. Owned' = Owned \cup {rx_msgs}
      BY <2>1 DEF Owned, Unsent, Elements
  <2>3. rx_msgs \notin freed
      BY <1>2, <2>1 DEF FreedArrived, InHand
  <2>4. FreedArrived'
      BY <2>1 DEF FreedArrived, InHand
  <2> QED BY <2>1, <2>2, <2>3, <2>4 DEF RawBuffersOwned
<1>5. CASE QueuePush
  <2>1. /\ UNCHANGED <<batch, row, rx_msgs, heap, freed>> /\ net = "push" /\ net' = "idle"
        /\ queue' = Append(queue, rx_msgs)
        /\ writer' = writer \/ (writer = "wait" /\ writer' = "woken")
      BY <1>5 DEF QueuePush, LinkedAtTail, WakeWriter
  <2>2. Elements(queue)' = Elements(queue) \cup {rx_msgs}
    <3>1. /\ DOMAIN queue' = 1..(Len(queue) + 1) /\ DOMAIN queue = 1..Len(queue) /\ Len(queue) \in Nat
          /\ \A i \in 1..Len(queue) : queue'[i] = queue[i]
          /\ queue'[Len(queue) + 1] = rx_msgs
        BY <2>1, <1>2 DEF TypeOK
    <3>2. 1..(Len(queue) + 1) = 1..Len(queue) \cup {Len(queue) + 1}
        BY <3>1
    <3> QED BY <3>1, <3>2 DEF Elements
  <2>3. Unsent' = Unsent
      BY <2>1 DEF Unsent, Elements
  <2>4. Owned' = Owned
      BY <2>1, <2>2, <2>3 DEF Owned
  <2>5. FreedArrived'
      BY <1>2, <2>1 DEF FreedArrived, InHand
  <2> QED BY <2>1, <2>4, <2>5 DEF RawBuffersOwned
<1>6. CASE QueuePushFails
  <2>1. /\ UNCHANGED <<queue, batch, row, writer, rx_msgs>> /\ net = "push" /\ net' = "idle"
        /\ FreeRaw({rx_msgs})
      BY <1>6 DEF QueuePushFails
  <2>2. Owned' = Unsent \cup Elements(queue)
      BY <2>1 DEF Owned, Unsent, Elements
  <2>3. rx_msgs \notin Unsent \cup Elements(queue)
      BY <1>1, <2>1, OwnersAreApart
  <2>4. Owned' = Owned \ {rx_msgs}
      BY <1>1, <2>1, <2>2, <2>3
  <2>5. RawBuffersOwned' /\ freed' \subseteq freed \cup {rx_msgs} /\ freed' \subseteq freed \cup heap
      BY <2>1, <2>4, FreeKeepsOwners DEF FreeRaw
  <2>6. FreedArrived'
    <3>1. InHand = 1 /\ InHand' = 0 /\ rx_msgs >= 1
        BY <1>2, <2>1, HandHasArrived DEF InHand
    <3>2. 1..(rx_msgs - InHand) \cup {rx_msgs} = 1..(rx_msgs' - InHand')
        BY <1>2, <2>1, <3>1
    <3> QED BY <2>5, <3>2 DEF FreedArrived
  <2> QED BY <2>5, <2>6
<1>7. CASE PopBatch
  <2>1. /\ UNCHANGED <<net, rx_msgs, heap, freed>> /\ writer = "test" /\ writer' \in {"loop", "begin"}
        /\ batch' = SubSeq(queue, 1, PopCount)
        /\ queue' = SubSeq(queue, PopCount + 1, Len(queue))
      BY <1>7 DEF PopBatch
  <2>2. batch = <<>> /\ Elements(batch) = {}
      BY <2>1 DEF BatchShape, Elements
  <2>3. Elements(batch)' \cup Elements(queue)' = Elements(queue)
    <3>1. queue \in Seq(Nat) /\ Len(queue) \in Nat
        BY DEF TypeOK
    <3>2. /\ DOMAIN batch' = 1..PopCount /\ \A i \in 1..PopCount : batch'[i] = queue[i]
          /\ DOMAIN queue' = 1..(Len(queue) - PopCount)
          /\ \A i \in 1..(Len(queue) - PopCount) : queue'[i] = queue[PopCount + i]
      <4>1. /\ batch' \in Seq(Nat) /\ Len(batch') = PopCount /\ \A i \in 1..PopCount : batch'[i] = queue[i]
            /\ queue' \in Seq(Nat) /\ Len(queue') = Len(queue) - PopCount
            /\ \A i \in 1..Len(queue') : queue'[i] = queue[PopCount + i]
          BY <2>1, <3>1, PopSplits, Zenon
      <4> QED BY <4>1
    <3>3. PopCount \in 0..Len(queue)
        BY <3>1, PopCountBounds
    <3>4. ASSUME NEW i \in 1..Len(queue)
          PROVE  queue[i] \in Elements(batch)' \cup Elements(queue)'
      <4>1. CASE i <= PopCount
        <5>1. i \in DOMAIN batch' /\ batch'[i] = queue[i]
            BY <3>1, <3>2, <3>3, <4>1
        <5> QED BY <5>1 DEF Elements
      <4>2. CASE i > PopCount
        <5>1. i - PopCount \in 1..(Len(queue) - PopCount) /\ PopCount + (i - PopCount) = i
            BY <3>1, <3>3, <4>2
        <5> QED BY <3>2, <5>1 DEF Elements
      <4> QED BY <3>1, <3>3, <4>1, <4>2
    <3>5. ASSUME NEW i \in 1..(Len(queue) - PopCount) PROVE PopCount + i \in 1..Len(queue)
        BY <3>1, <3>3
    <3>6. 1..PopCount \subseteq 1..Len(queue)
        BY <3>1, <3>3
    <3>7. DOMAIN queue = 1..Len(queue)
        BY <3>1
    <3> QED BY <3>2, <3>4, <3>5, <3>6, <3>7 DEF Elements
  <2>4. Unsent' = Elements(batch)'
      BY <2>1 DEF Unsent
  <2>5. Owned' = Owned
      BY <1>1, <2>1, <2>2, <2>3, <2>4 DEF Owned
  <2>6. FreedArrived'
      BY <2>1 DEF FreedArrived, InHand
  <2> QED BY <2>1, <2>5, <2>6 DEF RawBuffersOwned
<1>8. CASE BeginFails
  <2>1. /\ UNCHANGED <<net, rx_msgs, queue>> /\ writer = "begin" /\ writer' = "loop" /\ batch' = <<>>
        /\ FreeRaw(Elements(batch))
      BY <1>8 DEF BeginFails
  <2>2. Owned' = Elements(queue) \cup Hand
      BY <2>1 DEF Owned, Unsent, Elements
  <2>3. Owned' = Owned \ Elements(batch)
      BY <1>1, <2>1, <2>2, OwnersAreApart
  <2>4. RawBuffersOwned' /\ freed' \subseteq freed \cup Elements(batch)
      BY <2>1, <2>3, FreeKeepsOwners
  <2>5. FreedArrived'
      BY <2>1, <2>4, OwnersAreApart DEF FreedArrived, InHand
  <2> QED BY <2>4, <2>5
<1>9. CASE Broadcast
  <2>1. /\ UNCHANGED <<net, rx_msgs, queue>> /\ writer = "send"
        /\ IF row = Len(batch) THEN writer' = "loop" /\ batch' = <<>>
                               ELSE writer' = "send" /\ row' = row + 1 /\ batch' = batch
        /\ FreeRaw({batch[row]})
      BY <1>9 DEF Broadcast
  <2>2. batch \in Seq(Nat) /\ row \in 1..Len(batch) /\ batch[row] \in Unsent
      BY <2>1, SMTT(30) DEF TypeOK, BatchShape, Unsent
  <2>3. \A k \in row + 1..Len(batch) : batch[k] # batch[row]
      BY <2>2 DEF Order, AllRising, Rising
  <2>4. Unsent' = Unsent \ {batch[row]}
      BY <2>1, <2>2, <2>3 DEF Unsent, Elements
  <2>5. batch[row] \notin Elements(queue) \cup Hand
      BY <1>1, <2>2, OwnersAreApart
  <2>6. Owned' = Owned \ {batch[row]}
      BY <1>1, <2>1, <2>4, <2>5 DEF Owned, Elements
  <2>7. RawBuffersOwned' /\ freed' \subseteq freed \cup {batch[row]}
      BY <2>1, <2>6, FreeKeepsOwners
  <2>8. FreedArrived'
      BY <1>1, <2>1, <2>2, <2>7, OwnersAreApart DEF FreedArrived, InHand
  <2> QED BY <2>7, <2>8
<1>10. CASE StopFree
  <2>1. /\ UNCHANGED <<net, rx_msgs, batch, row, writer>> /\ queue' = <<>> /\ FreeRaw(Elements(queue))
      BY <1>10 DEF StopFree
  <2>2. Owned' = Unsent \cup Hand
      BY <2>1 DEF Owned, Unsent, Elements
  <2>3. Owned' = Owned \ Elements(queue)
      BY <1>1, <2>1, <2>2, OwnersAreApart
  <2>4. RawBuffersOwned' /\ freed' \subseteq freed \cup Elements(queue)
      BY <2>1, <2>3, FreeKeepsOwners
  <2>5. FreedArrived'
      BY <2>1, <2>4, OwnersAreApart DEF FreedArrived, InHand
  <2> QED BY <2>4, <2>5
<1> QED BY <1>3, <1>4, <1>5, <1>6, <1>7, <1>8, <1>9, <1>10
       DEF Next, Network, Writer, Pop, Persist, Stop, Stopped

\* Each raw buffer on_message allocates is held by exactly the thread that will free
\* it, through queue, batch and every failure, and nothing freed can be reached.
THEOREM BuffersHaveOwners == Spec => []RawBuffersOwned
<1>1. Init => RawBuffersOwned /\ FreedArrived
    BY DEF Init, RawBuffersOwned, FreedArrived
<1>2. /\ TypeOK /\ TypeOK' /\ BatchShape /\ Balance /\ Order
      /\ RawBuffersOwned /\ FreedArrived /\ [Next]_vars
      => RawBuffersOwned' /\ FreedArrived'
    BY OwnersStep
<1> QED BY <1>1, <1>2, TypeCorrect, BalanceKept, OrderKept, PTL DEF Spec

-----------------------------------------------------------------------------
(* Transactions.                                                           *)

\* After a COMMIT that leaves its transaction open nothing becomes durable any more,
\* and only telemetry_gateway_stop ends that, for every batch size and set of faults.
THEOREM WedgedStays == Spec => WedgedForGood
<1> USE DEF Wedged, netVars, writerVars, dbVars, countVars, statsVars, rawVars
<1>1. [Next]_vars => [Wedged => stored' = stored /\ (Wedged' \/ main' = "done")]_vars
  <2> SUFFICES ASSUME [Next]_vars, Wedged PROVE stored' = stored /\ (Wedged' \/ main' = "done")
      OBVIOUS
  <2>1. CASE Network
      BY <2>1 DEF Network, OnMessage, UnpackFails, BuildSample, QueuePush, QueuePushFails, WakeWriter
  <2>2. CASE Pop \/ SpuriousWakeup
      BY <2>2 DEF Pop, WriterLoop, WriterLock, WriterFindsNothing, WriterWait, PopBatch, SpuriousWakeup
  <2>3. CASE Persist
      BY <2>3 DEF Persist, Begin, BeginFails, Insert, InsertFails, InsertAborts, Commit, CommitFails, Rollback
  <2>4. CASE CountBatch \/ Broadcast
      BY <2>4 DEF CountBatch, Broadcast
  <2>5. CASE Reporter \/ StopFlag
      BY <2>5 DEF Reporter, ReadCounters, Report, StopFlag
  <2>6. CASE Stop
      BY <2>6 DEF Stop, StopWake, WakeWriter, StopJoinWriter, StopJoinStats, StopCloseMqtt, StopFree
  <2>7. CASE UNCHANGED vars
      BY <2>7 DEF vars
  <2> QED BY <2>1, <2>2, <2>3, <2>4, <2>5, <2>6, <2>7 DEF Next, Writer, Stopped
<1> QED BY <1>1, PTL DEF Spec, WedgedForGood

\* No sample of the batch in hand is durable.
Undurable == Elements(batch) \cap Elements(stored) = {}

\* The samples before row, or all of them, are rows of the open transaction.
RowsPending == \A i \in 1..(row - 1) : batch[i] \in Elements(pending)
AllPending  == Elements(batch) \subseteq Elements(pending)

\* How far the transaction of the batch in hand has come: none of its samples is
\* durable before COMMIT, and while no INSERT has failed all before row are pending.
Transaction ==
    /\ writer \in {"insert", "end"} => txn
    /\ writer \in {"begin", "insert", "end"} => Undurable
    /\ writer = "insert" /\ ok => RowsPending
    /\ writer = "end" /\ ok => AllPending
    /\ BatchIsSettled

\* A step that leaves the batch and the transaction.
LEMMA TransactionLeft ==
    ASSUME Transaction, UNCHANGED <<batch, row, ok, txn, pending, stored>>, failed \subseteq failed',
           writer' = writer \/ writer' \notin {"begin", "insert", "end", "count", "send"}
    PROVE  Transaction'
<1>1. /\ Undurable' <=> Undurable
      /\ RowsPending' <=> RowsPending
      /\ AllPending' <=> AllPending
    BY DEF Undurable, RowsPending, AllPending, Elements
<1>2. Elements(batch)' = Elements(batch) /\ Elements(stored)' = Elements(stored)
    BY DEF Elements
<1>3. BatchIsSettled'
    BY <1>2 DEF Transaction, BatchIsSettled
<1>4. CASE writer' = writer
    BY <1>1, <1>3, <1>4, Zenon DEF Transaction
<1>5. CASE writer' \notin {"begin", "insert", "end", "count", "send"}
    BY <1>3, <1>5 DEF Transaction
<1> QED BY <1>4, <1>5

\* What COMMIT appends is durable.
LEMMA ConcatHolds ==
    ASSUME NEW s \in Seq(Nat), NEW t \in Seq(Nat)
    PROVE  Elements(t) \subseteq Elements(s \o t)
<1>0. DOMAIN t = 1..Len(t)
    OBVIOUS
<1> SUFFICES ASSUME NEW i \in 1..Len(t) PROVE t[i] \in Elements(s \o t)
    BY <1>0 DEF Elements
<1>1. Len(s) + i \in DOMAIN (s \o t) /\ (s \o t)[Len(s) + i] = t[i]
    OBVIOUS
<1> QED BY <1>1 DEF Elements

LEMMA AppendHolds ==
    ASSUME NEW s \in Seq(Nat), NEW n \in Nat
    PROVE  n \in Elements(Append(s, n)) /\ Elements(s) \subseteq Elements(Append(s, n))
<1>1. Len(s) + 1 \in DOMAIN Append(s, n) /\ Append(s, n)[Len(s) + 1] = n
    OBVIOUS
<1>2. ASSUME NEW i \in 1..Len(s) PROVE i \in DOMAIN Append(s, n) /\ Append(s, n)[i] = s[i]
    OBVIOUS
<1>3. DOMAIN s = 1..Len(s)
    OBVIOUS
<1> QED BY <1>1, <1>2, <1>3 DEF Elements

LEMMA TransactionStep ==
    ASSUME "autorollback" \notin Faults, TypeOK, BatchShape, Order, QuiescentWhenFreed,
           Transaction, [HistNext]_histVars
    PROVE  Transaction'
<1>1. failed \subseteq failed' /\ [Next]_vars
    BY DEF HistNext, histVars
<1>2. /\ queue \in Seq(Nat) /\ batch \in Seq(Nat) /\ pending \in Seq(Nat) /\ stored \in Seq(Nat)
      /\ row \in Nat \ {0} /\ DOMAIN batch = 1..Len(batch) /\ Len(batch) \in Nat
    BY DEF TypeOK
<1>3. CASE PopBatch
  <2>1. batch' = SubSeq(queue, 1, PopCount) /\ stored' = stored /\ writer' \in {"loop", "begin"}
      BY <1>3 DEF PopBatch, dbVars
  <2>2. /\ DOMAIN batch' = 1..PopCount /\ \A i \in 1..PopCount : batch'[i] = queue[i]
        /\ PopCount \in 0..Len(queue) /\ Len(queue) \in Nat
    <3>1. batch' \in Seq(Nat) /\ Len(batch') = PopCount /\ \A i \in 1..PopCount : batch'[i] = queue[i]
        BY <1>2, <2>1, PopSplits, Zenon
    <3> QED BY <1>2, <3>1, PopCountBounds
  <2>3. \A i \in 1..Len(stored), j \in 1..Len(queue) : stored[i] # queue[j]
      BY <1>2 DEF Order, QueueIsNewest, Before
  <2>4. Undurable'
    <3>1. DOMAIN stored = 1..Len(stored) /\ \A i \in 1..PopCount : i \in 1..Len(queue)
        BY <1>2, <2>2
    <3> QED BY <2>1, <2>2, <2>3, <3>1 DEF Elements, Undurable
  <2> QED BY <2>1, <2>4 DEF BatchIsSettled, Transaction
<1>4. CASE Begin
  <2>1. /\ UNCHANGED <<batch, stored>> /\ writer = "begin" /\ writer' = "insert" /\ txn' = TRUE /\ row' = 1
      BY <1>4 DEF Begin
  <2>2. Undurable' /\ RowsPending'
      BY <2>1 DEF Transaction, Undurable, RowsPending, Elements
  <2> QED BY <2>1, <2>2 DEF BatchIsSettled, Transaction
<1>5. CASE Insert
  <2>1. writer = "insert" /\ txn /\ (Undurable /\ (ok => RowsPending))
      BY <1>5, Zenon DEF Transaction, Insert
  <2>2. /\ pending' = Append(pending, batch[row]) /\ UNCHANGED <<batch, stored>> /\ row' = row + 1
        /\ IF row = Len(batch) THEN writer' = "end" ELSE writer' = "insert"
      BY <1>5, <2>1 DEF Insert, NextRow
  <2>3. (txn' = txn /\ ok' = ok)
      BY <1>5, Zenon DEF Insert
  <2>4. row \in 1..Len(batch) /\ batch[row] \in Nat
    <3>1. row <= Len(batch)
        BY <2>1 DEF BatchShape
    <3> QED BY <1>2, <3>1
  <2>5. Undurable'
      BY <2>1, <2>2 DEF Undurable, Elements
  <2>6. ASSUME ok PROVE RowsPending' /\ (row = Len(batch) => AllPending')
    <3>1. RowsPending
        BY <2>1, <2>6, Zenon
    <3>2. batch[row] \in Elements(pending)' /\ Elements(pending) \subseteq Elements(pending)'
      <4>1. Elements(pending)' = Elements(Append(pending, batch[row]))
          BY <2>2 DEF Elements
      <4> QED BY <1>2, <2>4, <4>1, AppendHolds, Zenon
    <3>3. ASSUME NEW i \in 1..row PROVE batch[i] \in Elements(pending)'
      <4>1. i \in 1..(row - 1) \/ i = row
          BY <1>2
      <4> QED BY <3>1, <3>2, <4>1 DEF RowsPending
    <3>4. row' - 1 = row
      <4>1. row' = row + 1 /\ row \in Nat
          BY <1>2, <2>2, Zenon
      <4> QED BY <4>1
    <3> QED BY <1>2, <2>2, <3>3, <3>4, ZenonT(40) DEF RowsPending, AllPending, Elements
  <2>7. BatchIsSettled'
      BY <2>2 DEF BatchIsSettled
  <2> QED BY <2>1, <2>2, <2>3, <2>5, <2>6, <2>7, Zenon DEF Transaction
<1>6. CASE InsertFails
  <2>1. /\ writer = "insert" /\ UNCHANGED <<batch, stored>> /\ writer' \in {"insert", "end"}
      BY <1>6 DEF InsertFails, NextRow, dbVars
  <2>2. txn' = txn /\ ok' = FALSE
      BY <1>6, Zenon DEF InsertFails, dbVars
  <2>3. txn /\ Undurable
      BY <2>1, Zenon DEF Transaction
  <2>4. Undurable' /\ BatchIsSettled'
      BY <2>1, <2>3 DEF Undurable, Elements, BatchIsSettled
  <2> QED BY <2>1, <2>2, <2>3, <2>4, Zenon DEF Transaction
<1>7. CASE Commit
  <2>1. stored' = stored \o pending /\ batch' = batch /\ writer' = "count"
      BY <1>7 DEF Commit
  <2>2. AllPending
      BY <1>7, Zenon DEF Commit, Transaction
  <2>3. Elements(batch)' \subseteq Elements(stored)'
    <3>1. Elements(pending) \subseteq Elements(stored \o pending)
        BY <1>2, ConcatHolds, Zenon
    <3>2. Elements(stored)' = Elements(stored \o pending) /\ Elements(batch)' = Elements(batch)
        BY <2>1 DEF Elements
    <3> QED BY <2>2, <3>1, <3>2 DEF AllPending
  <2> QED BY <2>1, <2>3 DEF BatchIsSettled, Transaction
<1>8. CASE CommitFails \/ Rollback
  <2>1. /\ UNCHANGED <<batch, stored>> /\ writer = "end" /\ writer' = "count"
      BY <1>8 DEF CommitFails, Rollback
  <2>2. failed' = failed \cup Elements(batch)
      BY <1>8, <2>1 DEF HistNext, BatchFails, histVars, vars, writerVars
  <2>3. Elements(batch)' \cap Elements(stored)' = {} /\ Elements(batch)' \subseteq failed'
      BY <2>1, <2>2 DEF Elements, Transaction, Undurable
  <2> QED BY <2>1, <2>3 DEF BatchIsSettled, Transaction
<1>9. CASE BeginFails
    BY <1>9 DEF BeginFails, BatchIsSettled, Transaction
<1>10. CASE InsertAborts
    BY <1>10 DEF InsertAborts
<1>11. CASE CountBatch
  <2>1. UNCHANGED <<batch, stored>> /\ writer = "count" /\ writer' = "send"
      BY <1>11 DEF CountBatch, dbVars
  <2>2. BatchIsSettled'
      BY <1>1, <2>1 DEF BatchIsSettled, Transaction, Elements
  <2> QED BY <2>1, <2>2 DEF Transaction
<1>12. CASE Broadcast
  <2>1. /\ stored' = stored /\ writer = "send"
        /\ writer' = "loop" \/ (writer' = "send" /\ batch' = batch)
      BY <1>12 DEF Broadcast, dbVars
  <2>2. BatchIsSettled'
      BY <1>1, <2>1 DEF BatchIsSettled, Transaction, Elements
  <2> QED BY <2>1, <2>2 DEF Transaction
<1>13. CASE StopFree
  <2>1. writer' = "done"
      BY <1>13 DEF StopFree, QuiescentWhenFreed, writerVars
  <2> QED BY <2>1 DEF BatchIsSettled, Transaction
<1>14. CASE \/ OnMessage \/ UnpackFails \/ BuildSample \/ QueuePush \/ QueuePushFails
            \/ WriterLoop \/ WriterLock \/ WriterFindsNothing \/ WriterWait
            \/ SpuriousWakeup \/ Reporter \/ StopFlag
            \/ StopWake \/ StopJoinWriter \/ StopJoinStats \/ StopCloseMqtt
            \/ UNCHANGED vars
  <2>1. /\ UNCHANGED <<batch, row, ok, txn, pending, stored>>
        /\ writer' = writer \/ writer' \notin {"begin", "insert", "end", "count", "send"}
      BY <1>14
      DEF OnMessage, UnpackFails, BuildSample, QueuePush, QueuePushFails, WriterLoop, WriterLock,
          WriterFindsNothing, WriterWait, SpuriousWakeup, Reporter, ReadCounters, Report, StopFlag,
          StopWake, WakeWriter, StopJoinWriter, StopJoinStats, StopCloseMqtt, vars, writerVars, dbVars
  <2> QED BY <1>1, <2>1, TransactionLeft
<1> QED BY <1>1, <1>3, <1>4, <1>5, <1>6, <1>7, <1>8, <1>9, <1>10, <1>11, <1>12, <1>13, <1>14
       DEF Next, Network, Writer, Pop, Persist, Stop, Stopped

\* If SQLite never rolls back by itself, a batch is counted and sent either as a whole
\* in the database, or with no sample in it and after a call of its transaction failed.
THEOREM BatchesSettle == "autorollback" \notin Faults /\ HistSpec => []BatchIsSettled
<1> SUFFICES ASSUME "autorollback" \notin Faults PROVE HistSpec => []BatchIsSettled
    OBVIOUS
<1>1. HistInit => Init /\ Transaction
    BY DEF HistInit, Init, Transaction, BatchIsSettled
<1>2. [HistNext]_histVars => [Next]_vars
    BY DEF HistNext, histVars
<1>3. TypeOK /\ BatchShape /\ Order /\ QuiescentWhenFreed /\ Transaction /\ [HistNext]_histVars
      => Transaction'
    BY TransactionStep
<1>4. Transaction => BatchIsSettled
    BY DEF Transaction
<1> QED BY <1>1, <1>2, <1>3, <1>4, TypeCorrect, OrderKept, NobodyLeftBehind, PTL
       DEF Spec, HistSpec

-----------------------------------------------------------------------------
(* Where every message is.                                                 *)

LEMMA AppendElements ==
    ASSUME NEW s \in Seq(Nat), NEW n \in Nat
    PROVE  Elements(Append(s, n)) = Elements(s) \cup {n}
<1> DEFINE t == Append(s, n)
<1>1. /\ DOMAIN s = 1..Len(s) /\ DOMAIN t = 1..Len(s) + 1 /\ Len(s) \in Nat
      /\ t[Len(s) + 1] = n /\ \A i \in 1..Len(s) : t[i] = s[i]
    OBVIOUS
<1> HIDE DEF t
<1>2. \A i \in 1..Len(s) + 1 : i \in 1..Len(s) \/ i = Len(s) + 1
    BY <1>1
<1>3. /\ Len(s) + 1 \in 1..Len(s) + 1
      /\ \A i \in 1..Len(s) : i \in 1..Len(s) + 1
    BY <1>1
<1>4. Elements(t) \subseteq Elements(s) \cup {n}
    BY <1>1, <1>2 DEF Elements
<1>5. Elements(s) \cup {n} \subseteq Elements(t)
    BY <1>1, <1>3 DEF Elements
<1> QED BY <1>4, <1>5 DEF t

LEMMA ConcatElements ==
    ASSUME NEW s \in Seq(Nat), NEW t \in Seq(Nat)
    PROVE  Elements(s \o t) = Elements(s) \cup Elements(t)
<1> DEFINE m == Len(s)
           n == Len(t)
           u == s \o t
<1>1. /\ m \in Nat /\ n \in Nat /\ DOMAIN s = 1..m /\ DOMAIN t = 1..n /\ DOMAIN u = 1..m + n
      /\ \A i \in 1..m + n : u[i] = IF i <= m THEN s[i] ELSE t[i - m]
    OBVIOUS
<1> HIDE DEF u, m, n
<1>2. ASSUME NEW i \in 1..m + n PROVE u[i] \in Elements(s) \cup Elements(t)
  <2>1. CASE i <= m
    <3>1. i \in 1..m /\ u[i] = s[i]
        BY <1>1, <2>1
    <3> QED BY <1>1, <3>1 DEF Elements
  <2>2. CASE ~(i <= m)
    <3>1. i - m \in 1..n /\ u[i] = t[i - m]
        BY <1>1, <2>2
    <3> QED BY <1>1, <3>1 DEF Elements
  <2> QED BY <2>1, <2>2
<1>3. ASSUME NEW i \in 1..m PROVE s[i] \in Elements(u)
  <2>1. i \in 1..m + n /\ u[i] = s[i]
      BY <1>1
  <2> QED BY <1>1, <2>1 DEF Elements
<1>4. ASSUME NEW i \in 1..n PROVE t[i] \in Elements(u)
  <2>1. i + m \in 1..m + n /\ ~(i + m <= m) /\ (i + m) - m = i
      BY <1>1
  <2>2. u[i + m] = t[i]
      BY <1>1, <2>1
  <2> QED BY <1>1, <2>1, <2>2 DEF Elements
<1>5. Elements(u) = Elements(s) \cup Elements(t)
    BY <1>1, <1>2, <1>3, <1>4 DEF Elements
<1> QED BY <1>5 DEF u

\* A rising sequence holds as many samples as it is long.
LEMMA RisingCounts ==
    ASSUME NEW s \in Seq(Nat), Rising(s)
    PROVE  IsFiniteSet(Elements(s)) /\ Cardinality(Elements(s)) = Len(s)
<1> DEFINE n == Len(s)
<1>1. n \in Nat /\ DOMAIN s = 1..n /\ s \in [1..n -> Nat]
    OBVIOUS
<1>2. \A i, j \in 1..n : i # j => s[i] # s[j]
  <2> SUFFICES ASSUME NEW i \in 1..n, NEW j \in 1..n, i # j PROVE s[i] # s[j]
      OBVIOUS
  <2>1. i < j \/ j < i
      BY <1>1
  <2>2. s[i] \in Nat /\ s[j] \in Nat
      BY <1>1
  <2> QED BY <2>1, <2>2 DEF Rising
<1>3. s \in [1..n -> Elements(s)]
    BY <1>1 DEF Elements
<1>4. s \in Injection(1..n, Elements(s)) /\ s \in Surjection(1..n, Elements(s))
  <2>1. \A t \in Elements(s) : \E i \in 1..n : s[i] = t
      BY <1>1 DEF Elements
  <2> QED BY <1>2, <1>3, <2>1 DEF Injection, IsInjective, Surjection
<1>5. IsFiniteSet(1..n) /\ Cardinality(1..n) = n
  <2>1. 1 \in Int /\ n \in Int
      BY <1>1
  <2> HIDE DEF n
  <2>2. /\ IsFiniteSet(1..n)
        /\ Cardinality(1..n) = IF 1 > n THEN 0 ELSE n - 1 + 1
      BY <2>1, FS_Interval
  <2> QED BY <1>1, <2>2
<1> QED BY <1>4, <1>5, FS_Surjection

\* What is pending belongs to the batch in hand, and all of it before row is
\* pending while none of its INSERTs has failed.
RowsOfBatch ==
    /\ writer \in {"insert", "end"} => Elements(pending) \subseteq Elements(batch)
    /\ writer = "insert" /\ ok => txn /\ RowsPending
    /\ writer = "end" /\ ok => AllPending

\* The lost samples have arrived, and are neither queued, nor stored, nor of a
\* batch that is still being written; a batch that has been written is settled.
LostApart ==
    /\ lost \subseteq 1..(rx_msgs - InHand)
    /\ lost \cap Elements(queue) = {}
    /\ lost \cap Elements(stored) = {}
    /\ writer \in {"begin", "insert", "end"} => lost \cap Elements(batch) = {}
    /\ writer = "count" => Elements(batch) \subseteq Settled

RowsAreCounted == db_rows = Cardinality(Settled \ Uncounted)

LEMMA RowsOfBatchStep ==
    ASSUME TypeOK, BatchShape, Order, QuiescentWhenFreed, RowsOfBatch, [Next]_vars
    PROVE  RowsOfBatch'
<1>0. /\ batch \in Seq(Nat) /\ pending \in Seq(Nat) /\ row \in Nat \ {0}
      /\ DOMAIN batch = 1..Len(batch) /\ Len(batch) \in Nat
    BY DEF TypeOK
<1>1. CASE Begin
  <2>1. /\ pending' = <<>> /\ row' = 1 /\ writer' = "insert"
        /\ batch' = batch
      BY <1>1 DEF Begin
  <2>2. txn'
      BY <1>1, Zenon DEF Begin
  <2>3. Elements(pending)' = {} /\ RowsPending'
      BY <2>1 DEF Elements, RowsPending
  <2> QED BY <2>1, <2>2, <2>3, Zenon DEF RowsOfBatch
<1>2. CASE Insert
  <2>1. row \in 1..Len(batch) /\ batch[row] \in Nat /\ batch[row] \in Elements(batch)
    <3>1. row <= Len(batch)
        BY <1>2 DEF Insert, BatchShape
    <3>2. row \in 1..Len(batch)
        BY <1>0, <3>1
    <3>3. batch[row] \in Nat
        BY <1>0, <3>2
    <3> QED BY <1>0, <3>2, <3>3, Zenon DEF Elements
  <2>2. /\ batch' = batch /\ row' = row + 1 /\ writer = "insert"
        /\ writer' = IF row = Len(batch) THEN "end" ELSE "insert"
      BY <1>2 DEF Insert, NextRow
  <2>3. ok' = ok /\ txn' = txn
      BY <1>2, Zenon DEF Insert
  <2>4. CASE txn
    <3>1. pending' = Append(pending, batch[row])
        BY <1>2, <2>4, Zenon DEF Insert
    <3>2. Elements(pending)' = Elements(pending) \cup {batch[row]} /\ Elements(batch)' = Elements(batch)
      <4>1. Elements(pending)' = Elements(Append(pending, batch[row]))
          BY <3>1 DEF Elements
      <4>2. Elements(Append(pending, batch[row])) = Elements(pending) \cup {batch[row]}
          BY <1>0, <2>1, AppendElements, Zenon
      <4>3. Elements(batch)' = Elements(batch)
          BY <2>2 DEF Elements
      <4> QED BY <4>1, <4>2, <4>3
    <3>3. Elements(pending)' \subseteq Elements(batch)'
      <4>1. Elements(pending) \subseteq Elements(batch)
          BY <2>2, Zenon DEF RowsOfBatch
      <4> QED BY <2>1, <3>2, <4>1
    <3>4. ASSUME ok PROVE RowsPending' /\ (row = Len(batch) => AllPending')
      <4>1. RowsPending
          BY <2>2, <3>4, Zenon DEF RowsOfBatch
      <4>2. ASSUME NEW i \in 1..row PROVE batch[i] \in Elements(pending)'
        <5>1. i \in 1..(row - 1) \/ i = row
            BY <1>0
        <5> QED BY <3>2, <4>1, <5>1 DEF RowsPending
      <4>3. row' - 1 = row
        <5>1. row' = row + 1 /\ row \in Nat
            BY <1>0, <2>2, Zenon
        <5> QED BY <5>1
      <4> QED BY <1>0, <2>2, <4>2, <4>3, ZenonT(40) DEF RowsPending, AllPending, Elements
    <3> QED BY <2>2, <2>3, <2>4, <3>3, <3>4, Zenon DEF RowsOfBatch
  <2>5. CASE ~txn
    <3>1. ~ok
        BY <2>2, <2>5, Zenon DEF RowsOfBatch
    <3>2. pending' = pending
        BY <1>2, <2>5, Zenon DEF Insert
    <3>3. Elements(pending)' \subseteq Elements(batch)'
      <4>1. Elements(pending) \subseteq Elements(batch)
          BY <2>2, Zenon DEF RowsOfBatch
      <4> QED BY <2>2, <3>2, <4>1 DEF Elements
    <3> QED BY <2>3, <3>1, <3>3, Zenon DEF RowsOfBatch
  <2> QED BY <2>4, <2>5
<1>3. CASE InsertFails \/ InsertAborts
  <2>1. ok' = FALSE
      BY <1>3, Zenon DEF InsertFails, InsertAborts
  <2>2. batch' = batch /\ writer = "insert" /\ (pending' = pending \/ pending' = <<>>)
      BY <1>3 DEF InsertFails, InsertAborts, dbVars
  <2>3. Elements(pending)' \subseteq Elements(batch)'
    <3>1. Elements(pending) \subseteq Elements(batch)
        BY <2>2, Zenon DEF RowsOfBatch
    <3>2. Elements(<<>>) = {}
        BY DEF Elements
    <3>3. Elements(pending)' = Elements(pending) \/ Elements(pending)' = Elements(<<>>)
        BY <2>2 DEF Elements
    <3>4. Elements(batch)' = Elements(batch)
        BY <2>2 DEF Elements
    <3> QED BY <3>1, <3>2, <3>3, <3>4
  <2> QED BY <2>1, <2>3, Zenon DEF RowsOfBatch
<1>4. CASE Commit \/ CommitFails \/ Rollback \/ CountBatch \/ Broadcast \/ BeginFails \/ PopBatch
  <2>1. writer' \notin {"insert", "end"}
      BY <1>4 DEF Commit, CommitFails, Rollback, CountBatch, Broadcast, BeginFails, PopBatch
  <2> QED BY <2>1 DEF RowsOfBatch
<1>5. CASE StopFree
  <2>1. writer' = "done"
      BY <1>5 DEF StopFree, QuiescentWhenFreed, writerVars
  <2> QED BY <2>1 DEF RowsOfBatch
<1>6. CASE \/ OnMessage \/ UnpackFails \/ BuildSample \/ QueuePush \/ QueuePushFails
           \/ WriterLoop \/ WriterLock \/ WriterFindsNothing \/ WriterWait
           \/ SpuriousWakeup \/ Reporter \/ StopFlag
           \/ StopWake \/ StopJoinWriter \/ StopJoinStats \/ StopCloseMqtt
           \/ UNCHANGED vars
  <2>1. /\ UNCHANGED <<batch, row, ok, txn, pending>>
        /\ writer' = writer \/ writer' \notin {"insert", "end"}
      BY <1>6
      DEF OnMessage, UnpackFails, BuildSample, QueuePush, QueuePushFails, WriterLoop, WriterLock,
          WriterFindsNothing, WriterWait, SpuriousWakeup, Reporter, ReadCounters, Report, StopFlag,
          StopWake, WakeWriter, StopJoinWriter, StopJoinStats, StopCloseMqtt, vars, writerVars, dbVars
  <2>2. /\ Elements(pending)' = Elements(pending) /\ Elements(batch)' = Elements(batch)
        /\ (RowsPending' <=> RowsPending) /\ (AllPending' <=> AllPending)
      BY <2>1 DEF Elements, RowsPending, AllPending
  <2>3. CASE writer' = writer
      BY <2>1, <2>2, <2>3, Zenon DEF RowsOfBatch
  <2> QED BY <2>1, <2>3 DEF RowsOfBatch
<1> QED BY <1>1, <1>2, <1>3, <1>4, <1>5, <1>6
       DEF Next, Network, Writer, Pop, Persist, Stop, Stopped

\* A step other than the end of a failed transaction loses nothing.
LEMMA NothingIsLost ==
    ASSUME HistNext, writer # "end" \/ writer' # "count"
    PROVE  lost' = lost
BY DEF HistNext, CommitFails, Rollback

\* The sets the ledger is about, after a step that leaves the batch alone.
LEMMA SetsStay ==
    ASSUME UNCHANGED <<batch, stored>>
    PROVE  Elements(batch)' = Elements(batch) /\ Elements(stored)' = Elements(stored)
BY DEF Elements

\* A step that writes no row, ends no transaction, and queues nothing.
LEMMA LostStays ==
    ASSUME LostApart, UNCHANGED <<batch, stored, lost>>,
           Elements(queue)' \subseteq Elements(queue),
           1..(rx_msgs - InHand) \subseteq (1..(rx_msgs - InHand))',
           \/ writer' \notin {"begin", "insert", "end", "count"}
           \/ writer' = writer
           \/ writer \in {"begin", "insert"} /\ writer' \in {"insert", "end"}
    PROVE  LostApart'
BY SetsStay DEF LostApart, Settled

LEMMA LostStep ==
    ASSUME TypeOK, TypeOK', BatchShape, Balance, Order, QuiescentWhenFreed,
           RowsOfBatch, LostApart, HistNext
    PROVE  LostApart'
<1>0. /\ batch \in Seq(Nat) /\ pending \in Seq(Nat) /\ stored \in Seq(Nat) /\ queue \in Seq(Nat)
      /\ Elements(batch) \cap Elements(queue) = {}
      /\ Elements(batch) \subseteq 1..(rx_msgs - InHand)
    BY OwnersAreApart DEF TypeOK
<1>1. CASE OnMessage \/ UnpackFails \/ BuildSample \/ QueuePushFails
  <2>1. /\ UNCHANGED <<batch, stored, queue, writer>> /\ rx_msgs \in Nat
        /\ \/ rx_msgs' = rx_msgs + 1 /\ InHand = 0 /\ InHand' = 1
           \/ rx_msgs' = rx_msgs /\ InHand = 1 /\ InHand' \in {0, 1}
      BY <1>1 DEF OnMessage, UnpackFails, BuildSample, QueuePushFails, InHand, TypeOK,
                  writerVars, dbVars
  <2>2. 1..(rx_msgs - InHand) \subseteq (1..(rx_msgs - InHand))'
    <3>1. rx_msgs - InHand <= (rx_msgs - InHand)' /\ (rx_msgs - InHand)' \in Int
          /\ rx_msgs - InHand \in Int
        BY <2>1
    <3> QED BY <3>1
  <2>3. lost' = lost
    <3>1. writer # "end" \/ writer' # "count"
        BY <2>1
    <3> QED BY <3>1, NothingIsLost
  <2> QED BY <2>1, <2>2, <2>3, LostStays DEF Elements
<1>2. CASE QueuePush
  <2>1. /\ UNCHANGED <<batch, stored, rx_msgs>> /\ rx_msgs \in Nat
        /\ InHand = 1 /\ InHand' = 0 /\ queue' = Append(queue, rx_msgs)
        /\ writer' \in {writer, "woken"}
      BY <1>2 DEF QueuePush, LinkedAtTail, WakeWriter, InHand, TypeOK, dbVars
  <2>2. Elements(queue)' = Elements(queue) \cup {rx_msgs}
    <3>1. Elements(queue)' = Elements(Append(queue, rx_msgs))
        BY <2>1 DEF Elements
    <3> QED BY <1>0, <2>1, <3>1, AppendElements
  <2>3. lost' = lost
    <3>1. writer # "end" \/ writer' # "count"
        BY <2>1
    <3> QED BY <3>1, NothingIsLost
  <2>4. /\ rx_msgs \notin 1..(rx_msgs - InHand)
        /\ 1..(rx_msgs - InHand) \subseteq (1..(rx_msgs - InHand))'
      BY <2>1
  <2> QED BY <2>1, <2>2, <2>3, <2>4, SetsStay DEF LostApart, Settled
<1>3. CASE PopBatch
  <2>1. /\ batch' = SubSeq(queue, 1, PopCount) /\ stored' = stored
        /\ queue' = SubSeq(queue, PopCount + 1, Len(queue))
        /\ UNCHANGED <<rx_msgs, net>> /\ writer' \in {"loop", "begin"}
      BY <1>3 DEF PopBatch, dbVars, netVars
  <2>2. Elements(batch)' \subseteq Elements(queue) /\ Elements(queue)' \subseteq Elements(queue)
    <3>1. /\ batch' \in Seq(Nat) /\ Len(batch') = PopCount
          /\ \A i \in 1..PopCount : batch'[i] = queue[i]
          /\ queue' \in Seq(Nat) /\ Len(queue') = Len(queue) - PopCount
          /\ \A i \in 1..Len(queue') : queue'[i] = queue[PopCount + i]
        BY <1>0, <2>1, PopSplits, Zenon
    <3>2. PopCount \in 0..Len(queue) /\ Len(queue) \in Nat
        BY <1>0, PopCountBounds
    <3>3. /\ DOMAIN batch' = 1..PopCount /\ DOMAIN queue = 1..Len(queue)
          /\ DOMAIN queue' = 1..Len(queue) - PopCount
        BY <1>0, <3>1
    <3>4. /\ \A i \in 1..PopCount : i \in 1..Len(queue)
          /\ \A i \in 1..Len(queue) - PopCount : PopCount + i \in 1..Len(queue)
        BY <3>2
    <3> QED BY <3>1, <3>3, <3>4 DEF Elements
  <2>3. lost' = lost
    <3>1. writer' # "count"
        BY <2>1
    <3> QED BY <3>1, NothingIsLost
  <2>4. InHand' = InHand /\ Elements(stored)' = Elements(stored)
      BY <2>1 DEF InHand, Elements
  <2> QED BY <2>1, <2>2, <2>3, <2>4 DEF LostApart
<1>4. CASE Begin \/ InsertFails \/ InsertAborts
  <2>1. /\ UNCHANGED <<batch, stored, queue, rx_msgs, net>>
        /\ writer \in {"begin", "insert"} /\ writer' \in {"insert", "end"}
      BY <1>4 DEF Begin, InsertFails, InsertAborts, NextRow, dbVars, netVars
  <2>2. lost' = lost
    <3>1. writer' # "count"
        BY <2>1
    <3> QED BY <3>1, NothingIsLost
  <2> QED BY <2>1, <2>2, LostStays DEF Elements, InHand
<1>5. CASE Insert
  <2>1. /\ UNCHANGED <<batch, queue, rx_msgs, net>> /\ writer = "insert"
        /\ writer' \in {"insert", "end"}
        /\ stored' = stored \/ stored' = Append(stored, batch[row])
      BY <1>5 DEF Insert, NextRow, netVars
  <2>2. batch[row] \in Nat /\ batch[row] \in Elements(batch)
    <3>1. row <= Len(batch)
        BY <1>5 DEF Insert, BatchShape
    <3>2. row \in 1..Len(batch) /\ DOMAIN batch = 1..Len(batch)
        BY <3>1 DEF TypeOK
    <3>3. batch[row] \in Nat
        BY <1>0, <3>2
    <3> QED BY <3>2, <3>3, Zenon DEF Elements
  <2>3. Elements(stored)' \subseteq Elements(stored) \cup Elements(batch)
    <3>1. Elements(Append(stored, batch[row])) = Elements(stored) \cup {batch[row]}
        BY <1>0, <2>2, AppendElements, Zenon
    <3>2. CASE stored' = stored
        BY <3>2 DEF Elements
    <3>3. CASE stored' = Append(stored, batch[row])
      <4>1. Elements(stored)' = Elements(Append(stored, batch[row]))
          BY <3>3 DEF Elements
      <4> QED BY <2>2, <3>1, <4>1
    <3> QED BY <2>1, <3>2, <3>3
  <2>4. lost' = lost
    <3>1. writer' # "count"
        BY <2>1
    <3> QED BY <3>1, NothingIsLost
  <2>5. /\ Elements(batch)' = Elements(batch) /\ Elements(queue)' = Elements(queue)
        /\ InHand' = InHand
      BY <2>1 DEF Elements, InHand
  <2> QED BY <2>1, <2>3, <2>4, <2>5 DEF LostApart
<1>6. CASE Commit
  <2>1. /\ UNCHANGED <<batch, queue, rx_msgs, net>> /\ writer = "end" /\ writer' = "count"
        /\ stored' = stored \o pending
      BY <1>6 DEF Commit, netVars
  <2>2. AllPending /\ Elements(pending) \subseteq Elements(batch)
      BY <1>6, Zenon DEF Commit, RowsOfBatch
  <2>3. Elements(stored)' = Elements(stored) \cup Elements(pending)
    <3>1. Elements(stored)' = Elements(stored \o pending)
        BY <2>1 DEF Elements
    <3> QED BY <1>0, <3>1, ConcatElements
  <2>4. stored' # stored
    <3>1. batch # <<>>
        BY <2>1 DEF BatchShape
    <3>2. Elements(batch) # {}
      <4>1. 1 \in DOMAIN batch
          BY <1>0, <3>1
      <4> QED BY <4>1, Zenon DEF Elements
    <3>3. pending # <<>>
      <4>1. Elements(<<>>) = {}
          BY DEF Elements
      <4> QED BY <2>2, <3>2, <4>1 DEF AllPending
    <3>4. Len(stored \o pending) = Len(stored) + Len(pending) /\ Len(pending) > 0
          /\ Len(stored) \in Nat /\ Len(pending) \in Nat
        BY <1>0, <3>3
    <3> QED BY <2>1, <3>4
  <2>5. lost' = lost
      BY <1>6, <2>4, Zenon DEF Commit, HistNext, CommitFails, Rollback
  <2>6. /\ Elements(batch)' = Elements(batch) /\ Elements(queue)' = Elements(queue)
        /\ InHand' = InHand
      BY <2>1 DEF Elements, InHand
  <2> QED BY <2>1, <2>2, <2>3, <2>5, <2>6 DEF LostApart, AllPending, Settled
<1>7. CASE CommitFails \/ Rollback
  <2>1. /\ UNCHANGED <<batch, stored, queue, rx_msgs, net>>
        /\ writer = "end" /\ writer' = "count"
      BY <1>7 DEF CommitFails, Rollback, netVars
  <2>2. lost' = lost \cup (Elements(batch) \ Elements(stored))
      BY <1>7, Zenon DEF HistNext, RowsUndone
  <2>3. /\ Elements(queue)' = Elements(queue) /\ InHand' = InHand
      BY <2>1 DEF Elements, InHand
  <2> QED BY <1>0, <2>1, <2>2, <2>3, SetsStay DEF LostApart, Settled
<1>8. CASE BeginFails \/ CountBatch \/ Broadcast \/ StopFree
  <2>1. /\ UNCHANGED <<stored, rx_msgs, net>> /\ (queue' = queue \/ queue' = <<>>)
        /\ writer' \notin {"begin", "insert", "end", "count"}
      BY <1>8 DEF BeginFails, CountBatch, Broadcast, StopFree, QuiescentWhenFreed, dbVars,
                  netVars, writerVars
  <2>2. lost' = lost
    <3>1. writer' # "count"
        BY <2>1
    <3> QED BY <3>1, NothingIsLost
  <2>3. Elements(queue)' \subseteq Elements(queue)
    <3>1. Elements(<<>>) = {}
        BY DEF Elements
    <3>2. Elements(queue)' = Elements(queue) \/ Elements(queue)' = Elements(<<>>)
        BY <2>1 DEF Elements
    <3> QED BY <3>1, <3>2
  <2>4. Elements(stored)' = Elements(stored) /\ InHand' = InHand
      BY <2>1 DEF Elements, InHand
  <2> QED BY <2>1, <2>2, <2>3, <2>4 DEF LostApart
<1>9. CASE \/ WriterLoop \/ WriterLock \/ WriterFindsNothing \/ WriterWait
           \/ SpuriousWakeup \/ Reporter \/ StopFlag
           \/ StopWake \/ StopJoinWriter \/ StopJoinStats \/ StopCloseMqtt \/ Stopped
  <2>1. /\ UNCHANGED <<batch, stored, queue, rx_msgs>>
        /\ writer' = writer \/ writer' \notin {"begin", "insert", "end", "count"}
        /\ net' = net \/ (net = "idle" /\ net' = "closed")
      BY <1>9
      DEF WriterLoop, WriterLock, WriterFindsNothing, WriterWait, SpuriousWakeup, Reporter,
          ReadCounters, Report, StopFlag, StopWake, WakeWriter, StopJoinWriter, StopJoinStats,
          StopCloseMqtt, Stopped, vars, writerVars, dbVars, netVars
  <2>2. lost' = lost
    <3>1. writer # "end" \/ writer' # "count"
        BY <2>1
    <3> QED BY <3>1, NothingIsLost
  <2>3. InHand' = InHand
      BY <2>1 DEF InHand
  <2> QED BY <2>1, <2>2, <2>3, LostStays DEF Elements
<1>10. Next
    BY DEF HistNext
<1> QED BY <1>1, <1>2, <1>3, <1>4, <1>5, <1>6, <1>7, <1>8, <1>9, <1>10
       DEF Next, Network, Writer, Pop, Persist, Stop

\* Only CountBatch changes what db_rows counts; every other step leaves the
\* settled samples outside the batch in hand as they are.
LEMMA SettledStays ==
    ASSUME TypeOK, BatchShape, Order, QuiescentWhenFreed, RowsOfBatch, LostApart, HistNext,
           ~CountBatch
    PROVE  /\ Settled' \ Uncounted' = Settled \ Uncounted
           /\ db_rows' = db_rows
<1>0. /\ batch \in Seq(Nat) /\ pending \in Seq(Nat) /\ stored \in Seq(Nat) /\ queue \in Seq(Nat)
      /\ Elements(batch) \cap Elements(queue) = {}
    BY OwnersAreApart DEF TypeOK
<1>1. CASE PopBatch
  <2>1. /\ batch' = SubSeq(queue, 1, PopCount) /\ stored' = stored /\ db_rows' = db_rows
        /\ writer = "test" /\ writer' \in {"loop", "begin"}
      BY <1>1 DEF PopBatch, dbVars, countVars
  <2>2. Elements(batch)' \subseteq Elements(queue)
    <3>1. /\ batch' \in Seq(Nat) /\ Len(batch') = PopCount
          /\ \A i \in 1..PopCount : batch'[i] = queue[i]
        BY <1>0, <2>1, PopSplits, Zenon
    <3>2. PopCount \in 0..Len(queue) /\ Len(queue) \in Nat
        BY <1>0, PopCountBounds
    <3>3. /\ DOMAIN batch' = 1..PopCount /\ DOMAIN queue = 1..Len(queue)
          /\ \A i \in 1..PopCount : i \in 1..Len(queue)
        BY <1>0, <3>1, <3>2
    <3> QED BY <3>1, <3>3 DEF Elements
  <2>3. Elements(stored) \cap Elements(queue) = {}
    <3>1. /\ DOMAIN stored = 1..Len(stored) /\ DOMAIN queue = 1..Len(queue)
          /\ \A i \in 1..Len(stored) : stored[i] \in Nat
          /\ \A j \in 1..Len(queue) : queue[j] \in Nat
        BY <1>0
    <3>2. \A i \in 1..Len(stored), j \in 1..Len(queue) : stored[i] # queue[j]
        BY <3>1 DEF Order, QueueIsNewest, Before
    <3> QED BY <3>1, <3>2 DEF Elements
  <2>4. lost' = lost /\ Elements(stored)' = Elements(stored)
    <3>1. writer' # "count"
        BY <2>1
    <3> QED BY <2>1, <3>1, NothingIsLost DEF Elements
  <2> QED BY <2>1, <2>2, <2>3, <2>4 DEF LostApart, Settled, Uncounted
<1>2. CASE Begin \/ InsertFails \/ InsertAborts
  <2>1. /\ UNCHANGED <<batch, stored, db_rows>>
        /\ writer \in {"begin", "insert"} /\ writer' \in {"insert", "end"}
      BY <1>2 DEF Begin, InsertFails, InsertAborts, NextRow, dbVars, countVars
  <2>2. lost' = lost
    <3>1. writer' # "count"
        BY <2>1
    <3> QED BY <3>1, NothingIsLost
  <2> QED BY <2>1, <2>2, SetsStay DEF Settled, Uncounted
<1>3. CASE BeginFails
  <2>1. /\ stored' = stored /\ db_rows' = db_rows /\ writer = "begin" /\ writer' = "loop"
      BY <1>3 DEF BeginFails, dbVars, countVars
  <2>2. lost' = lost /\ Elements(stored)' = Elements(stored)
    <3>1. writer' # "count"
        BY <2>1
    <3> QED BY <2>1, <3>1, NothingIsLost DEF Elements
  <2>3. Elements(stored) \cap Elements(batch) = {}
    <3>1. /\ DOMAIN stored = 1..Len(stored) /\ DOMAIN batch = 1..Len(batch)
          /\ \A i \in 1..Len(stored) : stored[i] \in Nat
          /\ \A j \in 1..Len(batch) : batch[j] \in Nat
        BY <1>0
    <3>2. \A i \in 1..Len(stored), j \in 1..Len(batch) : stored[i] # batch[j]
        BY <2>1, <3>1 DEF Order, BatchIsNext, Before
    <3> QED BY <3>1, <3>2 DEF Elements
  <2> QED BY <2>1, <2>2, <2>3 DEF LostApart, Settled, Uncounted
<1>4. CASE Insert
  <2>1. /\ UNCHANGED <<batch, db_rows>> /\ writer = "insert" /\ writer' \in {"insert", "end"}
        /\ stored' = stored \/ stored' = Append(stored, batch[row])
      BY <1>4 DEF Insert, NextRow, countVars
  <2>2. batch[row] \in Nat /\ batch[row] \in Elements(batch)
    <3>1. row <= Len(batch)
        BY <1>4 DEF Insert, BatchShape
    <3>2. row \in 1..Len(batch) /\ DOMAIN batch = 1..Len(batch)
        BY <3>1 DEF TypeOK
    <3>3. batch[row] \in Nat
        BY <1>0, <3>2
    <3> QED BY <3>2, <3>3, Zenon DEF Elements
  <2>3. Elements(stored)' \in {Elements(stored), Elements(stored) \cup {batch[row]}}
    <3>1. Elements(Append(stored, batch[row])) = Elements(stored) \cup {batch[row]}
        BY <1>0, <2>2, AppendElements, Zenon
    <3>2. Elements(stored)' \in {Elements(stored), Elements(Append(stored, batch[row]))}
        BY <2>1 DEF Elements
    <3> QED BY <3>1, <3>2
  <2>4. lost' = lost /\ Elements(batch)' = Elements(batch)
    <3>1. writer' # "count"
        BY <2>1
    <3> QED BY <2>1, <3>1, NothingIsLost DEF Elements
  <2> QED BY <2>1, <2>2, <2>3, <2>4 DEF Settled, Uncounted
<1>5. CASE Commit
  <2>1. /\ UNCHANGED <<batch, db_rows>> /\ writer = "end" /\ writer' = "count"
        /\ stored' = stored \o pending
      BY <1>5 DEF Commit, countVars
  <2>2. Elements(pending) \subseteq Elements(batch)
      BY <2>1, Zenon DEF RowsOfBatch
  <2>3. Elements(stored)' = Elements(stored) \cup Elements(pending)
    <3>1. Elements(stored)' = Elements(stored \o pending)
        BY <2>1 DEF Elements
    <3> QED BY <1>0, <3>1, ConcatElements
  <2>4. Elements(batch)' = Elements(batch)
      BY <2>1 DEF Elements
  <2>5. lost' \subseteq lost \cup Elements(batch) /\ lost \subseteq lost'
      BY Zenon DEF HistNext, RowsUndone
  <2> QED BY <2>1, <2>2, <2>3, <2>4, <2>5 DEF Settled, Uncounted
<1>6. CASE CommitFails \/ Rollback
  <2>1. /\ UNCHANGED <<batch, stored, db_rows>> /\ writer = "end" /\ writer' = "count"
      BY <1>6 DEF CommitFails, Rollback, countVars
  <2>2. lost' \subseteq lost \cup Elements(batch) /\ lost \subseteq lost'
      BY Zenon DEF HistNext, RowsUndone
  <2> QED BY <2>1, <2>2, SetsStay DEF Settled, Uncounted
<1>7. CASE Broadcast \/ StopFree
  <2>1. /\ UNCHANGED <<stored, db_rows>>
        /\ writer \notin {"begin", "insert", "end", "count"}
        /\ writer' \notin {"begin", "insert", "end", "count"}
      BY <1>7 DEF Broadcast, StopFree, QuiescentWhenFreed, dbVars, countVars, writerVars
  <2>2. lost' = lost /\ Elements(stored)' = Elements(stored)
    <3>1. writer' # "count"
        BY <2>1
    <3> QED BY <2>1, <3>1, NothingIsLost DEF Elements
  <2> QED BY <2>1, <2>2 DEF Settled, Uncounted
<1>8. CASE \/ OnMessage \/ UnpackFails \/ BuildSample \/ QueuePush \/ QueuePushFails
           \/ WriterLoop \/ WriterLock \/ WriterFindsNothing \/ WriterWait
           \/ SpuriousWakeup \/ Reporter \/ StopFlag
           \/ StopWake \/ StopJoinWriter \/ StopJoinStats \/ StopCloseMqtt \/ Stopped
  <2>1. /\ UNCHANGED <<batch, stored, db_rows>>
        /\ \/ writer' = writer
           \/ /\ writer \notin {"begin", "insert", "end", "count"}
              /\ writer' \notin {"begin", "insert", "end", "count"}
      BY <1>8
      DEF OnMessage, UnpackFails, BuildSample, QueuePush, QueuePushFails, WriterLoop, WriterLock,
          WriterFindsNothing, WriterWait, SpuriousWakeup, Reporter, ReadCounters, Report, StopFlag,
          StopWake, WakeWriter, StopJoinWriter, StopJoinStats, StopCloseMqtt, Stopped, vars,
          writerVars, dbVars, countVars
  <2>2. lost' = lost
    <3>1. writer # "end" \/ writer' # "count"
        BY <2>1
    <3> QED BY <3>1, NothingIsLost
  <2> QED BY <2>1, <2>2, SetsStay DEF Settled, Uncounted
<1>9. Next
    BY DEF HistNext
<1> QED BY <1>1, <1>2, <1>3, <1>4, <1>5, <1>6, <1>7, <1>8, <1>9
       DEF Next, Network, Writer, Pop, Persist, Stop

\* The sets are finite, and how many samples they hold.
LEMMA LedgerIsFinite ==
    ASSUME TypeOK, Order, LostApart
    PROVE  /\ IsFiniteSet(Settled) /\ IsFiniteSet(Uncounted)
           /\ Cardinality(lost) \in Nat /\ Cardinality(Settled) \in Nat
           /\ Cardinality(Settled) = Len(stored) + Cardinality(lost)
           /\ Cardinality(Uncounted) = BatchCount
<1>1. batch \in Seq(Nat) /\ stored \in Seq(Nat) /\ rx_msgs - InHand \in Int
    BY MaxMsgsAssumption DEF TypeOK, InHand
<1>2. /\ IsFiniteSet(Elements(stored)) /\ Cardinality(Elements(stored)) = Len(stored)
      /\ IsFiniteSet(Elements(batch)) /\ Cardinality(Elements(batch)) = Len(batch)
    BY <1>1, RisingCounts DEF Order, AllRising
<1>3. IsFiniteSet(lost)
  <2>1. 1 \in Int
      OBVIOUS
  <2>2. IsFiniteSet(1..(rx_msgs - InHand))
      BY <1>1, <2>1, FS_Interval
  <2> QED BY <2>2, FS_Subset DEF LostApart
<1>4. Elements(stored) \cap lost = {}
    BY DEF LostApart
<1>5. IsFiniteSet({}) /\ Cardinality({}) = 0
    BY FS_EmptySet
<1>6. IsFiniteSet(Settled)
      /\ Cardinality(Settled) = Cardinality(Elements(stored)) + Cardinality(lost) - Cardinality({})
  <2>1. /\ IsFiniteSet(Elements(stored) \cup lost)
        /\ Cardinality(Elements(stored) \cup lost) = Cardinality(Elements(stored))
               + Cardinality(lost) - Cardinality(Elements(stored) \cap lost)
      BY <1>2, <1>3, FS_Union
  <2> QED BY <1>4, <2>1 DEF Settled
<1>7. Cardinality(lost) \in Nat /\ Cardinality(Settled) \in Nat /\ Len(stored) \in Nat
    BY <1>1, <1>3, <1>6, FS_CardinalityType
<1>8. IsFiniteSet(Uncounted) /\ Cardinality(Uncounted) = BatchCount
    BY <1>2, <1>5 DEF Uncounted, BatchCount
<1> QED BY <1>2, <1>5, <1>6, <1>7, <1>8

LEMMA RowsAreCountedStep ==
    ASSUME TypeOK, TypeOK', BatchShape, Order, QuiescentWhenFreed, RowsOfBatch, LostApart,
           RowsAreCounted, HistNext
    PROVE  RowsAreCounted'
<1>1. CASE ~CountBatch
    BY <1>1, SettledStays DEF RowsAreCounted
<1>2. CASE CountBatch
  <2>1. /\ UNCHANGED <<batch, stored>> /\ writer = "count" /\ writer' = "send"
        /\ db_rows' = db_rows + Len(batch)
      BY <1>2 DEF CountBatch, RowsCounted, dbVars
  <2>2. lost' = lost
    <3>1. writer' # "count"
        BY <2>1
    <3> QED BY <3>1, NothingIsLost
  <2>3. Settled' = Settled /\ Uncounted' = {} /\ Uncounted \subseteq Settled
      BY <2>1, <2>2, SetsStay DEF Settled, Uncounted, LostApart
  <2>4. /\ IsFiniteSet(Settled) /\ Cardinality(Settled) \in Nat
        /\ Cardinality(Uncounted) = Len(batch) /\ Len(batch) \in Nat
      BY <2>1, LedgerIsFinite DEF BatchCount, TypeOK
  <2>5. Cardinality(Settled \ Uncounted) = Cardinality(Settled) - Cardinality(Uncounted)
    <3>1. Cardinality(Settled \ Uncounted)
              = Cardinality(Settled) - Cardinality(Settled \cap Uncounted)
        BY <2>4, FS_Difference
    <3>2. Settled \cap Uncounted = Uncounted
        BY <2>3
    <3> QED BY <3>1, <3>2
  <2>6. Settled' \ Uncounted' = Settled
      BY <2>3
  <2>7. db_rows \in Nat /\ db_rows = Cardinality(Settled) - Len(batch)
    <3>1. db_rows = Cardinality(Settled \ Uncounted)
        BY DEF RowsAreCounted
    <3> QED BY <2>4, <2>5, <3>1 DEF TypeOK
  <2>8. db_rows' = Cardinality(Settled)
      BY <2>1, <2>4, <2>7
  <2> QED BY <2>6, <2>8, Zenon DEF RowsAreCounted
<1> QED BY <1>1, <1>2

\* Nothing about it changes.
LEMMA LedgerStutters ==
    ASSUME RowsOfBatch, LostApart, RowsAreCounted, UNCHANGED histVars
    PROVE  RowsOfBatch' /\ LostApart' /\ RowsAreCounted'
<1>1. UNCHANGED <<rx_msgs, net, queue, writer, batch, row, ok, txn, pending, stored, db_rows, lost>>
    BY DEF histVars, vars, netVars, writerVars, dbVars, countVars
<1>2. /\ Elements(batch)' = Elements(batch) /\ Elements(stored)' = Elements(stored)
      /\ Elements(queue)' = Elements(queue) /\ Elements(pending)' = Elements(pending)
      /\ InHand' = InHand /\ Settled' = Settled /\ Uncounted' = Uncounted
      /\ (RowsPending' <=> RowsPending) /\ (AllPending' <=> AllPending)
    BY <1>1 DEF Elements, InHand, Settled, Uncounted, RowsPending, AllPending
<1>3. RowsOfBatch'
    BY <1>1, <1>2, Zenon DEF RowsOfBatch
<1>4. LostApart'
    BY <1>1, <1>2 DEF LostApart
<1> QED BY <1>1, <1>2, <1>3, <1>4 DEF RowsAreCounted

\* The messages received, by the place of each; and db_rows has counted the rows of
\* the database and the samples lost with their transaction, whatever fails.
THEOREM NoMessageVanishes == HistSpec => []EveryMessageAccounted
<1> DEFINE Ledger == RowsOfBatch /\ LostApart /\ RowsAreCounted
<1>1. HistInit => Init /\ Ledger
  <2> SUFFICES ASSUME HistInit PROVE Init /\ Ledger
      OBVIOUS
  <2>1. /\ Init /\ writer = "loop" /\ stored = <<>> /\ queue = <<>> /\ lost = {} /\ db_rows = 0
      BY DEF HistInit, Init
  <2>2. Elements(<<>>) = {}
      BY DEF Elements
  <2>3. Settled \ Uncounted = {} /\ Cardinality({}) = 0
      BY <2>1, <2>2, FS_EmptySet DEF Settled
  <2>4. RowsOfBatch /\ LostApart
      BY <2>1, <2>2 DEF RowsOfBatch, LostApart
  <2> QED BY <2>1, <2>3, <2>4 DEF RowsAreCounted
<1>2. [HistNext]_histVars => [Next]_vars
    BY DEF HistNext, histVars
<1>3. /\ TypeOK /\ TypeOK' /\ BatchShape /\ Balance /\ Order /\ QuiescentWhenFreed
      /\ Ledger /\ [HistNext]_histVars
      => Ledger'
  <2> SUFFICES ASSUME TypeOK, TypeOK', BatchShape, Balance, Order, QuiescentWhenFreed, Ledger,
                      [HistNext]_histVars
               PROVE  Ledger'
      OBVIOUS
  <2>1. CASE HistNext
      BY <1>2, <2>1, RowsOfBatchStep, LostStep, RowsAreCountedStep
  <2>2. CASE UNCHANGED histVars
      BY <2>2, LedgerStutters
  <2> QED BY <2>1, <2>2
<1>4. TypeOK /\ Order /\ Balance /\ Ledger => EveryMessageAccounted
  <2> SUFFICES ASSUME TypeOK, Order, Balance, Ledger PROVE EveryMessageAccounted
      OBVIOUS
  <2>1. /\ rx_msgs = InHand + Len(queue) + Cardinality(Uncounted) + db_rows + dropped
        /\ Len(queue) \in Nat /\ Len(stored) \in Nat /\ dropped \in Nat /\ InHand \in Nat
      BY LedgerIsFinite DEF Balance, TypeOK, InHand
  <2>2. /\ IsFiniteSet(Settled) /\ IsFiniteSet(Uncounted) /\ Cardinality(lost) \in Nat
        /\ Cardinality(Settled) = Len(stored) + Cardinality(lost)
      BY LedgerIsFinite
  <2>3. /\ Cardinality(Settled \ Uncounted)
              = Cardinality(Settled) - Cardinality(Settled \cap Uncounted)
        /\ Cardinality(Uncounted \ Settled)
              = Cardinality(Uncounted) - Cardinality(Uncounted \cap Settled)
      BY <2>2, FS_Difference
  <2>4. /\ Settled \cap Uncounted = Uncounted \cap Settled
        /\ IsFiniteSet(Uncounted \cap Settled)
      BY <2>2, FS_Intersection
  <2>5. Cardinality(Uncounted) \in Nat /\ Cardinality(Uncounted \cap Settled) \in Nat
      BY <2>2, <2>4, FS_CardinalityType
  <2>6. db_rows = Cardinality(Settled) - Cardinality(Uncounted \cap Settled)
      BY <2>3, <2>4 DEF RowsAreCounted
  <2>7. Cardinality(Uncounted \ Settled)
            = Cardinality(Uncounted) - Cardinality(Uncounted \cap Settled)
      BY <2>3
  <2>8. rx_msgs = InHand + Len(queue) + Cardinality(Uncounted \ Settled)
                  + Len(stored) + Cardinality(lost) + dropped
      BY <2>1, <2>2, <2>5, <2>6, <2>7
  <2>9. /\ Cardinality(Elements(stored) \ Uncounted) <= db_rows
        /\ db_rows <= Cardinality(Settled \ Uncounted)
    <3>1. Elements(stored) \ Uncounted \subseteq Settled \ Uncounted
        BY DEF Settled
    <3>2. IsFiniteSet(Settled \ Uncounted)
        BY <2>2, FS_Difference
    <3>3. /\ Cardinality(Elements(stored) \ Uncounted) <= Cardinality(Settled \ Uncounted)
          /\ Cardinality(Settled \ Uncounted) \in Nat
        BY <3>1, <3>2, FS_Subset, FS_CardinalityType
    <3> QED BY <3>3 DEF RowsAreCounted
  <2> QED BY <2>8, <2>9 DEF LostApart, EveryMessageAccounted
<1> QED BY <1>1, <1>2, <1>3, <1>4, TypeCorrect, BalanceKept, OrderKept, NobodyLeftBehind, PTL
       DEF Spec, HistSpec
=============================================================================
