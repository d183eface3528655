--------------------------- MODULE GatewayPipeline ---------------------------
(***************************************************************************)
(* The heart of the telemetry gateway (src/app/telemetry_gateway.c): how a *)
(* telemetry snapshot travels from the MQTT callback through the queue to  *)
(* the database and to the WebSocket clients, and how                      *)
(* telemetry_gateway_stop() brings the four threads involved to rest.      *)
(*                                                                         *)
(*   network thread   on_message -> queue_push       (variable net)        *)
(*   writer thread    queue_pop_batch -> SQLite -> broadcast    (writer)   *)
(*   stats thread     the periodic GWSTAT line       (reporter)            *)
(*   main thread      telemetry_gateway_stop         (main)                *)
(*                                                                         *)
(* A snapshot is the number of its arrival: the k-th message that          *)
(* on_message counts is k.  One step is one critical section, one SQLite   *)
(* call or one iteration of a loop; only the writer keeps q_mu between two *)
(* steps, because the gap between its test of the predicate and its        *)
(* pthread_cond_wait is where a wakeup can be lost.                        *)
(*                                                                         *)
(* A definition marked (slip) is a bug this code could have had.  It is    *)
(* used nowhere: put in place of the definition below it, it breaks a      *)
(* property of the last section, which shows that the property can fail.   *)
(***************************************************************************)
EXTENDS Integers, Sequences

CONSTANTS
    BatchSize,      \* GW_BATCH after env_int; 1 also when calloc(batch) fails
    StatsEnabled,   \* GW_STATS
    Faults,         \* the failures the environment may inflict in this instance
    MaxMsgs         \* bound: messages that arrive in a behaviour

(***************************************************************************)
(* What may go wrong in a call the gateway makes:                          *)
(*   unpack       the payload is not a TelemetryState                      *)
(*   raw          no raw copy: malloc fails, or the payload is empty       *)
(*   node         calloc of the queue node fails                           *)
(*   begin        BEGIN IMMEDIATE fails (another process holds the lock)   *)
(*   insert       an INSERT fails and leaves the transaction open          *)
(*   autorollback an INSERT fails and SQLite ends the transaction itself   *)
(*   commit       COMMIT fails and the transaction is rolled back          *)
(*   stuck        COMMIT fails and the transaction stays open              *)
(*   json         telemetry_state_to_json_alloc fails                      *)
(***************************************************************************)
FaultKinds == {"unpack", "raw", "node", "begin", "insert", "autorollback",
               "commit", "stuck", "json"}

ASSUME BatchSizeAssumption == BatchSize \in 1..4096   \* env_int clamps it
ASSUME StatsAssumption     == StatsEnabled \in BOOLEAN
ASSUME FaultsAssumption    == Faults \subseteq FaultKinds
ASSUME MaxMsgsAssumption   == MaxMsgs \in Nat

VARIABLES
    running,      \* g->running, written by stop without a lock
    main,         \* progress of telemetry_gateway_stop
    net,          \* progress of the network thread in on_message
    rx_msgs,      \* g->rx_msgs; also the number of the message in hand
    q_mu,         \* "free" or "writer": who keeps the mutex between steps
    queue,        \* q_head .. q_tail
    writer,       \* progress of writer_thread
    batch,        \* buf[0 .. n-1]
    row,          \* i of the insert loop and of the broadcast loop, from 1
    ok,           \* ok of the insert loop
    txn,          \* SQLite: a transaction is open on the writer connection
    pending,      \* SQLite: the rows inserted in the open transaction
    stored,       \* SQLite: the committed rows, in commit order
    db_rows,      \* g->db_rows
    commit_count, \* g->commit_count
    live,         \* what was given to ws_server_broadcast, in order
    reporter,     \* progress of stats_thread
    snap,         \* the counters stats_thread last read
    last,         \* its last_rx_msgs, last_db_rows, last_commit_count
    heap,         \* the samples whose raw buffer is allocated
    freed,        \* history: the samples whose raw buffer was freed
    dropped       \* history: messages disposed of before a transaction or by stop

netVars    == <<net, rx_msgs>>
writerVars == <<writer, batch, row, ok>>
dbVars     == <<txn, pending, stored>>
countVars  == <<db_rows, commit_count>>
statsVars  == <<reporter, snap, last>>
rawVars    == <<heap, freed>>
vars == <<running, main, netVars, q_mu, queue, writerVars, dbVars, countVars,
          live, statsVars, rawVars, dropped>>

Elements(s) == {s[i] : i \in DOMAIN s}

Counters == [rx : Nat, db : Nat, commits : Nat]

\* (slip) the buffers are forgotten instead of freed
LeakRaw(S) == UNCHANGED rawVars

\* free(raw) for each sample of S that has one: a null pointer is not freed.
FreeRaw(S) ==
    LET owned == S \cap (heap \cup freed) IN
    /\ heap'  = heap \ owned
    /\ freed' = freed \cup owned

-----------------------------------------------------------------------------
\* telemetry_gateway_start has returned 0: every thread is about to run.
Init ==
    /\ running = TRUE /\ main = "run"
    /\ net = "idle" /\ rx_msgs = 0
    /\ q_mu = "free" /\ queue = <<>>
    /\ writer = "loop" /\ batch = <<>> /\ row = 1 /\ ok = TRUE
    /\ txn = FALSE /\ pending = <<>> /\ stored = <<>>
    /\ db_rows = 0 /\ commit_count = 0
    /\ live = <<>>
    /\ reporter = IF StatsEnabled THEN "sleep" ELSE "done"
    /\ snap = [rx |-> 0, db |-> 0, commits |-> 0] /\ last = snap
    /\ heap = {} /\ freed = {} /\ dropped = 0

-----------------------------------------------------------------------------
(* The network thread: on_message and queue_push.                          *)

\* on_message: the test of running, then rx_msgs++ under stats_mu.
OnMessage ==
    /\ net = "idle" /\ running /\ rx_msgs < MaxMsgs
    /\ rx_msgs' = rx_msgs + 1
    /\ net' = "unpack"
    /\ UNCHANGED <<running, main, q_mu, queue, writerVars, dbVars, countVars,
                   live, statsVars, rawVars, dropped>>

\* The payload does not decode: on_message returns, the message stays counted.
UnpackFails ==
    /\ net = "unpack" /\ "unpack" \in Faults
    /\ net' = "idle"
    /\ dropped' = dropped + 1
    /\ UNCHANGED <<running, main, rx_msgs, q_mu, queue, writerVars, dbVars,
                   countVars, live, statsVars, rawVars>>

\* The sample is filled in and its raw payload copied, if memory allows.
BuildSample ==
    /\ net = "unpack"
    /\ net' = "push"
    /\ \/ heap' = heap \cup {rx_msgs}
       \/ "raw" \in Faults /\ heap' = heap
    /\ UNCHANGED <<running, main, rx_msgs, q_mu, queue, writerVars, dbVars,
                   countVars, live, statsVars, freed, dropped>>

\* (slip) the sample is linked in front of q_head
LinkedAtHead == <<rx_msgs>> \o queue

\* The list with the sample in hand behind q_tail.
LinkedAtTail == Append(queue, rx_msgs)

\* (slip) the condition variable is not signalled
WakeNobody == writer' = writer

\* pthread_cond_signal and pthread_cond_broadcast: the writer is the only waiter.
WakeWriter == writer' = IF writer = "wait" THEN "woken" ELSE writer

\* queue_push: append at the tail and signal, in one critical section.
QueuePush ==
    /\ net = "push" /\ q_mu = "free"
    /\ queue' = LinkedAtTail
    /\ WakeWriter
    /\ net' = "idle"
    /\ UNCHANGED <<running, main, rx_msgs, q_mu, batch, row, ok, dbVars,
                   countVars, live, statsVars, rawVars, dropped>>

\* queue_push without memory for the node: the raw buffer is freed.
QueuePushFails ==
    /\ net = "push" /\ "node" \in Faults
    /\ FreeRaw({rx_msgs})
    /\ dropped' = dropped + 1
    /\ net' = "idle"
    /\ UNCHANGED <<running, main, rx_msgs, q_mu, queue, writerVars, dbVars,
                   countVars, live, statsVars>>

-----------------------------------------------------------------------------
(* The writer thread: queue_pop_batch.                                     *)

\* while(g->running): read without the mutex.
WriterLoop ==
    /\ writer = "loop"
    /\ writer' = IF running THEN "lock" ELSE "done"
    /\ UNCHANGED <<running, main, netVars, q_mu, queue, batch, row, ok, dbVars,
                   countVars, live, statsVars, rawVars, dropped>>

\* pthread_mutex_lock, at the entry or when pthread_cond_wait returns.
WriterLock ==
    /\ writer \in {"lock", "woken"} /\ q_mu = "free"
    /\ q_mu' = "writer"
    /\ writer' = "test"
    /\ UNCHANGED <<running, main, netVars, queue, batch, row, ok, dbVars,
                   countVars, live, statsVars, rawVars, dropped>>

\* (slip) the predicate of the wait forgets running
WaitWhileEmpty ==
    /\ writer = "test" /\ queue = <<>>
    /\ writer' = "park"
    /\ UNCHANGED <<running, main, netVars, q_mu, queue, batch, row, ok, dbVars,
                   countVars, live, statsVars, rawVars, dropped>>

\* running && q_head == NULL: the writer is going to wait, still holding q_mu.
WriterFindsNothing ==
    /\ writer = "test" /\ running /\ queue = <<>>
    /\ writer' = "park"
    /\ UNCHANGED <<running, main, netVars, q_mu, queue, batch, row, ok, dbVars,
                   countVars, live, statsVars, rawVars, dropped>>

\* pthread_cond_wait gives the mutex back and joins the waiters, atomically.
WriterWait ==
    /\ writer = "park"
    /\ q_mu' = "free"
    /\ writer' = "wait"
    /\ UNCHANGED <<running, main, netVars, queue, batch, row, ok, dbVars,
                   countVars, live, statsVars, rawVars, dropped>>

\* A spurious wakeup, which pthread_cond_wait allows.
SpuriousWakeup ==
    /\ writer = "wait"
    /\ writer' = "woken"
    /\ UNCHANGED <<running, main, netVars, q_mu, queue, batch, row, ok, dbVars,
                   countVars, live, statsVars, rawVars, dropped>>

\* (slip) the whole queue goes into the buffer
WholeQueue == Len(queue)

\* while(q_head && n < max)
PopCount == IF Len(queue) < BatchSize THEN Len(queue) ELSE BatchSize

\* Take up to BatchSize samples from the head and unlock.  With running false
\* the batch may be empty, and the loop condition ends the thread.
PopBatch ==
    /\ writer = "test" /\ ~(running /\ queue = <<>>)
    /\ batch' = SubSeq(queue, 1, PopCount)
    /\ queue' = SubSeq(queue, PopCount + 1, Len(queue))
    /\ writer' = IF queue = <<>> THEN "loop" ELSE "begin"
    /\ q_mu' = "free"
    /\ UNCHANGED <<running, main, netVars, row, ok, dbVars, countVars, live,
                   statsVars, rawVars, dropped>>

-----------------------------------------------------------------------------
(* The writer thread: one transaction per batch.                           *)

\* (slip) the result of BEGIN is not looked at
BeginUnchecked ==
    /\ writer = "begin" /\ (txn \/ "begin" \in Faults)
    /\ row' = 1 /\ ok' = TRUE
    /\ writer' = "insert"
    /\ UNCHANGED <<running, main, netVars, q_mu, queue, batch, dbVars,
                   countVars, live, statsVars, rawVars, dropped>>

\* BEGIN IMMEDIATE fails, always so inside an open transaction: the batch goes.
BeginFails ==
    /\ writer = "begin" /\ (txn \/ "begin" \in Faults)
    /\ FreeRaw(Elements(batch))
    /\ dropped' = dropped + Len(batch)
    /\ batch' = <<>>
    /\ writer' = "loop"
    /\ UNCHANGED <<running, main, netVars, q_mu, queue, row, ok, dbVars,
                   countVars, live, statsVars>>

Begin ==
    /\ writer = "begin" /\ ~txn
    /\ txn' = TRUE /\ pending' = <<>>
    /\ row' = 1 /\ ok' = TRUE
    /\ writer' = "insert"
    /\ UNCHANGED <<running, main, netVars, q_mu, queue, batch, stored,
                   countVars, live, statsVars, rawVars, dropped>>

\* (slip) the loop stops at i < n - 1
LoopEndsEarly ==
    /\ row' = row + 1
    /\ writer' = IF row >= Len(batch) - 1 THEN "end" ELSE "insert"

\* The insert loop goes through the whole batch, whatever has failed.
NextRow ==
    /\ row' = row + 1
    /\ writer' = IF row = Len(batch) THEN "end" ELSE "insert"

\* db_writer_insert_state succeeds; outside a transaction the row commits at once.
Insert ==
    /\ writer = "insert"
    /\ IF txn THEN /\ pending' = Append(pending, batch[row])
                   /\ UNCHANGED stored
              ELSE /\ stored' = Append(stored, batch[row])
                   /\ UNCHANGED pending
    /\ NextRow
    /\ UNCHANGED <<running, main, netVars, q_mu, queue, batch, ok, txn,
                   countVars, live, statsVars, rawVars, dropped>>

\* The step of the INSERT fails and nothing else happens.
InsertFails ==
    /\ writer = "insert" /\ "insert" \in Faults
    /\ ok' = FALSE
    /\ NextRow
    /\ UNCHANGED <<running, main, netVars, q_mu, queue, batch, dbVars,
                   countVars, live, statsVars, rawVars, dropped>>

\* The INSERT fails (disk full, I/O error, memory) and SQLite rolls back.
InsertAborts ==
    /\ writer = "insert" /\ txn /\ "autorollback" \in Faults
    /\ txn' = FALSE /\ pending' = <<>>
    /\ ok' = FALSE
    /\ NextRow
    /\ UNCHANGED <<running, main, netVars, q_mu, queue, batch, stored,
                   countVars, live, statsVars, rawVars, dropped>>

\* (slip) ok does not decide between COMMIT and ROLLBACK
CommitAnyway ==
    /\ writer = "end"
    /\ stored' = stored \o pending
    /\ txn' = FALSE /\ pending' = <<>>
    /\ writer' = "count"
    /\ UNCHANGED <<running, main, netVars, q_mu, queue, batch, row, ok,
                   countVars, live, statsVars, rawVars, dropped>>

Commit ==
    /\ writer = "end" /\ ok
    /\ stored' = stored \o pending
    /\ txn' = FALSE /\ pending' = <<>>
    /\ writer' = "count"
    /\ UNCHANGED <<running, main, netVars, q_mu, queue, batch, row, ok,
                   countVars, live, statsVars, rawVars, dropped>>

\* COMMIT fails; its result is not looked at.
CommitFails ==
    /\ writer = "end" /\ ok
    /\ \/ "commit" \in Faults /\ txn' = FALSE /\ pending' = <<>>
       \/ "stuck" \in Faults /\ UNCHANGED <<txn, pending>>
    /\ writer' = "count"
    /\ UNCHANGED <<running, main, netVars, q_mu, queue, batch, row, ok, stored,
                   countVars, live, statsVars, rawVars, dropped>>

\* ROLLBACK; when SQLite has ended the transaction it fails, with no effect.
Rollback ==
    /\ writer = "end" /\ ~ok
    /\ txn' = FALSE /\ pending' = <<>>
    /\ writer' = "count"
    /\ UNCHANGED <<running, main, netVars, q_mu, queue, batch, row, ok, stored,
                   countVars, live, statsVars, rawVars, dropped>>

\* (slip) every batch is taken to be full
RowsOfFullBatch == BatchSize

\* db_rows += n
RowsCounted == Len(batch)

\* The statistics of the batch, the same after COMMIT and after ROLLBACK.
CountBatch ==
    /\ writer = "count"
    /\ db_rows' = db_rows + RowsCounted
    /\ commit_count' = commit_count + 1
    /\ row' = 1
    /\ writer' = "send"
    /\ UNCHANGED <<running, main, netVars, q_mu, queue, batch, ok, dbVars, live,
                   statsVars, rawVars, dropped>>

\* One iteration of the broadcast loop: JSON, broadcast, free the raw buffer.
Broadcast ==
    /\ writer = "send"
    /\ \/ live' = Append(live, batch[row])
       \/ "json" \in Faults /\ live' = live
    /\ FreeRaw({batch[row]})
    /\ IF row = Len(batch)
        THEN writer' = "loop" /\ row' = 1 /\ batch' = <<>>
        ELSE writer' = "send" /\ row' = row + 1 /\ batch' = batch
    /\ UNCHANGED <<running, main, netVars, q_mu, queue, ok, dbVars, countVars,
                   statsVars, dropped>>

-----------------------------------------------------------------------------
(* The stats thread.                                                       *)

\* usleep returns; if still running the counters are read under stats_mu.
ReadCounters ==
    /\ reporter = "sleep"
    /\ IF running
        THEN /\ snap' = [rx |-> rx_msgs, db |-> db_rows, commits |-> commit_count]
             /\ reporter' = "queue"
        ELSE /\ reporter' = "done"
             /\ UNCHANGED snap
    /\ UNCHANGED <<running, main, netVars, q_mu, queue, writerVars, dbVars,
                   countVars, live, last, rawVars, dropped>>

\* q_len is read under q_mu, the line printed and the counters remembered.
Report ==
    /\ reporter = "queue" /\ q_mu = "free"
    /\ last' = snap
    /\ reporter' = IF running THEN "sleep" ELSE "done"
    /\ UNCHANGED <<running, main, netVars, q_mu, queue, writerVars, dbVars,
                   countVars, live, snap, rawVars, dropped>>

-----------------------------------------------------------------------------
(* The main thread: telemetry_gateway_stop.                                *)

\* running = 0, without the mutex.
StopFlag ==
    /\ main = "run"
    /\ running' = FALSE
    /\ main' = "wake"
    /\ UNCHANGED <<netVars, q_mu, queue, writerVars, dbVars, countVars, live,
                   statsVars, rawVars, dropped>>

\* pthread_cond_broadcast under the mutex.
StopWake ==
    /\ main = "wake" /\ q_mu = "free"
    /\ WakeWriter
    /\ main' = "join_writer"
    /\ UNCHANGED <<running, netVars, q_mu, queue, batch, row, ok, dbVars,
                   countVars, live, statsVars, rawVars, dropped>>

StopJoinWriter ==
    /\ main = "join_writer" /\ writer = "done"
    /\ main' = "join_stats"
    /\ UNCHANGED <<running, netVars, q_mu, queue, writerVars, dbVars, countVars,
                   live, statsVars, rawVars, dropped>>

\* (slip) stop does not wait for the stats thread
SkipJoinStats ==
    /\ main = "join_stats"
    /\ main' = "close_mqtt"
    /\ UNCHANGED <<running, netVars, q_mu, queue, writerVars, dbVars, countVars,
                   live, statsVars, rawVars, dropped>>

StopJoinStats ==
    /\ main = "join_stats" /\ reporter = "done"
    /\ main' = "close_mqtt"
    /\ UNCHANGED <<running, netVars, q_mu, queue, writerVars, dbVars, countVars,
                   live, statsVars, rawVars, dropped>>

\* mqtt_client_close joins the network thread: a callback under way ends first.
StopCloseMqtt ==
    /\ main = "close_mqtt" /\ net = "idle"
    /\ net' = "closed"
    /\ main' = "free"
    /\ UNCHANGED <<running, rx_msgs, q_mu, queue, writerVars, dbVars, countVars,
                   live, statsVars, rawVars, dropped>>

\* The connections are closed (an open transaction is rolled back), the mutexes
\* destroyed and the samples nobody popped are freed.
StopFree ==
    /\ main = "free"
    /\ txn' = FALSE /\ pending' = <<>>
    /\ FreeRaw(Elements(queue))
    /\ dropped' = dropped + Len(queue)
    /\ queue' = <<>>
    /\ main' = "done"
    /\ UNCHANGED <<running, netVars, q_mu, writerVars, stored, countVars, live,
                   statsVars>>

\* The process has nothing left to do.
Stopped == main = "done" /\ UNCHANGED vars

-----------------------------------------------------------------------------
Network  == OnMessage \/ UnpackFails \/ BuildSample \/ QueuePush \/ QueuePushFails
Pop      == WriterLoop \/ WriterLock \/ WriterFindsNothing \/ WriterWait \/ PopBatch
Persist  == \/ Begin \/ BeginFails \/ Insert \/ InsertFails \/ InsertAborts
            \/ Commit \/ CommitFails \/ Rollback
Writer   == Pop \/ Persist \/ CountBatch \/ Broadcast
Reporter == ReadCounters \/ Report
Stop     == StopWake \/ StopJoinWriter \/ StopJoinStats \/ StopCloseMqtt \/ StopFree

Next == Network \/ Writer \/ SpuriousWakeup \/ Reporter \/ StopFlag \/ Stop \/ Stopped

Spec == Init /\ [][Next]_vars

\* The scheduler runs every thread that can run.  Nothing makes a message
\* arrive, an operator stop the gateway or a wait end spuriously.
Fairness ==
    /\ WF_vars(BuildSample \/ QueuePush)
    /\ WF_vars(Writer)
    /\ WF_vars(Reporter)
    /\ WF_vars(Stop)

FairSpec == Spec /\ Fairness

-----------------------------------------------------------------------------
(* What the pipeline promises.                                             *)

\* Every variable keeps its type, and a batch fits the buffer it is popped into.
TypeOK ==
    /\ running \in BOOLEAN
    /\ main \in {"run", "wake", "join_writer", "join_stats", "close_mqtt",
                 "free", "done"}
    /\ net \in {"idle", "unpack", "push", "closed"}
    /\ rx_msgs \in 0..MaxMsgs
    /\ q_mu \in {"free", "writer"}
    /\ writer \in {"loop", "lock", "test", "park", "wait", "woken", "begin",
                   "insert", "end", "count", "send", "done"}
    /\ queue \in Seq(Nat)
    /\ batch \in Seq(Nat) /\ Len(batch) <= BatchSize
    /\ row \in Nat \ {0} /\ ok \in BOOLEAN
    /\ txn \in BOOLEAN /\ pending \in Seq(Nat) /\ stored \in Seq(Nat)
    /\ db_rows \in Nat /\ commit_count \in Nat /\ dropped \in Nat
    /\ live \in Seq(Nat)
    /\ reporter \in {"sleep", "queue", "done"}
    /\ snap \in Counters /\ last \in Counters
    /\ heap \subseteq Nat /\ freed \subseteq Nat

\* The writer sleeps only while there is nothing to pop and stop has not done
\* its broadcast: neither a push nor stop can leave it asleep, although stop
\* clears running without the mutex (telemetry_gateway.c 161-163, 476-480).
NoLostWakeup ==
    writer = "wait" => queue = <<>> /\ main \in {"run", "wake"}

\* The message on_message is busy with.
InHand == IF net \in {"unpack", "push"} THEN 1 ELSE 0

\* The samples whose raw pointer some thread still holds.
Unsent == IF writer = "send" THEN {batch[i] : i \in row..Len(batch)}
                             ELSE Elements(batch)

Owned == Unsent \cup Elements(queue) \cup (IF net = "push" THEN {rx_msgs} ELSE {})

\* A raw buffer has an owner until it is freed (no leak, also when stop is
\* over), and no thread can reach a buffer that was freed (no double free).
RawBuffersOwned == heap \subseteq Owned /\ freed \cap (heap \cup Owned) = {}

\* The transaction of a COMMIT that failed is open and the writer is past it.
Wedged == txn /\ writer \notin {"insert", "end"}

\* After a COMMIT that leaves the transaction open nothing is stored any more:
\* each later BEGIN fails, and only closing the connection ends it.
WedgedForGood ==
    [][Wedged => stored' = stored /\ (Wedged' \/ main' = "done")]_vars

\* docs/websocket_api.md: frames are broadcast "after a snapshot has been
\* persisted".  Every sample sent to the clients is in the database.
LiveIsPersisted == Elements(live) \subseteq Elements(stored)

\* When stop closes the writer's connection, destroys q_mu and stats_mu and frees
\* the queue, the writer, the stats thread and the network thread, which use
\* these, have ended.  The server's client threads use none of them; they are
\* detached and may outlive stop, with the history reader in use: WsServer and
\* GatewayLifecycle.
QuiescentWhenFreed ==
    main \in {"free", "done"} =>
        writer = "done" /\ reporter = "done" /\ net = "closed" /\ q_mu = "free"

\* stats_thread subtracts counters that have only grown, so that its unsigned
\* differences do not wrap, and in the counters it has read the rows never run
\* ahead of the messages, nor the commits ahead of the rows, although the writer
\* and on_message advance them meanwhile.
ReportsAreSane ==
    /\ last.rx <= snap.rx /\ last.db <= snap.db /\ last.commits <= snap.commits
    /\ snap.commits <= snap.db /\ snap.db <= snap.rx /\ snap.rx <= rx_msgs

\* telemetry_gateway_stop returns: every join it makes ends.
StopReturns == main = "wake" ~> main = "done"
=============================================================================
