# Verification of the telemetry testbed

TLA+ models of the telemetry gateway and its neighbours, TLC configurations
that check them on small instances, and TLAPS proofs for every value of the
constants. Paths are relative to the repository; `telemetry_gateway.c` is
`src/app/telemetry_gateway.c`, `ws_server.c` is `src/infra/websocket/ws_server.c`,
`db_sqlite.c` is `src/infra/persistence/db_sqlite.c`.

    tlc -workers 2 -config PipelineFaults.cfg PipelineHistory.tla
    tlapm GatewayPipelineProofs.tla

`PROJECT.json` lists every run, the lines each definition stands for, the
hazards of the code with the properties that cover them, and the theorems.

## 1. Inventory

The robot simulator publishes protobuf snapshots over MQTT; the gateway
subscribes to them, stores them in SQLite in batches and sends each as JSON to
the WebSocket clients, which can also ask for the last N rows.

| component | state | operations | neighbours | hard |
|---|---|---|---|---|
| gateway pipeline (`telemetry_gateway.c`) | `running`, the queue under `q_mu`/`q_cv`, counters under `stats_mu`, raw payload buffers | `on_message`, `queue_push`, `queue_pop_batch`, `writer_thread`, `stats_thread`, `telemetry_gateway_stop` | callback from mosquitto; calls SQLite and the WebSocket server | lost wakeups, stop racing everything, SQLite failing at any call, buffer ownership |
| gateway life (`telemetry_gateway_main.c`, `telemetry_gateway_start`, `on_connect`, `mqtt_client.c`) | which parts exist, the link to the broker | start with five failure exits that call stop, subscription, close | all parts, broker | half-built gateway; callbacks set after the network loop runs; reconnection |
| SQLite writer (`db_sqlite.c`) | connection, prepared INSERT, transaction | open, begin, insert, commit, rollback, close | writer thread | transaction left open, automatic rollback |
| schema migration (`db_sqlite.c` 66-260) | `user_version`, columns, journal mode in the file | `db_ensure_schema`, `db_migrate_v2`, `ensure_column` | other gateways on the file | crash or second process between two statements |
| history reader (`db_sqlite.c` 331-492) | read-only connection | last N rows as JSON | client threads | clamping, order, a query that ends early |
| WebSocket server (`ws_server.c`) | client list under `mu`, descriptors, one thread per client | accept, handshake, frames, broadcast, stop | writer thread, reader | freeing clients in use, descriptors reused, octets in any pieces, two writers of one connection, shutdown |
| simulator (`src/sim`, `robot_main.c`) | the cache under `mu`, tick times, motor counts | four sensor threads write it, one publisher reads it | MQTT | torn copies, partial start, late ticks, fractions of a tick |
| dashboard (`ui/app.js`) | socket, samples, panel, pause | connect, disconnect, history, pause, clear | WebSocket server | late callbacks, history against live |
| `state_dump` | the link to the broker | subscribe once, print | broker | reconnection |
| option parsing, scripts, analysis | - | batch programs | - | no concurrent state of their own |

## 2. Modules

| module | what it is |
|---|---|
| `GatewayPipeline` | the four threads of the gateway around the queue, with SQLite's transaction and every call free to fail |
| `SampleLog` | what the pipeline promises: an abstract log of samples received, stored and live |
| `PipelineRefinesLog` | the pipeline implements `SampleLog` |
| `PipelineHistory` | the pipeline with a memory of the batches whose transaction failed and of the rows lost with it |
| `GatewayPipelineProofs` | proofs about the pipeline: types, wakeups, accounting, reports; then order, refinement, ownership, batches |
| `GatewayLifecycle`, `GatewayLifecycleProofs` | `main`, start and stop of the gateway, its link to the broker, and `state_dump` |
| `SchemaMigration`, `MCSchemaMigration`, `SchemaMigrationProofs` | opening the database: one step per SQL statement, several processes, crashes |
| `WsServer`, `WsServerProofs` | the clients, threads and descriptors of the WebSocket server, its broadcast and its stop |
| `WsHandshake`, `Sha1`, `WsHandshakeProofs` | what the handshake computes: header lookup, SHA-1, base64, each beside the standard's definition |
| `WsFrames`, `MCWsFrames`, `WsFramesProofs` | the octets of one connection: request, handshake, frames in, frames out by two threads |
| `RobotSim` | the simulator: sensors and publisher around the cache, partial start, shutdown |
| `RobotClock`, `MCRobotSim` | `RobotSim` with `CLOCK_MONOTONIC`, the times of the ticks and the counts of the motors |
| `RobotProofs` | proofs about both |
| `Replay` | the server's half of a dashboard's connection: rows committed and broadcast, history asked for and answered |
| `Dashboard`, `DashboardProofs` | the page at the other end, on top of `Replay` |

`PipelineHistory` extends `PipelineRefinesLog`, which extends `GatewayPipeline`;
`RobotClock` extends `RobotSim`, `Dashboard` extends `Replay`, `WsFrames` extends
`WsHandshake`. Each upper module conjoins the actions of the lower one with what
its own variables do.

### GatewayPipeline

A message is the number of its arrival. One step is one critical section, one
SQLite call or one iteration of a loop: `on_message` is `OnMessage` (count under
`stats_mu`), then `UnpackFails` or `BuildSample`, then `QueuePush` or
`QueuePushFails`. `queue_pop_batch` is split (`WriterLock`, `WriterFindsNothing`,
`WriterWait`, `PopBatch`), because between the test of the predicate and
`pthread_cond_wait` the mutex is held but `running`, which stop writes without
it, can change. The transaction of a batch is `Begin`/`BeginFails`,
`Insert`/`InsertFails`/`InsertAborts` per row, `Commit`/`CommitFails`/`Rollback`;
then `CountBatch` and one `Broadcast` per sample. `telemetry_gateway_stop` is
`StopFlag`, `StopWake`, `StopJoinWriter`, `StopJoinStats`, `StopCloseMqtt`,
`StopFree`.

Decisions that are not in the code's text:

- The accesses to the `volatile int running` race; they are modelled as atomic
  reads and writes at each place the code makes them, which is what the
  compilers the Makefile names produce for an `int`.
- SQLite is external. `begin` fails on a lock or inside an open transaction;
  an `INSERT` fails alone or (disk full, I/O error, memory) with the automatic
  rollback SQLite documents; a `COMMIT` fails and the transaction stays open
  (busy) or is gone; a `ROLLBACK` without a transaction does nothing; an
  `INSERT` without a transaction commits by itself.
- `mqtt_client_close` forces the loop's thread to stop by cancellation, which
  takes effect at a cancellation point of that thread. It is modelled as ending
  a callback under way first; a cancellation inside a callback is not modelled.
- `ws_server_broadcast` is one step that appends to `live`; the server itself
  is another component.
- `malloc` failing for the sample's raw copy only loses the raw payload;
  failing for the queue node drops the message (`node`).

`Faults` says which failures an instance may inflict, `BatchSize` is `GW_BATCH`,
`StatsEnabled` is `GW_STATS`, `MaxMsgs` bounds the messages of a behaviour (the
only bound; the queue, the batches and the counters are bounded through it).

### SchemaMigration

A process opens the file, sets `journal_mode`, reads `user_version`, and for a
version below 2 executes the statements of `db_migrate_v2` one by one, each
autocommitted: pragmas, `CREATE TABLE`, indexes, a check and an `ALTER TABLE`
per motor column, the version stamp; then it prepares its `INSERT`. `Crash`
kills a process between two statements (the file stays), `Locked` and
`ReadMayFail` are SQL errors. Files start new, of version 1, of version 2
or of a later version.

### WsServer

Who keeps, closes and frees a client. `accept_thread` is `AcceptTop`,
`AcceptConn`, `AcceptFails`, `AcceptInsert`, `Spawn`, `Detach` and, without a
thread, `SpawnFails` and `SpawnUndone`; `client_thread` is `Begin` (its reads of
`c->srv` and `c->fd`), `Handshake`, the loop (`Loop`, `RecvFrame`, `Answer`,
`RecvFails`) and the four steps of its end (`Leave`, `CloseOwn`, `Remove`,
`FreeOwn`), which are not one critical section in the code either.
`ws_server_broadcast` walks over the list one client per step and drops the
ones it cannot send to. `ws_server_stop` is `StopFlag` and the steps of `Stop`.

- A descriptor is a number of the kernel's, handed out again, lowest first, once
  it is closed: `sock` says which connection it denotes, `fd[c]` what the
  program believes. `close` and `send` act on whatever the number denotes.
- A step that uses a freed client or server is undefined behaviour. The model
  sets `misused` and says nothing of what follows; every property is about the
  behaviour until there. `Usable` says what a client thread dereferences at each
  place, `Misuse`, `AccepterMisuse` and `StopMisuse` are the steps that do so too
  late, and `MisuseHasCause` says which three causes there are.
- `pthread_create` and `pthread_detach(c->th)` are two steps: the new thread may
  fail its handshake and free `c` before `accept_thread` reads `c->th` (line 581).
- The mutex is held exactly while `caster` is not idle; the other critical
  sections are single steps that need `caster = "idle"`.
- A blocked `accept` keeps the listening socket after its descriptor is closed,
  so a connection can still be accepted after stop has begun; it returns after
  the 60 s timeout.
- What is on a connection, octet by octet, is left to `WsFrames`.

### PipelineHistory

`failed` collects the samples of the batches whose `BEGIN` failed, that were
rolled back or whose `COMMIT` failed; `lost` those of them that a transaction was
begun for and that have no row. The step of the pipeline is unchanged; `HistSpec`
has the pipeline's fairness. With `lost`, `EveryMessageAccounted` can say of every
message where it is, those included whose transaction failed.

### GatewayLifecycle

`main` of the gateway is its next call. `LibInit`, `Calloc`, `Build` and
`MqttConnect` make parts, `CallFails` is the early exits of
`telemetry_gateway_start` (the stats thread is the one part it does without),
`Register` sets the callbacks, `Subscribe` is the unchecked call at the end.
`telemetry_gateway_stop` is `StopFlag`, `Join`, `MqttClose` and `Dispose`, each
of which looks at what exists.

- The network loop's thread runs from `MqttConnect` on: a CONNACK may be handled
  before `on_connect` is registered. What was asked for on a connection is lost
  with it, because the session is clean; the loop connects again.
- The client threads of the server are detached and nobody joins them.
  `ClientStep` is a history request coming in or being answered, `Uses` what the
  thread needs for its next step (the server with the thread's own record, and the
  reader within a request). `ws_server_stop` frees the server whatever they are
  doing; a thread that goes on after it takes `main` to `undefined`
  (`ClientMisuses`), where the behaviour ends.
- `state_dump` uses the same link with one subscription before its loop. It is
  in the module as a second program, chosen at the start.
- The pipeline's own handling of a sample is left to `GatewayPipeline`.

### WsHandshake and WsFrames

Octets are numbers, a word of 32 bits is two halves of 16. `Sha1Update` and
`Sha1Final` keep the buffer and the index of the code and are held against
`StandardDigest`, which pads and cuts the whole message; `Base64Encode` against
`StandardBase64`, `FindHeaderValue` against the key the request was made with.
The compression of one block is a constant, `Compress`: the algorithms around it
do not depend on what it computes, and the proofs hold for any. The run gives it
the value it has in the code, `Sha1Transform` of module `Sha1`, whose bit
operations no prover has to see.

`WsFrames` is one connection. `Recv` moves any part of what has arrived, and
each piece of a frame (`ReadHeader`, `ReadLength`, `ReadMask`, `ReadPayload`) is
what `ws_recv_frame` asks `recv_all` for. A frame that is sent is a list of
calls of `send_all`, and `Send(w)` is one `send` of writer `w`, the client's own
thread or the caster.

- Lengths have small digits: up to `Small`, two digits to `Base`, three digits,
  for 125, 16 and 64 bits. The same comparisons and loops build and read them.
- The request is a record of header lines and a number of octets: the parsing of
  the line breaks is not modelled; where the end of the request falls is.
- `heard`, `log`, `raced` and `torn` are histories: the frames read, the frames
  begun, whether a send fell between two sends of another frame, or came before
  the response, or after a frame that was given up; and whether one was given up
  in its middle while the connection stayed.
- A client sends frames once it has the response (RFC 6455, 4.1): what came
  behind the request in the same `recv` would be dropped by `read_http_request`,
  and nothing does. `ExchangesAssumption` says what a request is: it ends at its
  blank line, and a frame's length fits the digits there are for it.

### RobotSim and RobotClock

`main` starts the sensors and the publisher one after the other; a start that
fails ends the others. A sensor's part of the cache is a stamp in two halves
written in two steps under the mutex (`SetFirst`, `SetSecond`), the copy of the
publisher is made in two steps (`CopyFirst`, `CopySecond`). In `RobotSim` a tick
is `Wake`, which may come at any time.

`RobotClock` adds `now` and the `timespec` each thread sleeps for. `Advance` is
the addition with its carry, `TimedWake` a sleep that ends in time, `Interrupted`
one that a signal ends. Time may pass between any two steps, so a thread can be
late by any amount. A motor's movement per pass is a number of parts of a tick;
`CountTicks` takes the whole ticks out of `tick_frac`, and the count wraps at
`CountSize`. Parts are exact where the code has doubles: rounding is not
modelled.

### Replay and Dashboard

Rows are numbered in the order of insertion and carry their reception time.
`Commit` and `Broadcast` are the writer's, `Receive`, `Query`, `QueryFails` and
`SendHistory` one client thread's. `wire` is the connection, a sequence of
frames. The times need not grow (`clock`), a query may fail (`query`) or end
early (`step`); the history `cut` remembers that the answer in hand ended early.

`Dashboard` is one callback or click of `app.js` per step: `Connect`,
`Disconnect`, `OnOpen`, `OnClose`, `OldOnClose` (the close event of a socket the
page has already replaced), `OnStatus`, `OnTelemetry`, `OnHistory`,
`RequestHistory`, `TogglePause`, `ClearAll`.

- The server puts a client into its list a little before `onopen`; membership
  begins at `onopen` here, since nothing sent before can reach a callback.
- A history text with a piece missing (`sb_append` is not checked) is one the
  page cannot parse: it counts as no answer (`QueryFails`).
- `seq` is data: its width is not kept.

## 3. Runs

| run | instance | shows |
|---|---|---|
| `pipeline_faults` | `HistSpec`, all nine faults, batch 2, 4 messages, stats off | types, no lost wakeup, accounting of every message, buffer ownership, what a stuck COMMIT does for good, refinement of `SampleLog` |
| `pipeline_threads` | `HistSpec`, database faults but the automatic rollback, stats on, 3 messages, fairness | batches are settled as a whole, writer, stats and network thread have ended when memory is freed, counters never wrap, every queued sample is delivered unless its own transaction fails, stop returns |
| `pipeline_live_unpersisted` | one failing INSERT | a violation: rolled back samples are broadcast |
| `gateway_lifecycle` | two clients, any call may fail, refused and lost connections, failing SUBSCRIBE, fairness | joined threads and callbacks find their parts, detached clients as long as their server exists and no longer, stop disposes of what start made, a stable link is subscribed |
| `migration` | two processes, two crashes, lock errors, misread version, every starting file, fairness | the stamp means a complete table, an open writer has its schema and WAL, crashes are repaired at the next start, later versions untouched, migration ends |
| `migration_untuned` | a file at version 2 | a violation: connection pragmas are skipped |
| `ws_clients` | two connections, two descriptors, two broadcasts, all five faults, fairness | the list is live, nothing is leaked, freed memory is used in three ways only, stop and broadcast end |
| `ws_cut_off` | no faults | a violation: a descriptor is closed twice, the second time another client's |
| `ws_frames` | 19 exchanges (7 requests, 12 first frames), one broadcast, one cut call, all five faults, fairness | the server reads what was sent however it is cut, the accept key is the standard's, only a race of the writers spoils the stream, a history request is answered |
| `ws_mixed_frames` | one exchange, no failing call | a violation: a broadcast before the 101 response |
| `sim_clock` | two sensors, one a motor, periods 2 and 1, all three faults, fairness | snapshots are one state of the cache and `seq` names it, the cache outlives its threads, ticks keep their times, counts are exact, the simulator ends |
| `replay_stream` | three rows, batches of two, limit 2, default 1, one sample kept, all three faults | an answer holds the latest rows, history and stream leave no hole, buttons and label are right but for the close events of old sockets, a panel set by a live sample shows the newest |

Bounds.

- Pipeline: three messages with a batch of two give full, partial and empty
  batches, a batch behind one that failed or left its transaction open, and a
  push during every step of the writer; with four, a full batch follows a full
  one and `db_rows` can count one that has rows and one that has none. Order, ownership, accounting and the
  refinement are proved for every number of messages, so the run only has to
  find slips.
- Migration: two processes are enough for each check of a column to be overtaken
  by the other's `ALTER`; two columns stand for the twelve, the first and the
  last iteration of the loop over `cols[]`. Two crashes kill a gateway and the
  one that repairs.
- `WsServer`: two connections and two broadcasts let one client be dropped while
  the other inherits its descriptor, is in the middle of its handshake or leaves;
  a third client adds a position in the list, not a kind of step.
- `WsFrames`: lengths 0, 1, 2, 15, 16 and 18 stand on both sides of every
  boundary (`Small` = 1, `Base`^2 = 16, `MaxPayload` = 17); `MaxCuts` = 1 cuts any
  one call of `recv` or `send` anywhere. A second broadcast finds the connection
  as the first did.
- `RobotClock`: with a second of two units and periods of one and two the carry
  falls on every and on every other tick; a count of two ticks of two parts wraps
  after two passes. The simulator may be told to stop at any time up to `Horizon`.
- `Dashboard`: three rows against a limit of two give answers that leave rows out
  and batches read half broadcast. One frame on the wire is enough: an answer
  waits in `send` while broadcasts come before it, and further frames only delay
  what the page sees. The page keeps one sample, so that an answer of two is cut
  to the page's size as well; only the last of those it keeps reaches the panel.

The type invariants of `GatewayPipeline`, `SchemaMigration` and `WsServer` are
checked and proved; those of `GatewayLifecycle` and `RobotSim` are proved and have
no run of their own.

Fairness. Each thread as a whole is weakly fair: the operating system runs a
thread that can run, mutexes are held for bounded time, SQLite calls return.
Nothing is assumed of messages arriving, of an operator stopping a program, of
spurious wakeups, or of a client sending.

- Pipeline: writer, stats thread, network thread and stop. A broadcast is assumed
  to return, which the socket timeout gives and `BroadcastEnds` checks in `WsServer`.
- `GatewayLifecycle`: `Start`, `Stop`, `Dump`, the callback under way, and the end
  of each thread once `running` is 0. Not the broker.
- `SchemaMigration`: the steps of each process. Not crashes or lock errors.
- `WsServer`: accept thread, caster, stop and each client thread: `accept`, `recv`
  and `send` return at the latest when `SO_RCVTIMEO` and `SO_SNDTIMEO`, which
  `set_timeouts` puts on every socket, have passed.
- `WsFrames`: the client's thread and each writer's `send`.
- `RobotClock`: time passes, and `main`, each sensor and the publisher run.
- `Replay` and `Dashboard` have no liveness property.

Every property has a mutant in `PROJECT.json`: a plausible slip of the code,
defined next to the definition it replaces and marked `(slip)`, under which TLC
finds the property violated.

## 4. Proofs

Every theorem holds for all values of the constants; the assumptions are those
of the constants unless one is named.

`GatewayPipelineProofs`:

| theorem | statement |
|---|---|
| `TypeCorrect` | `Spec => [](TypeOK /\ BatchShape)` |
| `WakeupsAreKept` | `Spec => []NoLostWakeup` |
| `NobodyLeftBehind` | `Spec => []QuiescentWhenFreed` |
| `NoMessageVanishes` | `HistSpec => []EveryMessageAccounted` |
| `ReportsNeverWrap` | `Spec => []ReportsAreSane` |

`TypeOK` is not inductive: that `row` stays inside the batch (and the appended
rows are therefore samples) needs `BatchShape`, which says when a batch is
empty and where `row` is. The invariants after that each add one
strengthening, preserved on top of the previous ones: `Handshake` (who holds
`q_mu` at which place of the writer, and that a sleeping writer has not missed
stop) for the wakeups, `Shutdown` (what each join has established) for the
freed gateway, `Counted` (commits are at most rows, snapshots are old values)
for the reports. `CutInTwo` and `PopSplits` say that popping splits the queue
without losing an element.

`NobodyLeftBehind` is about the writer, the statistics and the network thread, who
use the queue, the counters and the writer's connection. The server's detached
client threads use none of these; what becomes of them is said by
`ThreadsFindParts` and `MisuseIsExplained`. `ReportsNeverWrap` is about the
counters that a `GWSTAT` line subtracts, not about the rates it prints.

Of the order in which samples pass through, and with the histories `failed` and
`lost`:

| theorem | statement |
|---|---|
| `PipelineImplementsLog` | `Spec => ImplementsSampleLog` |
| `BuffersHaveOwners` | `Spec => []RawBuffersOwned` |
| `WedgedStays` | `Spec => WedgedForGood` |
| `BatchesSettle` | `"autorollback" \notin Faults /\ HistSpec => []BatchIsSettled` |

The refinement rests on `Order`: queue, batch, transaction, rows and stream each
rise (`AllRising`), hold only what has arrived (`AllArrived`), and lie one
before the other (`QueueIsNewest`, `BatchIsNext`): what is stored, pending or
sent is older than the rest of the batch, and that is older than the queue. With
it a COMMIT is a `Persist` of `SampleLog`, a broadcast a `Publish`, and
everything else a stutter. Ownership adds that only what has arrived was freed
(`FreedArrived`), the settled batches that the rows done so far are pending
while the transaction is open (`Transaction`).

`NoMessageVanishes` counts sets by counting sequences: what rises has no
repetition, so it is as long as the set of its elements is large
(`RisingCounts`). `Balance` is the conservation law of messages with a popped
batch as a whole; the rest is where each row of the batch in hand stands, step by
step (`RowsOfBatchStep`, `LostStep`, `SettledStays`).

`SchemaMigrationProofs`:

| theorem | statement |
|---|---|
| `TypeCorrect` | `Spec => [](TypeOK /\ LoopShape)` |
| `StampedIsComplete` | `Spec => []StampMeansComplete` |
| `OpenedIsReady` | `Spec => []OpenIsReady` |
| `LaterVersionsAreLeft` | `Spec => LaterVersionUntouched`, if `user_version` can be read |
| `CrashesRepaired` | `Spec => []CrashesAreRepaired` |

The invariant `Stamped` says what the file holds by itself (`Shared`) and what
each gateway has established on its way (`Achieved`: WAL after its pragma, the
columns before `col[g]` inside the loop, version 2 behind the stamp). No
statement takes anything from the file (`Grows`), so a step of one gateway
keeps what the others have achieved (`OthersKeep`): this is why the crashes and
races are harmless. The assumptions on `Files` say that a file has columns only
in a table and that a file found at version 2 was brought there by this code.
`CrashesRepaired` follows a gateway that has the file for itself
(`Repairable`): every place it can be killed at leaves a file the next start
can finish.

`WsServerProofs`:

| theorem | statement |
|---|---|
| `TypeCorrect` | `Spec => [](TypeOK /\ Owned)` |
| `ListStaysLive` | `Spec => []ListIsLive` |
| `NoClientLeaks` | `Spec => []ClientsAreHeld` |
| `NoDescriptorLeaks` | `Spec => []DescriptorsAreHeld` |
| `NothingLeaksEver` | `Spec => []NothingLeaks` |
| `MisuseIsExplained` | `Spec => []MisuseHasCause` |

`TypeOK` needs `Owned`: that the place of a broadcast stays inside the list
depends on the list holding a client once and on nobody else shrinking it
meanwhile. `Owned` says who may be in the list, `Life` that a running thread's
client was freed by a broadcast or by stop if at all, `Descriptors` that a
thread behind its `close` owns no descriptor. `Unlinked` and `Linked` are the
facts about the two list operations.

`GatewayLifecycleProofs`:

| theorem | statement |
|---|---|
| `TypeCorrect` | `Spec => []TypeOK` |
| `ThreadsFindParts` | `Spec => []UsersFindParts` |
| `NothingIsLeft` | `Spec => []StopUndoesStart` |

`Order` says, for each part, at which calls of `main` it may exist (`Made`), by
which it is gone (`Gone`), what it rests on (`Rests`: the writer on the database
and the server, the network thread on all of them), and that a `state_dump` has
none of the gateway's parts (`Apart`). `Strays` says of the client threads that
one whose server is gone was left behind by `ws_server_stop`, so that only such a
thread can use what is gone; `NothingIsLeft` is about parts and callbacks, and
leaves such threads to the end of the process. Start makes the parts in the order in
which they rest on each other, and stop disposes of them in a fixed order from
wherever start got to.

`RobotProofs`:

| theorem | statement |
|---|---|
| `TypeCorrect` | `Spec => []TypeOK` |
| `CacheIsOutlived` | `Spec => []CacheOutlivesThreads` |
| `SnapshotsAreWhole` | `Spec => []SnapshotIsWhole` |
| `SnapshotsAreNamed` | `Spec => []SeqNamesSnapshot` |
| `ClockImplementsSim` | `ClockSpec => Spec` |
| `ThreadsKeepTime` | `ClockSpec => []OnSchedule` |
| `CountsAreExact` | `ClockSpec => []CountIsExact` |

`Roll` follows the list of threads: those behind `started` have not begun, those
before `next` have ended once main joins. `Snapshot` is mutual exclusion
(`Exclusive`), the cache being half written only between the two steps of a
sensor (`PartsAreWhole`), and the half copy agreeing with the cache
(`HalfCopied`). `Named` says that `seq` is the sum of the stamps in the cache
modulo `SeqSize`, or one behind it while a sensor is between its two steps. The
sum goes over the list of sensors, so what one update does to it is shown by
induction over that list (`Adds`): the sums up to the sensor stay, those from it
on grow by one, or fall by `SeqSize - 1` when its stamp wraps.

`ClockImplementsSim` carries every safety theorem of `RobotSim` over to the
simulator with a clock. `Schedule` says of each thread that its `timespec` is
valid and is `began + passes * period`, and that it is past once the thread is in
a pass; a sleep that is cut short matters only to a thread that is told to end.
`Counts` is the arithmetic of division with remainder, with the wrap of the count.

`DashboardProofs`:

| theorem | statement |
|---|---|
| `EndsAgree` | `Spec => []Link` |
| `ViewTellsTruth` | `Spec => []ViewIsTrue` |
| `PanelFollowsStream` | `Spec => []PanelIsNewest` |
| `AnswersAreLatest` | `Spec => []AnswerIsLatest` |
| `StreamHasNoHole` | `Spec => []NoHole` |

`Link` ties the page's socket to the server's half (a client is joined exactly
while the socket is open, and nothing is under way to one that is not). `View`
says that buttons and label are right while a socket is open, unless the event of
an old one has spoilt them (`late`), and while there is none, unless its event is
to come. `ViewTellsTruth` therefore says what a late close event can do, not that
it does no harm: an open connection it has found can be neither used nor ended,
only replaced.
`Stream` says that the newest sample on the wire, or the panel when there is
none, is the last one broadcast. `PanelFollowsStream` says nothing of a panel
that a history answer has set: the code puts it back to the answer's last row,
however old that is by then.

`Newest` says of an answer that is under way that its rows are in the order of
time, newer than every row it leaves out, and as many as `Size` allows. The query
sorts with a library operator defined by choice, so the proof begins with that a
finite set of rows can be put into order (induction on its size) and that two
ways to do so agree; a list without repetition out of `n` rows is no longer than
`n` (again induction). `Gapless` says that what the page has, or a frame on the
wire brings, leaves no hole up to the last broadcast while rows are `Sorted` by
time, and that the answer under way leaves none either: rows inserted after its
query were broadcast after the page had joined.

`WsHandshakeProofs`, about the algorithms of the handshake, for any `Compress`:

| theorem | statement |
|---|---|
| `UpdateHolds` | `Holds(c, m)` gives `Holds(Sha1Update(c, d), m \o d)` |
| `FinalIsStandard` | `Holds(c, m)` gives `Sha1Final(c) = StandardDigest(m)` |
| `EncodeIsStandard` | `Base64Encode(in) = StandardBase64(in)` for all octets `in` |
| `KeyIsAccepted` | `AcceptKey(key) = StandardAccept(key)`, if `CompressesToStates` and the key is not longer than `LongestKey` |

A context holds a message (`Holds`) when its state is that of the message's whole
blocks and its buffer begins with the octets behind them; what else is in the
buffer does not matter. `Sha1Update` keeps that whichever way the octets fill the
buffer (`HoldsShort`, `HoldsLong`), because hashing two lists of blocks one after
the other is hashing the list they make (`CompressMore`). The two ways to pad,
`idx < 56` or not, come to the `(55 - n) % 64` zeros of the standard. Base 64 is
compared bit by bit: the four numbers of a group are its 24 bits, six at a time
(`SextetsOf`), and the standard's characters are the same bits counted from the
start (`CharsAre`).

`CompressesToStates` says that a block of octets takes five words of two 16-bit
halves to such words; in `Sha1`, `Add` takes each half modulo 2^16.
`Sha1` itself is beyond the provers here, because it uses the library's bit operations;
`MCWsFrames` has TLC evaluate a few blocks from the initial state
(`WordsAssumption`), and the run every block its handshakes hash. `LongestKey`, 219 octets, is what fits `cat[256]` in front of the GUID;
`snprintf` cuts a longer one, and its answer is not the standard's.

`WsFramesProofs`:

| theorem | statement |
|---|---|
| `FramesAreUnderstood` | `Spec => []RequestsAreUnderstood` |
| `OnlyARaceBreaksTheStream` | `Spec => []BrokenOnlyByRace` |
| `AcceptsAreStandard` | `Spec => []AcceptIsStandard`, if `CompressesToStates` and `KeysAreExpected` |

They hold for every list of exchanges, every width `Base` and every number of cut
calls and broadcasts; the first two for any `Compress` and any keys, the third for
the keys and answers of `KeysAreExpected`: a key is not longer than `LongestKey`,
and the client expects `StandardAccept` of it. TLC evaluates that for the run's
exchanges.

The first rests on `Understood`: what has been read for the stage and what is on
its way are together the octets of the pieces still to be read (`StreamAhead`),
and the header in hand is that of the frame they belong to (`Announced`). Each
stage takes one piece off: `FrameIsParts` cuts a frame into header, length, mask
and payload, `LengthParts` shows that the digits give back the length (division
with remainder, on both sides of both boundaries), `MaskTwice` that masking twice
gives back the payload, bit by bit. `Jobs` says that what a writer has left to
send of a frame it has not begun is the frame; `Opening` that nothing but
broadcasts was sent before the handshake, so a client that holds the response has
been through it.

The second adds `Answering` (the response is the first frame unless a broadcast
comes too early) and `Stream`: without a race the octets sent are the frames
begun (`Whole`) or lack what the one writer under way has left (`Part`).
`WholeIsRead` then evaluates `Received` on such octets. `Whole` gives the places
at which the frames begin (`Marks`); octets behind a frame do not change how it is
read (`StaysWhole`), and one that is cut off is not taken for a whole one
(`PartIsNotRead`).

The third follows from `KeyIsAccepted` once the answer a client holds is that of the
request on this connection (`HandshakeDone`, which needs `Opening`).

Induction. The library's induction theorems take an operator as a parameter,
which these provers cannot instantiate. Where a proof needs induction it uses
that a set of numbers that is not empty has a least element: with the set
written out, a counterexample would have a least one (`LeastNat`, `EveryNat`).
That is how `FramesFrom`, `Received` and `CompressAll`, recursive functions of the
model, are evaluated for every argument.

Every invariant the passing runs check is stated by a theorem. Only model-checked:
liveness, which is out of the prover's reach, and the violations.

## 5. Findings

- `pipeline_live_unpersisted`: `docs/websocket_api.md` says frames are broadcast
  after the snapshot has been persisted; the writer broadcasts a batch it has
  rolled back, and one whose COMMIT failed.
- `migration_untuned`: `docs/database.md` lists three pragmas; at version 2 two
  of them are not set on the new connection.
- `ws_cut_off`: `docs/websocket_api.md` says every connected client receives the
  frames; a client that leaves is closed by its own thread first (`ws_server.c:536`),
  `accept` hands the number out again, and a broadcast that finds the old client
  with `alive = 0` still in the list closes the number a second time (`684`): the
  new client is cut off.
- `ws_mixed_frames`: `ws_server.c:5` says a client is sent the status upon
  connecting; `accept_thread` puts it into the list (`570`) before its handshake,
  and a broadcast can come before the 101 response.

What the code does as well, without a run that is meant to fail. Each is in the
model, and the property named says what holds all the same:

- `db_rows` counts a batch whatever became of its transaction
  (`telemetry_gateway.c:216`), so the rate of rows a `GWSTAT` line reports is that
  of the rows tried; `README.md:321` calls it the mean SQLite insertion rate, and
  the analysis scripts use it as that. `EveryMessageAccounted` bounds it from above
  by the rows and the samples lost.
- `accept_thread` reads `c->th` (`ws_server.c:581`) when the client's thread may
  have failed its handshake and freed `c`, without any drop or stop
  (`MisuseHasCause`).
- A broadcast and `ws_server_stop` free clients whose threads still use them
  (`ws_server.c:693`, `662`), and the threads that go on after `ws_server_stop` may
  be in a query when `telemetry_gateway.c:489` closes the reader (`MisuseHasCause`,
  `UsersFindParts`).
- Two threads send on one descriptor without a lock, and a frame is two sends
  (`ws_server.c:302`): frames can mix. `BrokenOnlyByRace` sets every such race
  apart, and the trace of `ws_mixed_frames` is the earlier broadcast, not this.
- The close event of a socket the page has replaced shows the new connection as
  closed (`app.js:420`, `late` in `ViewIsTrue`); a history that comes behind live
  samples puts its rows after them and the panel back (`app.js:382`, left out of
  `PanelIsNewest`).
- A query that ends early gives a short answer without an error
  (`db_sqlite.c:463`), and behind a clock set back the row inserted last may not be
  among the latest (`db_sqlite.c:438`): `AnswerIsLatest` is by reception time, as
  the document is, and lets an answer be short only behind such a failure (`cut`).
- A `user_version` that cannot be read counts as 0, and a later file is then
  stamped 2 (`db_sqlite.c:221`; exempt from `LaterVersionUntouched`).
- `state_dump` does not subscribe again after a reconnection (`state_dump.c:96`);
  `StableLinkIsSubscribed` covers its first connection.
- A client that sends nothing for 60 s is closed (`ws_server.c:195`), although a
  listener has nothing to send. `silence` in `WsServer` and `WsFrames` is this
  timeout.

Not in the model: the queue has no bound (`telemetry_gateway.c:144`), and the code
promises none; and `seq` is read back through a C `int` (`db_sqlite.c:353`), a round
trip of one number with no state around it.

In `PROJECT.json` a hazard that the code does not prevent has no property and a
note that says which property sets it apart.

## 6. Plan

Done: all modules above. What would add most from here:

1. compose the pipeline with the server's blocking broadcast, to follow a slow
   client back to the queue;
2. a second client thread in `Replay`, for two readers of one connection to the
   database.

## 7. Not modelled

- Sensor waveforms and rounding of floating-point numbers; the data columns of a
  row; protobuf encoding (a message decodes or does not; the code is generated).
- Wording of frames and logs; drawing, the table and the curves of the page.
- Option parsing: its clamping of the batch size is an assumption.
- The width of `seq` and the memory the queue may take (see the findings).
- A cancellation of the network thread inside `on_message`.
- Scripts and analysis: batch programs without state that is shared.
- libmosquitto, SQLite and the kernel are external: what a crash does to SQLite's
  files is taken from SQLite, where a statement that autocommitted is durable.
