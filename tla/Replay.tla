------------------------------- MODULE Replay -------------------------------
(***************************************************************************)
(* History beside the live stream: the writer goes on committing batches   *)
(* and broadcasting them while the thread of one client reads the last N   *)
(* rows (src/infra/persistence/db_sqlite.c) and sends them on the same     *)
(* connection (src/infra/websocket/ws_server.c).  Dashboard is what the    *)
(* page at the other end makes of it.                                      *)
(*                                                                         *)
(* Rows are numbered in the order of insertion (rowid).  Each carries the  *)
(* reception time, taken from the realtime clock, by which they are read   *)
(* back.  Nothing fails to be stored here: GatewayPipeline says what       *)
(* becomes of a batch that does.                                           *)
(***************************************************************************)
EXTENDS Integers, SequencesExt

CONSTANTS
    MaxRows,     \* bound: rows stored in a behaviour
    MaxTime,     \* bound: reception times
    MaxWire,     \* bound: frames on their way to the client
    BatchSize,   \* GW_BATCH
    Default,     \* 300: rows when the request names no usable number
    MaxLimit,    \* 5000: rows at most
    Faults       \* what may go wrong in this instance

\* clock: the realtime clock is set back; query: the SELECT is not prepared, or
\* there is no memory for its text; step: sqlite3_step fails half way, or there
\* is no memory for a row.
FaultKinds == {"clock", "query", "step"}

ASSUME LimitsAssumption == Default \in 1..MaxLimit /\ MaxLimit \in Nat
ASSUME BatchAssumption == BatchSize \in Nat \ {0}
ASSUME BoundsAssumption == MaxRows \in Nat /\ MaxTime \in Nat /\ MaxWire \in Nat
ASSUME FaultsAssumption == Faults \subseteq FaultKinds

\* The page asks for 1 and more; this stands for the null that JSON.stringify
\* makes of a field that is not a number.
Null == 0

VARIABLES
    rows,        \* the committed rows: reception time of each rowid
    cast,        \* the rows broadcast so far: 1..cast
    joined,      \* the client is in the list of the server
    requests,    \* its history requests on their way: the numbers asked for
    client,      \* progress of its thread: "recv", "query", "send"
    last,        \* the number found in the request
    answer,      \* the rows read for it
    basis,       \* history: the number of rows when they were read
    cut,         \* history: a step failed before the last of them
    wire         \* the frames on their way to the client

askVars == <<client, last, answer, basis, cut>>
replayVars == <<rows, cast, joined, requests, askVars, wire>>

ReplayInit ==
    /\ rows = <<>> /\ cast = 0
    /\ joined = FALSE /\ requests = <<>> /\ client = "recv" /\ last = Default
    /\ answer = <<>> /\ basis = 0 /\ cut = FALSE
    /\ wire = <<>>

Frame(type, items) == [type |-> type, items |-> items]

-----------------------------------------------------------------------------
(* The writer thread.                                                      *)

\* The reception times of a batch.  The realtime clock goes forward, except
\* after it was set back.
Times ==
    {ts \in UNION {[1..n -> 0..MaxTime] : n \in 1..BatchSize} :
        "clock" \in Faults \/
        \A i, j \in 1..Len(rows \o ts) : i < j => (rows \o ts)[i] <= (rows \o ts)[j]}

\* A batch is committed, the last one having been broadcast.
Commit ==
    /\ cast = Len(rows)
    /\ \E ts \in Times :
        /\ Len(rows) + Len(ts) <= MaxRows
        /\ rows' = rows \o ts
    /\ UNCHANGED <<cast, joined, requests, askVars, wire>>

\* (slip) a sample is broadcast before it is committed
CastFirst ==
    /\ cast <= Len(rows) /\ cast < MaxRows /\ Len(wire) < MaxWire
    /\ cast' = cast + 1
    /\ wire' = IF joined THEN Append(wire, Frame("telemetry", <<cast + 1>>)) ELSE wire
    /\ UNCHANGED <<rows, joined, requests, askVars>>

\* (slip) a client that is being answered is left out
CastUnlessBusy ==
    /\ cast < Len(rows) /\ Len(wire) < MaxWire
    /\ cast' = cast + 1
    /\ wire' = IF joined /\ client = "recv"
               THEN Append(wire, Frame("telemetry", <<cast + 1>>)) ELSE wire
    /\ UNCHANGED <<rows, joined, requests, askVars>>

\* The samples of a committed batch are broadcast one after the other.
Broadcast ==
    /\ cast < Len(rows) /\ Len(wire) < MaxWire
    /\ cast' = cast + 1
    /\ wire' = IF joined THEN Append(wire, Frame("telemetry", <<cast + 1>>)) ELSE wire
    /\ UNCHANGED <<rows, joined, requests, askVars>>

-----------------------------------------------------------------------------
(* The client thread.                                                      *)

\* json_find_int(txt, "last", 300): 300 when "last" is not a number.
JsonFindInt(n) == IF n = Null THEN Default ELSE n

\* limit <= 0 and limit > 5000 are replaced.
Limit(n) == IF n <= 0 THEN Default ELSE IF n > MaxLimit THEN MaxLimit ELSE n

\* ORDER BY received_at_ns DESC; the index gives equal times by falling rowid.
Newer(i, j) == rows[i] > rows[j] \/ (rows[i] = rows[j] /\ i > j)

\* The rows in that order: a function of the position.
NewestFirst ==
    CHOOSE s \in [DOMAIN rows -> DOMAIN rows] :
        \A i, j \in DOMAIN rows : i < j => Newer(s[i], s[j])

\* (slip) ORDER BY received_at_ns
OldestRows(n) ==
    LET s == CHOOSE s \in [DOMAIN rows -> DOMAIN rows] :
                 \A i, j \in DOMAIN rows : i < j => Newer(s[j], s[i])
    IN  SubSeq(s, 1, IF Len(rows) < n THEN Len(rows) ELSE n)

\* The rows the SELECT ... LIMIT n steps through, the newest first.
NewestRows(n) == SubSeq(NewestFirst, 1, IF Len(rows) < n THEN Len(rows) ELSE n)

\* A history request arrives.
Receive ==
    /\ requests # <<>> /\ client = "recv"
    /\ last' = JsonFindInt(Head(requests))
    /\ requests' = Tail(requests)
    /\ client' = "query"
    /\ UNCHANGED <<rows, cast, joined, answer, basis, cut, wire>>

\* db_reader_history_last_json: a step that fails ends the loop over the rows
\* like the last row; the rows are put in reverse order.
Query ==
    /\ client = "query"
    /\ LET found == NewestRows(Limit(last)) IN
        \E n \in (IF "step" \in Faults THEN 0 ELSE Len(found))..Len(found) :
            answer' = Reverse(SubSeq(found, 1, n)) /\ cut' = (n < Len(found))
    /\ basis' = Len(rows)
    /\ client' = "send"
    /\ UNCHANGED <<rows, cast, joined, requests, last, wire>>

\* The query fails, or sb_append, whose result is not looked at, leaves something
\* out of its text: the page takes no notice of an error, and none of a text that
\* is not JSON.
QueryFails ==
    /\ client = "query" /\ "query" \in Faults
    /\ client' = "recv" /\ last' = Default
    /\ UNCHANGED <<rows, cast, joined, requests, answer, basis, cut, wire>>

\* ws_send_text of the answer: broadcasts may have come in between.
SendHistory ==
    /\ client = "send" /\ Len(wire) < MaxWire
    /\ wire' = Append(wire, Frame("history", answer))
    /\ client' = "recv" /\ last' = Default
    /\ answer' = <<>> /\ basis' = 0 /\ cut' = FALSE
    /\ UNCHANGED <<rows, cast, joined, requests>>

Server ==
    \/ Commit \/ Broadcast
    \/ Receive \/ Query \/ QueryFails \/ SendHistory

-----------------------------------------------------------------------------
(* What the page and the server do to the connection.                      *)

\* The client is in the list and its handshake is over; the status is sent.
Join ==
    /\ joined' = TRUE
    /\ wire' = <<Frame("status", <<>>)>>
    /\ UNCHANGED <<rows, cast, askVars>>

\* The connection ends: what is under way is lost, and the page is deaf to it.
Part ==
    /\ joined' = FALSE /\ requests' = <<>> /\ wire' = <<>>
    /\ client' = "recv" /\ last' = Default
    /\ answer' = <<>> /\ basis' = 0 /\ cut' = FALSE
    /\ UNCHANGED <<rows, cast>>

-----------------------------------------------------------------------------
(* What a client may rely on.                                              *)

\* docs/websocket_api.md: "the latest stored samples ... retrieved from SQLite
\* by gateway reception time and returned in chronological order".  An answer is
\* in order, no row left out is newer than one in it, and unless a step failed
\* while it was read it is as long as the request, the limit and the table allow.
\* Latest is by reception time: behind a clock set back the row inserted last may
\* be missing.
AnswerIsLatest ==
    client = "send" =>
        LET wanted == IF last <= 0 THEN Default ELSE last
            size == Min({wanted, MaxLimit, basis}) IN
        /\ \A i, j \in DOMAIN answer :
               i < j => rows[answer[i]] <= rows[answer[j]] /\ answer[i] # answer[j]
        /\ \A k \in 1..basis \ ToSet(answer), i \in DOMAIN answer :
               rows[k] <= rows[answer[i]]
        /\ Len(answer) <= size
        /\ cut \/ Len(answer) = size

\* The realtime clock has not been set back.
Sorted == \A i, j \in DOMAIN rows : i < j => rows[i] <= rows[j]
=============================================================================
