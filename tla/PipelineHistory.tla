--------------------------- MODULE PipelineHistory ---------------------------
(* GatewayPipeline with a memory of the batches whose transaction failed, to  *)
(* say what failing database calls do, and do not do, to the samples.         *)
EXTENDS PipelineRefinesLog, FiniteSets

VARIABLES
    failed,   \* history: the samples of the batches that were not committed
    lost      \* history: the ones a transaction was begun for that have no row

histVars == <<vars, failed, lost>>

\* The transaction of the batch in hand ends without its COMMIT.
BatchFails == BeginFails \/ CommitFails \/ Rollback

\* The rows a failed COMMIT or a ROLLBACK leaves out; a row that an INSERT has
\* committed by itself, after SQLite had ended the transaction, is not among them.
RowsUndone == Elements(batch) \ Elements(stored)

HistInit == Init /\ failed = {} /\ lost = {}

HistNext ==
    /\ Next
    /\ failed' = IF BatchFails THEN failed \cup Elements(batch) ELSE failed
    /\ lost' = IF CommitFails \/ Rollback THEN lost \cup RowsUndone ELSE lost

HistSpec == HistInit /\ [][HistNext]_histVars /\ Fairness

\* The batch popped and not yet counted in db_rows.
Uncounted ==
    IF writer \in {"begin", "insert", "end", "count"} THEN Elements(batch) ELSE {}

Settled == Elements(stored) \cup lost

\* Every message received is in on_message's hand, queued, being written, a row
\* of the database, lost with its transaction, or was disposed of, and only one
\* of these, whatever calls fail.  And db_rows, the figure GWSTAT reports as rows,
\* has counted every row that is in the database and nothing that was never in a
\* transaction.  It is not the number of rows: the code adds batches that were
\* rolled back too (telemetry_gateway.c 209-216), so the upper bound counts the
\* samples lost, where README.md:321 takes the figure for the rows inserted.
EveryMessageAccounted ==
    /\ Elements(stored) \cap lost = {}
    /\ rx_msgs = InHand + Len(queue) + Cardinality(Uncounted \ Settled)
                 + Len(stored) + Cardinality(lost) + dropped
    /\ Cardinality(Elements(stored) \ Uncounted) <= db_rows
    /\ db_rows <= Cardinality(Settled \ Uncounted)

\* If SQLite never rolls back by itself, a batch is persisted as a whole or not
\* at all by the time it is counted and broadcast, and not at all only after its
\* BEGIN, one of its INSERTs or its COMMIT has failed: what the clients are sent
\* is in the database unless a call of its own transaction failed.
BatchIsSettled ==
    writer \in {"count", "send"} =>
        \/ Elements(batch) \subseteq Elements(stored)
        \/ /\ Elements(batch) \cap Elements(stored) = {}
           /\ Elements(batch) \subseteq failed

\* Whatever transactions fail around it, also after a COMMIT that leaves its
\* transaction open: a queued sample reaches the database and the clients, unless
\* its own transaction fails or the gateway is stopped first.
QueuedIsDelivered ==
    \A m \in 1..MaxMsgs :
        m \in Elements(queue) ~>
            \/ m \in Elements(stored) /\ m \in Elements(live)
            \/ m \in failed
            \/ main = "done"
=============================================================================
