------------------------------ MODULE SampleLog ------------------------------
(***************************************************************************)
(* What the gateway promises of the snapshots it receives, without its     *)
(* queue, batches, threads or transactions.  Snapshots are numbered by     *)
(* arrival.  The database and the stream to the dashboards are two logs    *)
(* that grow at the end only, each with samples that are newer than all it *)
(* holds; and a row never becomes durable after the stream has reached or  *)
(* passed it.  GatewayPipeline implements this specification.              *)
(***************************************************************************)
EXTENDS Integers, Sequences

VARIABLES
    received,   \* how many snapshots have arrived
    stored,     \* the durable rows
    live        \* the frames given to the WebSocket server

logVars == <<received, stored, live>>

InOrder(s) == \A i, j \in 1..Len(s) : i < j => s[i] < s[j]

\* t is s with newer samples, all received and all after those of u, behind it.
Extends(t, s, u) ==
    /\ Len(s) <= Len(t) /\ SubSeq(t, 1, Len(s)) = s
    /\ InOrder(t)
    /\ \A i \in Len(s) + 1 .. Len(t) :
          /\ t[i] \in 1..received
          /\ \A j \in 1..Len(u) : u[j] < t[i]

LogInit == received = 0 /\ stored = <<>> /\ live = <<>>

Arrive == received' = received + 1 /\ UNCHANGED <<stored, live>>

\* One transaction: some samples not yet overtaken by the stream become rows.
Persist == Extends(stored', stored, live) /\ UNCHANGED <<received, live>>

\* One frame: a sample newer than the last one sent.
Publish ==
    /\ Len(live') = Len(live) + 1 /\ Extends(live', live, live)
    /\ UNCHANGED <<received, stored>>

LogNext == Arrive \/ Persist \/ Publish

LogSpec == LogInit /\ [][LogNext]_logVars
=============================================================================
