------------------------------ MODULE WsServer ------------------------------
(***************************************************************************)
(* The WebSocket server of the gateway (src/infra/websocket/ws_server.c):  *)
(* who keeps, closes and frees a client.                                   *)
(*                                                                         *)
(*   accept thread     accept_thread            (variable accepter)        *)
(*   client threads    client_thread, detached  (thread[c])                *)
(*   writer thread     ws_server_broadcast      (caster, pos)              *)
(*   main thread       ws_server_stop           (stopper)                  *)
(*                                                                         *)
(* A connection is the number of its accept.  A descriptor is a number the *)
(* kernel hands out again once it is closed, always the lowest free one:   *)
(* sock says whose connection a number denotes now, fd[c] is what the      *)
(* program believes.  The mutex mu is held exactly while a broadcast is    *)
(* under way; everybody else holds it for one step.                        *)
(*                                                                         *)
(* A thread that uses a client or a server after free() makes the          *)
(* behaviour of the process undefined: misused becomes TRUE, and the model *)
(* says nothing of what happens then.  Every property is about the         *)
(* behaviour until there.                                                  *)
(***************************************************************************)
EXTENDS Integers, Sequences

CONSTANTS
    MaxConns,     \* bound: connections accepted in a behaviour
    MaxFrames,    \* bound: broadcasts in a behaviour
    Fds,          \* the descriptors this process may get from accept
    Faults        \* what may go wrong in this instance

(***************************************************************************)
(*   calloc     no memory for the client                                   *)
(*   thread     pthread_create fails                                       *)
(*   handshake  the request is not a WebSocket handshake, or never ends    *)
(*   silence    a client sends nothing for the 60 s of SO_RCVTIMEO         *)
(*   frame      a frame cannot be received: too long, no memory            *)
(***************************************************************************)
FaultKinds == {"calloc", "thread", "handshake", "silence", "frame"}

ASSUME MaxConnsAssumption  == MaxConns \in Nat
ASSUME MaxFramesAssumption == MaxFrames \in Nat
ASSUME FdsAssumption       == Fds \subseteq Nat \ {0}
ASSUME FaultsAssumption    == Faults \subseteq FaultKinds

Conns == 1..MaxConns
Nobody == 0          \* the owner of a closed descriptor

VARIABLES
    running,      \* s->running
    accepter,     \* progress of accept_thread
    accepted,     \* connections accepted; the last one is in accept_thread's hand
    list,         \* s->clients, the head first
    fd, alive,    \* c->fd, c->alive
    mem,          \* c itself: "live", or freed by its own thread or by another
    thread,       \* progress of client_thread (or of accept_thread's clean-up)
    joined,       \* history: the clients that were sent the 101 response
    peer,         \* the other end: "open" until it closes or stops reading
    sock,         \* kernel: the connection each descriptor denotes
    caster, pos,  \* progress of ws_server_broadcast and its place in the list
    frames,       \* broadcasts begun
    stopper,      \* progress of ws_server_stop
    doomed,       \* the clients stop has taken from the list
    misused       \* freed memory was used

clientVars == <<fd, alive, mem>>
castVars   == <<caster, pos, frames>>
stopVars   == <<stopper, doomed>>
vars == <<running, accepter, accepted, list, clientVars, thread, joined, peer,
          sock, castVars, stopVars, misused>>

Elements(s) == {s[i] : i \in DOMAIN s}

\* The list without c, which is in it at most once.
Without(s, c) ==
    IF \E i \in DOMAIN s : s[i] = c
    THEN LET i == CHOOSE i \in DOMAIN s : s[i] = c
         IN  SubSeq(s, 1, i - 1) \o SubSeq(s, i + 1, Len(s))
    ELSE s

\* The process runs until it exits or its behaviour is undefined.
Going == stopper # "exited" /\ ~misused

\* close(c->fd): whatever the number denotes by now.
Close(c) == sock' = [sock EXCEPT ![fd[c]] = Nobody]

Init ==
    /\ running = TRUE /\ accepter = "top" /\ accepted = 0 /\ list = <<>>
    /\ fd = [c \in Conns |-> 0] /\ alive = [c \in Conns |-> FALSE]
    /\ mem = [c \in Conns |-> "none"] /\ thread = [c \in Conns |-> "none"]
    /\ joined = {} /\ peer = [c \in Conns |-> "none"]
    /\ sock = [d \in Fds |-> Nobody]
    /\ caster = "idle" /\ pos = 1 /\ frames = 0
    /\ stopper = "none" /\ doomed = <<>> /\ misused = FALSE

-----------------------------------------------------------------------------
(* accept_thread.                                                          *)

\* while (s->running)
AcceptTop ==
    /\ Going /\ accepter = "top"
    /\ accepter' = IF running THEN "accept" ELSE "done"
    /\ UNCHANGED <<running, accepted, list, clientVars, thread, joined, peer,
                   sock, castVars, stopVars, misused>>

FreeFds == {d \in Fds : sock[d] = Nobody}

\* accept returns a connection; one under way survives the close of server_fd.
AcceptConn ==
    /\ Going /\ accepter = "accept" /\ accepted < MaxConns /\ FreeFds # {}
    /\ LET c == accepted + 1 IN
        /\ accepted' = c
        /\ peer' = [peer EXCEPT ![c] = "open"]
        /\ \/ /\ \E d \in FreeFds :
                  /\ \A e \in FreeFds : d <= e
                  /\ sock' = [sock EXCEPT ![d] = c]
                  /\ fd' = [fd EXCEPT ![c] = d]
              /\ alive' = [alive EXCEPT ![c] = TRUE]
              /\ mem' = [mem EXCEPT ![c] = "live"]
              /\ accepter' = "insert"
           \/ /\ "calloc" \in Faults           \* close(cfd); continue
              /\ accepter' = "top"
              /\ UNCHANGED <<clientVars, sock>>
    /\ UNCHANGED <<running, list, thread, joined, castVars, stopVars, misused>>

\* (slip) the listening socket has no timeout: a blocked accept does not return
AcceptBlocks ==
    /\ Going /\ accepter = "accept" /\ running
    /\ accepter' = "top"
    /\ UNCHANGED <<running, accepted, list, clientVars, thread, joined, peer,
                   sock, castVars, stopVars, misused>>

\* accept fails: transiently, after the 60 s timeout, or on the closed socket.
AcceptFails ==
    /\ Going /\ accepter = "accept"
    /\ accepter' = IF running THEN "top" ELSE "done"
    /\ UNCHANGED <<running, accepted, list, clientVars, thread, joined, peer,
                   sock, castVars, stopVars, misused>>

AcceptInsert ==
    /\ Going /\ accepter = "insert" /\ caster = "idle"
    /\ list' = <<accepted>> \o list
    /\ accepter' = "spawn"
    /\ UNCHANGED <<running, accepted, clientVars, thread, joined, peer, sock,
                   castVars, stopVars, misused>>

\* pthread_create: it writes c->th, and the thread may run at once.
Spawn ==
    /\ Going /\ accepter = "spawn" /\ mem[accepted] = "live"
    /\ thread' = [thread EXCEPT ![accepted] = "start"]
    /\ accepter' = "detach"
    /\ UNCHANGED <<running, accepted, list, clientVars, joined, peer, sock,
                   castVars, stopVars, misused>>

\* Without a thread accept_thread itself closes, removes and frees the client.
SpawnFails ==
    /\ Going /\ accepter = "spawn" /\ mem[accepted] = "live" /\ "thread" \in Faults
    /\ thread' = [thread EXCEPT ![accepted] = "leave"]
    /\ accepter' = "undo"
    /\ UNCHANGED <<running, accepted, list, clientVars, joined, peer, sock,
                   castVars, stopVars, misused>>

\* pthread_detach(c->th): c is read while its thread runs.
Detach ==
    /\ Going /\ accepter = "detach" /\ mem[accepted] = "live"
    /\ accepter' = "top"
    /\ UNCHANGED <<running, accepted, list, clientVars, thread, joined, peer,
                   sock, castVars, stopVars, misused>>

\* A broadcast has dropped the client since it was inserted, or its own thread
\* has freed it before c->th is read.
AccepterMisuse ==
    /\ Going /\ accepter \in {"spawn", "detach"} /\ mem[accepted] # "live"
    /\ misused' = TRUE
    /\ UNCHANGED <<running, accepter, accepted, list, clientVars, thread,
                   joined, peer, sock, castVars, stopVars>>

SpawnUndone ==
    /\ Going /\ accepter = "undo" /\ thread[accepted] = "gone"
    /\ accepter' = "top"
    /\ UNCHANGED <<running, accepted, list, clientVars, thread, joined, peer,
                   sock, castVars, stopVars, misused>>

-----------------------------------------------------------------------------
(* client_thread.                                                          *)

ServerFreed == stopper = "done"

GoTo(c, place) == thread' = [thread EXCEPT ![c] = place]

\* The connection that recv and send reach through fd[c]: by now another one
\* than c's, or none.
Reached(c) == sock[fd[c]]

CanTalk(c) == Reached(c) # Nobody /\ peer[Reached(c)] = "open"

\* What the next step of the thread of c dereferences is still allocated.  While
\* it waits for a request the thread uses nothing; with the request in hand it
\* takes the descriptor for the status frame from c.
Usable(c) ==
    /\ thread[c] \in {"start", "loop", "answer", "leave", "close", "free"} => mem[c] = "live"
    /\ thread[c] = "handshake" /\ CanTalk(c) => mem[c] = "live"
    /\ thread[c] \in {"loop", "answer", "remove"} => ~ServerFreed

\* The thread of c uses memory that was freed.
Misuse(c) ==
    /\ Going /\ ~Usable(c)
    /\ misused' = TRUE
    /\ UNCHANGED <<running, accepter, accepted, list, clientVars, thread,
                   joined, peer, sock, castVars, stopVars>>

\* The thread takes its server and its descriptor from c.
Begin(c) ==
    /\ Going /\ thread[c] = "start" /\ Usable(c)
    /\ GoTo(c, "handshake")
    /\ UNCHANGED <<running, accepter, accepted, list, clientVars, joined, peer,
                   sock, castVars, stopVars, misused>>

\* ws_handshake succeeds and the status frame is sent.
Handshake(c) ==
    /\ Going /\ thread[c] = "handshake" /\ CanTalk(c) /\ Usable(c)
    /\ joined' = joined \cup {c}
    /\ GoTo(c, "loop")
    /\ UNCHANGED <<running, accepter, accepted, list, clientVars, peer, sock,
                   castVars, stopVars, misused>>

HandshakeFails(c) ==
    /\ Going /\ thread[c] = "handshake" /\ (~CanTalk(c) \/ "handshake" \in Faults)
    /\ GoTo(c, "leave")
    /\ UNCHANGED <<running, accepter, accepted, list, clientVars, joined, peer,
                   sock, castVars, stopVars, misused>>

\* while (s->running && c->alive)
Loop(c) ==
    /\ Going /\ thread[c] = "loop" /\ Usable(c)
    /\ GoTo(c, IF running /\ alive[c] THEN "recv" ELSE "leave")
    /\ UNCHANGED <<running, accepter, accepted, list, clientVars, joined, peer,
                   sock, castVars, stopVars, misused>>

\* A frame arrives: a history request is answered, any other one (ping, pong,
\* another text) leads back to the loop.  A close frame is PeerLeaves: what it
\* leads to, the end of the loop, is RecvFails.
RecvFrame(c) ==
    /\ Going /\ thread[c] = "recv" /\ CanTalk(c)
    /\ \E place \in {"answer", "loop"} : GoTo(c, place)
    /\ UNCHANGED <<running, accepter, accepted, list, clientVars, joined, peer,
                   sock, castVars, stopVars, misused>>

\* ws_recv_frame fails: connection lost, closed descriptor, timeout, bad frame.
RecvFails(c) ==
    /\ Going /\ thread[c] = "recv" /\ (~CanTalk(c) \/ Faults \cap {"silence", "frame"} # {})
    /\ GoTo(c, "leave")
    /\ UNCHANGED <<running, accepter, accepted, list, clientVars, joined, peer,
                   sock, castVars, stopVars, misused>>

\* The history is read and sent; whether the send succeeds is not looked at.
Answer(c) ==
    /\ Going /\ thread[c] = "answer" /\ Usable(c)
    /\ GoTo(c, "loop")
    /\ UNCHANGED <<running, accepter, accepted, list, clientVars, joined, peer,
                   sock, castVars, stopVars, misused>>

\* c->alive = 0
Leave(c) ==
    /\ Going /\ thread[c] = "leave" /\ Usable(c)
    /\ alive' = [alive EXCEPT ![c] = FALSE]
    /\ GoTo(c, "close")
    /\ UNCHANGED <<running, accepter, accepted, list, fd, mem, joined, peer,
                   sock, castVars, stopVars, misused>>

CloseOwn(c) ==
    /\ Going /\ thread[c] = "close" /\ Usable(c)
    /\ Close(c)
    /\ GoTo(c, "remove")
    /\ UNCHANGED <<running, accepter, accepted, list, clientVars, joined, peer,
                   castVars, stopVars, misused>>

\* (slip) client_remove frees the client, and so does the thread after it
RemoveFrees(c) ==
    /\ Going /\ thread[c] = "remove" /\ Usable(c) /\ caster = "idle"
    /\ list' = Without(list, c)
    /\ mem' = [mem EXCEPT ![c] = "freed"]
    /\ GoTo(c, "free")
    /\ UNCHANGED <<running, accepter, accepted, fd, alive, joined, peer, sock,
                   castVars, stopVars, misused>>

\* client_remove: nothing happens when a broadcast or stop was faster.
Remove(c) ==
    /\ Going /\ thread[c] = "remove" /\ Usable(c) /\ caster = "idle"
    /\ list' = Without(list, c)
    /\ GoTo(c, "free")
    /\ UNCHANGED <<running, accepter, accepted, clientVars, joined, peer, sock,
                   castVars, stopVars, misused>>

\* (slip) the thread ends without free
SkipFree(c) ==
    /\ Going /\ thread[c] = "free" /\ Usable(c)
    /\ GoTo(c, "gone")
    /\ UNCHANGED <<running, accepter, accepted, list, clientVars, joined, peer,
                   sock, castVars, stopVars, misused>>

FreeOwn(c) ==
    /\ Going /\ thread[c] = "free" /\ Usable(c)
    /\ mem' = [mem EXCEPT ![c] = "freed"]
    /\ GoTo(c, "gone")
    /\ UNCHANGED <<running, accepter, accepted, list, fd, alive, joined, peer,
                   sock, castVars, stopVars, misused>>

ClientThread(c) ==
    \/ Begin(c) \/ Handshake(c) \/ HandshakeFails(c) \/ Loop(c) \/ RecvFrame(c)
    \/ RecvFails(c) \/ Answer(c) \/ Leave(c) \/ CloseOwn(c) \/ Remove(c) \/ FreeOwn(c) \/ Misuse(c)

\* The other end closes its connection or stops reading from it.
PeerLeaves(c) ==
    /\ Going /\ peer[c] = "open"
    /\ peer' = [peer EXCEPT ![c] = "gone"]
    /\ UNCHANGED <<running, accepter, accepted, list, clientVars, thread,
                   joined, sock, castVars, stopVars, misused>>

-----------------------------------------------------------------------------
(* ws_server_broadcast, called by the writer thread, which is joined before *)
(* ws_server_stop is called.                                               *)

StartBroadcast ==
    /\ Going /\ caster = "idle" /\ stopper = "none" /\ frames < MaxFrames
    /\ caster' = "test" /\ pos' = 1 /\ frames' = frames + 1
    /\ UNCHANGED <<running, accepter, accepted, list, clientVars, thread,
                   joined, peer, sock, stopVars, misused>>

\* (slip) a client that is dropped stays in the list
DropUnlinksNot(c) ==
    /\ Close(c)
    /\ mem' = [mem EXCEPT ![c] = "dropped"]
    /\ UNCHANGED list

\* The client is unlinked, closed and freed, whatever its thread is doing.
Drop(c) ==
    /\ list' = Without(list, c)
    /\ Close(c)
    /\ mem' = [mem EXCEPT ![c] = "dropped"]

\* if (!c->alive)
CastTest ==
    /\ Going /\ caster = "test" /\ pos <= Len(list)
    /\ LET c == list[pos] IN
        \/ alive[c] /\ caster' = "send" /\ UNCHANGED <<list, sock, mem>>
        \/ ~alive[c] /\ Drop(c) /\ UNCHANGED caster
    /\ UNCHANGED <<running, accepter, accepted, fd, alive, thread, joined, peer,
                   pos, frames, stopVars, misused>>

\* ws_send_text: it succeeds towards a peer that reads, it may also succeed
\* towards one that has gone, it fails on a closed descriptor.
CastSend ==
    /\ Going /\ caster = "send" /\ Reached(list[pos]) # Nobody
    /\ pos' = pos + 1
    /\ caster' = "test"
    /\ UNCHANGED <<running, accepter, accepted, list, clientVars, thread,
                   joined, peer, sock, frames, stopVars, misused>>

\* (slip) the walk goes on behind the client after the dropped one
SendFailsAndAdvance ==
    /\ Going /\ caster = "send" /\ ~CanTalk(list[pos])
    /\ alive' = [alive EXCEPT ![list[pos]] = FALSE]
    /\ Drop(list[pos])
    /\ pos' = pos + 1
    /\ caster' = "test"
    /\ UNCHANGED <<running, accepter, accepted, fd, thread, joined, peer,
                   frames, stopVars, misused>>

\* The client is dropped; the walk goes on with the one that takes its place.
CastSendFails ==
    /\ Going /\ caster = "send" /\ ~CanTalk(list[pos])
    /\ LET c == list[pos] IN
        /\ alive' = [alive EXCEPT ![c] = FALSE]
        /\ Drop(c)
    /\ caster' = "test"
    /\ UNCHANGED <<running, accepter, accepted, fd, thread, joined, peer, pos,
                   frames, stopVars, misused>>

EndBroadcast ==
    /\ Going /\ caster = "test" /\ pos > Len(list)
    /\ caster' = "idle"
    /\ pos' = 1
    /\ UNCHANGED <<running, accepter, accepted, list, clientVars, thread,
                   joined, peer, sock, frames, stopVars, misused>>

Caster == CastTest \/ CastSend \/ CastSendFails \/ EndBroadcast

-----------------------------------------------------------------------------
(* ws_server_stop.                                                         *)

StopFlag ==
    /\ Going /\ stopper = "none" /\ caster = "idle"
    /\ running' = FALSE
    /\ stopper' = "join"
    /\ UNCHANGED <<accepter, accepted, list, clientVars, thread, joined, peer,
                   sock, castVars, doomed, misused>>

StopJoin ==
    /\ Going /\ stopper = "join" /\ accepter = "done"
    /\ stopper' = "grab"
    /\ UNCHANGED <<running, accepter, accepted, list, clientVars, thread,
                   joined, peer, sock, castVars, doomed, misused>>

StopGrab ==
    /\ Going /\ stopper = "grab"
    /\ doomed' = list /\ list' = <<>>
    /\ stopper' = "free"
    /\ UNCHANGED <<running, accepter, accepted, clientVars, thread, joined,
                   peer, sock, castVars, misused>>

\* One iteration of the loop that closes and frees the clients.
StopFreeClient ==
    /\ Going /\ stopper = "free" /\ doomed # <<>>
    /\ LET c == Head(doomed) IN
        /\ mem[c] = "live"
        /\ alive' = [alive EXCEPT ![c] = FALSE]
        /\ Close(c)
        /\ mem' = [mem EXCEPT ![c] = "dropped"]
    /\ doomed' = Tail(doomed)
    /\ UNCHANGED <<running, accepter, accepted, list, fd, thread, joined, peer,
                   castVars, stopper, misused>>

\* A thread was faster and has freed the client that stop is about to free.
StopMisuse ==
    /\ Going /\ stopper = "free" /\ doomed # <<>> /\ mem[Head(doomed)] # "live"
    /\ misused' = TRUE
    /\ UNCHANGED <<running, accepter, accepted, list, clientVars, thread,
                   joined, peer, sock, castVars, stopVars>>

StopEnd ==
    /\ Going /\ stopper = "free" /\ doomed = <<>>
    /\ stopper' = "done"
    /\ UNCHANGED <<running, accepter, accepted, list, clientVars, thread,
                   joined, peer, sock, castVars, doomed, misused>>

Stop == StopJoin \/ StopGrab \/ StopFreeClient \/ StopMisuse \/ StopEnd

\* main returns soon after; the detached threads end with the process.
Exit ==
    /\ Going /\ stopper = "done"
    /\ stopper' = "exited"
    /\ UNCHANGED <<running, accepter, accepted, list, clientVars, thread,
                   joined, peer, sock, castVars, doomed, misused>>

-----------------------------------------------------------------------------
Accepter ==
    \/ AcceptTop \/ AcceptFails \/ AcceptInsert
    \/ Spawn \/ SpawnFails \/ SpawnUndone \/ Detach \/ AccepterMisuse

\* The process has exited, or what it does is undefined.
Ended == ~Going /\ UNCHANGED vars

Next ==
    \/ Accepter \/ AcceptConn
    \/ \E c \in Conns : ClientThread(c) \/ PeerLeaves(c)
    \/ StartBroadcast \/ Caster
    \/ StopFlag \/ Stop \/ Exit
    \/ Ended

Spec == Init /\ [][Next]_vars

\* Every thread that can run does; accept, recv and send return, at the latest
\* when the 60 s of set_timeouts have passed.
Fairness ==
    /\ WF_vars(Accepter)
    /\ WF_vars(Caster)
    /\ WF_vars(Stop)
    /\ \A c \in Conns : WF_vars(ClientThread(c))

FairSpec == Spec /\ Fairness

-----------------------------------------------------------------------------
(* What the server promises.                                               *)

\* Every variable keeps its type, and the place of a broadcast stays in the list.
TypeOK ==
    /\ running \in BOOLEAN
    /\ accepter \in {"top", "accept", "insert", "spawn", "detach", "undo", "done"}
    /\ accepted \in 0..MaxConns
    /\ list \in Seq(Conns) /\ doomed \in Seq(Conns)
    /\ fd \in [Conns -> Fds \cup {0}] /\ alive \in [Conns -> BOOLEAN]
    /\ mem \in [Conns -> {"none", "live", "freed", "dropped"}]
    /\ thread \in [Conns -> {"none", "start", "handshake", "loop", "recv",
                             "answer", "leave", "close", "remove", "free", "gone"}]
    /\ joined \subseteq Conns
    /\ peer \in [Conns -> {"none", "open", "gone"}]
    /\ sock \in [Fds -> Conns \cup {Nobody}]
    /\ caster \in {"idle", "test", "send"}
    /\ pos \in 1..Len(list) + 1 /\ frames \in 0..MaxFrames
    /\ stopper \in {"none", "join", "grab", "free", "done", "exited"}
    /\ misused \in BOOLEAN

\* A broadcast never walks over a client that was freed, and meets each client
\* once, although three kinds of threads free clients.
ListIsLive ==
    /\ \A i, j \in DOMAIN list : i # j => list[i] # list[j]
    /\ \A c \in Elements(list) : mem[c] = "live"

\* A client that is allocated is in the list, with stop, or in the hands of the
\* thread that is about to insert or to free it.
ClientsAreHeld ==
    \A c \in Conns : mem[c] = "live" =>
        \/ c \in Elements(list) \cup Elements(doomed)
        \/ thread[c] = "free"
        \/ accepter = "insert" /\ c = accepted

\* A descriptor that is open belongs to a client that is allocated
\* and will be closed by whoever frees that client.
DescriptorsAreHeld ==
    \A d \in Fds : sock[d] # Nobody => mem[sock[d]] = "live" /\ fd[sock[d]] = d

\* No client and no descriptor is leaked, whoever drops a client and however its
\* thread and stop are interleaved with that (ws_server.c 536, 662, 684).
NothingLeaks == ClientsAreHeld /\ DescriptorsAreHeld

\* Freed memory is used in three ways and no other: a broadcast or stop has freed
\* a client whose thread, or accept_thread, still had it; stop has freed the
\* server; or accept_thread detaches a thread that has ended by then and freed the
\* client that holds its handle (ws_server.c 478 before 581).
MisuseHasCause ==
    misused => \/ \E c \in Conns : mem[c] = "dropped"
               \/ stopper \in {"free", "done"}
               \/ accepter = "detach" /\ mem[accepted] = "freed"

Defined(F) == F \/ misused

\* ws_server_stop returns: the accept thread comes back from accept.
StopReturns == stopper = "join" ~> Defined(stopper \in {"done", "exited"})

\* A broadcast ends and gives the mutex back, whatever the clients do.
BroadcastEnds == caster # "idle" ~> Defined(caster = "idle")

\* docs/websocket_api.md: "to every connected client".  A client that has joined
\* and whose other end is still there and reading is in the list, and the
\* descriptor the server uses for it is its own.
ConnectedIsServed ==
    \A c \in joined : running /\ peer[c] = "open" /\ ~misused =>
        c \in Elements(list) /\ alive[c] /\ Reached(c) = c
=============================================================================
