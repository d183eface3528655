---------------------------- MODULE WsServerProofs ----------------------------
(***************************************************************************)
(* Theorems about WsServer for every number of connections, descriptors    *)
(* and broadcasts and every set of faults: types, that the list a          *)
(* broadcast walks over never holds a client that was freed, that nothing  *)
(* is leaked, and in which ways alone freed memory is used.                *)
(***************************************************************************)
EXTENDS WsServer, SequenceTheorems, TLAPS

-----------------------------------------------------------------------------
(* Lists.                                                                  *)

NoDuplicates(s) == \A i, j \in DOMAIN s : i # j => s[i] # s[j]

\* Taking a client out of a list that holds it once.
LEMMA Unlinked ==
    ASSUME NEW s \in Seq(Conns), NoDuplicates(s), NEW c
    PROVE  /\ Without(s, c) \in Seq(Conns) /\ NoDuplicates(Without(s, c))
           /\ Elements(Without(s, c)) = Elements(s) \ {c}
           /\ Len(Without(s, c)) \in Nat
           /\ c \in Elements(s) => Len(Without(s, c)) = Len(s) - 1
<1>1. CASE \E i \in DOMAIN s : s[i] = c
  <2>1. PICK k \in DOMAIN s : s[k] = c /\ k = CHOOSE i \in DOMAIN s : s[i] = c
      BY <1>1
  <2> DEFINE n == Len(s)
             front == SubSeq(s, 1, k - 1)
             back  == SubSeq(s, k + 1, n)
             w == front \o back
  <2>2. Without(s, c) = w
      BY <1>1, <2>1, Zenon DEF Without
  <2>3. n \in Nat /\ k \in 1..n /\ DOMAIN s = 1..n
      BY <2>1
  <2>4. /\ front \in Seq(Conns) /\ Len(front) = k - 1
        /\ \A i \in 1..k - 1 : front[i] = s[i]
      BY <2>3
  <2>5. /\ back \in Seq(Conns) /\ Len(back) = n - k
        /\ \A i \in 1..n - k : back[i] = s[k + i]
      BY <2>3
  <2> HIDE DEF front, back
  <2>6. /\ w \in Seq(Conns) /\ Len(w) = n - 1 /\ DOMAIN w = 1..n - 1
        /\ \A i \in 1..n - 1 : w[i] = IF i < k THEN s[i] ELSE s[i + 1]
    <3>1. /\ w \in Seq(Conns) /\ Len(w) = Len(front) + Len(back)
          /\ \A i \in 1..Len(front) + Len(back) :
                 w[i] = IF i <= Len(front) THEN front[i] ELSE back[i - Len(front)]
        BY <2>4, <2>5, ConcatProperties
    <3> HIDE DEF w
    <3>2. Len(w) = n - 1 /\ DOMAIN w = 1..n - 1
        BY <3>1, <2>3, <2>4, <2>5
    <3>3. ASSUME NEW i \in 1..n - 1 PROVE w[i] = IF i < k THEN s[i] ELSE s[i + 1]
      <4>1. w[i] = IF i <= Len(front) THEN front[i] ELSE back[i - Len(front)]
          BY <3>1, <2>3, <2>4, <2>5
      <4>2. CASE i < k
          BY <4>1, <4>2, <2>3, <2>4
      <4>3. CASE ~(i < k)
        <5>1. i - (k - 1) \in 1..n - k /\ k + (i - (k - 1)) = i + 1
            BY <4>3, <2>3
        <5>2. w[i] = back[i - (k - 1)]
            BY <4>1, <4>3, <2>3, <2>4
        <5> QED BY <4>3, <5>1, <5>2, <2>5
      <4> QED BY <4>2, <4>3
    <3> QED BY <3>1, <3>2, <3>3
  <2> HIDE DEF w
  <2>7. NoDuplicates(w)
    <3> SUFFICES ASSUME NEW i \in 1..n - 1, NEW j \in 1..n - 1, i # j
                 PROVE  w[i] # w[j]
        BY <2>6 DEF NoDuplicates
    <3> DEFINE at(m) == IF m < k THEN m ELSE m + 1
    <3>1. at(i) \in 1..n /\ at(j) \in 1..n /\ at(i) # at(j)
        BY <2>3
    <3>2. w[i] = s[at(i)] /\ w[j] = s[at(j)]
        BY <2>6
    <3> HIDE DEF at
    <3> QED BY <3>1, <3>2, <2>3 DEF NoDuplicates
  <2>8. Elements(w) = Elements(s) \ {c}
    <3>1. ASSUME NEW d \in Elements(w) PROVE d \in Elements(s) /\ d # c
      <4>1. PICK i \in 1..n - 1 : w[i] = d
          BY <3>1, <2>6 DEF Elements
      <4>2. PICK j \in 1..n : j # k /\ s[j] = d
          BY <4>1, <2>3, <2>6
      <4> QED BY <4>2, <2>1, <2>3 DEF Elements, NoDuplicates
    <3>2. ASSUME NEW d \in Elements(s), d # c PROVE d \in Elements(w)
      <4>1. PICK j \in 1..n : j # k /\ s[j] = d
          BY <3>2, <2>1, <2>3 DEF Elements
      <4>2. \E i \in 1..n - 1 : w[i] = d
        <5>1. CASE j < k
            BY <4>1, <5>1, <2>3, <2>6
        <5>2. CASE j > k
          <6>1. j - 1 \in 1..n - 1 /\ ~(j - 1 < k) /\ (j - 1) + 1 = j
              BY <5>2, <2>3
          <6> QED BY <4>1, <6>1, <2>6
        <5> QED BY <4>1, <5>1, <5>2, <2>3
      <4> QED BY <4>2, <2>6 DEF Elements
    <3> QED BY <3>1, <3>2
  <2> QED BY <2>2, <2>3, <2>6, <2>7, <2>8
<1>2. CASE ~\E i \in DOMAIN s : s[i] = c
  <2>1. Without(s, c) = s
      BY <1>2, Zenon DEF Without
  <2>2. c \notin Elements(s)
      BY <1>2 DEF Elements
  <2> QED BY <2>1, <2>2
<1> QED BY <1>1, <1>2

\* Putting a new client at the head of the list.
LEMMA Linked ==
    ASSUME NEW s \in Seq(Conns), NoDuplicates(s), NEW c \in Conns, c \notin Elements(s)
    PROVE  /\ <<c>> \o s \in Seq(Conns) /\ NoDuplicates(<<c>> \o s)
           /\ Elements(<<c>> \o s) = Elements(s) \cup {c}
<1> DEFINE n == Len(s)
           w == <<c>> \o s
<1>1. n \in Nat /\ DOMAIN s = 1..n
    OBVIOUS
<1>2. /\ w \in Seq(Conns) /\ Len(w) = n + 1 /\ DOMAIN w = 1..n + 1
      /\ w[1] = c /\ \A i \in 2..n + 1 : w[i] = s[i - 1]
    BY <1>1
<1>3. \A i \in 1..n : w[i + 1] = s[i] /\ s[i] # c
    BY <1>1, <1>2 DEF Elements
<1> HIDE DEF w
<1>4. NoDuplicates(w)
  <2> SUFFICES ASSUME NEW i \in 1..n + 1, NEW j \in 1..n + 1, i # j
               PROVE  w[i] # w[j]
      BY <1>2 DEF NoDuplicates
  <2>1. CASE i = 1 \/ j = 1
      BY <2>1, <1>1, <1>2, <1>3
  <2>2. CASE i # 1 /\ j # 1
    <3>1. i - 1 \in 1..n /\ j - 1 \in 1..n /\ i - 1 # j - 1
        BY <2>2, <1>1
    <3> QED BY <2>2, <3>1, <1>1, <1>2 DEF NoDuplicates
  <2> QED BY <2>1, <2>2
<1>5. Elements(w) = Elements(s) \cup {c}
  <2>1. ASSUME NEW d \in Elements(w) PROVE d \in Elements(s) \cup {c}
    <3>1. PICK i \in 1..n + 1 : w[i] = d
        BY <2>1, <1>2 DEF Elements
    <3>2. CASE i = 1
        BY <3>1, <3>2, <1>2
    <3>3. CASE i # 1
      <4>1. i - 1 \in 1..n /\ s[i - 1] = d
          BY <3>1, <3>3, <1>1, <1>2
      <4> QED BY <4>1, <1>1 DEF Elements
    <3> QED BY <3>2, <3>3
  <2>2. ASSUME NEW d \in Elements(s) \cup {c} PROVE d \in Elements(w)
    <3>1. CASE d = c
        BY <3>1, <1>1, <1>2 DEF Elements
    <3>2. CASE d \in Elements(s)
      <4>1. PICK i \in 1..n : s[i] = d
          BY <3>2, <1>1 DEF Elements
      <4>2. i + 1 \in 1..n + 1 /\ w[i + 1] = d
          BY <4>1, <1>1, <1>3
      <4> QED BY <4>2, <1>2 DEF Elements
    <3> QED BY <2>2, <3>1, <3>2
  <2> QED BY <2>1, <2>2
<1> QED BY <1>2, <1>4, <1>5 DEF w

-----------------------------------------------------------------------------
(* The invariant.                                                          *)

\* Who may be in the list, and what the accept thread, a leaving client, a
\* broadcast and stop owe to it.
Owned ==
    /\ NoDuplicates(list)
    /\ \A c \in Elements(list) : mem[c] = "live" /\ c <= accepted
    /\ accepter = "insert" =>
           /\ accepted \in Conns /\ accepted \notin Elements(list)
           /\ mem[accepted] = "live" /\ thread[accepted] = "none"
    /\ \A c \in Conns : c > accepted => thread[c] = "none"
    /\ \A c \in Conns : thread[c] = "free" => c \notin Elements(list)
    /\ stopper \in {"grab", "free", "done", "exited"} => accepter = "done"
    /\ stopper \in {"free", "done", "exited"} => list = <<>>
    /\ stopper # "none" => caster = "idle"
    /\ caster = "idle" => pos = 1
    /\ caster = "send" => pos <= Len(list)

\* The part of the state Owned is about, but for the threads.
ownVars == <<list, mem, accepted, accepter, stopper, caster, pos>>

\* A client thread that moves on, with nothing else of this changed.
LEMMA ThreadMoves ==
    ASSUME TypeOK, Owned, UNCHANGED ownVars, NEW c \in Conns, NEW place,
           GoTo(c, place), thread[c] # "none",
           place = "free" => c \notin Elements(list)
    PROVE  Owned'
<1>1. \A d \in Conns : thread'[d] = IF d = c THEN place ELSE thread[d]
    BY DEF TypeOK, GoTo
<1>2. /\ list' = list /\ mem' = mem /\ accepted' = accepted /\ accepter' = accepter
      /\ stopper' = stopper /\ caster' = caster /\ pos' = pos
    BY DEF ownVars
<1>3. accepter = "insert" => accepted \in Conns /\ accepted # c
    BY DEF Owned
<1>4. \A d \in Conns : d > accepted => d # c
    BY DEF Owned
<1> QED BY <1>1, <1>2, <1>3, <1>4 DEF Owned

\* Nothing of it changes.
LEMMA NothingMoves == ASSUME Owned, UNCHANGED <<ownVars, thread>> PROVE Owned'
BY DEF Owned, ownVars

LEMMA OwnedInit == Init => Owned
BY DEF Init, Owned, NoDuplicates, Elements

LEMMA ClientKeepsOwned ==
    ASSUME TypeOK, Owned, NEW c \in Conns, ClientThread(c)
    PROVE  Owned'
<1>1. CASE Handshake(c)
    BY <1>1, ThreadMoves DEF Handshake, ownVars, clientVars, castVars, stopVars
<1>2. CASE HandshakeFails(c)
    BY <1>2, ThreadMoves DEF HandshakeFails, ownVars, clientVars, castVars, stopVars
<1>3. CASE Loop(c)
    BY <1>3, ThreadMoves DEF Loop, ownVars, clientVars, castVars, stopVars
<1>4. CASE RecvFrame(c)
    BY <1>4, ThreadMoves DEF RecvFrame, ownVars, clientVars, castVars, stopVars
<1>5. CASE RecvFails(c)
    BY <1>5, ThreadMoves DEF RecvFails, ownVars, clientVars, castVars, stopVars
<1>6. CASE Answer(c)
    BY <1>6, ThreadMoves DEF Answer, ownVars, clientVars, castVars, stopVars
<1>7. CASE Leave(c)
    BY <1>7, ThreadMoves DEF Leave, ownVars, clientVars, castVars, stopVars
<1>8. CASE CloseOwn(c)
    BY <1>8, ThreadMoves DEF CloseOwn, ownVars, clientVars, castVars, stopVars
<1>9. CASE Remove(c)
  <2>1. \A d \in Conns : thread'[d] = IF d = c THEN "free" ELSE thread[d]
      BY <1>9 DEF Remove, TypeOK, GoTo
  <2>2. list' = Without(list, c) /\ thread[c] = "remove" /\ caster = "idle"
      BY <1>9 DEF Remove
  <2>3. /\ mem' = mem /\ accepted' = accepted /\ accepter' = accepter
        /\ stopper' = stopper /\ caster' = caster /\ pos' = pos
      BY <1>9 DEF Remove, clientVars, castVars, stopVars
  <2>4. NoDuplicates(list') /\ Elements(list') = Elements(list) \ {c}
      BY <2>2, Unlinked DEF TypeOK, Owned
  <2>5. list = <<>> => list' = <<>>
      BY <2>2 DEF Without
  <2>6. accepter = "insert" => accepted # c
      BY <2>2 DEF Owned
  <2> QED BY <2>1, <2>2, <2>3, <2>4, <2>5, <2>6 DEF Owned
<1>10. CASE FreeOwn(c)
  <2>1. /\ \A d \in Conns : thread'[d] = IF d = c THEN "gone" ELSE thread[d]
        /\ \A d \in Conns : mem'[d] = IF d = c THEN "freed" ELSE mem[d]
      BY <1>10 DEF FreeOwn, TypeOK, GoTo
  <2>2. thread[c] = "free" /\ c \notin Elements(list)
      BY <1>10 DEF FreeOwn, Owned
  <2>3. /\ list' = list /\ accepted' = accepted /\ accepter' = accepter
        /\ stopper' = stopper /\ caster' = caster /\ pos' = pos
      BY <1>10 DEF FreeOwn, castVars, stopVars
  <2>4. accepter = "insert" => accepted # c
      BY <2>2 DEF Owned
  <2>5. c <= accepted
      BY <2>2 DEF Owned, TypeOK, Conns
  <2>6. \A d \in Elements(list) : d \in Conns
      BY DEF TypeOK, Elements
  <2> QED BY <2>1, <2>2, <2>3, <2>4, <2>5, <2>6 DEF Owned
<1>11. CASE Misuse(c)
    BY <1>11, NothingMoves DEF Misuse, ownVars, clientVars, castVars, stopVars
<1>12. CASE Begin(c)
    BY <1>12, ThreadMoves DEF Begin, ownVars, clientVars, castVars, stopVars
<1> QED BY <1>1, <1>2, <1>3, <1>4, <1>5, <1>6, <1>7, <1>8, <1>9, <1>10, <1>11, <1>12
       DEF ClientThread

LEMMA ListInConns == ASSUME TypeOK PROVE \A c \in Elements(list) : c \in Conns
BY DEF TypeOK, Elements

LEMMA AccepterKeepsOwned ==
    ASSUME TypeOK, Owned, Accepter \/ AcceptConn
    PROVE  Owned'
<1>1. CASE AcceptTop \/ AcceptFails \/ SpawnUndone \/ Detach
  <2>1. /\ accepter' \in {"top", "accept", "done"} /\ accepter # "done"
        /\ list' = list /\ mem' = mem /\ thread' = thread /\ accepted' = accepted
        /\ stopper' = stopper /\ caster' = caster /\ pos' = pos
      BY <1>1 DEF AcceptTop, AcceptFails, SpawnUndone, Detach, clientVars, castVars, stopVars
  <2> QED BY <2>1 DEF Owned
<1>2. CASE AcceptInsert
  <2>1. /\ accepter = "insert" /\ accepter' = "spawn" /\ caster = "idle"
        /\ list' = <<accepted>> \o list
        /\ mem' = mem /\ thread' = thread /\ accepted' = accepted
        /\ stopper' = stopper /\ caster' = caster /\ pos' = pos
      BY <1>2 DEF AcceptInsert, clientVars, castVars, stopVars
  <2>2. /\ accepted \in Conns /\ accepted \notin Elements(list)
        /\ mem[accepted] = "live" /\ thread[accepted] = "none"
      BY <2>1 DEF Owned
  <2>3. NoDuplicates(list') /\ Elements(list') = Elements(list) \cup {accepted}
      BY <2>1, <2>2, Linked DEF TypeOK, Owned
  <2>4. stopper \notin {"grab", "free", "done", "exited"}
      BY <2>1 DEF Owned
  <2> QED BY <2>1, <2>2, <2>3, <2>4 DEF Owned, Conns
<1>3. CASE Spawn \/ SpawnFails
  <2>1. /\ accepter = "spawn" /\ accepter' \in {"detach", "undo"}
        /\ \E place \in {"start", "leave"} :
               thread' = [thread EXCEPT ![accepted] = place]
        /\ list' = list /\ mem' = mem /\ accepted' = accepted
        /\ stopper' = stopper /\ caster' = caster /\ pos' = pos
      BY <1>3 DEF Spawn, SpawnFails, clientVars, castVars, stopVars
  <2>2. \A d \in Conns : \/ thread'[d] = thread[d]
                         \/ d = accepted /\ thread'[d] \in {"start", "leave"}
      BY <2>1 DEF TypeOK
  <2>3. \A d \in Conns : d > accepted => d # accepted
      BY DEF TypeOK, Conns
  <2> QED BY <2>1, <2>2, <2>3 DEF Owned
<1>4. CASE AcceptConn
  <2>1. /\ accepter = "accept" /\ accepter' \in {"insert", "top"}
        /\ accepted < MaxConns /\ accepted' = accepted + 1
        /\ list' = list /\ thread' = thread
        /\ stopper' = stopper /\ caster' = caster /\ pos' = pos
      BY <1>4 DEF AcceptConn, clientVars, castVars, stopVars
  <2>2. /\ accepter' = "insert" => mem' = [mem EXCEPT ![accepted + 1] = "live"]
        /\ accepter' = "top" => mem' = mem
      BY <1>4 DEF AcceptConn, clientVars
  <2>3. accepted \in Nat /\ accepted + 1 \in Conns
      BY <2>1, MaxConnsAssumption DEF TypeOK, Conns
  <2>4. accepted + 1 \notin Elements(list) /\ thread[accepted + 1] = "none"
      BY <2>3, ListInConns DEF Owned, Conns
  <2>5. \A d \in Conns : mem[d] = "live" => mem'[d] = "live"
      BY <2>1, <2>2 DEF TypeOK
  <2>6. accepter' = "insert" => mem'[accepted + 1] = "live"
      BY <2>2, <2>3 DEF TypeOK
  <2>7. \A c \in Elements(list) : mem'[c] = "live" /\ c <= accepted + 1
      BY <2>3, <2>5, ListInConns DEF Owned, Conns
  <2>8. \A c \in Conns : c > accepted + 1 => thread[c] = "none"
      BY <2>3 DEF Owned, Conns
  <2>9. stopper \notin {"grab", "free", "done", "exited"}
      BY <2>1 DEF Owned
  <2> QED BY <2>1, <2>3, <2>4, <2>6, <2>7, <2>8, <2>9 DEF Owned
<1>5. CASE AccepterMisuse
    BY <1>5, NothingMoves DEF AccepterMisuse, ownVars, clientVars, castVars, stopVars
<1> QED BY <1>1, <1>2, <1>3, <1>4, <1>5 DEF Accepter

\* What a drop leaves: the list without the client, and nobody else freed.
LEMMA DropKeepsOwned ==
    ASSUME TypeOK, Owned, caster # "idle", NEW c, c = list[pos], pos <= Len(list),
           Drop(c), caster' = "test",
           UNCHANGED <<accepted, accepter, stopper, thread, pos>>
    PROVE  Owned'
<1>1. c \in Elements(list) /\ c \in Conns
    BY DEF TypeOK, Elements
<1>2. /\ list' = Without(list, c)
      /\ \A d \in Conns : mem'[d] = IF d = c THEN "dropped" ELSE mem[d]
    BY <1>1 DEF Drop, TypeOK
<1>3. NoDuplicates(list') /\ Elements(list') = Elements(list) \ {c}
    BY <1>2, Unlinked DEF TypeOK, Owned
<1>4. accepter = "insert" => accepted # c
    BY <1>1 DEF Owned
<1>5. stopper = "none"
    BY DEF Owned
<1> QED BY <1>2, <1>3, <1>4, <1>5, ListInConns DEF Owned

LEMMA CasterKeepsOwned ==
    ASSUME TypeOK, Owned, Caster \/ StartBroadcast
    PROVE  Owned'
<1>1. CASE StartBroadcast
  <2>1. /\ stopper = "none" /\ caster' = "test" /\ pos' = 1
        /\ list' = list /\ mem' = mem /\ thread' = thread /\ accepted' = accepted
        /\ accepter' = accepter /\ stopper' = stopper
      BY <1>1 DEF StartBroadcast, clientVars, stopVars
  <2> QED BY <2>1 DEF Owned
<1>2. CASE CastTest
  <2>1. /\ caster = "test" /\ pos <= Len(list) /\ pos' = pos /\ thread' = thread
        /\ accepted' = accepted /\ accepter' = accepter /\ stopper' = stopper
      BY <1>2 DEF CastTest, stopVars
  <2>2. CASE list' = list /\ mem' = mem /\ caster' = "send"
      BY <2>1, <2>2 DEF Owned
  <2>3. CASE Drop(list[pos]) /\ caster' = caster
      BY <2>1, <2>3, DropKeepsOwned
  <2> QED BY <1>2, <2>2, <2>3 DEF CastTest
<1>3. CASE CastSend
  <2>1. /\ caster = "send" /\ caster' = "test" /\ list' = list /\ mem' = mem
        /\ thread' = thread /\ accepted' = accepted
        /\ accepter' = accepter /\ stopper' = stopper
      BY <1>3 DEF CastSend, clientVars, stopVars
  <2> QED BY <2>1 DEF Owned
<1>4. CASE CastSendFails
  <2>1. /\ caster = "send" /\ caster' = "test" /\ pos' = pos /\ thread' = thread
        /\ accepted' = accepted /\ accepter' = accepter /\ stopper' = stopper
        /\ Drop(list[pos])
      BY <1>4 DEF CastSendFails, stopVars
  <2>2. pos <= Len(list)
      BY <2>1 DEF Owned
  <2> QED BY <2>1, <2>2, DropKeepsOwned
<1>5. CASE EndBroadcast
  <2>1. /\ caster = "test" /\ caster' = "idle" /\ pos' = 1
        /\ list' = list /\ mem' = mem /\ thread' = thread /\ accepted' = accepted
        /\ accepter' = accepter /\ stopper' = stopper
      BY <1>5 DEF EndBroadcast, clientVars, stopVars
  <2> QED BY <2>1 DEF Owned
<1> QED BY <1>1, <1>2, <1>3, <1>4, <1>5 DEF Caster

LEMMA StopKeepsOwned ==
    ASSUME TypeOK, Owned, StopFlag \/ Stop \/ Exit
    PROVE  Owned'
<1>1. CASE StopFlag \/ StopJoin
  <2>1. /\ stopper' \in {"join", "grab"} /\ (stopper' = "grab" => accepter = "done")
        /\ caster = "idle"
        /\ UNCHANGED <<list, mem, accepted, accepter, caster, pos, thread>>
      BY <1>1 DEF StopFlag, StopJoin, clientVars, castVars, Owned
  <2> QED BY <2>1 DEF Owned
<1>2. CASE StopGrab
  <2>1. /\ stopper = "grab" /\ stopper' = "free" /\ list' = <<>>
        /\ UNCHANGED <<mem, accepted, accepter, caster, pos, thread>>
      BY <1>2 DEF StopGrab, clientVars, castVars
  <2>2. NoDuplicates(list') /\ Elements(list') = {}
      BY <2>1 DEF NoDuplicates, Elements
  <2>3. accepter = "done" /\ caster = "idle" /\ pos = 1
      BY <2>1 DEF Owned
  <2> QED BY <2>1, <2>2, <2>3 DEF Owned
<1>3. CASE StopFreeClient
  <2>1. /\ stopper = "free" /\ UNCHANGED <<list, accepted, accepter, caster, pos,
                                           thread, stopper>>
      BY <1>3 DEF StopFreeClient, castVars
  <2>2. list = <<>> /\ accepter = "done" /\ Elements(list) = {}
      BY <2>1 DEF Owned, Elements
  <2> QED BY <2>1, <2>2 DEF Owned
<1>4. CASE StopMisuse
    BY <1>4, NothingMoves DEF StopMisuse, ownVars, clientVars, castVars, stopVars
<1>5. CASE StopEnd \/ Exit
  <2>1. /\ stopper \in {"free", "done"} /\ stopper' \in {"done", "exited"}
        /\ UNCHANGED <<list, mem, accepted, accepter, caster, pos, thread>>
      BY <1>5 DEF StopEnd, Exit, clientVars, castVars
  <2> QED BY <2>1 DEF Owned
<1> QED BY <1>1, <1>2, <1>3, <1>4, <1>5 DEF Stop

LEMMA OwnedStep == ASSUME TypeOK, Owned, [Next]_vars PROVE Owned'
<1>1. ASSUME NEW c \in Conns, PeerLeaves(c) PROVE Owned'
    BY <1>1, NothingMoves DEF PeerLeaves, ownVars, clientVars, castVars, stopVars
<1>2. CASE UNCHANGED vars
    BY <1>2, NothingMoves DEF vars, ownVars, clientVars, castVars, stopVars
<1> QED BY <1>1, <1>2, ClientKeepsOwned, AccepterKeepsOwned, CasterKeepsOwned,
           StopKeepsOwned DEF Next, Ended

-----------------------------------------------------------------------------
(* Type correctness.                                                       *)

LEMMA TypeInit == Init => TypeOK
<1> SUFFICES ASSUME Init PROVE TypeOK
    OBVIOUS
<1>1. list \in Seq(Conns) /\ doomed \in Seq(Conns) /\ pos \in 1..Len(list) + 1
    BY DEF Init
<1>2. accepted \in 0..MaxConns /\ frames \in 0..MaxFrames
    BY MaxConnsAssumption, MaxFramesAssumption DEF Init
<1>5. running \in BOOLEAN /\ misused \in BOOLEAN
    BY Zenon DEF Init
<1>3. fd \in [Conns -> Fds \cup {0}] /\ sock \in [Fds -> Conns \cup {Nobody}]
    BY DEF Init
<1>4. alive \in [Conns -> BOOLEAN]
    BY DEF Init
<1> QED BY <1>1, <1>2, <1>3, <1>4, <1>5 DEF Init, TypeOK

LEMMA ClientKeepsTypes ==
    ASSUME TypeOK, Owned, NEW c \in Conns, ClientThread(c)
    PROVE  TypeOK'
<1>1. CASE Handshake(c)
    BY <1>1 DEF Handshake, TypeOK, GoTo, clientVars, castVars, stopVars
<1>2. CASE HandshakeFails(c)
    BY <1>2 DEF HandshakeFails, TypeOK, GoTo, clientVars, castVars, stopVars
<1>3. CASE Loop(c)
    BY <1>3 DEF Loop, TypeOK, GoTo, clientVars, castVars, stopVars
<1>4. CASE RecvFrame(c)
    BY <1>4 DEF RecvFrame, TypeOK, GoTo, clientVars, castVars, stopVars
<1>5. CASE RecvFails(c)
    BY <1>5 DEF RecvFails, TypeOK, GoTo, clientVars, castVars, stopVars
<1>6. CASE Answer(c)
    BY <1>6 DEF Answer, TypeOK, GoTo, clientVars, castVars, stopVars
<1>7. CASE Leave(c)
    BY <1>7 DEF Leave, TypeOK, GoTo, clientVars, castVars, stopVars
<1>8. CASE CloseOwn(c)
    BY <1>8 DEF CloseOwn, TypeOK, GoTo, clientVars, castVars, stopVars, Close, Nobody
<1>9. CASE Remove(c)
  <2>1. list' \in Seq(Conns) /\ Len(list') \in Nat
      BY <1>9, Unlinked DEF Remove, TypeOK, Owned
  <2>2. pos' = 1
      BY <1>9 DEF Remove, castVars, Owned
  <2>3. pos' \in 1..Len(list') + 1
      BY <2>1, <2>2
  <2> QED BY <1>9, <2>1, <2>3
         DEF Remove, TypeOK, GoTo, clientVars, castVars, stopVars
<1>10. CASE FreeOwn(c)
    BY <1>10 DEF FreeOwn, TypeOK, GoTo, clientVars, castVars, stopVars
<1>11. CASE Misuse(c)
    BY <1>11 DEF Misuse, TypeOK, GoTo, clientVars, castVars, stopVars
<1>12. CASE Begin(c)
    BY <1>12 DEF Begin, TypeOK, GoTo, clientVars, castVars, stopVars
<1> QED BY <1>1, <1>2, <1>3, <1>4, <1>5, <1>6, <1>7, <1>8, <1>9, <1>10, <1>11, <1>12
       DEF ClientThread

LEMMA AccepterKeepsTypes ==
    ASSUME TypeOK, Owned, Accepter \/ AcceptConn
    PROVE  TypeOK'
<1>1. CASE AcceptTop
    BY <1>1 DEF AcceptTop, TypeOK, GoTo, clientVars, castVars, stopVars
<1>2. CASE AcceptFails
    BY <1>2 DEF AcceptFails, TypeOK, GoTo, clientVars, castVars, stopVars
<1>3. CASE SpawnUndone
    BY <1>3 DEF SpawnUndone, TypeOK, GoTo, clientVars, castVars, stopVars
<1>4. CASE AcceptInsert
  <2>1. accepted \in Conns /\ accepted \notin Elements(list)
      BY <1>4 DEF AcceptInsert, Owned
  <2>2. list' \in Seq(Conns)
      BY <1>4, <2>1, Linked DEF AcceptInsert, TypeOK, Owned
  <2>3. pos' = 1 /\ Len(list') \in Nat
      BY <1>4, <2>2 DEF AcceptInsert, castVars, Owned
  <2>4. pos' \in 1..Len(list') + 1
      BY <2>3
  <2> QED BY <1>4, <2>2, <2>4
         DEF AcceptInsert, TypeOK, clientVars, castVars, stopVars
<1>5. CASE Spawn
    BY <1>5 DEF Spawn, TypeOK, GoTo, clientVars, castVars, stopVars
<1>6. CASE SpawnFails
    BY <1>6 DEF SpawnFails, TypeOK, GoTo, clientVars, castVars, stopVars
<1>7. CASE AcceptConn
  <2>1. accepted' \in 0..MaxConns /\ accepted + 1 \in Conns
      BY <1>7, MaxConnsAssumption DEF AcceptConn, TypeOK, Conns
  <2>2. peer' \in [Conns -> {"none", "open", "gone"}]
      BY <1>7 DEF AcceptConn, TypeOK
  <2>3. CASE accepter' = "top" /\ UNCHANGED <<clientVars, sock>>
      BY <1>7, <2>1, <2>2, <2>3
         DEF AcceptConn, TypeOK, clientVars, castVars, stopVars
  <2>4. CASE accepter' = "insert"
    <3>1. PICK d \in Fds : /\ sock' = [sock EXCEPT ![d] = accepted + 1]
                           /\ fd' = [fd EXCEPT ![accepted + 1] = d]
                           /\ alive' = [alive EXCEPT ![accepted + 1] = TRUE]
                           /\ mem' = [mem EXCEPT ![accepted + 1] = "live"]
        BY <1>7, <2>4 DEF AcceptConn, FreeFds
    <3>2. /\ sock' \in [Fds -> Conns \cup {Nobody}] /\ fd' \in [Conns -> Fds \cup {0}]
          /\ mem' \in [Conns -> {"none", "live", "freed", "dropped"}]
        BY <2>1, <3>1 DEF TypeOK
    <3>3. alive' \in [Conns -> BOOLEAN]
        BY <3>1 DEF TypeOK
    <3> QED BY <1>7, <2>1, <2>2, <2>4, <3>2, <3>3
           DEF AcceptConn, TypeOK, castVars, stopVars
  <2> QED BY <1>7, <2>3, <2>4 DEF AcceptConn
<1>8. CASE Detach
    BY <1>8 DEF Detach, TypeOK, clientVars, castVars, stopVars
<1>9. CASE AccepterMisuse
    BY <1>9 DEF AccepterMisuse, TypeOK, clientVars, castVars, stopVars
<1> QED BY <1>1, <1>2, <1>3, <1>4, <1>5, <1>6, <1>7, <1>8, <1>9 DEF Accepter

\* The place of a broadcast stays in the list when the client there is dropped.
LEMMA DropKeepsPlace ==
    ASSUME TypeOK, Owned, NEW c, c = list[pos], pos <= Len(list), Drop(c), pos' = pos
    PROVE  /\ list' \in Seq(Conns) /\ pos' \in 1..Len(list') + 1
           /\ mem' \in [Conns -> {"none", "live", "freed", "dropped"}]
           /\ sock' \in [Fds -> Conns \cup {Nobody}]
<1>1. c \in Elements(list)
    BY DEF TypeOK, Elements
<1>2. list' \in Seq(Conns) /\ Len(list') = Len(list) - 1
    BY <1>1, Unlinked DEF Drop, TypeOK, Owned
<1>3. pos \in 1..Len(list) /\ Len(list) \in Nat
    BY DEF TypeOK
<1>4. pos' \in 1..Len(list') + 1
    BY <1>2, <1>3
<1> QED BY <1>2, <1>4 DEF Drop, Close, TypeOK

LEMMA CasterKeepsTypes ==
    ASSUME TypeOK, Owned, Caster \/ StartBroadcast
    PROVE  TypeOK'
<1>1. CASE StartBroadcast
  <2>1. frames' \in 0..MaxFrames /\ pos' \in 1..Len(list') + 1
      BY <1>1, MaxFramesAssumption DEF StartBroadcast, TypeOK
  <2> QED BY <1>1, <2>1 DEF StartBroadcast, TypeOK, clientVars, stopVars
<1>2. CASE CastTest
  <2>1. CASE UNCHANGED <<list, sock, mem>>
      BY <1>2, <2>1 DEF CastTest, TypeOK, stopVars
  <2>2. CASE Drop(list[pos]) /\ UNCHANGED caster
    <3>1. /\ list' \in Seq(Conns) /\ pos' \in 1..Len(list') + 1
          /\ mem' \in [Conns -> {"none", "live", "freed", "dropped"}]
          /\ sock' \in [Fds -> Conns \cup {Nobody}]
        BY <1>2, <2>2, DropKeepsPlace DEF CastTest
    <3> QED BY <1>2, <2>2, <3>1 DEF CastTest, TypeOK, stopVars
  <2> QED BY <1>2, <2>1, <2>2 DEF CastTest
<1>3. CASE CastSend
  <2>1. pos' \in 1..Len(list') + 1
      BY <1>3 DEF CastSend, Owned, TypeOK
  <2> QED BY <1>3, <2>1 DEF CastSend, TypeOK, clientVars, stopVars
<1>4. CASE CastSendFails
  <2>1. /\ list' \in Seq(Conns) /\ pos' \in 1..Len(list') + 1
        /\ mem' \in [Conns -> {"none", "live", "freed", "dropped"}]
        /\ sock' \in [Fds -> Conns \cup {Nobody}]
      BY <1>4, DropKeepsPlace DEF CastSendFails, Owned
  <2> QED BY <1>4, <2>1 DEF CastSendFails, TypeOK, stopVars
<1>5. CASE EndBroadcast
  <2>1. pos' \in 1..Len(list') + 1
      BY <1>5 DEF EndBroadcast, TypeOK
  <2> QED BY <1>5, <2>1 DEF EndBroadcast, TypeOK, clientVars, stopVars
<1> QED BY <1>1, <1>2, <1>3, <1>4, <1>5 DEF Caster

LEMMA StopKeepsTypes ==
    ASSUME TypeOK, Owned, StopFlag \/ Stop \/ Exit
    PROVE  TypeOK'
<1>1. CASE StopFlag
    BY <1>1 DEF StopFlag, TypeOK, GoTo, clientVars, castVars, stopVars
<1>2. CASE StopJoin
    BY <1>2 DEF StopJoin, TypeOK, GoTo, clientVars, castVars, stopVars
<1>3. CASE StopGrab
  <2>1. list' = <<>> /\ pos' = 1 /\ doomed' \in Seq(Conns)
      BY <1>3 DEF StopGrab, castVars, Owned, TypeOK
  <2>2. list' \in Seq(Conns) /\ pos' \in 1..Len(list') + 1
      BY <2>1
  <2> QED BY <1>3, <2>1, <2>2 DEF StopGrab, TypeOK, clientVars, castVars
<1>4. CASE StopFreeClient
  <2>1. doomed' \in Seq(Conns)
      BY <1>4 DEF StopFreeClient, TypeOK
  <2> QED BY <1>4, <2>1 DEF StopFreeClient, Close, TypeOK, castVars
<1>5. CASE StopMisuse
    BY <1>5 DEF StopMisuse, TypeOK, GoTo, clientVars, castVars, stopVars
<1>6. CASE StopEnd
    BY <1>6 DEF StopEnd, TypeOK, GoTo, clientVars, castVars, stopVars
<1>7. CASE Exit
    BY <1>7 DEF Exit, TypeOK, GoTo, clientVars, castVars, stopVars
<1> QED BY <1>1, <1>2, <1>3, <1>4, <1>5, <1>6, <1>7 DEF Stop

LEMMA TypeStep == ASSUME TypeOK, Owned, [Next]_vars PROVE TypeOK'
<1>1. ASSUME NEW c \in Conns, PeerLeaves(c) PROVE TypeOK'
    BY <1>1 DEF PeerLeaves, TypeOK, clientVars, castVars, stopVars
<1>2. CASE UNCHANGED vars
    BY <1>2 DEF vars, TypeOK, clientVars, castVars, stopVars
<1> QED BY <1>1, <1>2, ClientKeepsTypes, AccepterKeepsTypes, CasterKeepsTypes,
           StopKeepsTypes DEF Next, Ended

\* Types of all variables; a broadcast indexes inside the list although clients
\* come and go.
THEOREM TypeCorrect == Spec => [](TypeOK /\ Owned)
BY TypeInit, OwnedInit, TypeStep, OwnedStep, PTL DEF Spec

\* A broadcast never walks over a client that was freed and meets each client
\* once, whichever of the three kinds of threads frees clients meanwhile.
THEOREM ListStaysLive == Spec => []ListIsLive
<1>1. Owned => ListIsLive
    BY DEF Owned, NoDuplicates, ListIsLive
<1> QED BY <1>1, TypeCorrect, PTL

-----------------------------------------------------------------------------
(* The life of a client.                                                   *)

\* A thread that runs has a client that nobody but a broadcast or stop has
\* freed, and so has the one about to be started; the one about to be detached
\* may have freed its client too.
Tied ==
    /\ accepter \in {"insert", "spawn"} =>
           /\ accepted \in Conns /\ thread[accepted] = "none"
           /\ mem[accepted] \in {"live", "dropped"}
    /\ accepter = "detach" => accepted \in Conns /\ mem[accepted] # "none"
    /\ \A c \in Conns : thread[c] \notin {"none", "gone"} => mem[c] \in {"live", "dropped"}

Life == Tied /\ ClientsAreHeld /\ MisuseHasCause

lifeVars == <<list, doomed, mem, accepted, accepter, misused>>

\* A client thread moves on, between its start and its last step.
LEMMA LifeMoves ==
    ASSUME TypeOK, Life, NEW c \in Conns, NEW place, GoTo(c, place), ~misused,
           thread[c] \notin {"none", "gone", "free"}, UNCHANGED lifeVars
    PROVE  Life'
<1>1. \A d \in Conns : thread'[d] = IF d = c THEN place ELSE thread[d]
    BY DEF TypeOK, GoTo
<1>2. /\ list' = list /\ doomed' = doomed /\ mem' = mem /\ misused' = misused
      /\ accepted' = accepted /\ accepter' = accepter
    BY DEF lifeVars
<1>3. Tied'
    BY <1>1, <1>2 DEF Life, Tied
<1>4. ClientsAreHeld'
    BY <1>1, <1>2 DEF Life, ClientsAreHeld, Elements
<1> QED BY <1>2, <1>3, <1>4 DEF Life, MisuseHasCause

\* A step of another thread that leaves the clients alone.
LEMMA LifeStays ==
    ASSUME Life, ~misused, UNCHANGED <<lifeVars, thread>>
    PROVE  Life'
BY DEF Life, Tied, ClientsAreHeld, MisuseHasCause, Elements, lifeVars

LEMMA ClientKeepsLife ==
    ASSUME TypeOK, Owned, Life, NEW c \in Conns, ClientThread(c)
    PROVE  Life'
<1>0. ~misused
    BY DEF ClientThread, Begin, Handshake, HandshakeFails, Loop, RecvFrame, RecvFails, Answer,
           Leave, CloseOwn, Remove, FreeOwn, Misuse, Going
<1>1. CASE Handshake(c)
    BY <1>0, <1>1, LifeMoves DEF Handshake, lifeVars, clientVars, stopVars
<1>2. CASE HandshakeFails(c)
    BY <1>0, <1>2, LifeMoves DEF HandshakeFails, lifeVars, clientVars, stopVars
<1>3. CASE Loop(c)
    BY <1>0, <1>3, LifeMoves DEF Loop, lifeVars, clientVars, stopVars
<1>4. CASE RecvFrame(c)
    BY <1>0, <1>4, LifeMoves DEF RecvFrame, lifeVars, clientVars, stopVars
<1>5. CASE RecvFails(c)
    BY <1>0, <1>5, LifeMoves DEF RecvFails, lifeVars, clientVars, stopVars
<1>6. CASE Answer(c)
    BY <1>0, <1>6, LifeMoves DEF Answer, lifeVars, clientVars, stopVars
<1>7. CASE Leave(c)
    BY <1>0, <1>7, LifeMoves DEF Leave, lifeVars, clientVars, stopVars
<1>8. CASE CloseOwn(c)
    BY <1>0, <1>8, LifeMoves DEF CloseOwn, lifeVars, clientVars, stopVars
<1>9. CASE Remove(c)
  <2>1. /\ \A d \in Conns : thread'[d] = IF d = c THEN "free" ELSE thread[d]
        /\ thread[c] = "remove"
      BY <1>9 DEF Remove, TypeOK, GoTo
  <2>2. /\ doomed' = doomed /\ mem' = mem /\ misused' = misused
        /\ accepted' = accepted /\ accepter' = accepter
      BY <1>9 DEF Remove, clientVars, stopVars
  <2>3. Elements(list') = Elements(list) \ {c} /\ Elements(doomed') = Elements(doomed)
      BY <1>9, <2>2, Unlinked DEF Remove, TypeOK, Owned
  <2>4. Tied'
      BY <2>1, <2>2 DEF Life, Tied
  <2>5. ClientsAreHeld'
      BY <2>1, <2>2, <2>3 DEF Life, ClientsAreHeld
  <2> QED BY <1>0, <2>2, <2>4, <2>5 DEF Life, MisuseHasCause
<1>10. CASE FreeOwn(c)
  <2>1. /\ \A d \in Conns : thread'[d] = IF d = c THEN "gone" ELSE thread[d]
        /\ \A d \in Conns : mem'[d] = IF d = c THEN "freed" ELSE mem[d]
        /\ thread[c] = "free"
      BY <1>10 DEF FreeOwn, TypeOK, GoTo
  <2>2. /\ list' = list /\ doomed' = doomed /\ misused' = misused
        /\ accepted' = accepted /\ accepter' = accepter
      BY <1>10 DEF FreeOwn, stopVars
  <2>3. Tied'
      BY <2>1, <2>2 DEF Life, Tied
  <2>4. ClientsAreHeld'
      BY <2>1, <2>2 DEF Life, ClientsAreHeld, Elements
  <2> QED BY <1>0, <2>2, <2>3, <2>4 DEF Life, MisuseHasCause
<1>11. CASE Misuse(c)
  <2>1. /\ UNCHANGED <<list, doomed, mem, accepted, accepter, thread, stopper>>
        /\ ~Usable(c)
      BY <1>11 DEF Misuse, clientVars, stopVars
  <2>2. Tied' /\ ClientsAreHeld'
      BY <2>1 DEF Life, Tied, ClientsAreHeld, Elements
  <2>3. mem[c] = "dropped" \/ stopper = "done"
      BY <2>1 DEF Usable, ServerFreed, Life, Tied
  <2>4. MisuseHasCause'
      BY <2>1, <2>3 DEF MisuseHasCause
  <2> QED BY <2>2, <2>4 DEF Life
<1>12. CASE Begin(c)
    BY <1>0, <1>12, LifeMoves DEF Begin, lifeVars, clientVars, stopVars
<1> QED BY <1>1, <1>2, <1>3, <1>4, <1>5, <1>6, <1>7, <1>8, <1>9, <1>10, <1>11, <1>12
       DEF ClientThread

LEMMA AccepterKeepsLife ==
    ASSUME TypeOK, Owned, Life, Accepter \/ AcceptConn
    PROVE  Life'
<1>0. ~misused /\ doomed' = doomed
    BY DEF Accepter, AccepterMisuse, AcceptTop, AcceptConn, AcceptFails, AcceptInsert, Spawn, SpawnFails,
           SpawnUndone, Detach, Going, stopVars
<1>1. CASE AcceptTop \/ AcceptFails \/ SpawnUndone \/ Detach
  <2>1. /\ accepter \in {"top", "accept", "undo", "detach"} /\ accepter' \in {"top", "accept", "done"}
        /\ UNCHANGED <<list, mem, accepted, thread, misused>>
      BY <1>1 DEF AcceptTop, AcceptFails, SpawnUndone, Detach, clientVars
  <2> QED BY <1>0, <2>1 DEF Life, Tied, ClientsAreHeld, MisuseHasCause, Elements
<1>2. CASE AcceptInsert
  <2>1. /\ accepter = "insert" /\ accepter' = "spawn" /\ list' = <<accepted>> \o list
        /\ UNCHANGED <<mem, accepted, thread, misused>>
      BY <1>2 DEF AcceptInsert, clientVars
  <2>2. Elements(list') = Elements(list) \cup {accepted}
      BY <2>1, Linked DEF TypeOK, Owned
  <2>3. Tied'
      BY <2>1 DEF Life, Tied
  <2>4. ClientsAreHeld'
      BY <1>0, <2>1, <2>2 DEF Life, ClientsAreHeld
  <2> QED BY <1>0, <2>1, <2>3, <2>4 DEF Life, MisuseHasCause
<1>3. CASE Spawn \/ SpawnFails
  <2>1. /\ accepter = "spawn" /\ accepter' \in {"detach", "undo"}
        /\ \E place \in {"start", "leave"} :
               thread' = [thread EXCEPT ![accepted] = place]
        /\ UNCHANGED <<list, mem, accepted, misused>>
      BY <1>3 DEF Spawn, SpawnFails, clientVars
  <2>2. \A d \in Conns : \/ thread'[d] = thread[d]
                         \/ d = accepted /\ thread'[d] \in {"start", "leave"}
      BY <2>1 DEF TypeOK
  <2>3. accepted \in Conns /\ thread[accepted] = "none"
        /\ mem[accepted] \in {"live", "dropped"}
      BY <2>1 DEF Life, Tied
  <2>4. Tied'
      BY <2>1, <2>2, <2>3 DEF Life, Tied
  <2>5. ClientsAreHeld'
      BY <1>0, <2>1, <2>2, <2>3 DEF Life, ClientsAreHeld, Elements
  <2> QED BY <1>0, <2>1, <2>4, <2>5 DEF Life, MisuseHasCause
<1>4. CASE AcceptConn
  <2>1. /\ accepter = "accept" /\ accepter' \in {"insert", "top"}
        /\ accepted' = accepted + 1 /\ accepted + 1 \in Conns
        /\ list' = list /\ thread' = thread /\ misused' = misused
      BY <1>4, MaxConnsAssumption DEF AcceptConn, TypeOK, Conns
  <2>2. /\ accepter' = "insert" => mem' = [mem EXCEPT ![accepted + 1] = "live"]
        /\ accepter' = "top" => mem' = mem
      BY <1>4 DEF AcceptConn, clientVars
  <2>3. \A d \in Conns : \/ mem'[d] = mem[d]
                         \/ accepter' = "insert" /\ d = accepted + 1 /\ mem'[d] = "live"
      BY <2>1, <2>2 DEF TypeOK
  <2>4. accepter' = "insert" => mem'[accepted + 1] = "live"
      BY <2>1, <2>2 DEF TypeOK
  <2>5. thread[accepted + 1] = "none"
      BY <2>1 DEF Owned, TypeOK
  <2>6. Tied'
      BY <2>1, <2>3, <2>4, <2>5 DEF Life, Tied
  <2>7. ClientsAreHeld'
      BY <1>0, <2>1, <2>3 DEF Life, ClientsAreHeld, Elements
  <2> QED BY <1>0, <2>1, <2>6, <2>7 DEF Life, MisuseHasCause
<1>5. CASE AccepterMisuse
  <2>1. /\ UNCHANGED <<list, doomed, mem, accepted, accepter, thread, stopper>>
        /\ accepter \in {"spawn", "detach"} /\ mem[accepted] # "live"
      BY <1>5 DEF AccepterMisuse, clientVars, stopVars
  <2>2. Tied' /\ ClientsAreHeld'
      BY <2>1 DEF Life, Tied, ClientsAreHeld, Elements
  <2>3. /\ accepted \in Conns
        /\ \/ mem[accepted] = "dropped"
           \/ accepter = "detach" /\ mem[accepted] = "freed"
      BY <2>1 DEF Life, Tied, TypeOK
  <2>4. MisuseHasCause'
      BY <2>1, <2>3 DEF MisuseHasCause
  <2> QED BY <2>2, <2>4 DEF Life
<1> QED BY <1>1, <1>2, <1>3, <1>4, <1>5 DEF Accepter

\* A dropped client is no longer live, and nobody else's place changes.
LEMMA DropKeepsLife ==
    ASSUME TypeOK, Owned, Life, ~misused, NEW c, c = list[pos], pos <= Len(list),
           Drop(c), UNCHANGED <<accepted, accepter, thread, doomed, misused>>
    PROVE  Life'
<1>1. c \in Elements(list) /\ c \in Conns /\ mem[c] = "live"
    BY DEF TypeOK, Elements, Owned
<1>2. /\ list' = Without(list, c)
      /\ \A d \in Conns : mem'[d] = IF d = c THEN "dropped" ELSE mem[d]
    BY <1>1 DEF Drop, TypeOK
<1>3. Elements(list') = Elements(list) \ {c} /\ Elements(doomed') = Elements(doomed)
    BY <1>2, Unlinked DEF TypeOK, Owned
<1>4. Tied'
    BY <1>1, <1>2 DEF Life, Tied
<1>5. ClientsAreHeld'
    BY <1>1, <1>2, <1>3 DEF Life, ClientsAreHeld
<1> QED BY <1>4, <1>5 DEF Life, MisuseHasCause

LEMMA CasterKeepsLife ==
    ASSUME TypeOK, Owned, Life, Caster \/ StartBroadcast
    PROVE  Life'
<1>0. ~misused
    BY DEF Caster, StartBroadcast, CastTest, CastSend, CastSendFails, EndBroadcast, Going
<1>1. CASE StartBroadcast \/ CastSend \/ EndBroadcast
    BY <1>0, <1>1, LifeStays
       DEF StartBroadcast, CastSend, EndBroadcast, lifeVars, clientVars, stopVars
<1>2. CASE CastTest
    BY <1>0, <1>2, LifeStays, DropKeepsLife DEF CastTest, lifeVars, stopVars
<1>3. CASE CastSendFails
    BY <1>0, <1>3, DropKeepsLife DEF CastSendFails, stopVars, Owned
<1> QED BY <1>1, <1>2, <1>3 DEF Caster

\* Before stop takes the list it holds no clients.
EmptyHanded == stopper \in {"none", "join", "grab"} => doomed = <<>>

LEMMA EmptyHandedStep == ASSUME EmptyHanded, [Next]_vars PROVE EmptyHanded'
<1> USE DEF EmptyHanded
<1>1. ASSUME UNCHANGED stopVars PROVE EmptyHanded'
    BY <1>1 DEF stopVars
<1>2. ASSUME NEW c \in Conns, ClientThread(c) \/ PeerLeaves(c) PROVE UNCHANGED stopVars
    BY <1>2 DEF ClientThread, Begin, Handshake, HandshakeFails, Loop, RecvFrame, RecvFails,
                Answer, Leave, CloseOwn, Remove, FreeOwn, Misuse, PeerLeaves
<1>3. CASE Accepter \/ AcceptConn
    BY <1>1, <1>3 DEF Accepter, AcceptTop, AcceptConn, AcceptFails, AcceptInsert, Spawn,
                SpawnFails, SpawnUndone, Detach, AccepterMisuse
<1>4. CASE StartBroadcast \/ Caster
    BY <1>1, <1>4 DEF StartBroadcast, Caster, CastTest, CastSend, CastSendFails,
                EndBroadcast
<1>5. CASE StopFlag \/ Stop \/ Exit
    BY <1>5 DEF StopFlag, Stop, StopJoin, StopGrab, StopFreeClient, StopMisuse, StopEnd,
                Exit, stopVars
<1>6. CASE Ended \/ UNCHANGED vars
    BY <1>1, <1>6 DEF Ended, vars, stopVars
<1> QED BY <1>1, <1>2, <1>3, <1>4, <1>5, <1>6 DEF Next

LEMMA StopKeepsLife ==
    ASSUME TypeOK, Owned, EmptyHanded, Life, StopFlag \/ Stop \/ Exit
    PROVE  Life'
<1>0. ~misused
    BY DEF StopFlag, Stop, StopJoin, StopGrab, StopFreeClient, StopMisuse, StopEnd, Exit, Going
<1>1. CASE StopFlag \/ StopJoin \/ StopEnd \/ Exit
    BY <1>0, <1>1, LifeStays
       DEF StopFlag, StopJoin, StopEnd, Exit, lifeVars, clientVars
<1>2. CASE StopGrab
  <2>1. /\ doomed' = list /\ list' = <<>> /\ stopper = "grab"
        /\ UNCHANGED <<mem, accepted, accepter, thread, misused>>
      BY <1>2 DEF StopGrab, clientVars
  <2>2. Elements(doomed) = {} /\ Elements(doomed') = Elements(list)
      BY <2>1 DEF EmptyHanded, Elements
  <2>3. Tied'
      BY <2>1 DEF Life, Tied
  <2>4. ClientsAreHeld'
      BY <2>1, <2>2 DEF Life, ClientsAreHeld
  <2> QED BY <1>0, <2>1, <2>3, <2>4 DEF Life, MisuseHasCause
<1>3. CASE StopFreeClient
  <2>1. /\ doomed # <<>> /\ doomed' = Tail(doomed) /\ stopper = "free"
        /\ UNCHANGED <<list, accepted, accepter, thread, misused>>
        /\ mem' = [mem EXCEPT ![Head(doomed)] = "dropped"]
      BY <1>3 DEF StopFreeClient
  <2>2. Head(doomed) \in Conns /\ mem[Head(doomed)] = "live"
      BY <1>3, <2>1 DEF TypeOK, StopFreeClient
  <2>3. \A d \in Conns : mem'[d] = IF d = Head(doomed) THEN "dropped" ELSE mem[d]
      BY <2>1 DEF TypeOK
  <2>4. \A d \in Elements(doomed) : d = Head(doomed) \/ d \in Elements(doomed')
    <3>1. TAKE d \in Elements(doomed)
    <3>2. PICK i \in 1..Len(doomed) : doomed[i] = d
        BY DEF Elements, TypeOK
    <3>3. CASE i = 1
        BY <3>2, <3>3, <2>1 DEF TypeOK
    <3>4. CASE i # 1
      <4>1. i - 1 \in 1..Len(Tail(doomed)) /\ Tail(doomed)[i - 1] = d
          BY <3>2, <3>4, <2>1 DEF TypeOK
      <4>2. i - 1 \in DOMAIN doomed' /\ doomed'[i - 1] = d
          BY <4>1, <2>1 DEF TypeOK
      <4> QED BY <4>2 DEF Elements
    <3> QED BY <3>3, <3>4
  <2>5. Tied'
      BY <2>1, <2>2, <2>3 DEF Life, Tied
  <2>6. ClientsAreHeld'
      BY <2>1, <2>3, <2>4 DEF Life, ClientsAreHeld, Elements
  <2> QED BY <1>0, <2>1, <2>5, <2>6 DEF Life, MisuseHasCause
<1>4. CASE StopMisuse
  <2>1. /\ UNCHANGED <<list, doomed, mem, accepted, accepter, thread, stopper>>
        /\ stopper = "free"
      BY <1>4 DEF StopMisuse, clientVars, stopVars
  <2>2. Tied' /\ ClientsAreHeld'
      BY <2>1 DEF Life, Tied, ClientsAreHeld, Elements
  <2> QED BY <2>1, <2>2 DEF Life, MisuseHasCause
<1> QED BY <1>1, <1>2, <1>3, <1>4 DEF Stop

LEMMA LifeStep == ASSUME TypeOK, Owned, EmptyHanded, Life, [Next]_vars PROVE Life'
<1>1. ASSUME NEW c \in Conns, PeerLeaves(c) PROVE Life'
    BY <1>1, LifeStays DEF PeerLeaves, Going, lifeVars, clientVars, stopVars
<1>2. CASE UNCHANGED vars
    BY <1>2 DEF vars, clientVars, stopVars, Life, Tied, ClientsAreHeld,
                MisuseHasCause, Elements
<1> QED BY <1>1, <1>2, ClientKeepsLife, AccepterKeepsLife, CasterKeepsLife,
           StopKeepsLife DEF Next, Ended

LEMMA LifeInit == Init => EmptyHanded /\ Life
BY DEF Init, EmptyHanded, Life, Tied, ClientsAreHeld, MisuseHasCause

\* The invariant on the lives of clients and threads the next two rest on.
THEOREM LivesAreOrderly == Spec => []Life
BY TypeCorrect, LifeInit, EmptyHandedStep, LifeStep, PTL DEF Spec

\* No client is leaked: one that is allocated is in the list, with stop, or with
\* the thread that is about to insert or to free it.
THEOREM NoClientLeaks == Spec => []ClientsAreHeld
<1>1. Life => ClientsAreHeld
    BY DEF Life
<1> QED BY <1>1, LivesAreOrderly, PTL

\* Freed memory is used in three ways and no other: a broadcast or stop has freed
\* a client that its thread or accept_thread still had, stop has freed the server,
\* or accept_thread detaches a thread that has freed its client before.
THEOREM MisuseIsExplained == Spec => []MisuseHasCause
<1>1. Life => MisuseHasCause
    BY DEF Life
<1> QED BY <1>1, LivesAreOrderly, PTL

-----------------------------------------------------------------------------
(* Descriptors.                                                            *)

\* A descriptor is owned by the client that was accepted with it, until that is
\* closed; a thread behind its close owns none.
Closed ==
    \A d \in Fds :
        /\ sock[d] # Nobody => /\ sock[d] \in 1..accepted
                               /\ thread[sock[d]] \notin {"remove", "free", "gone"}

Descriptors == Closed /\ DescriptorsAreHeld

\* Descriptors are closed at most, and the clients that keep theirs stay.
LEMMA ClosingIsFine ==
    ASSUME TypeOK, Descriptors, accepted' = accepted, fd' = fd,
           \A d \in Fds : sock'[d] \in {sock[d], Nobody},
           \A d \in Fds : sock'[d] # Nobody =>
               /\ mem'[sock[d]] = mem[sock[d]]
               /\ thread'[sock[d]] = thread[sock[d]]
                  \/ thread'[sock[d]] \notin {"remove", "free", "gone"}
    PROVE  Descriptors'
BY DEF Descriptors, Closed, DescriptorsAreHeld

LEMMA DescriptorsStep == ASSUME TypeOK, Owned, Descriptors, [Next]_vars PROVE Descriptors'
<1>0. \A d \in Fds : sock[d] \in Conns \cup {Nobody}
    BY DEF TypeOK
<1>1. ASSUME NEW c \in Conns, NEW place, GoTo(c, place),
             place \notin {"remove", "free", "gone"},
             UNCHANGED <<accepted, fd, mem, sock>>
      PROVE  Descriptors'
  <2>1. \A d \in Conns : thread'[d] = IF d = c THEN place ELSE thread[d]
      BY <1>1 DEF TypeOK, GoTo
  <2> QED BY <1>0, <1>1, <2>1, ClosingIsFine
<1>2. ASSUME UNCHANGED <<accepted, fd, mem, sock, thread>> PROVE Descriptors'
    BY <1>2 DEF Descriptors, Closed, DescriptorsAreHeld
<1>3. ASSUME NEW c \in Conns, ClientThread(c) PROVE Descriptors'
  <2> USE DEF clientVars
  <2>1. CASE Handshake(c)
      BY <1>1, <2>1 DEF Handshake
  <2>2. CASE HandshakeFails(c)
      BY <1>1, <2>2 DEF HandshakeFails
  <2>3. CASE Loop(c)
      BY <1>1, <2>3 DEF Loop
  <2>4. CASE RecvFrame(c)
      BY <1>1, <2>4 DEF RecvFrame
  <2>5. CASE RecvFails(c)
      BY <1>1, <2>5 DEF RecvFails
  <2>6. CASE Answer(c)
      BY <1>1, <2>6 DEF Answer
  <2>7. CASE Leave(c)
      BY <1>1, <2>7 DEF Leave
  <2>8. CASE CloseOwn(c)
    <3>1. /\ \A d \in Fds : sock'[d] = IF d = fd[c] THEN Nobody ELSE sock[d]
          /\ \A d \in Conns : thread'[d] = IF d = c THEN "remove" ELSE thread[d]
          /\ UNCHANGED <<accepted, fd, mem>>
        BY <2>8 DEF CloseOwn, Close, GoTo, TypeOK
    <3>2. \A d \in Fds : sock[d] = c => d = fd[c]
        BY DEF Descriptors, DescriptorsAreHeld, Conns, Nobody
    <3> QED BY <1>0, <3>1, <3>2, ClosingIsFine
  <2>9. CASE Remove(c)
    <3>1. /\ \A d \in Conns : thread'[d] = IF d = c THEN "free" ELSE thread[d]
          /\ thread[c] = "remove" /\ UNCHANGED <<accepted, fd, mem, sock>>
        BY <2>9 DEF Remove, GoTo, TypeOK
    <3>2. \A d \in Fds : sock[d] # Nobody => sock[d] # c
        BY <3>1 DEF Descriptors, Closed
    <3> QED BY <1>0, <3>1, <3>2, ClosingIsFine
  <2>10. CASE FreeOwn(c)
    <3>1. /\ \A d \in Conns : thread'[d] = IF d = c THEN "gone" ELSE thread[d]
          /\ \A d \in Conns : mem'[d] = IF d = c THEN "freed" ELSE mem[d]
          /\ thread[c] = "free" /\ UNCHANGED <<accepted, fd, sock>>
        BY <2>10 DEF FreeOwn, GoTo, TypeOK
    <3>2. \A d \in Fds : sock[d] # Nobody => sock[d] # c
        BY <3>1 DEF Descriptors, Closed
    <3> QED BY <1>0, <3>1, <3>2, ClosingIsFine
  <2>11. CASE Misuse(c)
      BY <1>2, <2>11 DEF Misuse
  <2>12. CASE Begin(c)
      BY <1>1, <2>12 DEF Begin
  <2> QED BY <1>3, <2>1, <2>2, <2>3, <2>4, <2>5, <2>6, <2>7, <2>8, <2>9, <2>10, <2>11, <2>12
         DEF ClientThread
<1>4. CASE Accepter
  <2>1. CASE AcceptTop \/ AcceptFails \/ AcceptInsert \/ SpawnUndone \/ Detach \/ AccepterMisuse
      BY <1>2, <2>1 DEF AcceptTop, AcceptFails, AcceptInsert, SpawnUndone, Detach,
                        AccepterMisuse, clientVars
  <2>2. CASE Spawn \/ SpawnFails
    <3>1. /\ \E place \in {"start", "leave"} :
                 thread' = [thread EXCEPT ![accepted] = place]
          /\ UNCHANGED <<accepted, fd, mem, sock>>
        BY <2>2 DEF Spawn, SpawnFails, clientVars
    <3>2. \A d \in Conns : thread'[d] = thread[d]
                           \/ thread'[d] \in {"start", "leave"}
        BY <3>1 DEF TypeOK
    <3> QED BY <1>0, <3>1, <3>2, ClosingIsFine
  <2> QED BY <1>4, <2>1, <2>2 DEF Accepter
<1>5. CASE AcceptConn
  <2>1. /\ accepted \in Nat /\ accepted + 1 \in Conns /\ accepted' = accepted + 1
        /\ thread' = thread
      BY <1>5, MaxConnsAssumption DEF AcceptConn, TypeOK, Conns
  <2>2. CASE UNCHANGED <<clientVars, sock>>
      BY <2>1, <2>2 DEF clientVars, Descriptors, Closed, DescriptorsAreHeld
  <2>3. CASE ~UNCHANGED <<clientVars, sock>>
    <3>1. PICK d \in Fds : /\ sock' = [sock EXCEPT ![d] = accepted + 1]
                           /\ fd' = [fd EXCEPT ![accepted + 1] = d]
                           /\ mem' = [mem EXCEPT ![accepted + 1] = "live"]
        BY <1>5, <2>3 DEF AcceptConn, FreeFds
    <3>2. /\ \A e \in Fds : sock'[e] = IF e = d THEN accepted + 1 ELSE sock[e]
          /\ \A c \in Conns : fd'[c] = IF c = accepted + 1 THEN d ELSE fd[c]
          /\ \A c \in Conns : mem'[c] = IF c = accepted + 1 THEN "live" ELSE mem[c]
        BY <2>1, <3>1 DEF TypeOK
    <3>3. \A e \in Fds : sock[e] # Nobody => sock[e] # accepted + 1
        BY <2>1 DEF Descriptors, Closed
    <3>4. thread[accepted + 1] = "none"
        BY <2>1 DEF Owned
    <3>5. Closed'
        BY <1>0, <2>1, <3>2, <3>4 DEF Descriptors, Closed, Conns
    <3>6. DescriptorsAreHeld'
        BY <1>0, <2>1, <3>2, <3>3 DEF Descriptors, DescriptorsAreHeld
    <3> QED BY <3>5, <3>6 DEF Descriptors
  <2> QED BY <2>2, <2>3
<1>6. ASSUME NEW c \in Conns, Close(c), mem' = [mem EXCEPT ![c] = "dropped"],
             UNCHANGED <<accepted, fd, thread>>
      PROVE  Descriptors'
  <2>1. /\ \A d \in Fds : sock'[d] = IF d = fd[c] THEN Nobody ELSE sock[d]
        /\ \A d \in Conns : mem'[d] = IF d = c THEN "dropped" ELSE mem[d]
      BY <1>6 DEF Close, TypeOK
  <2>2. \A d \in Fds : sock[d] = c => d = fd[c]
      BY DEF Descriptors, DescriptorsAreHeld, Conns, Nobody
  <2> QED BY <1>0, <1>6, <2>1, <2>2, ClosingIsFine
<1>7. CASE Caster
  <2>1. CASE CastSend \/ EndBroadcast
      BY <1>2, <2>1 DEF CastSend, EndBroadcast, clientVars
  <2>2. CASE CastTest
    <3>1. list[pos] \in Conns
        BY <2>2 DEF CastTest, TypeOK
    <3> QED BY <1>2, <1>6, <2>2, <3>1 DEF CastTest, Drop
  <2>3. CASE CastSendFails
    <3>1. list[pos] \in Conns
        BY <2>3 DEF CastSendFails, TypeOK, Owned
    <3> QED BY <1>6, <2>3, <3>1 DEF CastSendFails, Drop
  <2> QED BY <1>7, <2>1, <2>2, <2>3 DEF Caster
<1>8. CASE StopFlag \/ Stop \/ Exit
  <2>1. CASE StopFreeClient
    <3>1. Head(doomed) \in Conns
        BY <2>1 DEF StopFreeClient, TypeOK
    <3> QED BY <1>6, <2>1, <3>1 DEF StopFreeClient
  <2>2. CASE StopFlag \/ StopJoin \/ StopGrab \/ StopMisuse \/ StopEnd \/ Exit
      BY <1>2, <2>2
         DEF StopFlag, StopJoin, StopGrab, StopMisuse, StopEnd, Exit, clientVars
  <2> QED BY <1>8, <2>1, <2>2 DEF Stop
<1>9. ASSUME StartBroadcast \/ Ended \/ UNCHANGED vars
             \/ \E c \in Conns : PeerLeaves(c)
      PROVE  Descriptors'
    BY <1>2, <1>9 DEF StartBroadcast, Ended, vars, PeerLeaves, clientVars
<1> QED BY <1>3, <1>4, <1>5, <1>7, <1>8, <1>9 DEF Next

\* No descriptor is leaked: an open one belongs to a client that is allocated and
\* will be closed by whoever frees that client, also after another client's
\* number was closed twice.
THEOREM NoDescriptorLeaks == Spec => []DescriptorsAreHeld
<1>1. Init => Descriptors
    BY DEF Init, Descriptors, Closed, DescriptorsAreHeld
<1>2. Descriptors => DescriptorsAreHeld
    BY DEF Descriptors
<1> QED BY <1>1, <1>2, TypeCorrect, DescriptorsStep, PTL DEF Spec

\* Neither leaks, for every number of clients and descriptors: ws_server_stop and
\* the threads between them close and free all that accept_thread has made.
THEOREM NothingLeaksEver == Spec => []NothingLeaks
<1>1. ClientsAreHeld /\ DescriptorsAreHeld => NothingLeaks
    BY DEF NothingLeaks
<1> QED BY <1>1, NoClientLeaks, NoDescriptorLeaks, PTL
=============================================================================
