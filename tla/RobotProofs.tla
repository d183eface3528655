----------------------------- MODULE RobotProofs -----------------------------
(***************************************************************************)
(* Theorems about RobotSim for every list of sensors, every width of seq   *)
(* and every set of faults: types, the cache outlives the threads that use *)
(* it, no published snapshot is torn, and seq names it.  And about         *)
(* RobotClock for every rate, every length of a second and every horizon:  *)
(* it implements RobotSim, threads keep to their schedule, and motors      *)
(* count exactly.                                                          *)
(***************************************************************************)
EXTENDS RobotClock, SequenceTheorems, WellFoundedInduction, TLAPS

-----------------------------------------------------------------------------
(* Induction on numbers.                                                   *)

\* A set of numbers that is not empty has a least one.
LEMMA LeastNat ==
    ASSUME NEW T \in SUBSET Nat, T # {}
    PROVE  \E n \in T : \A m \in T : n <= m
<1>1. IsWellFoundedOn(OpToRel(<, Nat), Nat)
    BY NatLessThanWellFounded
<1>2. PICK n \in T : \A m \in T : ~ (<<m, n>> \in OpToRel(<, Nat))
    BY <1>1, WFMin
<1>3. ASSUME NEW m \in T PROVE n <= m
  <2>1. ~(m < n)
      BY <1>2, <1>3 DEF OpToRel
  <2> QED BY <2>1
<1> QED BY <1>3

\* A set that has 0, and n + 1 whenever it has n, holds every number.
LEMMA EveryNat ==
    ASSUME NEW T \in SUBSET Nat, 0 \in T, \A n \in T : n + 1 \in T
    PROVE  T = Nat
<1> SUFFICES ASSUME Nat \ T # {} PROVE FALSE
    OBVIOUS
<1>1. PICK n \in Nat \ T : \A m \in Nat \ T : n <= m
    BY LeastNat
<1>2. n - 1 \in Nat /\ n - 1 \in T
    BY <1>1
<1> QED BY <1>1, <1>2

-----------------------------------------------------------------------------
(* Division.                                                               *)

\* A number is its quotient and its remainder.
LEMMA Division ==
    ASSUME NEW n \in Nat, NEW d \in Nat \ {0}
    PROVE  /\ n \div d \in Nat /\ n % d \in 0..d - 1
           /\ n = (n \div d) * d + (n % d)
OBVIOUS

\* Nothing else is.
LEMMA Quotient ==
    ASSUME NEW d \in Nat \ {0}, NEW q \in Nat, NEW r \in 0..d - 1
    PROVE  (q * d + r) \div d = q /\ (q * d + r) % d = r
<1> DEFINE n == q * d + r
           p == n \div d
           s == n % d
<1>0. n \in Nat
  <2>1. q * d \in Nat
      OBVIOUS
  <2> QED BY <2>1
<1> HIDE DEF n
<1>1. p \in Nat /\ s \in 0..d - 1 /\ n = p * d + s
    BY <1>0, Division
<1>2. \A i, j \in Nat : i < j => i * d + d <= j * d
  <2> SUFFICES ASSUME NEW i \in Nat, NEW j \in Nat, i < j
               PROVE  i * d + d <= j * d
      OBVIOUS
  <2>1. PICK k \in Nat : j = i + 1 + k
      OBVIOUS
  <2>2. j * d = i * d + d + k * d /\ k * d \in Nat /\ i * d \in Nat
      BY <2>1
  <2> QED BY <2>2
<1>3. p * d + s = q * d + r /\ p * d \in Nat /\ q * d \in Nat
    BY <1>1 DEF n
<1> HIDE DEF p, s
<1>4. p = q
    BY <1>1, <1>2, <1>3
<1> QED BY <1>1, <1>3, <1>4 DEF n, p, s

-----------------------------------------------------------------------------
(* The threads.                                                            *)

\* The list main starts and joins names every thread once.
LEMMA ThreadsAreListed ==
    /\ Len(Threads) \in Nat
    /\ DOMAIN Threads = 1..Len(Threads)
    /\ \A i, j \in 1..Len(Threads) : Threads[i] = Threads[j] => i = j
    /\ ToSet(Threads) = Groups \cup {"state"}
    /\ "state" \notin Groups /\ "free" \notin ToSet(Threads)
<1> DEFINE n == Len(Sensors)
<1>1. Sensors \in Seq(STRING) /\ n \in Nat /\ DOMAIN Sensors = 1..n
    BY SensorsAssumption
<1>2. /\ Len(Threads) = n + 1
      /\ DOMAIN Threads = 1..n + 1
      /\ Threads[n + 1] = "state"
      /\ \A i \in 1..n : Threads[i] = Sensors[i]
  <2> DEFINE Known == STRING \cup {"state"}
  <2>1. "state" \in Known /\ Sensors \in Seq(Known)
      BY <1>1
  <2> HIDE DEF Known
  <2>2. Append(Sensors, "state") \in Seq(Known)
      BY <2>1, AppendProperties
  <2>3. /\ Len(Append(Sensors, "state")) = n + 1
        /\ Append(Sensors, "state")[n + 1] = "state"
        /\ \A i \in 1..n : Append(Sensors, "state")[i] = Sensors[i]
      BY <2>1, AppendProperties
  <2>4. DOMAIN Append(Sensors, "state") = 1..n + 1
      BY <2>2, <2>3
  <2> QED BY <2>2, <2>3, <2>4 DEF Threads
<1>3. \A i \in 1..n : Sensors[i] \in Groups /\ Sensors[i] \notin {"state", "free"}
    BY <1>1, SensorsAssumption DEF Groups, ToSet
<1>4. \A i, j \in 1..n : Sensors[i] = Sensors[j] => i = j
    BY <1>1, SensorsAssumption DEF IsInjective
<1>5. \A i, j \in 1..n + 1 : Threads[i] = Threads[j] => i = j
  <2> SUFFICES ASSUME NEW i \in 1..n + 1, NEW j \in 1..n + 1,
                      Threads[i] = Threads[j]
               PROVE  i = j
      OBVIOUS
  <2>1. CASE i \in 1..n /\ j \in 1..n
      BY <2>1, <1>2, <1>4
  <2>2. CASE i = n + 1 \/ j = n + 1
      BY <2>2, <1>1, <1>2, <1>3
  <2> QED BY <2>1, <2>2, <1>1
<1>6. ToSet(Threads) = Groups \cup {"state"}
    BY <1>1, <1>2, <1>3, SMTT(30) DEF ToSet, Groups
<1>7. "state" \notin Groups /\ "free" \notin Groups
    BY SensorsAssumption DEF Groups
<1> HIDE DEF n
<1> QED BY <1>1, <1>2, <1>5, <1>6, <1>7

Places == {"connect", "loop", "lock", "first", "second", "publish", "sleep",
           "close", "done"}

\* What a step of a thread does to its own progress, and to nobody else's.
Advances(t) ==
    /\ at[t] \notin {"none", "done"}
    /\ \E place \in Places : at' = [at EXCEPT ![t] = place]
    /\ UNCHANGED mainVars

LEMMA SensorAdvances == ASSUME NEW g, Sensor(g) PROVE Advances(g)
<1>1. CASE Connect(g)
    BY <1>1 DEF Connect, GoTo, Advances, Places
<1>2. CASE Loop(g)
    BY <1>2 DEF Loop, GoTo, Advances, Places
<1>3. CASE Lock(g)
    BY <1>3 DEF Lock, GoTo, Advances, Places
<1>4. CASE SetFirst(g)
    BY <1>4 DEF SetFirst, GoTo, Advances, Places
<1>5. CASE SetSecond(g)
    BY <1>5 DEF SetSecond, GoTo, Advances, Places
<1>6. CASE Wake(g)
    BY <1>6 DEF Wake, GoTo, Advances, Places
<1>7. CASE Close(g)
    BY <1>7 DEF Close, GoTo, Advances, Places
<1> QED BY <1>1, <1>2, <1>3, <1>4, <1>5, <1>6, <1>7 DEF Sensor

LEMMA PublisherAdvances == ASSUME Publisher PROVE Advances("state")
<1>1. CASE Connect("state")
    BY <1>1 DEF Connect, GoTo, Advances, Places
<1>2. CASE Loop("state")
    BY <1>2 DEF Loop, GoTo, Advances, Places
<1>3. CASE Lock("state")
    BY <1>3 DEF Lock, GoTo, Advances, Places
<1>4. CASE CopyFirst
    BY <1>4 DEF CopyFirst, GoTo, Advances, Places
<1>5. CASE CopySecond
    BY <1>5 DEF CopySecond, GoTo, Advances, Places
<1>6. CASE Publish
    BY <1>6 DEF Publish, GoTo, Advances, Places
<1>7. CASE Wake("state")
    BY <1>7 DEF Wake, GoTo, Advances, Places
<1>8. CASE Close("state")
    BY <1>8 DEF Close, GoTo, Advances, Places
<1> QED BY <1>1, <1>2, <1>3, <1>4, <1>5, <1>6, <1>7, <1>8 DEF Publisher

-----------------------------------------------------------------------------
(* Type correctness.                                                       *)

\* What the threads leave to the type invariant once their progress is known.
CacheTypeOK ==
    /\ mu \in ToSet(Threads) \cup {"free"}
    /\ cache \in [Groups -> Stamp] /\ seq \in 0..SeqSize - 1
    /\ copy \in [parts : [Groups -> Stamp], seq : 0..SeqSize - 1]

LEMMA NextStampType == ASSUME NEW n \in 0..SeqSize - 1
                       PROVE  NextStamp(n) \in 0..SeqSize - 1
BY SeqSizeAssumption DEF NextStamp

LEMMA ZeroType == Zero \in [Groups -> Stamp]
BY SeqSizeAssumption DEF Zero, Stamp

\* A part keeps its type when one half of it is replaced.
LEMMA StampParts ==
    ASSUME NEW p \in Stamp, NEW n \in 0..SeqSize - 1
    PROVE  /\ p.a \in 0..SeqSize - 1 /\ p.b \in 0..SeqSize - 1
           /\ [p EXCEPT !.a = n] \in Stamp /\ [p EXCEPT !.b = n] \in Stamp
BY DEF Stamp

LEMMA SensorCacheType ==
    ASSUME TypeOK, NEW g \in Groups, Sensor(g)
    PROVE  CacheTypeOK'
<1> USE DEF CacheTypeOK
<1>0. g \in ToSet(Threads)
    BY ThreadsAreListed
<1>1. CASE Connect(g)
    BY <1>1 DEF Connect, TypeOK, cacheVars
<1>2. CASE Loop(g)
    BY <1>2 DEF Loop, TypeOK, cacheVars
<1>3. CASE Lock(g)
    BY <1>3, <1>0 DEF Lock, TypeOK
<1>4. CASE SetFirst(g)
  <2>1. cache[g] \in Stamp
      BY DEF TypeOK
  <2>2. NextStamp(cache[g].a) \in 0..SeqSize - 1
    <3>1. cache[g].a \in 0..SeqSize - 1
        BY <2>1 DEF Stamp
    <3> QED BY <3>1, NextStampType
  <2>3. [cache[g] EXCEPT !.a = NextStamp(cache[g].a)] \in Stamp
      BY <2>1, <2>2, StampParts
  <2>4. cache' = [cache EXCEPT ![g] = [cache[g] EXCEPT !.a = NextStamp(cache[g].a)]]
      BY <1>4 DEF SetFirst
  <2>5. cache' \in [Groups -> Stamp]
      BY <2>3, <2>4 DEF TypeOK
  <2> QED BY <1>4, <2>5 DEF SetFirst, TypeOK
<1>5. CASE SetSecond(g)
  <2>1. cache[g] \in Stamp
      BY DEF TypeOK
  <2>2. NextStamp(cache[g].b) \in 0..SeqSize - 1
    <3>1. cache[g].b \in 0..SeqSize - 1
        BY <2>1 DEF Stamp
    <3> QED BY <3>1, NextStampType
  <2>3. [cache[g] EXCEPT !.b = NextStamp(cache[g].b)] \in Stamp
      BY <2>1, <2>2, StampParts
  <2>4. cache' = [cache EXCEPT ![g] = [cache[g] EXCEPT !.b = NextStamp(cache[g].b)]]
      BY <1>5 DEF SetSecond
  <2>5. cache' \in [Groups -> Stamp]
      BY <2>3, <2>4 DEF TypeOK
  <2>6. seq' \in 0..SeqSize - 1
      BY <1>5, NextStampType DEF SetSecond, TypeOK
  <2> QED BY <1>5, <2>5, <2>6 DEF SetSecond, TypeOK
<1>6. CASE Wake(g)
    BY <1>6 DEF Wake, TypeOK, cacheVars
<1>7. CASE Close(g)
    BY <1>7 DEF Close, TypeOK, cacheVars
<1> QED BY <1>1, <1>2, <1>3, <1>4, <1>5, <1>6, <1>7 DEF Sensor

LEMMA PublisherCacheType ==
    ASSUME TypeOK, Publisher
    PROVE  CacheTypeOK'
<1> USE DEF CacheTypeOK
<1>0. "state" \in ToSet(Threads)
    BY ThreadsAreListed
<1>1. CASE Connect("state")
    BY <1>1 DEF Connect, TypeOK, cacheVars
<1>2. CASE Loop("state")
    BY <1>2 DEF Loop, TypeOK, cacheVars
<1>3. CASE Lock("state")
    BY <1>3, <1>0 DEF Lock, TypeOK
<1>4. CASE CopyFirst
  <2>1. \A g \in Groups : cache[g] \in Stamp /\ copy.parts[g] \in Stamp
      BY DEF TypeOK
  <2>2. \A g \in Groups : [copy.parts[g] EXCEPT !.a = cache[g].a] \in Stamp
    <3>1. TAKE g \in Groups
    <3>2. cache[g].a \in 0..SeqSize - 1
        BY <2>1 DEF Stamp
    <3>3. copy.parts[g] \in Stamp
        BY <2>1
    <3> QED BY <3>2, <3>3, StampParts
  <2>3. copy' = [copy EXCEPT !.parts =
                    [g \in Groups |-> [copy.parts[g] EXCEPT !.a = cache[g].a]]]
      BY <1>4 DEF CopyFirst
  <2>4. copy' \in [parts : [Groups -> Stamp], seq : 0..SeqSize - 1]
      BY <2>2, <2>3 DEF TypeOK
  <2> QED BY <1>4, <2>4 DEF CopyFirst, TypeOK, cacheVars
<1>5. CASE CopySecond
  <2>1. \A g \in Groups : cache[g] \in Stamp /\ copy.parts[g] \in Stamp
      BY DEF TypeOK
  <2>2. \A g \in Groups : [copy.parts[g] EXCEPT !.b = cache[g].b] \in Stamp
    <3>1. TAKE g \in Groups
    <3>2. cache[g].b \in 0..SeqSize - 1
        BY <2>1 DEF Stamp
    <3>3. copy.parts[g] \in Stamp
        BY <2>1
    <3> QED BY <3>2, <3>3, StampParts
  <2>3. copy' \in [parts : [Groups -> Stamp], seq : 0..SeqSize - 1]
      BY <1>5, <2>2 DEF CopySecond, TypeOK
  <2> QED BY <1>5, <2>3 DEF CopySecond, TypeOK
<1>6. CASE Publish
    BY <1>6 DEF Publish, TypeOK, cacheVars
<1>7. CASE Wake("state")
    BY <1>7 DEF Wake, TypeOK, cacheVars
<1>8. CASE Close("state")
    BY <1>8 DEF Close, TypeOK, cacheVars
<1> QED BY <1>1, <1>2, <1>3, <1>4, <1>5, <1>6, <1>7, <1>8 DEF Publisher

\* A thread that advances keeps the types of what it does not own.
LEMMA AdvanceType ==
    ASSUME TypeOK, NEW t \in ToSet(Threads), Advances(t), CacheTypeOK'
    PROVE  TypeOK'
<1>1. at' \in [ToSet(Threads) -> Places \cup {"none"}]
    BY DEF Advances, TypeOK, Places
<1> QED BY <1>1 DEF Advances, TypeOK, CacheTypeOK, mainVars, Places

LEMMA TypeInit == Init => TypeOK
<1> SUFFICES ASSUME Init PROVE TypeOK
    OBVIOUS
<1>1. copy \in [parts : [Groups -> Stamp], seq : 0..SeqSize - 1]
    BY ZeroType, SeqSizeAssumption DEF Init
<1>2. seq \in 0..SeqSize - 1 /\ cache \in [Groups -> Stamp]
    BY ZeroType, SeqSizeAssumption DEF Init
<1> QED BY <1>1, <1>2, ThreadsAreListed DEF Init, TypeOK

LEMMA TypeStep == ASSUME TypeOK, [Next]_vars PROVE TypeOK'
<1> USE DEF cacheVars, GoTo
<1>1. CASE StartThread
  <2>1. next \in 1..Len(Threads) /\ Threads[next] \in ToSet(Threads)
      BY <1>1, ThreadsAreListed DEF StartThread, TypeOK, ToSet
  <2>2. at' \in [ToSet(Threads) -> Places \cup {"none"}]
      BY <1>1, <2>1 DEF StartThread, TypeOK, Places
  <2> QED BY <1>1, <2>1, <2>2, ThreadsAreListed DEF StartThread, TypeOK, Places
<1>2. CASE StartFails
    BY <1>2 DEF StartFails, TypeOK
<1>3. CASE AllStarted
    BY <1>3 DEF AllStarted, TypeOK
<1>4. CASE Join
    BY <1>4, ThreadsAreListed DEF Join, TypeOK
<1>5. CASE Return
    BY <1>5 DEF Return, TypeOK
<1>6. CASE Signal
    BY <1>6 DEF Signal, TypeOK
<1>7. ASSUME NEW g \in Groups, Sensor(g) PROVE TypeOK'
    BY <1>7, ThreadsAreListed, SensorAdvances, SensorCacheType, AdvanceType
<1>8. CASE Publisher
    BY <1>8, ThreadsAreListed, PublisherAdvances, PublisherCacheType, AdvanceType
<1>9. CASE Exited \/ UNCHANGED vars
    BY <1>9 DEF Exited, vars, TypeOK
<1> QED BY <1>1, <1>2, <1>3, <1>4, <1>5, <1>6, <1>7, <1>8, <1>9 DEF Next, Main

\* Types of all variables; main joins only threads it has started, however many
\* sensors there are.
THEOREM TypeCorrect == Spec => []TypeOK
BY TypeInit, TypeStep, PTL DEF Spec

-----------------------------------------------------------------------------
(* The life of the threads.                                                *)

\* main starts the threads in the order of the list and joins them in the same
\* order: those behind started have not begun, those before next have ended.
Roll ==
    /\ main = "start" => next = started + 1
    /\ \A i \in 1..Len(Threads) : i > started => at[Threads[i]] = "none"
    /\ main # "start" => \A i \in 1..next - 1 : at[Threads[i]] = "done"
    /\ main = "exited" => next > started

\* A thread that advances is neither one that has not begun nor one that ended.
LEMMA AdvanceRoll ==
    ASSUME TypeOK, Roll, NEW t \in ToSet(Threads), Advances(t)
    PROVE  Roll'
<1>1. \A s \in ToSet(Threads) : at[s] \in {"none", "done"} => at'[s] = at[s]
    BY DEF Advances, TypeOK
<1>2. \A i \in 1..Len(Threads) : Threads[i] \in ToSet(Threads)
    BY ThreadsAreListed DEF ToSet
<1>3. \A i \in 1..next - 1 : i \in 1..Len(Threads)
    BY ThreadsAreListed DEF TypeOK
<1>4. UNCHANGED mainVars
    BY DEF Advances
<1> QED BY <1>1, <1>2, <1>3, <1>4 DEF Roll, mainVars

LEMMA RollStep == ASSUME TypeOK, Roll, [Next]_vars PROVE Roll'
<1> USE DEF cacheVars, GoTo
<1>1. CASE StartThread
  <2>1. /\ main = "start" /\ next \in 1..Len(Threads) /\ next = started + 1
        /\ main' = main /\ started' = next /\ next' = next + 1
      BY <1>1, ThreadsAreListed DEF StartThread, TypeOK, Roll
  <2>2. \A i \in 1..Len(Threads) : i > started' => at'[Threads[i]] = "none"
    <3>1. SUFFICES ASSUME NEW i \in 1..Len(Threads), i > next
                   PROVE  at'[Threads[i]] = "none"
        BY <2>1
    <3>2. Threads[i] # Threads[next] /\ Threads[i] \in ToSet(Threads)
        BY <2>1, <3>1, ThreadsAreListed DEF ToSet
    <3>3. at[Threads[i]] = "none"
        BY <2>1, <3>1 DEF Roll, TypeOK
    <3> QED BY <1>1, <3>2, <3>3 DEF StartThread, TypeOK
  <2> QED BY <2>1, <2>2 DEF Roll
<1>2. CASE StartFails
    BY <1>2 DEF StartFails, TypeOK, Roll
<1>3. CASE AllStarted
    BY <1>3 DEF AllStarted, TypeOK, Roll
<1>4. CASE Join
  <2>1. /\ main = "join" /\ main' = main /\ started' = started /\ at' = at
        /\ next' = next + 1 /\ at[Threads[next]] = "done" /\ next \in 1..started
      BY <1>4 DEF Join, TypeOK
  <2>2. \A i \in 1..next' - 1 : at'[Threads[i]] = "done"
    <3>1. SUFFICES ASSUME NEW i \in 1..next PROVE at[Threads[i]] = "done"
        BY <2>1
    <3>2. CASE i = next
        BY <2>1, <3>2
    <3>3. CASE i \in 1..next - 1
        BY <2>1, <3>3 DEF Roll
    <3> QED BY <2>1, <3>2, <3>3
  <2> QED BY <2>1, <2>2 DEF Roll
<1>5. CASE Return
    BY <1>5 DEF Return, TypeOK, Roll
<1>6. CASE Signal
    BY <1>6 DEF Signal, TypeOK, Roll
<1>7. ASSUME NEW g \in Groups, Sensor(g) PROVE Roll'
    BY <1>7, ThreadsAreListed, SensorAdvances, AdvanceRoll
<1>8. CASE Publisher
    BY <1>8, ThreadsAreListed, PublisherAdvances, AdvanceRoll
<1>9. CASE Exited \/ UNCHANGED vars
    BY <1>9 DEF Exited, vars, Roll
<1> QED BY <1>1, <1>2, <1>3, <1>4, <1>5, <1>6, <1>7, <1>8, <1>9 DEF Next, Main

LEMMA RollMeansEnded == ASSUME TypeOK, Roll PROVE CacheOutlivesThreads
<1> SUFFICES ASSUME main = "exited", NEW t \in ToSet(Threads)
             PROVE  at[t] \in {"none", "done"}
    BY DEF CacheOutlivesThreads
<1>1. PICK i \in 1..Len(Threads) : Threads[i] = t
    BY ThreadsAreListed DEF ToSet
<1>2. CASE i > started
    BY <1>1, <1>2 DEF Roll
<1>3. CASE i <= started
    BY <1>1, <1>3, ThreadsAreListed DEF Roll, TypeOK
<1> QED BY <1>2, <1>3, ThreadsAreListed DEF TypeOK

\* main returns, and the cache on its stack disappears, only when every thread
\* it started has ended, whichever of the starts failed.
THEOREM CacheIsOutlived == Spec => []CacheOutlivesThreads
<1>1. Init => Roll
    BY ThreadsAreListed DEF Init, Roll, ToSet
<1> QED BY <1>1, TypeCorrect, RollStep, RollMeansEnded, PTL DEF Spec

-----------------------------------------------------------------------------
(* The snapshot.                                                           *)

\* A thread is inside its critical section exactly while it holds the mutex.
Exclusive ==
    \A t \in ToSet(Threads) : at[t] \in {"first", "second"} <=> mu = t

\* A part is half written only between the two steps of its sensor.
PartsAreWhole ==
    \A g \in Groups :
        cache[g].a = IF at[g] = "second" THEN NextStamp(cache[g].b) ELSE cache[g].b

\* Half a copy agrees with the cache, which nobody can change meanwhile.
HalfCopied ==
    at["state"] = "second" => \A g \in Groups : copy.parts[g].a = cache[g].a

Snapshot == Exclusive /\ PartsAreWhole /\ HalfCopied /\ SnapshotIsWhole

\* A step outside the critical section that leaves cache and copy alone.
LEMMA QuietStep ==
    ASSUME TypeOK, Snapshot, NEW t \in ToSet(Threads), NEW place,
           at[t] \notin {"first", "second"},
           place \notin {"first", "second", "publish"},
           at' = [at EXCEPT ![t] = place], UNCHANGED <<cacheVars, copy>>
    PROVE  Snapshot'
<1>1. \A s \in ToSet(Threads) : at'[s] = IF s = t THEN place ELSE at[s]
    BY DEF TypeOK
<1>2. Groups \subseteq ToSet(Threads) /\ "state" \in ToSet(Threads)
    BY ThreadsAreListed
<1>3. mu' = mu /\ cache' = cache /\ copy' = copy
    BY DEF cacheVars
<1>4. Exclusive'
    BY <1>1, <1>3 DEF Snapshot, Exclusive
<1>5. PartsAreWhole'
    BY <1>1, <1>2, <1>3 DEF Snapshot, PartsAreWhole
<1>6. HalfCopied' /\ SnapshotIsWhole'
    BY <1>1, <1>2, <1>3 DEF Snapshot, HalfCopied, SnapshotIsWhole
<1> QED BY <1>4, <1>5, <1>6 DEF Snapshot

\* A thread takes the mutex.
LEMMA LockStep ==
    ASSUME TypeOK, Snapshot, NEW t \in ToSet(Threads), Lock(t)
    PROVE  Snapshot'
<1>1. \A s \in ToSet(Threads) : at'[s] = IF s = t THEN "first" ELSE at[s]
    BY DEF TypeOK, Lock, GoTo
<1>2. Groups \subseteq ToSet(Threads) /\ "state" \in ToSet(Threads)
    BY ThreadsAreListed
<1>3. /\ mu = "free" /\ mu' = t /\ cache' = cache /\ copy' = copy
      /\ at[t] = "lock"
    BY DEF Lock
<1>4. \A s \in ToSet(Threads) : at[s] \notin {"first", "second"}
    BY <1>3, ThreadsAreListed DEF Snapshot, Exclusive
<1>5. Exclusive'
    BY <1>1, <1>3, <1>4 DEF Exclusive
<1>6. PartsAreWhole'
    BY <1>1, <1>2, <1>3 DEF Snapshot, PartsAreWhole
<1>7. HalfCopied' /\ SnapshotIsWhole'
    BY <1>1, <1>2, <1>3 DEF Snapshot, HalfCopied, SnapshotIsWhole
<1> QED BY <1>5, <1>6, <1>7 DEF Snapshot

\* A sensor writes one half of its part, or the other.
LEMMA SetStep ==
    ASSUME TypeOK, Snapshot, NEW g \in Groups, SetFirst(g) \/ SetSecond(g)
    PROVE  Snapshot'
<1>1. Groups \subseteq ToSet(Threads) /\ "state" \in ToSet(Threads) /\ g # "state"
      /\ "free" \notin ToSet(Threads)
    BY ThreadsAreListed
<1>2. at[g] \in {"first", "second"}
    BY DEF SetFirst, SetSecond
<1>3. mu = g /\ \A s \in ToSet(Threads) : s # g => at[s] \notin {"first", "second"}
    BY <1>1, <1>2 DEF Snapshot, Exclusive
<1>4. \A h \in Groups : cache[h] \in Stamp
    BY DEF TypeOK
<1>5. \A h \in Groups : h # g => cache'[h] = cache[h]
    BY DEF TypeOK, SetFirst, SetSecond
<1>6. CASE SetFirst(g)
  <2>1. \A s \in ToSet(Threads) : at'[s] = IF s = g THEN "second" ELSE at[s]
      BY <1>6 DEF TypeOK, SetFirst, GoTo
  <2>2. cache'[g] = [cache[g] EXCEPT !.a = NextStamp(cache[g].a)]
      BY <1>6 DEF TypeOK, SetFirst
  <2>3. cache'[g].a = NextStamp(cache[g].a) /\ cache'[g].b = cache[g].b
      BY <2>2, <1>4 DEF Stamp
  <2>4. cache[g].a = cache[g].b
      BY <1>6 DEF SetFirst, Snapshot, PartsAreWhole
  <2>5. Exclusive'
      BY <1>6, <1>2, <1>3, <2>1 DEF SetFirst, Exclusive
  <2>6. PartsAreWhole'
      BY <1>1, <1>5, <2>1, <2>3, <2>4 DEF Snapshot, PartsAreWhole
  <2>7. HalfCopied' /\ SnapshotIsWhole'
      BY <1>1, <1>3, <1>6, <2>1 DEF SetFirst, Snapshot, HalfCopied, SnapshotIsWhole
  <2> QED BY <2>5, <2>6, <2>7 DEF Snapshot
<1>7. CASE SetSecond(g)
  <2>1. \A s \in ToSet(Threads) : at'[s] = IF s = g THEN "sleep" ELSE at[s]
      BY <1>7 DEF TypeOK, SetSecond, GoTo
  <2>2. cache'[g] = [cache[g] EXCEPT !.b = NextStamp(cache[g].b)]
      BY <1>7 DEF TypeOK, SetSecond
  <2>3. cache'[g].a = cache[g].a /\ cache'[g].b = NextStamp(cache[g].b)
      BY <2>2, <1>4 DEF Stamp
  <2>4. cache[g].a = NextStamp(cache[g].b)
      BY <1>7 DEF SetSecond, Snapshot, PartsAreWhole
  <2>5. Exclusive'
      BY <1>7, <1>1, <1>3, <2>1 DEF SetSecond, Exclusive
  <2>6. PartsAreWhole'
      BY <1>1, <1>5, <2>1, <2>3, <2>4 DEF Snapshot, PartsAreWhole
  <2>7. HalfCopied' /\ SnapshotIsWhole'
      BY <1>1, <1>3, <1>7, <2>1 DEF SetSecond, Snapshot, HalfCopied, SnapshotIsWhole
  <2> QED BY <2>5, <2>6, <2>7 DEF Snapshot
<1> QED BY <1>6, <1>7

\* The publisher copies one half, or the other.
LEMMA CopyStep ==
    ASSUME TypeOK, Snapshot, CopyFirst \/ CopySecond
    PROVE  Snapshot'
<1>1. Groups \subseteq ToSet(Threads) /\ "state" \in ToSet(Threads)
      /\ "state" \notin Groups /\ "free" \notin ToSet(Threads)
    BY ThreadsAreListed
<1>2. at["state"] \in {"first", "second"}
    BY DEF CopyFirst, CopySecond
<1>3. \A s \in ToSet(Threads) : s # "state" => at[s] \notin {"first", "second"}
    BY <1>1, <1>2 DEF Snapshot, Exclusive
<1>4. mu = "state" /\ cache' = cache
    BY <1>1, <1>2 DEF Snapshot, Exclusive, CopyFirst, CopySecond, cacheVars
<1>5. \A g \in Groups : cache[g].a = cache[g].b
    BY <1>1, <1>3 DEF Snapshot, PartsAreWhole
<1>6. \A g \in Groups : cache[g] \in Stamp /\ copy.parts[g] \in Stamp
    BY DEF TypeOK
<1>7. CASE CopyFirst
  <2>1. \A s \in ToSet(Threads) : at'[s] = IF s = "state" THEN "second" ELSE at[s]
      BY <1>7 DEF TypeOK, CopyFirst, GoTo
  <2>2. \A g \in Groups : copy'.parts[g] = [copy.parts[g] EXCEPT !.a = cache[g].a]
      BY <1>7 DEF TypeOK, CopyFirst
  <2>3. \A g \in Groups : copy'.parts[g].a = cache[g].a
      BY <1>6, <2>2 DEF Stamp
  <2>4. Exclusive'
      BY <1>7, <1>2, <1>3, <1>4, <2>1 DEF CopyFirst, cacheVars, Exclusive
  <2>5. PartsAreWhole'
      BY <1>1, <1>4, <2>1 DEF Snapshot, PartsAreWhole
  <2>6. HalfCopied' /\ SnapshotIsWhole'
      BY <1>1, <1>4, <2>1, <2>3 DEF HalfCopied, SnapshotIsWhole
  <2> QED BY <2>4, <2>5, <2>6 DEF Snapshot
<1>8. CASE CopySecond
  <2>1. \A s \in ToSet(Threads) : at'[s] = IF s = "state" THEN "publish" ELSE at[s]
      BY <1>8 DEF TypeOK, CopySecond, GoTo
  <2>2. \A g \in Groups : copy'.parts[g] = [copy.parts[g] EXCEPT !.b = cache[g].b]
      BY <1>8 DEF CopySecond
  <2>3. \A g \in Groups : copy'.parts[g].a = copy.parts[g].a
                          /\ copy'.parts[g].b = cache[g].b
      BY <1>6, <2>2 DEF Stamp
  <2>4. \A g \in Groups : copy.parts[g].a = cache[g].a
      BY <1>8 DEF CopySecond, Snapshot, HalfCopied
  <2>5. Exclusive'
      BY <1>8, <1>1, <1>3, <2>1 DEF CopySecond, Exclusive
  <2>6. PartsAreWhole'
      BY <1>1, <1>4, <2>1 DEF Snapshot, PartsAreWhole
  <2>7. HalfCopied' /\ SnapshotIsWhole'
      BY <1>1, <1>5, <2>1, <2>3, <2>4 DEF HalfCopied, SnapshotIsWhole
  <2> QED BY <2>5, <2>6, <2>7 DEF Snapshot
<1> QED BY <1>7, <1>8

LEMMA SnapshotStep == ASSUME TypeOK, Roll, Snapshot, [Next]_vars PROVE Snapshot'
<1>1. CASE StartThread
  <2>1. next \in 1..Len(Threads) /\ next > started
      BY <1>1, ThreadsAreListed DEF StartThread, Roll, TypeOK
  <2>2. Threads[next] \in ToSet(Threads) /\ at[Threads[next]] = "none"
      BY <2>1, ThreadsAreListed DEF Roll, ToSet
  <2> QED BY <1>1, <2>2, QuietStep DEF StartThread, GoTo
<1>2. CASE UNCHANGED <<at, cacheVars, copy>>
    BY <1>2 DEF Snapshot, Exclusive, PartsAreWhole, HalfCopied, SnapshotIsWhole, cacheVars
<1>3. CASE StartFails \/ AllStarted \/ Join \/ Return \/ Signal
    BY <1>2, <1>3 DEF StartFails, AllStarted, Join, Return, Signal, cacheVars
<1>4. ASSUME NEW t \in ToSet(Threads), Connect(t) \/ Loop(t) \/ Wake(t) \/ Close(t)
      PROVE  Snapshot'
  <2>1. CASE Connect(t)
      BY <2>1, QuietStep DEF Connect, GoTo
  <2>2. CASE Loop(t)
      BY <2>2, QuietStep DEF Loop, GoTo
  <2>3. CASE Wake(t)
      BY <2>3, QuietStep DEF Wake, GoTo
  <2>4. CASE Close(t)
      BY <2>4, QuietStep DEF Close, GoTo
  <2> QED BY <1>4, <2>1, <2>2, <2>3, <2>4
<1>5. ASSUME NEW g \in Groups, Sensor(g) PROVE Snapshot'
    BY <1>4, <1>5, ThreadsAreListed, LockStep, SetStep DEF Sensor
<1>6. CASE Publish
    BY <1>6, ThreadsAreListed, QuietStep DEF Publish, GoTo
<1>7. CASE Publisher
    BY <1>4, <1>6, <1>7, ThreadsAreListed, LockStep, CopyStep DEF Publisher
<1>8. CASE Exited \/ UNCHANGED vars
    BY <1>2, <1>8 DEF Exited, vars, cacheVars
<1> QED BY <1>1, <1>3, <1>5, <1>7, <1>8 DEF Next, Main

\* No published snapshot is torn, however many sensors write the cache.
THEOREM SnapshotsAreWhole == Spec => []SnapshotIsWhole
<1>1. Init => Roll
    BY ThreadsAreListed DEF Init, Roll, ToSet
<1>2. Init => Snapshot
    BY ThreadsAreListed
       DEF Init, Snapshot, Exclusive, PartsAreWhole, HalfCopied, SnapshotIsWhole, Zero
<1>3. Snapshot => SnapshotIsWhole
    BY DEF Snapshot
<1> QED BY <1>1, <1>2, <1>3, TypeCorrect, RollStep, SnapshotStep, PTL DEF Spec

-----------------------------------------------------------------------------
(* The number of a snapshot.                                               *)

\* f adds the stamps of the parts up, as far as n sensors.
Adds(f, parts, n) ==
    /\ f \in [0..n -> Nat] /\ f[0] = 0
    /\ \A i \in 1..n : f[i] = f[i - 1] + parts[Sensors[i]].a

\* The stamp of a sensor by its place in the list.
LEMMA StampOf ==
    ASSUME NEW parts \in [Groups -> Stamp], NEW i \in 1..Len(Sensors)
    PROVE  parts[Sensors[i]].a \in 0..SeqSize - 1
<1>1. Sensors[i] \in Groups
    BY SensorsAssumption DEF Groups, ToSet
<1> QED BY <1>1 DEF Stamp

\* However many sensors there are, the stamps can be added up.
LEMMA SumExists ==
    ASSUME NEW parts \in [Groups -> Stamp], NEW n \in Nat
    PROVE  n <= Len(Sensors) => \E f : Adds(f, parts, n)
<1> DEFINE T == {m \in Nat : m <= Len(Sensors) => \E f : Adds(f, parts, m)}
<1>1. 0 \in T
  <2>1. Adds([i \in 0..0 |-> 0], parts, 0)
      BY DEF Adds
  <2> QED BY <2>1
<1>2. ASSUME NEW m \in Nat, m + 1 <= Len(Sensors), NEW f, Adds(f, parts, m)
      PROVE  \E g : Adds(g, parts, m + 1)
  <2> DEFINE s == parts[Sensors[m + 1]].a
             g == [i \in 0..m + 1 |-> IF i = m + 1 THEN f[m] + s ELSE f[i]]
  <2>1. s \in Nat
    <3>1. m + 1 \in 1..Len(Sensors)
        BY <1>2, SensorsAssumption
    <3>2. s \in 0..SeqSize - 1
        BY <3>1, StampOf
    <3> QED BY <3>2
  <2>2. Adds(g, parts, m + 1)
    <3> HIDE DEF s
    <3>1. g \in [0..m + 1 -> Nat] /\ g[0] = 0
        BY <1>2, <2>1 DEF Adds
    <3>2. ASSUME NEW i \in 1..m + 1 PROVE g[i] = g[i - 1] + parts[Sensors[i]].a
      <4>1. CASE i = m + 1
          BY <4>1, <1>2 DEF s
      <4>2. CASE i \in 1..m
        <5>1. g[i] = f[i] /\ g[i - 1] = f[i - 1]
            BY <4>2, <1>2
        <5> QED BY <5>1, <4>2, <1>2 DEF Adds
      <4> QED BY <4>1, <4>2
    <3> HIDE DEF g
    <3> QED BY <3>1, <3>2 DEF Adds
  <2> QED BY <2>2
<1>3. T = Nat
  <2>1. \A m \in T : m + 1 \in T
      BY <1>2
  <2> HIDE DEF T
  <2>2. T \in SUBSET Nat
      BY DEF T
  <2> QED BY <1>1, <2>1, <2>2, EveryNat
<1> HIDE DEF T
<1>4. n \in T
    BY <1>3
<1> QED BY <1>4 DEF T

\* So that is what TotalOf does.
LEMMA TotalAdds ==
    ASSUME NEW parts \in [Groups -> Stamp]
    PROVE  \E f : Adds(f, parts, Len(Sensors)) /\ TotalOf(parts) = f[Len(Sensors)]
<1> DEFINE n == Len(Sensors)
           Sums(f) == f = [i \in 0..n |-> IF i = 0 THEN 0 ELSE f[i - 1] + parts[Sensors[i]].a]
           total == CHOOSE f : Sums(f)
<1>1. n \in Nat
    BY SensorsAssumption
<1>2. \E f : Sums(f)
  <2>1. PICK f : Adds(f, parts, n)
      BY <1>1, SumExists
  <2> HIDE DEF n
  <2>2. Sums(f)
      BY <1>1, <2>1 DEF Adds
  <2> QED BY <2>2
<1>3. Sums(total)
  <2> HIDE DEF Sums
  <2> QED BY <1>2
<1>4. Adds(total, parts, n)
  <2> HIDE DEF total
  <2>1. total[0] = 0 /\ \A i \in 1..n : total[i] = total[i - 1] + parts[Sensors[i]].a
    <3> HIDE DEF n
    <3> QED BY <1>1, <1>3
  <2> DEFINE T == {i \in Nat : i <= n => total[i] \in Nat}
  <2>2. 0 \in T
      BY <2>1
  <2>3. ASSUME NEW i \in T PROVE i + 1 \in T
    <3> SUFFICES ASSUME i + 1 <= n PROVE total[i + 1] \in Nat
        OBVIOUS
    <3>1. i \in Nat /\ i + 1 \in 1..n /\ total[i] \in Nat
        BY <1>1
    <3>2. total[i + 1] = total[(i + 1) - 1] + parts[Sensors[i + 1]].a /\ (i + 1) - 1 = i
        BY <2>1, <3>1
    <3>3. parts[Sensors[i + 1]].a \in 0..SeqSize - 1
        BY <3>1, StampOf
    <3> QED BY <3>1, <3>2, <3>3
  <2>4. T = Nat
    <3>1. T \in SUBSET Nat
        OBVIOUS
    <3> HIDE DEF T
    <3> QED BY <2>2, <2>3, <3>1, EveryNat
  <2>5. \A i \in 0..n : total[i] \in Nat
    <3>1. \A i \in 0..n : i \in Nat /\ i <= n
        BY <1>1
    <3> QED BY <2>4, <3>1
  <2>6. total = [i \in 0..n |-> total[i]]
      BY <1>3
  <2>7. total \in [0..n -> Nat]
      BY <2>5, <2>6
  <2> HIDE DEF n
  <2> QED BY <2>1, <2>7 DEF Adds
<1>5. TotalOf(parts) = total[n]
    BY DEF TotalOf
<1> QED BY <1>4, <1>5

\* A part whose stamp moves moves the total by as much.
LEMMA TotalMoves ==
    ASSUME NEW parts \in [Groups -> Stamp], NEW others \in [Groups -> Stamp],
           NEW g \in Groups, NEW d \in Int, others[g].a = parts[g].a + d,
           \A s \in Groups \ {g} : others[s].a = parts[s].a
    PROVE  /\ TotalOf(parts) \in Nat /\ TotalOf(others) \in Nat
           /\ TotalOf(others) = TotalOf(parts) + d
<1> DEFINE n == Len(Sensors)
<1>0. n \in Nat
    BY SensorsAssumption
<1>1. PICK f : Adds(f, parts, n) /\ TotalOf(parts) = f[n]
    BY TotalAdds
<1>2. PICK h : Adds(h, others, n) /\ TotalOf(others) = h[n]
    BY TotalAdds
<1>3. PICK k \in 1..n : Sensors[k] = g /\ \A i \in 1..n : i # k => Sensors[i] \in Groups \ {g}
    BY SensorsAssumption DEF Groups, ToSet, IsInjective
<1> HIDE DEF n
<1>5. \A i \in 0..n : f[i] \in Nat /\ h[i] \in Nat
    BY <1>1, <1>2 DEF Adds
<1> DEFINE T == {i \in Nat : i <= n => h[i] = f[i] + (IF i < k THEN 0 ELSE d)}
<1>6. 0 \in T
    BY <1>0, <1>1, <1>2, <1>3 DEF Adds
<1>7. ASSUME NEW i \in T PROVE i + 1 \in T
  <2> SUFFICES ASSUME i + 1 <= n PROVE h[i + 1] = f[i + 1] + (IF i + 1 < k THEN 0 ELSE d)
      OBVIOUS
  <2>1. i \in Nat /\ i + 1 \in 1..n /\ (i + 1) - 1 = i /\ i \in 0..n
        /\ h[i] = f[i] + (IF i < k THEN 0 ELSE d)
      BY <1>0
  <2>2. /\ f[i + 1] = f[i] + parts[Sensors[i + 1]].a
        /\ h[i + 1] = h[i] + others[Sensors[i + 1]].a
      BY <1>1, <1>2, <2>1 DEF Adds
  <2>3. parts[Sensors[i + 1]].a \in Int /\ f[i] \in Int
    <3>1. parts[Sensors[i + 1]].a \in 0..SeqSize - 1
        BY <2>1, StampOf DEF n
    <3> QED BY <1>5, <2>1, <3>1, SeqSizeAssumption
  <2>4. CASE i + 1 = k
      BY <1>3, <2>1, <2>2, <2>3, <2>4
  <2>5. CASE i + 1 # k
    <3>1. others[Sensors[i + 1]].a = parts[Sensors[i + 1]].a
        BY <1>3, <2>1, <2>5
    <3> QED BY <1>3, <2>1, <2>2, <2>3, <2>5, <3>1
  <2> QED BY <2>4, <2>5
<1>8. T = Nat
  <2>1. T \in SUBSET Nat
      OBVIOUS
  <2> HIDE DEF T
  <2> QED BY <1>6, <1>7, <2>1, EveryNat
<1>9. h[n] = f[n] + d
  <2>1. n \in T
      BY <1>0, <1>8
  <2> QED BY <1>0, <1>3, <2>1
<1> QED BY <1>0, <1>1, <1>2, <1>5, <1>9

\* Nothing has been counted at the start.
LEMMA TotalOfZero == TotalOf(Zero) = 0
<1> DEFINE n == Len(Sensors)
<1>0. n \in Nat
    BY SensorsAssumption
<1>1. PICK f : Adds(f, Zero, n) /\ TotalOf(Zero) = f[n]
    BY TotalAdds, ZeroType
<1>2. \A i \in 1..n : Zero[Sensors[i]].a = 0
  <2>1. \A i \in 1..n : Sensors[i] \in Groups
      BY SensorsAssumption DEF Groups, ToSet
  <2> QED BY <2>1 DEF Zero
<1> HIDE DEF n
<1> DEFINE T == {i \in Nat : i <= n => f[i] = 0}
<1>3. 0 \in T
    BY <1>1 DEF Adds
<1>4. ASSUME NEW i \in T PROVE i + 1 \in T
  <2> SUFFICES ASSUME i + 1 <= n PROVE f[i + 1] = 0
      OBVIOUS
  <2>1. i + 1 \in 1..n /\ (i + 1) - 1 = i /\ f[i] = 0
      BY <1>0
  <2>2. f[i + 1] = f[(i + 1) - 1] + Zero[Sensors[i + 1]].a
      BY <1>1, <2>1 DEF Adds
  <2> QED BY <1>2, <2>1, <2>2
<1>5. T = Nat
  <2>1. T \in SUBSET Nat
      OBVIOUS
  <2> HIDE DEF T
  <2> QED BY <1>3, <1>4, <2>1, EveryNat
<1>6. n \in T
    BY <1>0, <1>5
<1> QED BY <1>1, <1>0, <1>6

\* Stamps and seq wrap together.
LEMMA WrapsAlike ==
    ASSUME NEW m \in Nat, NEW n \in Nat, n = m + 1 \/ n = m + 1 - SeqSize
    PROVE  n % SeqSize = NextStamp(m % SeqSize)
<1> DEFINE S == SeqSize
           q == m \div S
           r == m % S
<1>1. S \in Nat \ {0} /\ q \in Nat /\ r \in 0..S - 1 /\ m = q * S + r
    BY SeqSizeAssumption, Division
<1>2. \A p \in Nat, x \in 0..S - 1 : (p * S + x) % S = x
    BY <1>1, Quotient
<1>3. (r + 1) % S = IF r + 1 = S THEN 0 ELSE r + 1
  <2>1. CASE r + 1 = S
    <3>1. 1 * S + 0 = r + 1 /\ 0 \in 0..S - 1
        BY <1>1, <2>1
    <3> HIDE DEF S, r
    <3>2. (1 * S + 0) % S = 0
        BY <1>2, <3>1
    <3> QED BY <2>1, <3>1, <3>2
  <2>2. CASE r + 1 # S
    <3>1. 0 * S + (r + 1) = r + 1 /\ r + 1 \in 0..S - 1
        BY <1>1, <2>2
    <3> HIDE DEF S, r
    <3>2. (0 * S + (r + 1)) % S = r + 1
        BY <1>2, <3>1
    <3> QED BY <2>2, <3>1, <3>2
  <2> QED BY <2>1, <2>2
<1> HIDE DEF S, q, r
<1>4. PICK p \in Nat, x \in 0..S - 1 : n = p * S + x /\ x = IF r + 1 = S THEN 0 ELSE r + 1
  <2>1. q * S \in Nat
      BY <1>1
  <2>2. CASE r + 1 # S /\ n = m + 1
    <3>1. n = q * S + (r + 1) /\ r + 1 \in 0..S - 1
        BY <1>1, <2>1, <2>2
    <3> QED BY <1>1, <2>2, <3>1
  <2>3. CASE r + 1 = S /\ n = m + 1
    <3>1. (q + 1) * S = q * S + S
        BY <1>1
    <3>2. n = (q + 1) * S + 0 /\ q + 1 \in Nat /\ 0 \in 0..S - 1
        BY <1>1, <2>1, <2>3, <3>1
    <3> QED BY <2>3, <3>2
  <2>4. CASE r + 1 # S /\ n = m + 1 - S
    <3>1. q # 0
      <4> SUFFICES ASSUME q = 0 PROVE FALSE
          OBVIOUS
      <4>1. q * S = 0
          BY <1>1
      <4> QED BY <1>1, <2>4, <4>1
    <3>2. (q - 1) * S = q * S - S /\ q - 1 \in Nat
        BY <1>1, <3>1
    <3>3. n = (q - 1) * S + (r + 1) /\ r + 1 \in 0..S - 1
        BY <1>1, <2>1, <2>4, <3>2
    <3> QED BY <2>4, <3>2, <3>3
  <2>5. CASE r + 1 = S /\ n = m + 1 - S
    <3>1. n = q * S + 0 /\ 0 \in 0..S - 1
        BY <1>1, <2>1, <2>5
    <3> QED BY <1>1, <2>5, <3>1
  <2> QED BY <2>2, <2>3, <2>4, <2>5 DEF S
<1>5. n % S = x
    BY <1>2, <1>4
<1> QED BY <1>3, <1>4, <1>5 DEF S, r, NextStamp

\* seq is the number of updates in the cache, or one behind while a sensor is
\* between its two steps.
Named ==
    /\ (\A g \in Groups : at[g] # "second") => seq = TotalOf(cache) % SeqSize
    /\ (\E g \in Groups : at[g] = "second") => NextStamp(seq) = TotalOf(cache) % SeqSize
    /\ SeqNamesSnapshot

\* A step that leaves cache and copy alone.
LEMMA NamedKept ==
    ASSUME TypeOK, Named, NEW t \in ToSet(Threads), NEW place,
           at[t] # "second", place \notin {"second", "publish"},
           at' = [at EXCEPT ![t] = place], UNCHANGED <<cache, seq, copy>>
    PROVE  Named'
<1>1. \A s \in ToSet(Threads) : at'[s] = IF s = t THEN place ELSE at[s]
    BY DEF TypeOK
<1>2. Groups \subseteq ToSet(Threads) /\ "state" \in ToSet(Threads)
    BY ThreadsAreListed
<1>3. \A g \in Groups : at'[g] = "second" <=> at[g] = "second"
    BY <1>1, <1>2
<1>4. at'["state"] = "publish" => at["state"] = "publish"
    BY <1>1, <1>2
<1> QED BY <1>3, <1>4 DEF Named, SeqNamesSnapshot

\* A sensor counts its update in its part and then in seq.
LEMMA NamedSet ==
    ASSUME TypeOK, TypeOK', Snapshot, Named,
           NEW g \in Groups, SetFirst(g) \/ SetSecond(g)
    PROVE  Named'
<1>1. Groups \subseteq ToSet(Threads) /\ "state" \in ToSet(Threads) /\ g # "state"
    BY ThreadsAreListed
<1>2. \A s \in Groups \ {g} : at[s] # "second"
    BY <1>1 DEF SetFirst, SetSecond, Snapshot, Exclusive
<1>3. /\ cache \in [Groups -> Stamp] /\ cache' \in [Groups -> Stamp]
      /\ cache[g] \in Stamp /\ seq \in 0..SeqSize - 1
    BY DEF TypeOK
<1>4. \A s \in Groups \ {g} : cache'[s].a = cache[s].a
    BY <1>3 DEF SetFirst, SetSecond
<1>5. copy' = copy
    BY DEF SetFirst, SetSecond
<1>6. CASE SetFirst(g)
  <2>1. \A s \in ToSet(Threads) : at'[s] = IF s = g THEN "second" ELSE at[s]
      BY <1>6 DEF TypeOK, SetFirst, GoTo
  <2>2. cache'[g].a = NextStamp(cache[g].a)
    <3>1. cache'[g] = [cache[g] EXCEPT !.a = NextStamp(@)]
        BY <1>3, <1>6 DEF SetFirst
    <3> QED BY <1>3, <3>1 DEF Stamp
  <2>3. PICK d \in {1, 1 - SeqSize} : d \in Int /\ cache'[g].a = cache[g].a + d
    <3>1. cache[g].a \in 0..SeqSize - 1
        BY <1>3 DEF Stamp
    <3>2. cache[g].a + 1 \in Nat /\ cache[g].a \in Nat /\ SeqSize \in Nat \ {0}
        BY <3>1, SeqSizeAssumption
    <3>3. CASE cache[g].a + 1 < SeqSize
      <4>1. NextStamp(cache[g].a) = cache[g].a + 1
          BY <3>1, <3>2, <3>3 DEF NextStamp
      <4> QED BY <2>2, <4>1
    <3>4. CASE cache[g].a + 1 = SeqSize
      <4>1. NextStamp(cache[g].a) = 0
          BY <3>2, <3>4 DEF NextStamp
      <4> QED BY <2>2, <3>2, <3>4, <4>1
    <3> QED BY <3>1, <3>2, <3>3, <3>4
  <2>4. /\ TotalOf(cache) \in Nat /\ TotalOf(cache') \in Nat
        /\ TotalOf(cache') = TotalOf(cache) + d
      BY <1>3, <1>4, <2>3, TotalMoves
  <2>5. TotalOf(cache') = TotalOf(cache) + 1 \/ TotalOf(cache') = TotalOf(cache) + 1 - SeqSize
      BY <2>3, <2>4, SeqSizeAssumption
  <2>6. TotalOf(cache') % SeqSize = NextStamp(TotalOf(cache) % SeqSize)
      BY <2>4, <2>5, WrapsAlike
  <2>7. seq' = seq /\ seq = TotalOf(cache) % SeqSize
      BY <1>2, <1>6 DEF SetFirst, Named
  <2>8. at'[g] = "second" /\ at'["state"] = at["state"]
      BY <1>1, <2>1
  <2>9. NextStamp(seq') = TotalOf(cache') % SeqSize
      BY <2>6, <2>7
  <2> QED BY <1>5, <2>8, <2>9 DEF Named, SeqNamesSnapshot
<1>7. CASE SetSecond(g)
  <2>1. \A s \in ToSet(Threads) : at'[s] = IF s = g THEN "sleep" ELSE at[s]
      BY <1>7 DEF TypeOK, SetSecond, GoTo
  <2>2. cache'[g].a = cache[g].a + 0
    <3>1. cache'[g] = [cache[g] EXCEPT !.b = NextStamp(@)]
        BY <1>3, <1>7 DEF SetSecond
    <3>2. cache[g].a \in 0..SeqSize - 1 /\ cache'[g].a = cache[g].a
        BY <1>3, <3>1 DEF Stamp
    <3> QED BY <3>2, SeqSizeAssumption
  <2>3. TotalOf(cache') = TotalOf(cache)
    <3>1. TotalOf(cache) \in Nat /\ TotalOf(cache') = TotalOf(cache) + 0
        BY <1>3, <1>4, <2>2, TotalMoves
    <3> QED BY <3>1
  <2>4. seq' = NextStamp(seq) /\ NextStamp(seq) = TotalOf(cache) % SeqSize
      BY <1>7 DEF SetSecond, Named
  <2>5. \A s \in Groups : at'[s] # "second"
      BY <1>1, <1>2, <2>1
  <2>6. at'["state"] = at["state"]
      BY <1>1, <2>1
  <2>7. seq' = TotalOf(cache') % SeqSize
      BY <2>3, <2>4
  <2> QED BY <1>5, <2>5, <2>6, <2>7 DEF Named, SeqNamesSnapshot
<1> QED BY <1>6, <1>7

\* The publisher has copied the whole cache, and its seq.
LEMMA NamedCopy ==
    ASSUME TypeOK, Snapshot, Named, CopyFirst \/ CopySecond
    PROVE  Named'
<1>1. Groups \subseteq ToSet(Threads) /\ "state" \in ToSet(Threads)
      /\ "state" \notin Groups
    BY ThreadsAreListed
<1>2. \A g \in Groups : at[g] # "second"
    BY <1>1 DEF CopyFirst, CopySecond, Snapshot, Exclusive
<1>3. cache' = cache /\ seq' = seq
    BY DEF CopyFirst, CopySecond, cacheVars
<1>4. \A g \in Groups : at'[g] # "second"
    BY <1>1, <1>2 DEF CopyFirst, CopySecond, GoTo, TypeOK
<1>5. seq = TotalOf(cache) % SeqSize
    BY <1>2 DEF Named
<1>6. CASE CopyFirst
  <2>1. at'["state"] = "second"
      BY <1>1, <1>6 DEF CopyFirst, GoTo, TypeOK
  <2> QED BY <1>3, <1>4, <1>5, <2>1 DEF Named, SeqNamesSnapshot
<1>7. CASE CopySecond
  <2>1. \A g \in Groups : cache[g] \in Stamp /\ copy.parts[g] \in Stamp
      BY DEF TypeOK
  <2>2. \A g \in Groups : copy.parts[g].a = cache[g].a
      BY <1>7 DEF CopySecond, Snapshot, HalfCopied
  <2>3. \A g \in Groups : [copy.parts[g] EXCEPT !.b = cache[g].b] = cache[g]
      BY <2>1, <2>2 DEF Stamp
  <2>4. copy'.parts = cache /\ copy'.seq = seq
    <3>1. copy'.parts = [g \in Groups |-> [copy.parts[g] EXCEPT !.b = cache[g].b]]
          /\ copy'.seq = seq
        BY <1>7 DEF CopySecond
    <3> QED BY <2>3, <3>1 DEF TypeOK
  <2> QED BY <1>3, <1>4, <1>5, <2>4 DEF Named, SeqNamesSnapshot
<1> QED BY <1>6, <1>7

LEMMA NamedStep ==
    ASSUME TypeOK, TypeOK', Roll, Snapshot, Named, [Next]_vars
    PROVE  Named'
<1>1. CASE StartThread
  <2>1. next \in 1..Len(Threads) /\ next > started
      BY <1>1, ThreadsAreListed DEF StartThread, Roll, TypeOK
  <2>2. Threads[next] \in ToSet(Threads) /\ at[Threads[next]] = "none"
      BY <2>1, ThreadsAreListed DEF Roll, ToSet
  <2> QED BY <1>1, <2>2, NamedKept DEF StartThread, GoTo, cacheVars
<1>2. CASE UNCHANGED <<at, cacheVars, copy>>
    BY <1>2 DEF Named, SeqNamesSnapshot, cacheVars
<1>3. CASE StartFails \/ AllStarted \/ Join \/ Return \/ Signal
    BY <1>2, <1>3 DEF StartFails, AllStarted, Join, Return, Signal, cacheVars
<1>4. ASSUME NEW t \in ToSet(Threads), Connect(t) \/ Loop(t) \/ Lock(t) \/ Wake(t) \/ Close(t)
      PROVE  Named'
  <2>1. CASE Connect(t)
      BY <2>1, NamedKept DEF Connect, GoTo, cacheVars
  <2>2. CASE Loop(t)
      BY <2>2, NamedKept DEF Loop, GoTo, cacheVars
  <2>3. CASE Lock(t)
      BY <2>3, NamedKept DEF Lock, GoTo
  <2>4. CASE Wake(t)
      BY <2>4, NamedKept DEF Wake, GoTo, cacheVars
  <2>5. CASE Close(t)
      BY <2>5, NamedKept DEF Close, GoTo, cacheVars
  <2> QED BY <1>4, <2>1, <2>2, <2>3, <2>4, <2>5
<1>5. ASSUME NEW g \in Groups, Sensor(g) PROVE Named'
    BY <1>4, <1>5, ThreadsAreListed, NamedSet DEF Sensor
<1>6. CASE Publish
  <2>1. PICK place \in {"sleep", "loop"} : at' = [at EXCEPT !["state"] = place]
      BY <1>6 DEF Publish, GoTo
  <2>2. "state" \in ToSet(Threads) /\ at["state"] # "second"
        /\ UNCHANGED <<cache, seq, copy>>
      BY <1>6, ThreadsAreListed DEF Publish, cacheVars
  <2> QED BY <2>1, <2>2, NamedKept
<1>7. CASE Publisher
    BY <1>4, <1>6, <1>7, ThreadsAreListed, NamedCopy DEF Publisher
<1>8. CASE Exited \/ UNCHANGED vars
    BY <1>2, <1>8 DEF Exited, vars, cacheVars
<1> QED BY <1>1, <1>3, <1>5, <1>7, <1>8 DEF Next, Main

\* The seq of a published snapshot is the number of updates in its parts, although
\* every sensor counts it and stamps and seq wrap.
THEOREM SnapshotsAreNamed == Spec => []SeqNamesSnapshot
<1>1. Init => Roll
    BY ThreadsAreListed DEF Init, Roll, ToSet
<1>2. Init => Snapshot
    BY ThreadsAreListed
       DEF Init, Snapshot, Exclusive, PartsAreWhole, HalfCopied, SnapshotIsWhole, Zero
<1>3. Init => Named
  <2> SUFFICES ASSUME Init PROVE Named
      OBVIOUS
  <2>1. 0 % SeqSize = 0
      BY SeqSizeAssumption
  <2>2. \A t \in ToSet(Threads) : at[t] = "none"
      BY DEF Init
  <2> QED BY <2>1, <2>2, ThreadsAreListed, TotalOfZero DEF Init, Named, SeqNamesSnapshot
<1>4. Named => SeqNamesSnapshot
    BY DEF Named
<1>5. TypeOK /\ TypeOK' /\ Roll /\ Snapshot /\ Named /\ [Next]_vars => Named'
    BY NamedStep
<1> QED BY <1>1, <1>2, <1>3, <1>4, <1>5, TypeCorrect, RollStep, SnapshotStep, PTL DEF Spec

-----------------------------------------------------------------------------
(* The clock only holds steps of RobotSim back.                            *)

Names == ToSet(Threads)

LEMMA ClockStep == ASSUME [ClockNext]_<<vars, clockVars>> PROVE [Next]_vars
<1>1. CASE Clock \/ UNCHANGED <<vars, clockVars>>
    BY <1>1 DEF Clock, vars
<1>2. CASE Untimed(Main) \/ Untimed(Signal) \/ Untimed(Exited)
    BY <1>2 DEF Untimed, Next
<1>3. CASE \E g \in Groups : TimedSensor(g)
    BY <1>3 DEF TimedSensor, TimedConnect, TimedLoop, TimedSetSecond, TimedWake, Untimed,
                Next, Sensor
<1>4. CASE TimedPublisher
    BY <1>4 DEF TimedPublisher, TimedConnect, TimedLoop, TimedPublish, TimedWake, Untimed,
                Next, Publisher
<1>5. CASE \E t \in Names : Interrupted(t)
    BY <1>5, ThreadsAreListed DEF Names, Interrupted, Next, Sensor, Publisher
<1> QED BY <1>1, <1>2, <1>3, <1>4, <1>5 DEF ClockNext, Names

\* Whatever holds of RobotSim holds when its threads keep time.
THEOREM ClockImplementsSim == ClockSpec => Spec
<1>1. ClockInit => Init
    BY DEF ClockInit
<1>2. [ClockNext]_<<vars, clockVars>> => [Next]_vars
    BY ClockStep
<1> QED BY <1>1, <1>2, PTL DEF ClockSpec, Spec

-----------------------------------------------------------------------------
(* The schedule.                                                           *)

LEMMA TimeOfNumber ==
    ASSUME NEW n \in Nat
    PROVE  At(n) \in Timespec /\ At(n).nsec < Second /\ Ns(At(n)) = n
BY Division, ClockAssumption DEF At, Ns, Timespec

\* The loop that carries nanoseconds over keeps the sum and leaves a valid time.
LEMMA AdvanceAddsUp ==
    ASSUME NEW ts \in Timespec, NEW p \in Nat
    PROVE  /\ Advance(ts, p) \in Timespec
           /\ Advance(ts, p).nsec < Second
           /\ Ns(Advance(ts, p)) = Ns(ts) + p
<1> DEFINE n == ts.nsec + p
           q == n \div Second
           r == n % Second
<1>1. ts.sec \in Nat /\ ts.nsec \in Nat /\ n \in Nat
    BY DEF Timespec
<1>2. q \in Nat /\ r \in Nat /\ r < Second /\ n = q * Second + r
  <2> HIDE DEF n
  <2>1. n \in Nat /\ Second \in Nat \ {0}
      BY <1>1, ClockAssumption
  <2> QED BY <2>1, Division
<1>3. Advance(ts, p) = [sec |-> ts.sec + q, nsec |-> r]
    BY DEF Advance
<1>4. (ts.sec + q) * Second + r = ts.sec * Second + ts.nsec + p
  <2> HIDE DEF q, r
  <2>1. (ts.sec + q) * Second = ts.sec * Second + q * Second
      BY <1>1, <1>2, ClockAssumption
  <2>2. ts.sec * Second \in Nat /\ q * Second \in Nat
      BY <1>1, <1>2, ClockAssumption
  <2> QED BY <1>1, <1>2, <2>1, <2>2
<1> HIDE DEF n, q, r
<1> QED BY <1>1, <1>2, <1>3, <1>4 DEF Ns, Timespec

ClockTypes ==
    /\ now \in Nat /\ due \in [Names -> Timespec]
    /\ began \in [Names -> Nat] /\ passes \in [Names -> Nat]

\* What is true of the clock of t, whatever it is about to do.  A pass begins when
\* the time has come; in front of one a thread may also be told to end.
Kept(t) ==
    /\ at[t] \in {"none", "connect"} => passes[t] = 0
    /\ Timed(t) => due[t].nsec < Second
    /\ Timed(t) => Ns(due[t]) = began[t] + passes[t] * Period[t]
    /\ InPass(t) => Late(t)
    /\ at[t] = "loop" => Late(t) \/ ~g_running

Schedule == ClockTypes /\ \A t \in Names : Kept(t)

\* Time and signals disturb nobody who does nothing.
LEMMA KeptByOthers ==
    ASSUME ClockTypes, ClockTypes', NEW t \in Names, Kept(t),
           at'[t] = at[t], due'[t] = due[t], began'[t] = began[t], passes'[t] = passes[t],
           now' >= now, g_running' => g_running
    PROVE  Kept(t)'
<1>1. Ns(due[t]) \in Nat /\ Ns(due'[t]) = Ns(due[t])
  <2>1. due[t].sec \in Nat /\ due[t].nsec \in Nat /\ Second \in Nat
      BY ClockAssumption DEF ClockTypes, Timespec
  <2>2. due[t].sec * Second \in Nat
      BY <2>1
  <2> QED BY <2>1, <2>2 DEF Ns
<1>2. Late(t) => Late(t)'
    BY <1>1 DEF Late, ClockTypes
<1> QED BY <1>1, <1>2 DEF Kept, Timed, InPass

\* A step of u touches nobody else's clock.
Only(u) ==
    /\ \A t \in Names \ {u} :
           at'[t] = at[t] /\ due'[t] = due[t] /\ began'[t] = began[t] /\ passes'[t] = passes[t]
    /\ UNCHANGED <<now, g_running>>

LEMMA ScheduleByOne ==
    ASSUME Schedule, NEW u \in Names, Only(u), ClockTypes', Kept(u)'
    PROVE  Schedule'
<1>1. ASSUME NEW t \in Names \ {u} PROVE Kept(t)'
  <2>1. now' >= now /\ (g_running' => g_running)
      BY DEF Only, Schedule, ClockTypes
  <2> QED BY <2>1, KeptByOthers DEF Only, Schedule
<1> QED BY <1>1 DEF Schedule

\* A thread has read the clock.
LEMMA ConnectKeeps ==
    ASSUME TypeOK, Schedule, NEW u \in Names, TimedConnect(u)
    PROVE  Schedule'
<1>1. now \in Nat /\ At(now) \in Timespec /\ At(now).nsec < Second /\ Ns(At(now)) = now
    BY TimeOfNumber DEF Schedule, ClockTypes
<1>2. at[u] = "connect" /\ passes' = passes /\ passes[u] = 0 /\ Period[u] \in Nat
    BY ClockAssumption DEF TimedConnect, Connect, Schedule, Kept, Names
<1>3. Only(u)
  <2>1. \A t \in Names \ {u} : at'[t] = at[t]
      BY DEF TimedConnect, Connect, GoTo, TypeOK, Names
  <2>2. \A t \in Names \ {u} : due'[t] = due[t] /\ began'[t] = began[t]
      BY DEF TimedConnect, Schedule, ClockTypes
  <2>3. UNCHANGED <<now, g_running>>
      BY DEF TimedConnect, Connect, mainVars
  <2> QED BY <1>2, <2>1, <2>2, <2>3 DEF Only
<1>4. CASE at'[u] = "loop"
  <2>1. due'[u] = At(now) /\ began'[u] = now /\ now' = now /\ ClockTypes'
      BY <1>1, <1>2, <1>4 DEF TimedConnect, Schedule, ClockTypes
  <2>2. Late(u)'
      BY <1>1, <2>1 DEF Late, Ns
  <2>3. Ns(due'[u]) = began'[u] + passes'[u] * Period[u]
      BY <1>1, <1>2, <2>1
  <2>4. Kept(u)'
      BY <1>1, <1>4, <2>1, <2>2, <2>3 DEF Kept, InPass
  <2> QED BY <1>3, <2>1, <2>4, ScheduleByOne
<1>5. CASE at'[u] # "loop"
  <2>1. at'[u] = "done" /\ ClockTypes'
      BY <1>5 DEF TimedConnect, Connect, GoTo, Names, TypeOK, Schedule, ClockTypes
  <2>2. Kept(u)'
      BY <2>1 DEF Kept, Timed, InPass
  <2> QED BY <1>3, <2>1, <2>2, ScheduleByOne
<1> QED BY <1>4, <1>5

\* A pass is over: the next time is one period behind the last one.
LEMMA TickKeeps ==
    ASSUME TypeOK, Schedule, NEW u \in Names, Timed(u), Tick(u),
           at' = [at EXCEPT ![u] = "sleep"], UNCHANGED <<now, began, g_running>>
    PROVE  Schedule'
<1>1. due[u] \in Timespec /\ Period[u] \in Nat /\ passes[u] \in Nat /\ began[u] \in Nat
    BY ClockAssumption DEF Schedule, ClockTypes, Names
<1>2. /\ due'[u] = Advance(due[u], Period[u]) /\ passes'[u] = passes[u] + 1
      /\ ClockTypes' /\ at'[u] = "sleep"
  <2>1. Advance(due[u], Period[u]) \in Timespec
      BY <1>1, AdvanceAddsUp
  <2>2. due' \in [Names -> Timespec] /\ due'[u] = Advance(due[u], Period[u])
      BY <2>1 DEF Tick, Schedule, ClockTypes
  <2>3. passes' \in [Names -> Nat] /\ passes'[u] = passes[u] + 1
      BY <1>1 DEF Tick, Schedule, ClockTypes
  <2>4. at'[u] = "sleep"
      BY DEF TypeOK, Names
  <2> QED BY <2>2, <2>3, <2>4 DEF Schedule, ClockTypes
<1>3. Ns(due'[u]) = began'[u] + passes'[u] * Period[u]
  <2>1. Ns(due[u]) = began[u] + passes[u] * Period[u]
      BY DEF Schedule, Kept
  <2>2. Ns(due'[u]) = Ns(due[u]) + Period[u]
      BY <1>1, <1>2, AdvanceAddsUp
  <2>3. (passes[u] + 1) * Period[u] = passes[u] * Period[u] + Period[u]
        /\ passes[u] * Period[u] \in Nat
      BY <1>1
  <2> QED BY <1>1, <1>2, <2>1, <2>2, <2>3
<1>4. due'[u].nsec < Second
    BY <1>1, <1>2, AdvanceAddsUp
<1>5. Kept(u)'
    BY <1>2, <1>3, <1>4 DEF Kept, InPass
<1>6. Only(u)
    BY DEF Tick, Only, Schedule, ClockTypes, TypeOK
<1> QED BY <1>2, <1>5, <1>6, ScheduleByOne

\* A step of u that leaves the clock alone.
LEMMA MoveKeeps ==
    ASSUME TypeOK, Schedule, NEW u \in Names, NEW place \in Places, Timed(u),
           at' = [at EXCEPT ![u] = place], UNCHANGED <<now, due, began, passes, g_running>>,
           place \in {"lock", "first", "second", "publish"} => Late(u),
           place = "loop" => Late(u) \/ ~g_running,
           place # "connect"
    PROVE  Schedule'
<1>1. at'[u] = place /\ ClockTypes' /\ Only(u)
    BY DEF Schedule, ClockTypes, Only, TypeOK, Names
<1>2. Late(u)' = Late(u) /\ g_running' = g_running
    BY DEF Late, Ns
<1>3. place # "none"
    BY DEF Places
<1>4. Kept(u)'
    BY <1>1, <1>2, <1>3 DEF Schedule, Kept, InPass, Timed, Ns
<1> QED BY <1>1, <1>4, ScheduleByOne

-----------------------------------------------------------------------------
(* The steps of RobotClock.                                                *)

\* The ends of a sleep, and what comes before a pass.
LEMMA WakeKeeps ==
    ASSUME TypeOK, Schedule, NEW u \in Names,
           TimedLoop(u) \/ TimedWake(u) \/ Interrupted(u) \/ Untimed(Close(u))
    PROVE  Schedule'
<1> USE DEF GoTo, mainVars, Places, Timed, clockVars
<1>1. CASE TimedLoop(u)
  <2>1. /\ at[u] = "loop" /\ UNCHANGED <<now, due, began, passes, g_running>>
        /\ at' = [at EXCEPT ![u] = IF g_running THEN "lock" ELSE "close"]
      BY <1>1 DEF TimedLoop, Loop
  <2>2. Late(u) \/ ~g_running
      BY <2>1 DEF Schedule, Kept
  <2>3. CASE g_running
      BY <2>1, <2>2, <2>3, MoveKeeps
  <2>4. CASE ~g_running
      BY <2>1, <2>4, MoveKeeps
  <2> QED BY <2>3, <2>4
<1>2. CASE TimedWake(u)
  <2>1. /\ at[u] = "sleep" /\ UNCHANGED <<now, due, began, passes, g_running>>
        /\ at' = [at EXCEPT ![u] = "loop"] /\ SleepEnds(u)
      BY <1>2 DEF TimedWake, Wake
  <2>2. due[u].nsec < Second /\ due[u].nsec \in Nat /\ Second \in Nat
      BY <2>1, ClockAssumption DEF Schedule, Kept, ClockTypes, Timespec
  <2>3. Late(u)
      BY <2>1, <2>2 DEF SleepEnds
  <2> QED BY <2>1, <2>3, MoveKeeps
<1>3. CASE Interrupted(u)
  <2>1. /\ at[u] = "sleep" /\ UNCHANGED <<now, due, began, passes, g_running>>
        /\ at' = [at EXCEPT ![u] = "loop"] /\ ~g_running
      BY <1>3 DEF Interrupted, Wake
  <2> QED BY <2>1, MoveKeeps
<1>4. CASE Untimed(Close(u))
  <2>1. /\ at[u] = "close" /\ UNCHANGED <<now, due, began, passes, g_running>>
        /\ at' = [at EXCEPT ![u] = "done"]
      BY <1>4 DEF Untimed, Close
  <2> QED BY <2>1, MoveKeeps
<1> QED BY <1>1, <1>2, <1>3, <1>4

\* The steps inside a pass, up to its end.
LEMMA PassKeeps ==
    ASSUME TypeOK, Schedule, NEW u \in Names,
           \/ Untimed(Lock(u)) \/ Untimed(SetFirst(u)) \/ TimedSetSecond(u)
           \/ u = "state" /\ (Untimed(CopyFirst) \/ Untimed(CopySecond) \/ TimedPublish)
    PROVE  Schedule'
<1> USE DEF GoTo, mainVars, Places, Timed, clockVars
<1>1. InPass(u) => Late(u)
    BY DEF Schedule, Kept
<1>2. CASE Untimed(Lock(u)) \/ Untimed(SetFirst(u))
  <2>1. CASE Untimed(Lock(u))
      BY <1>1, <2>1, MoveKeeps DEF Untimed, Lock, InPass
  <2>2. CASE Untimed(SetFirst(u))
      BY <1>1, <2>2, MoveKeeps DEF Untimed, SetFirst, InPass
  <2> QED BY <1>2, <2>1, <2>2
<1>3. CASE TimedSetSecond(u)
    BY <1>3, TickKeeps DEF TimedSetSecond, SetSecond
<1>4. CASE u = "state" /\ (Untimed(CopyFirst) \/ Untimed(CopySecond))
  <2>1. CASE Untimed(CopyFirst)
      BY <1>1, <1>4, <2>1, MoveKeeps DEF Untimed, CopyFirst, InPass
  <2>2. CASE Untimed(CopySecond)
      BY <1>1, <1>4, <2>2, MoveKeeps DEF Untimed, CopySecond, InPass
  <2> QED BY <1>4, <2>1, <2>2
<1>5. CASE u = "state" /\ TimedPublish
  <2>1. at[u] = "publish" /\ UNCHANGED <<now, began, g_running>>
      BY <1>5 DEF TimedPublish, Publish
  <2>2. CASE at' = [at EXCEPT ![u] = "sleep"]
    <3>1. at'[u] = "sleep"
        BY <2>2 DEF TypeOK, Names
    <3>2. Tick(u)
        BY <1>5, <3>1 DEF TimedPublish
    <3> QED BY <2>1, <2>2, <3>2, TickKeeps
  <2>3. CASE at' = [at EXCEPT ![u] = "loop"]
    <3>1. at'[u] = "loop"
        BY <2>3 DEF TypeOK, Names
    <3>2. UNCHANGED <<due, passes>>
        BY <1>5, <3>1 DEF TimedPublish
    <3>3. Late(u)
        BY <1>1, <2>1 DEF InPass
    <3> QED BY <2>1, <2>3, <3>2, <3>3, MoveKeeps
  <2> QED BY <1>5, <2>2, <2>3 DEF TimedPublish, Publish
<1> QED BY <1>2, <1>3, <1>4, <1>5

\* main, the signal and the clock.
LEMMA OthersKeep ==
    ASSUME TypeOK, Roll, Schedule,
           \/ Clock \/ Untimed(Main) \/ Untimed(Signal) \/ Untimed(Exited)
           \/ UNCHANGED <<vars, clockVars>>
    PROVE  Schedule'
<1> USE DEF clockVars, mainVars, vars
<1>1. CASE Untimed(StartThread)
  <2>1. /\ UNCHANGED <<now, due, began, passes, g_running>>
        /\ at' = [at EXCEPT ![Threads[next]] = "connect"]
        /\ next \in 1..Len(Threads) /\ next > started
      BY <1>1, ThreadsAreListed DEF Untimed, StartThread, GoTo, Roll, TypeOK
  <2>2. PICK u \in Names : u = Threads[next]
      BY <2>1, ThreadsAreListed DEF Names, ToSet
  <2>3. at[u] = "none" /\ passes[u] = 0
      BY <2>1, <2>2 DEF Schedule, Kept, Roll
  <2>4. at'[u] = "connect" /\ ClockTypes' /\ Only(u)
      BY <2>1, <2>2 DEF TypeOK, Names, Only, Schedule, ClockTypes
  <2>5. Kept(u)'
      BY <2>1, <2>3, <2>4 DEF Kept, Timed, InPass
  <2> QED BY <2>4, <2>5, ScheduleByOne
<1>2. CASE /\ UNCHANGED <<at, due, began, passes>>
           /\ now' \in Nat /\ now' >= now /\ (g_running' => g_running)
  <2>1. ClockTypes'
      BY <1>2 DEF Schedule, ClockTypes
  <2> QED BY <1>2, <2>1, KeptByOthers DEF Schedule
<1>3. now \in Nat
    BY DEF Schedule, ClockTypes
<1>4. CASE Clock
    BY <1>2, <1>3, <1>4 DEF Clock
<1>5. CASE Untimed(StartFails)
  <2>1. g_running' => g_running
      BY <1>5 DEF Untimed, StartFails
  <2>2. now' = now /\ UNCHANGED <<at, due, began, passes>>
      BY <1>5 DEF Untimed, StartFails
  <2> QED BY <1>2, <1>3, <2>1, <2>2
<1>6. CASE Untimed(AllStarted) \/ Untimed(Join) \/ Untimed(Return)
    BY <1>2, <1>3, <1>6 DEF Untimed, AllStarted, Join, Return
<1>7. CASE Untimed(Signal)
    BY <1>2, <1>3, <1>7 DEF Untimed, Signal
<1>8. CASE Untimed(Exited) \/ UNCHANGED <<vars, clockVars>>
    BY <1>2, <1>3, <1>8 DEF Untimed, Exited
<1> QED BY <1>1, <1>4, <1>5, <1>6, <1>7, <1>8 DEF Untimed, Main
LEMMA ScheduleStep ==
    ASSUME TypeOK, Roll, Schedule, [ClockNext]_<<vars, clockVars>>
    PROVE  Schedule'
<1>1. Groups \subseteq Names /\ "state" \in Names
    BY ThreadsAreListed DEF Names
<1>2. ASSUME NEW u \in Names, TimedSensor(u) PROVE Schedule'
    BY <1>2, ConnectKeeps, WakeKeeps, PassKeeps DEF TimedSensor
<1>3. CASE TimedPublisher
    BY <1>1, <1>3, ConnectKeeps, WakeKeeps, PassKeeps DEF TimedPublisher
<1>4. CASE \E t \in Names : Interrupted(t)
    BY <1>4, WakeKeeps
<1>5. CASE \/ Clock \/ Untimed(Main) \/ Untimed(Signal) \/ Untimed(Exited)
           \/ UNCHANGED <<vars, clockVars>>
    BY <1>5, OthersKeep
<1> QED BY <1>1, <1>2, <1>3, <1>4, <1>5 DEF ClockNext, Names

LEMMA ScheduleInit == ASSUME ClockInit PROVE Schedule
<1>1. At(0) \in Timespec
    BY TimeOfNumber
<1>2. ClockTypes
    BY <1>1 DEF ClockInit, ClockTypes, Names
<1>3. \A t \in Names : at[t] = "none" /\ passes[t] = 0
    BY DEF ClockInit, Init, Names
<1> QED BY <1>2, <1>3 DEF Schedule, Kept, Timed, InPass

\* A thread never drifts and never hurries: not for any rate, and however late it is.
THEOREM ThreadsKeepTime == ClockSpec => []OnSchedule
<1>1. Init => Roll
    BY ThreadsAreListed DEF Init, Roll, ToSet
<1>2. ClockInit => Roll /\ Schedule
    BY <1>1, ScheduleInit DEF ClockInit
<1>3. TypeOK /\ Roll /\ Schedule /\ [ClockNext]_<<vars, clockVars>> => Roll' /\ Schedule'
    BY ScheduleStep, ClockStep, RollStep
<1>4. Schedule => OnSchedule
    BY DEF Schedule, Kept, OnSchedule, Names
<1>5. ClockSpec => []TypeOK
    BY ClockImplementsSim, TypeCorrect, PTL
<1> QED BY <1>2, <1>3, <1>4, <1>5, PTL DEF ClockSpec

-----------------------------------------------------------------------------
(* The counts of the motors.                                               *)

\* Counting whole ticks and keeping the rest is dividing the whole movement, also
\* when count and movement wrap.
LEMMA CountingDivides ==
    ASSUME NEW M \in Nat, NEW m \in Nat
    PROVE  /\ Turn \in Nat \ {0}
           /\ (M \div Part + ((M % Part) + m) \div Part) % CountSize = ((M + m) % Turn) \div Part
           /\ ((M % Part) + m) % Part = ((M + m) % Turn) % Part
<1>1. Part \in Nat \ {0} /\ CountSize \in Nat \ {0}
    BY MotorAssumption
<1>2. PICK c \in Nat, f \in 0..Part - 1 : c = M \div Part /\ f = M % Part /\ M = c * Part + f
    BY <1>1, Division
<1>3. PICK k \in Nat, r \in 0..Part - 1 :
          k = (f + m) \div Part /\ r = (f + m) % Part /\ f + m = k * Part + r
  <2>1. f + m \in Nat
      BY <1>1
  <2> QED BY <1>1, <2>1, Division
<1>4. PICK a \in Nat, b \in 0..CountSize - 1 :
          b = (c + k) % CountSize /\ c + k = a * CountSize + b
  <2>1. c + k \in Nat
      OBVIOUS
  <2> QED BY <1>1, <2>1, Division
<1>5. Turn \in Nat \ {0}
    BY <1>1 DEF Turn
<1>6. M + m = a * Turn + (b * Part + r)
  <2>1. M + m = (c + k) * Part + r
    <3>1. (c + k) * Part = c * Part + k * Part /\ c * Part \in Nat /\ k * Part \in Nat
        BY <1>1
    <3> QED BY <1>1, <1>2, <1>3, <3>1
  <2>2. (c + k) * Part = a * Turn + b * Part
    <3>1. (a * CountSize + b) * Part = (a * CountSize) * Part + b * Part
        BY <1>1
    <3>2. (a * CountSize) * Part = a * (Part * CountSize)
        BY <1>1
    <3> QED BY <1>4, <3>1, <3>2 DEF Turn
  <2>3. a * Turn \in Nat /\ b * Part \in Nat /\ (c + k) * Part \in Nat
      BY <1>1, <1>5
  <2> DEFINE x == (c + k) * Part
             y == a * Turn
             z == b * Part
  <2>4. M + m = x + r /\ x = y + z /\ x \in Nat /\ y \in Nat /\ z \in Nat
      BY <2>1, <2>2, <2>3
  <2>5. M + m = y + (z + r)
    <3> HIDE DEF x, y, z
    <3> QED BY <1>1, <2>4
  <2> QED BY <2>5
<1>7. b * Part + r \in 0..Turn - 1
  <2>1. PICK n \in Nat : CountSize = b + 1 + n
      BY <1>1
  <2>2. Turn = b * Part + Part + n * Part
      BY <1>1, <2>1 DEF Turn
  <2>3. b * Part \in Nat /\ n * Part \in Nat
      BY <1>1
  <2> QED BY <1>1, <2>2, <2>3
<1>8. (M + m) % Turn = b * Part + r
  <2> DEFINE x == b * Part + r
  <2>1. M + m = a * Turn + x /\ x \in 0..Turn - 1
      BY <1>6, <1>7
  <2>2. (a * Turn + x) % Turn = x
    <3> HIDE DEF x
    <3> QED BY <1>5, <2>1, Quotient
  <2> QED BY <2>1, <2>2
<1>9. (b * Part + r) \div Part = b /\ (b * Part + r) % Part = r
    BY <1>1, Quotient
<1> QED BY <1>2, <1>3, <1>4, <1>5, <1>8, <1>9

Counts ==
    /\ tick_frac \in [Motors -> Nat] /\ tick_count \in [Motors -> Nat]
    /\ moved \in [Motors -> Nat]
    /\ CountIsExact

LEMMA CountsStep ==
    ASSUME Counts, [ClockNext]_<<vars, clockVars>>
    PROVE  Counts'
<1>1. CASE UNCHANGED motorVars
    BY <1>1 DEF motorVars, Counts, CountIsExact
<1>2. ASSUME NEW t, TimedLoop(t) PROVE Counts'
  <2>1. CASE UNCHANGED motorVars
      BY <1>1, <2>1
  <2>2. ASSUME t \in Motors, NEW m \in Moves, CountTicks(t, m),
               moved' = [moved EXCEPT ![t] = (@ + m) % Turn]
        PROVE  Counts'
    <3> DEFINE M == moved[t]
    <3>1. /\ m \in Nat /\ M \in Nat
          /\ tick_count[t] = M \div Part /\ tick_frac[t] = M % Part
        BY <2>2, MotorAssumption DEF Counts, CountIsExact
    <3>2. /\ tick_count'[t] = (M \div Part + ((M % Part) + m) \div Part) % CountSize
          /\ tick_frac'[t] = ((M % Part) + m) % Part
          /\ moved'[t] = (M + m) % Turn
        BY <2>2, <3>1 DEF CountTicks, Counts
    <3>3. /\ tick_count'[t] = moved'[t] \div Part
          /\ tick_frac'[t] = moved'[t] % Part
        BY <3>1, <3>2, CountingDivides
    <3>4. moved'[t] \in Nat
      <4> HIDE DEF M
      <4>1. M + m \in Nat /\ Turn \in Nat \ {0}
          BY <3>1, CountingDivides
      <4> QED BY <3>2, <4>1, Division
    <3>5. tick_count'[t] \in Nat /\ tick_frac'[t] \in Nat
      <4>1. /\ moved'[t] \div Part \in Nat
            /\ moved'[t] % Part \in 0..Part - 1
          BY <3>4, Division, MotorAssumption
      <4> QED BY <3>3, <4>1, MotorAssumption
    <3>6. \A g \in Motors \ {t} : /\ tick_count'[g] = tick_count[g]
                                  /\ tick_frac'[g] = tick_frac[g]
                                  /\ moved'[g] = moved[g]
        BY <2>2 DEF CountTicks, Counts
    <3>7. CountIsExact'
        BY <3>3, <3>6 DEF Counts, CountIsExact
    <3>8. /\ tick_frac' \in [Motors -> Nat] /\ tick_count' \in [Motors -> Nat]
          /\ moved' \in [Motors -> Nat]
      <4>1. /\ tick_frac' = [tick_frac EXCEPT ![t] = tick_frac'[t]]
            /\ tick_count' = [tick_count EXCEPT ![t] = tick_count'[t]]
            /\ moved' = [moved EXCEPT ![t] = moved'[t]]
          BY <2>2 DEF CountTicks, Counts
      <4> QED BY <3>4, <3>5, <4>1 DEF Counts
    <3> QED BY <3>7, <3>8 DEF Counts
  <2> QED BY <1>2, <2>1, <2>2 DEF TimedLoop
<1>3. ASSUME NEW t, TimedSensor(t) \/ TimedPublisher \/ Interrupted(t)
      PROVE  UNCHANGED motorVars \/ TimedLoop(t) \/ TimedLoop("state")
    BY <1>3 DEF TimedSensor, TimedPublisher, TimedConnect, TimedSetSecond, TimedPublish,
                TimedWake, Interrupted, Untimed, clockVars
<1>4. CASE \/ Clock \/ Untimed(Main) \/ Untimed(Signal) \/ Untimed(Exited)
           \/ UNCHANGED <<vars, clockVars>>
    BY <1>1, <1>4 DEF Clock, Untimed, clockVars
<1> QED BY <1>1, <1>2, <1>3, <1>4 DEF ClockNext

\* The count of a motor is its movement, for every size of the count and every
\* sequence of movements.
THEOREM CountsAreExact == ClockSpec => []CountIsExact
<1>1. ClockInit => Counts
  <2> SUFFICES ASSUME ClockInit PROVE Counts
      OBVIOUS
  <2>1. 0 \div Part = 0 /\ 0 % Part = 0
      BY MotorAssumption
  <2> QED BY <2>1 DEF ClockInit, Counts, CountIsExact
<1>2. Counts => CountIsExact
    BY DEF Counts
<1> QED BY <1>1, <1>2, CountsStep, PTL DEF ClockSpec
=============================================================================
