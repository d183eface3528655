-------------------------- MODULE WsHandshakeProofs --------------------------

(***************************************************************************)
(* Proofs about the algorithms of the opening handshake (WsHandshake), for *)
(* every message, every key and every compression function.                *)
(*                                                                         *)
(*   UpdateHolds        sha1_update takes its octets in behind those it    *)
(*                      has, however they are cut                          *)
(*   FinalIsStandard    sha1_final gives the digest of the standard        *)
(*   EncodeIsStandard   base64_encode writes what the standard says        *)
(*   KeyIsAccepted      a key that is not cut is answered as the client    *)
(*                      expects                                            *)
(*                                                                         *)
(* A context holds a message (Holds): the state is that of its whole       *)
(* blocks, and the buffer begins with what is left.                        *)
(***************************************************************************)
EXTENDS WsHandshake, SequenceTheorems, WellFoundedInduction, TLAPS

\* A set of numbers has a least one.
LEMMA LeastNat ==
    ASSUME NEW T \in SUBSET Nat, T # {}
    PROVE  \E n \in T : \A m \in T : n <= m
<1>1. PICK n \in T : \A m \in T : ~ (<<m, n>> \in OpToRel(<, Nat))
    BY NatLessThanWellFounded, WFMin
<1>2. ASSUME NEW m \in T PROVE n <= m
  <2>1. ~(m < n)
      BY <1>1, <1>2 DEF OpToRel
  <2> QED BY <2>1
<1> QED BY <1>2

\* A set that has 0, and n + 1 whenever it has n, holds every number.
LEMMA EveryNat ==
    ASSUME NEW T \in SUBSET Nat, 0 \in T, \A n \in T : n + 1 \in T
    PROVE  T = Nat
<1> SUFFICES ASSUME Nat \ T # {} PROVE FALSE
    OBVIOUS
<1>1. PICK n \in Nat \ T : \A m \in Nat \ T : n <= m
    BY LeastNat
<1>2. n - 1 \in Nat /\ n - 1 \in T
    BY <1>1
<1> QED BY <1>1, <1>2

-----------------------------------------------------------------------------
(* Sequences of octets.                                                    *)

\* s \o t, for the provers a symbol of its own.
Cat(s, t) == s \o t

LEMMA Joined ==
    ASSUME NEW S, NEW s \in Seq(S), NEW t \in Seq(S)
    PROVE  /\ Cat(s, t) \in Seq(S)
           /\ Len(s) \in Nat /\ Len(t) \in Nat
           /\ Len(Cat(s, t)) = Len(s) + Len(t)
           /\ Cat(s, <<>>) = s /\ Cat(<<>>, s) = s
<1>1. /\ s \o t \in Seq(S) /\ Len(s) \in Nat /\ Len(t) \in Nat
      /\ Len(s \o t) = Len(s) + Len(t)
    BY LenProperties, ConcatProperties
<1> QED BY <1>1, ConcatEmptySeq DEF Cat

LEMMA JoinedAt ==
    ASSUME NEW S, NEW s \in Seq(S), NEW t \in Seq(S)
    PROVE  /\ \A i \in 1..Len(s) : Cat(s, t)[i] = s[i]
           /\ \A i \in 1..Len(t) : Cat(s, t)[Len(s) + i] = t[i]
<1>1. \A i \in 1 .. Len(s) + Len(t) : (s \o t)[i] = IF i <= Len(s) THEN s[i] ELSE t[i - Len(s)]
    BY ConcatProperties
<1>2. Len(s) \in Nat /\ Len(t) \in Nat
    BY LenProperties
<1>3. ASSUME NEW i \in 1..Len(s) PROVE (s \o t)[i] = s[i]
    BY <1>1, <1>2
<1>4. ASSUME NEW i \in 1..Len(t) PROVE (s \o t)[Len(s) + i] = t[i]
    BY <1>1, <1>2
<1> QED BY <1>3, <1>4 DEF Cat

LEMMA OctetsJoinedAt ==
    ASSUME NEW s \in Seq(Nat), NEW t \in Seq(Nat)
    PROVE  /\ \A i \in 1..Len(s) : Cat(s, t)[i] = s[i] /\ s[i] \in Nat
           /\ \A i \in 1..Len(t) : Cat(s, t)[Len(s) + i] = t[i] /\ t[i] \in Nat
<1>1. \A i \in 1..Len(s) : Cat(s, t)[i] = s[i]
    BY JoinedAt
<1>2. \A i \in 1..Len(t) : Cat(s, t)[Len(s) + i] = t[i]
    BY JoinedAt
<1>3. (\A i \in 1..Len(s) : s[i] \in Nat) /\ (\A i \in 1..Len(t) : t[i] \in Nat)
    BY ElementOfSeq
<1> QED BY <1>1, <1>2, <1>3

LEMMA JoinedBehind ==
    ASSUME NEW S, NEW s \in Seq(S), NEW t \in Seq(S), NEW i \in 1..Len(t)
    PROVE  Cat(s, t)[Len(s) + i] = t[i]
BY JoinedAt

LEMMA Assoc ==
    ASSUME NEW S, NEW s \in Seq(S), NEW t \in Seq(S), NEW u \in Seq(S)
    PROVE  Cat(Cat(s, t), u) = Cat(s, Cat(t, u))
BY DEF Cat

LEMMA OctetsAreNat == Octet \subseteq Nat
BY DEF Octet

LEMMA FunctionIsSeq ==
    ASSUME NEW S, NEW n \in Nat, NEW f \in [1..n -> S]
    PROVE  f \in Seq(S) /\ Len(f) = n
OBVIOUS

-----------------------------------------------------------------------------
(* Numbers and their bits.                                                 *)

LEMMA Division ==
    ASSUME NEW n \in Nat, NEW d \in Nat \ {0}
    PROVE  /\ n \div d \in Nat /\ n % d \in 0..d - 1
           /\ n = (n \div d) * d + (n % d)
OBVIOUS

\* What is below a product has a quotient below the other factor.
LEMMA SmallQuotient ==
    ASSUME NEW n \in Nat, NEW d \in Nat \ {0}, NEW e \in Nat, n < e * d
    PROVE  n \div d < e
<1> DEFINE q == n \div d
<1>1. q \in Nat /\ n % d \in Nat /\ n = q * d + (n % d)
    BY Division
<1> HIDE DEF q
<1> SUFFICES ASSUME e <= q PROVE FALSE
    BY <1>1 DEF q
<1>2. PICK k \in Nat : q = e + k
    BY <1>1
<1>3. q * d = e * d + k * d /\ k * d \in Nat /\ e * d \in Nat
    BY <1>2
<1>4. n = e * d + k * d + (n % d)
    BY <1>1, <1>3
<1> QED BY <1>1, <1>3, <1>4

\* A number is put together from its quotient and its remainder in one way.
LEMMA Quotient ==
    ASSUME NEW d \in Nat \ {0}, NEW q \in Nat, NEW r \in 0..d - 1
    PROVE  (q * d + r) \div d = q /\ (q * d + r) % d = r
<1> DEFINE n == q * d + r
           p == n \div d
           s == n % d
<1>0. n \in Nat
  <2>1. q * d \in Nat
      OBVIOUS
  <2> QED BY <2>1
<1> HIDE DEF n
<1>1. p \in Nat /\ s \in 0..d - 1 /\ n = p * d + s
    BY <1>0, Division
<1>2. \A i, j \in Nat : i < j => i * d + d <= j * d
  <2> SUFFICES ASSUME NEW i \in Nat, NEW j \in Nat, i < j
               PROVE  i * d + d <= j * d
      OBVIOUS
  <2>1. PICK k \in Nat : j = i + 1 + k
      OBVIOUS
  <2>2. j * d = i * d + d + k * d /\ k * d \in Nat /\ i * d \in Nat
      BY <2>1
  <2> QED BY <2>2
<1>3. p * d + s = q * d + r /\ p * d \in Nat /\ q * d \in Nat
    BY <1>1 DEF n
<1> HIDE DEF p, s
<1>4. p = q
    BY <1>1, <1>2, <1>3
<1> QED BY <1>1, <1>3, <1>4 DEF n, p, s

Bit(a, weight) == (a \div weight) % 2

\* An octet is the sum of its bits, and eight bits are an octet.
LEMMA BitsOfOctet ==
    ASSUME NEW a \in Octet
    PROVE  a = 128 * Bit(a, 128) + 64 * Bit(a, 64) + 32 * Bit(a, 32) + 16 * Bit(a, 16)
               + 8 * Bit(a, 8) + 4 * Bit(a, 4) + 2 * Bit(a, 2) + Bit(a, 1)
BY DEF Octet, Bit

-----------------------------------------------------------------------------
(* SHA-1, whatever its compression function is.                            *)

\* f holds the states of a run from s over the first n of the blocks b.
Runs(f, s, b, n) == f[0] = s /\ \A k \in 1..n : f[k] = Compress(f[k - 1], b[k])

IsRun(f, s, b, n) == f = [k \in 0..n |-> IF k = 0 THEN s ELSE Compress(f[k - 1], b[k])]

LEMMA RunsExist ==
    ASSUME NEW s, NEW b, NEW n \in Nat
    PROVE  \E f : IsRun(f, s, b, n)
<1> DEFINE Is(f, m) == f = [k \in 0..m |-> IF k = 0 THEN s ELSE Compress(f[k - 1], b[k])]
           T == {m \in Nat : \E f : Is(f, m)}
<1>1. 0 \in T
  <2> DEFINE f == [k \in 0..0 |-> s]
  <2>1. \A k \in 0..0 : k = 0
      OBVIOUS
  <2>2. f = [k \in 0..0 |-> IF k = 0 THEN s ELSE Compress(f[k - 1], b[k])]
    <3> HIDE DEF f
    <3> QED BY <2>1 DEF f
  <2> HIDE DEF f
  <2>3. Is(f, 0)
      BY <2>2
  <2> QED BY <2>3
<1>2. ASSUME NEW m \in T PROVE m + 1 \in T
  <2>1. PICK f : Is(f, m)
      OBVIOUS
  <2>2. m \in Nat
      OBVIOUS
  <2>3. \A k \in 0..m : f[k] = IF k = 0 THEN s ELSE Compress(f[k - 1], b[k])
      BY <2>1
  <2> DEFINE g == [k \in 0..m + 1 |-> IF k = m + 1 THEN Compress(f[m], b[k]) ELSE f[k]]
  <2>4. (\A k \in 0..m : g[k] = f[k]) /\ g[m + 1] = Compress(f[m], b[m + 1])
    <3>1. \A k \in 0..m : k \in 0..m + 1 /\ k # m + 1
        BY <2>2
    <3>2. m + 1 \in 0..m + 1
        BY <2>2
    <3> QED BY <3>1, <3>2
  <2>5. g \in [0..m + 1 -> {g[k] : k \in 0..m + 1}]
      OBVIOUS
  <2> HIDE DEF g
  <2>6. ASSUME NEW k \in 0..m + 1
        PROVE  g[k] = IF k = 0 THEN s ELSE Compress(g[k - 1], b[k])
    <3>1. CASE k = m + 1
      <4>1. k # 0 /\ k - 1 = m /\ m \in 0..m
          BY <2>2, <3>1
      <4> QED BY <2>4, <3>1, <4>1
    <3>2. CASE k # m + 1
      <4>1. k \in 0..m /\ (k # 0 => k - 1 \in 0..m)
          BY <2>2, <3>2
      <4> QED BY <2>3, <2>4, <4>1
    <3> QED BY <3>1, <3>2
  <2>7. g = [k \in 0..m + 1 |-> IF k = 0 THEN s ELSE Compress(g[k - 1], b[k])]
      BY <2>5, <2>6
  <2>8. Is(g, m + 1)
      BY <2>7
  <2> QED BY <2>2, <2>8
<1> HIDE DEF Is
<1>3. T = Nat
  <2>1. T \in SUBSET Nat
      OBVIOUS
  <2> HIDE DEF T
  <2> QED BY <1>1, <1>2, <2>1, EveryNat
<1>4. \E f : Is(f, n)
    BY <1>3
<1> QED BY <1>4 DEF Is, IsRun

\* What it comes to does not depend on how the states are kept.
LEMMA RunsAgree ==
    ASSUME NEW s, NEW b, NEW n \in Nat, NEW f, NEW g, Runs(f, s, b, n), Runs(g, s, b, n)
    PROVE  f[n] = g[n]
<1> DEFINE T == {m \in Nat : m <= n => f[m] = g[m]}
<1>1. 0 \in T
    BY DEF Runs
<1>2. ASSUME NEW m \in T PROVE m + 1 \in T
  <2>1. CASE m + 1 <= n
    <3>1. m \in Nat /\ m + 1 \in 1..n /\ m + 1 - 1 = m /\ m <= n
        BY <2>1
    <3>2. f[m + 1] = Compress(f[m], b[m + 1]) /\ g[m + 1] = Compress(g[m], b[m + 1])
        BY <3>1 DEF Runs
    <3>3. f[m] = g[m]
        BY <3>1
    <3> QED BY <3>1, <3>2, <3>3
  <2> QED BY <2>1
<1>3. T = Nat
  <2>1. T \in SUBSET Nat
      OBVIOUS
  <2> HIDE DEF T
  <2> QED BY <1>1, <1>2, <2>1, EveryNat
<1>4. n \in T
    BY <1>3
<1> QED BY <1>4

LEMMA CompressAllRuns ==
    ASSUME NEW s, NEW b, Len(b) \in Nat
    PROVE  \E f : Runs(f, s, b, Len(b)) /\ CompressAll(s, b) = f[Len(b)]
<1> DEFINE after == CHOOSE f : IsRun(f, s, b, Len(b))
<1>1. IsRun(after, s, b, Len(b))
  <2>1. \E f : IsRun(f, s, b, Len(b))
      BY RunsExist
  <2> QED BY <2>1
<1>2. CompressAll(s, b) = after[Len(b)]
    BY DEF CompressAll, IsRun
<1> HIDE DEF after
<1>3. PICK n \in Nat : n = Len(b)
    OBVIOUS
<1>4. \A k \in 0..n : after[k] = IF k = 0 THEN s ELSE Compress(after[k - 1], b[k])
    BY <1>1, <1>3 DEF IsRun
<1>5. 0 \in 0..n /\ \A k \in 1..n : k \in 0..n /\ k # 0
    BY <1>3
<1>6. Runs(after, s, b, n)
    BY <1>4, <1>5 DEF Runs
<1> QED BY <1>2, <1>3, <1>6

\* Some blocks and then some more are all of them.
Together(b, c, d, m, n) ==
    /\ m \in Nat /\ m = Len(b) /\ n \in Nat /\ n = Len(c) /\ m + n = Len(d)
    /\ \A i \in 1..m : d[i] = b[i]
    /\ \A i \in 1..n : d[m + i] = c[i]

LEMMA CompressMore ==
    ASSUME NEW s, NEW b, NEW c, NEW d, NEW m, NEW n, Together(b, c, d, m, n)
    PROVE  CompressAll(CompressAll(s, b), c) = CompressAll(s, d)
<1> USE DEF Together
<1>1. PICK f : Runs(f, s, b, m) /\ CompressAll(s, b) = f[m]
  <2>1. \E f : Runs(f, s, b, Len(b)) /\ CompressAll(s, b) = f[Len(b)]
      BY CompressAllRuns
  <2> QED BY <2>1
<1>2. PICK g : Runs(g, f[m], c, n) /\ CompressAll(f[m], c) = g[n]
    BY CompressAllRuns
<1>3. PICK t \in Nat : t = m + n
    OBVIOUS
<1>4. PICK h : Runs(h, s, d, t) /\ CompressAll(s, d) = h[t]
    BY <1>3, CompressAllRuns
<1> DEFINE e == [k \in 0..t |-> IF k <= m THEN f[k] ELSE g[k - m]]
<1>5. (\A k \in 0..m : e[k] = f[k]) /\ (\A k \in 1..n : e[m + k] = g[k])
  <2>1. \A k \in 0..m : k \in 0..t /\ k <= m
      BY <1>3
  <2>2. \A k \in 1..n : m + k \in 0..t /\ ~(m + k <= m) /\ (m + k) - m = k
      BY <1>3
  <2> QED BY <2>1, <2>2
<1> HIDE DEF e
<1>6. ASSUME NEW k \in 1..t PROVE e[k] = Compress(e[k - 1], d[k])
  <2>1. CASE k <= m
    <3>1. k \in 1..m /\ k \in 0..m /\ k - 1 \in 0..m
        BY <2>1
    <3> QED BY <1>1, <1>5, <3>1 DEF Runs
  <2>2. CASE k > m
    <3>1. PICK j \in 1..n : k = m + j
      <4>1. k - m \in 1..n /\ k = m + (k - m)
          BY <1>3, <2>2
      <4> QED BY <4>1
    <3>2. e[k] = Compress(g[j - 1], c[j]) /\ d[k] = c[j]
        BY <1>2, <1>5, <3>1 DEF Runs
    <3>3. e[k - 1] = g[j - 1]
      <4>1. CASE j = 1
          BY <1>2, <1>5, <3>1, <4>1 DEF Runs
      <4>2. CASE j # 1
        <5>1. j - 1 \in 1..n /\ k - 1 = m + (j - 1)
            BY <3>1, <4>2
        <5> QED BY <1>5, <5>1
      <4> QED BY <4>1, <4>2
    <3> QED BY <3>2, <3>3
  <2> QED BY <2>1, <2>2
<1>7. e[0] = s
  <2>1. 0 \in 0..m
      OBVIOUS
  <2> QED BY <1>1, <1>5, <2>1 DEF Runs
<1>8. e[t] = h[t]
  <2>1. Runs(e, s, d, t)
      BY <1>6, <1>7 DEF Runs
  <2> QED BY <1>4, <2>1, RunsAgree
<1>9. e[t] = g[n]
  <2>1. CASE n = 0
    <3>1. t = m /\ m \in 0..m
        BY <1>3, <2>1
    <3> QED BY <1>2, <1>5, <2>1, <3>1 DEF Runs
  <2>2. CASE n # 0
    <3>1. n \in 1..n
        BY <2>2
    <3> QED BY <1>3, <1>5, <3>1
  <2> QED BY <2>1, <2>2
<1> QED BY <1>1, <1>2, <1>4, <1>8, <1>9

\* The same blocks give the same state.
LEMMA CompressSame ==
    ASSUME NEW s, NEW b, NEW c, NEW m \in Nat, m = Len(b), m = Len(c),
           \A i \in 1..m : b[i] = c[i]
    PROVE  CompressAll(s, b) = CompressAll(s, c)
<1>1. PICK f : Runs(f, s, b, m) /\ CompressAll(s, b) = f[m]
    BY CompressAllRuns
<1>2. PICK g : Runs(g, s, c, m) /\ CompressAll(s, c) = g[m]
    BY CompressAllRuns
<1>3. Runs(f, s, c, m)
    BY <1>1 DEF Runs
<1> QED BY <1>1, <1>2, <1>3, RunsAgree

LEMMA CompressNone ==
    ASSUME NEW s, NEW b, Len(b) = 0
    PROVE  CompressAll(s, b) = s
<1>1. PICK f : Runs(f, s, b, 0) /\ CompressAll(s, b) = f[0]
    BY CompressAllRuns
<1> QED BY <1>1 DEF Runs

\* The n octets of s behind the first a.
Piece(s, a, n) == Octets(s, a + 1, a + n)

LEMMA PieceAt ==
    ASSUME NEW s \in Seq(Nat), NEW a \in Nat, NEW n \in Nat, a + n <= Len(s)
    PROVE  /\ Piece(s, a, n) \in Seq(Nat) /\ Len(Piece(s, a, n)) = n
           /\ \A i \in 1..n : Piece(s, a, n)[i] = s[a + i]
<1>1. PICK x \in Int, y \in Int : x = a + 1 /\ y = a + n
    OBVIOUS
<1>2. \A i \in 1..Len(s) : s[i] \in Nat
    BY ElementOfSeq
<1>3. \A i \in x..y : s[i] \in Nat
  <2>1. Len(s) \in Nat
      BY LenProperties
  <2> QED BY <1>1, <1>2, <2>1
<1>4. /\ SubSeq(s, x, y) \in Seq(Nat)
      /\ Len(SubSeq(s, x, y)) = IF x <= y THEN y - x + 1 ELSE 0
      /\ \A i \in 1..y - x + 1 : SubSeq(s, x, y)[i] = s[x + i - 1]
    BY <1>3, SubSeqProperties
<1>5. Piece(s, a, n) = SubSeq(s, x, y)
    BY <1>1 DEF Piece, Octets
<1>6. (IF x <= y THEN y - x + 1 ELSE 0) = n /\ y - x + 1 = n
    BY <1>1
<1>7. \A i \in 1..n : x + i - 1 = a + i
    BY <1>1
<1> QED BY <1>4, <1>5, <1>6, <1>7

IsPiece(p, s, a, n) == p \in Seq(Nat) /\ Len(p) = n /\ \A i \in 1..n : p[i] = s[a + i]

LEMMA PieceIsPiece ==
    ASSUME NEW s \in Seq(Nat), NEW a \in Nat, NEW n \in Nat, a + n <= Len(s)
    PROVE  IsPiece(Piece(s, a, n), s, a, n)
BY PieceAt DEF IsPiece

LEMMA BeginningAt ==
    ASSUME NEW s \in Seq(Nat), NEW n \in Nat, n <= Len(s)
    PROVE  /\ Piece(s, 0, n) \in Seq(Nat) /\ Len(Piece(s, 0, n)) = n
           /\ \A i \in 1..n : Piece(s, 0, n)[i] = s[i]
<1>1. \E z \in Nat : z = 0
    OBVIOUS
<1>2. PICK z \in Nat : z = 0
    BY <1>1
<1>3. z + n <= Len(s) /\ \A i \in 1..n : z + i = i
    BY <1>2
<1>4. /\ Piece(s, z, n) \in Seq(Nat) /\ Len(Piece(s, z, n)) = n
      /\ \A i \in 1..n : Piece(s, z, n)[i] = s[z + i]
    BY <1>3, PieceAt
<1> QED BY <1>2, <1>3, <1>4

AreJoined(s, t, j) ==
    /\ j \in Seq(Nat) /\ Len(j) = Len(s) + Len(t) /\ Len(s) \in Nat /\ Len(t) \in Nat
    /\ \A i \in 1..Len(s) : j[i] = s[i]
    /\ \A i \in 1..Len(t) : j[Len(s) + i] = t[i]

LEMMA JoinedAre ==
    ASSUME NEW s \in Seq(Nat), NEW t \in Seq(Nat)
    PROVE  AreJoined(s, t, Cat(s, t))
<1>1. /\ Cat(s, t) \in Seq(Nat) /\ Len(Cat(s, t)) = Len(s) + Len(t)
      /\ Len(s) \in Nat /\ Len(t) \in Nat
    BY Joined
<1>2. \A i \in 1..Len(s) : Cat(s, t)[i] = s[i]
    BY JoinedAt
<1>3. \A i \in 1..Len(t) : Cat(s, t)[Len(s) + i] = t[i]
    BY JoinedAt
<1> QED BY <1>1, <1>2, <1>3 DEF AreJoined

LEMMA Join3 ==
    ASSUME NEW s \in Seq(Nat), NEW t \in Seq(Nat), NEW u \in Seq(Nat), NEW j, j = s \o t \o u
    PROVE  /\ j \in Seq(Nat) /\ Len(j) = Len(s) + Len(t) + Len(u)
           /\ \A i \in 1..Len(s) : j[i] = s[i]
           /\ \A i \in 1..Len(t) : j[Len(s) + i] = t[i]
<1>1. PICK v \in Seq(Nat) : v = Cat(s, t)
    BY Joined
<1>2. /\ Len(v) = Len(s) + Len(t) /\ Len(s) \in Nat /\ Len(t) \in Nat
      /\ \A i \in 1..Len(s) : v[i] = s[i]
      /\ \A i \in 1..Len(t) : v[Len(s) + i] = t[i]
  <2>1. Len(Cat(s, t)) = Len(s) + Len(t) /\ Len(s) \in Nat /\ Len(t) \in Nat
      BY Joined
  <2>2. /\ \A i \in 1..Len(s) : Cat(s, t)[i] = s[i]
        /\ \A i \in 1..Len(t) : Cat(s, t)[Len(s) + i] = t[i]
      BY JoinedAt
  <2> QED BY <1>1, <2>1, <2>2
<1>3. j = Cat(v, u)
    BY <1>1 DEF Cat
<1>4. j \in Seq(Nat) /\ Len(j) = Len(v) + Len(u) /\ Len(u) \in Nat
    BY <1>3, Joined
<1>5. \A i \in 1..Len(v) : j[i] = v[i]
    BY <1>3, JoinedAt
<1>6. \A i \in 1..Len(s) : j[i] = s[i]
  <2>1. \A i \in 1..Len(s) : i \in 1..Len(v)
      BY <1>2
  <2> QED BY <1>2, <1>5, <2>1
<1>7. \A i \in 1..Len(t) : j[Len(s) + i] = t[i]
  <2>1. \A i \in 1..Len(t) : Len(s) + i \in 1..Len(v)
      BY <1>2
  <2> QED BY <1>2, <1>5, <2>1
<1> QED BY <1>2, <1>4, <1>6, <1>7

\* The first octets of a buffer, and those behind the first a.
LEMMA BeginningOf ==
    ASSUME NEW s, NEW n \in Nat
    PROVE  Octets(s, 1, n) = Piece(s, 0, n)
<1>1. 0 + 1 = 1 /\ 0 + n = n
    OBVIOUS
<1> QED BY <1>1 DEF Piece

LEMMA EndOf ==
    ASSUME NEW s, NEW a \in Nat, NEW e \in Nat, a <= e
    PROVE  Octets(s, a + 1, e) = Piece(s, a, e - a)
<1>1. a + (e - a) = e
    OBVIOUS
<1> QED BY <1>1 DEF Piece

\* memcpy into the buffer.
IsBuffer(b) == b \in Seq(Nat) /\ Len(b) = Block

Overlaid(o, b, r, d) ==
    IsBuffer(o) /\ (\A i \in 1..r : o[i] = b[i]) /\ \A i \in 1..Len(d) : o[r + i] = d[i]

LEMMA OverlayIs ==
    ASSUME NEW buffer, IsBuffer(buffer), NEW idx \in Nat, NEW d \in Seq(Nat), idx + Len(d) <= Block
    PROVE  Overlaid(Overlay(buffer, idx, d), buffer, idx, d)
<1>11. buffer \in Seq(Nat) /\ Len(buffer) = Block
    BY DEF IsBuffer
<1>12. PICK o : o = Overlay(buffer, idx, d)
    OBVIOUS
<1>0. PICK n \in Nat : n = Len(d)
    BY LenProperties
<1>1. PICK s : s = Piece(buffer, 0, idx)
    OBVIOUS
<1>2. s \in Seq(Nat) /\ Len(s) = idx /\ \A i \in 1..idx : s[i] = buffer[i]
  <2>1. idx <= Len(buffer)
      BY <1>0, <1>11 DEF Block
  <2>2. buffer \in Seq(Nat)
      BY <1>11
  <2> QED BY ONLY <1>1, <2>1, <2>2, idx \in Nat, BeginningAt
<1>3. PICK a \in Nat, m \in Nat : a = idx + n /\ a + m = Block
  <2>1. idx + n \in Nat /\ Block - (idx + n) \in Nat /\ (idx + n) + (Block - (idx + n)) = Block
      BY <1>0 DEF Block
  <2> QED BY <2>1
<1>4. PICK u : u = Piece(buffer, a, m)
    OBVIOUS
<1>5. u \in Seq(Nat) /\ Len(u) = m
  <2>1. a + m <= Len(buffer)
      BY <1>3, <1>11
  <2> QED BY <1>4, <1>11, <2>1, PieceAt
<1>6. o = s \o d \o u
  <2>1. idx + Len(d) + 1 = a + 1
      BY <1>0, <1>3
  <2>2. Octets(buffer, 1, idx) = s
      BY <1>1, BeginningOf
  <2>3. Octets(buffer, a + 1, Block) = u
      BY <1>3, <1>4 DEF Piece
  <2> QED BY <1>12, <2>1, <2>2, <2>3 DEF Overlay
<1>7. /\ o \in Seq(Nat) /\ Len(o) = Len(s) + Len(d) + Len(u)
      /\ \A i \in 1..Len(s) : o[i] = s[i]
      /\ \A i \in 1..Len(d) : o[Len(s) + i] = d[i]
  <2>1. s \in Seq(Nat) /\ u \in Seq(Nat)
      BY <1>2, <1>5
  <2> QED BY <1>6, <2>1, Join3
<1>8. Len(o) = Block
    BY <1>0, <1>2, <1>3, <1>5, <1>7
<1> QED BY <1>12, <1>2, <1>7, <1>8 DEF Overlaid, IsBuffer

\* The whole blocks of a message, and the state they come to.
Blocks(m) == [k \in 1..Len(m) \div Block |-> Octets(m, (k - 1) * Block + 1, k * Block)]
Hashed(m) == CompressAll(InitialState, Blocks(m))

LEMMA BlockFits ==
    ASSUME NEW n \in Nat, NEW k \in 1..n \div Block
    PROVE  (k - 1) * Block \in Nat /\ (k - 1) * Block + Block <= n /\ Block \in Nat
<1>1. n \div 64 \in Nat /\ (n \div 64) * 64 <= n
    OBVIOUS
<1>2. PICK q \in Nat : q = n \div 64 /\ q * 64 <= n
    BY <1>1
<1>3. k \in 1..q
    BY <1>2 DEF Block
<1>4. PICK i \in Nat : i = k - 1 /\ i + 1 <= q
    BY <1>2, <1>3
<1>5. i * 64 \in Nat /\ i * 64 + 64 <= q * 64
    BY <1>4
<1> QED BY <1>2, <1>4, <1>5 DEF Block

\* A block is a piece of the message.
LEMMA BlockAt ==
    ASSUME NEW m \in Seq(Nat), NEW n \in Nat, n = Len(m) \div Block
    PROVE  /\ Len(Blocks(m)) = n /\ Blocks(m) \in Seq(Seq(Nat))
           /\ \A k \in 1..n : Blocks(m)[k] = Piece(m, (k - 1) * Block, Block)
<1>1. Len(m) \in Nat
    BY LenProperties
<1>2. \A k \in 1..n : k * Block = (k - 1) * Block + Block
    BY DEF Block
<1>4. \A k \in 1..n : Blocks(m)[k] = Piece(m, (k - 1) * Block, Block)
    BY <1>2 DEF Blocks, Piece
<1>5. \A k \in 1..n : Blocks(m)[k] \in Seq(Nat)
  <2> SUFFICES ASSUME NEW k \in 1..n PROVE Blocks(m)[k] \in Seq(Nat)
      OBVIOUS
  <2>1. (k - 1) * Block \in Nat /\ (k - 1) * Block + Block <= Len(m) /\ Block \in Nat
      BY <1>1, BlockFits
  <2> QED BY <1>4, <2>1, PieceAt
<1>6. PICK b : b = Blocks(m)
    OBVIOUS
<1>7. b \in [1..n -> Seq(Nat)]
    BY <1>5, <1>6 DEF Blocks
<1>8. b \in Seq(Seq(Nat)) /\ Len(b) = n
  <2> DEFINE S == Seq(Nat)
  <2> HIDE DEF S
  <2>1. b \in [1..n -> S]
      BY <1>7 DEF S
  <2>2. b \in Seq(S) /\ Len(b) = n
      BY <2>1
  <2> QED BY <2>2 DEF S
<1> QED BY <1>4, <1>6, <1>8

LEMMA PieceIs ==
    ASSUME NEW m \in Seq(Nat), NEW a \in Nat, NEW n \in Nat, NEW p \in Seq(Nat),
           a + n <= Len(m), Len(p) = n, \A i \in 1..n : p[i] = m[a + i]
    PROVE  p = Piece(m, a, n)
<1>1. PICK o : o = Piece(m, a, n)
    OBVIOUS
<1>2. o \in Seq(Nat) /\ Len(o) = n /\ \A i \in 1..n : o[i] = m[a + i]
    BY <1>1, PieceAt
<1>3. Len(p) = Len(o) /\ \A i \in 1..Len(p) : p[i] = o[i]
    BY <1>2
<1>4. p = o
    BY ONLY <1>2, <1>3, p \in Seq(Nat), SeqEqual
<1> QED BY <1>1, <1>4

\* A piece of a message is there when something is joined behind it.
LEMMA SamePiece ==
    ASSUME NEW m \in Seq(Nat), NEW d \in Seq(Nat), NEW a \in Nat, NEW n \in Nat, a + n <= Len(m)
    PROVE  Piece(Cat(m, d), a, n) = Piece(m, a, n)
<1>1. PICK j \in Seq(Nat) : j = Cat(m, d)
    BY Joined
<1>2. Len(j) = Len(m) + Len(d) /\ Len(m) \in Nat /\ Len(d) \in Nat
    BY <1>1, Joined
<1>3. \A i \in 1..Len(m) : j[i] = m[i]
    BY <1>1, JoinedAt
<1>4. PICK p : p = Piece(m, a, n)
    OBVIOUS
<1>5. p \in Seq(Nat) /\ Len(p) = n /\ \A i \in 1..n : p[i] = m[a + i]
    BY <1>4, PieceAt
<1>6. \A i \in 1..n : p[i] = j[a + i]
  <2>1. \A i \in 1..n : a + i \in 1..Len(m)
      BY <1>2
  <2> QED BY <1>3, <1>5, <2>1
<1>7. a + n <= Len(j)
    BY <1>2
<1>8. p = Piece(j, a, n)
    BY <1>5, <1>6, <1>7, PieceIs
<1> QED BY <1>1, <1>4, <1>8

\* What is joined behind a message leaves its blocks.
LEMMA SameBlocks ==
    ASSUME NEW m \in Seq(Nat), NEW d \in Seq(Nat), NEW j, j = Cat(m, d)
    PROVE  /\ Len(Blocks(m)) \in Nat /\ Len(Blocks(m)) <= Len(Blocks(j))
           /\ \A k \in 1..Len(Blocks(m)) : Blocks(j)[k] = Blocks(m)[k]
<1>1. j \in Seq(Nat) /\ Len(m) \in Nat /\ Len(d) \in Nat /\ Len(j) = Len(m) + Len(d)
    BY Joined
<1>3. PICK l \in Nat, t \in Nat : l = Len(m) /\ t = Len(j) /\ l <= t
    BY <1>1
<1>4. PICK q \in Nat, u \in Nat : q = l \div Block /\ u = t \div Block /\ q <= u
    BY <1>3 DEF Block
<1>5. /\ Len(Blocks(j)) = u
      /\ \A k \in 1..u : Blocks(j)[k] = Piece(j, (k - 1) * Block, Block)
    BY <1>1, <1>3, <1>4, BlockAt
<1>6. /\ Len(Blocks(m)) = q
      /\ \A k \in 1..q : Blocks(m)[k] = Piece(m, (k - 1) * Block, Block)
    BY <1>3, <1>4, BlockAt
<1>7. ASSUME NEW k \in 1..q PROVE Blocks(j)[k] = Blocks(m)[k]
  <2>1. PICK a \in Nat, n \in Nat : a = (k - 1) * Block /\ n = Block /\ a + n <= Len(m)
    <3>1. k \in 1..l \div Block
        BY <1>4
    <3> QED BY <1>3, <3>1, BlockFits
  <2>2. Piece(j, a, n) = Piece(m, a, n)
    <3>1. a + n <= Len(m)
        BY <2>1
    <3>2. Piece(Cat(m, d), a, n) = Piece(m, a, n)
        BY ONLY <3>1, a \in Nat, n \in Nat, m \in Seq(Nat), d \in Seq(Nat), SamePiece
    <3> QED BY <3>2
  <2>3. k \in 1..u
      BY <1>4
  <2> QED BY <1>5, <1>6, <2>1, <2>2, <2>3
<1> QED BY <1>4, <1>5, <1>6, <1>7

\* How long a message is, in blocks and octets.
LEMMA InBlocks ==
    ASSUME NEW n \in Nat, NEW q \in Nat, NEW r \in 0..Block - 1, n = q * Block + r
    PROVE  n \div Block = q /\ n % Block = r
<1>1. Block \in Nat \ {0}
    BY DEF Block
<1> QED BY <1>1, Quotient

\* What a context has taken in is m: its whole blocks are hashed, the rest is in the
\* buffer.
Taken(m, l, q, r, b) ==
    /\ m \in Seq(Nat) /\ l \in Nat /\ l = Len(m)
    /\ q \in Nat /\ r \in 0..Block - 1 /\ l = q * Block + r
    /\ IsBuffer(b) /\ \A i \in 1..r : b[i] = m[q * Block + i]

Holds(c, m) ==
    \E l, q, r, b : /\ Taken(m, l, q, r, b)
                    /\ c = [state |-> Hashed(m), count |-> l, buffer |-> b]

\* The octets d are n, and enough to fill the buffer, w blocks, and e octets of the next.
Measures(d, n) == d \in Seq(Nat) /\ n \in Nat /\ n = Len(d)
FillsBlocks(n, r, w, e) == w \in Nat /\ e \in 0..Block - 1 /\ n = (Block - r) + w * Block + e

LEMMA TakenFacts ==
    ASSUME NEW m, NEW l, NEW q, NEW r, NEW b, Taken(m, l, q, r, b)
    PROVE  /\ l \div Block = q /\ l % Block = r /\ Len(Blocks(m)) = q
           /\ r \in Nat /\ r <= 63
<1>1. l \div Block = q /\ l % Block = r
    BY InBlocks DEF Taken
<1>2. m \in Seq(Nat) /\ q \in Nat /\ q = Len(m) \div Block
    BY <1>1 DEF Taken
<1>3. Len(Blocks(m)) = q
    BY <1>2, BlockAt
<1>4. r \in Nat /\ r <= 63
  <2>1. r \in 0..Block - 1
      BY DEF Taken
  <2> QED BY ONLY <2>1 DEF Block
<1> QED BY <1>1, <1>3, <1>4

\* A piece of what is joined behind a message.
LEMMA BehindPiece ==
    ASSUME NEW m \in Seq(Nat), NEW d \in Seq(Nat), NEW a \in Nat, NEW n \in Nat, a + n <= Len(d)
    PROVE  Piece(Cat(m, d), Len(m) + a, n) = Piece(d, a, n)
<1>1. PICK j \in Seq(Nat) : j = Cat(m, d)
    BY Joined
<1>2. Len(j) = Len(m) + Len(d) /\ Len(m) \in Nat /\ Len(d) \in Nat
    BY <1>1, Joined
<1>3. \A i \in 1..Len(d) : j[Len(m) + i] = d[i]
    BY <1>1, JoinedAt
<1>4. PICK p : p = Piece(d, a, n)
    OBVIOUS
<1>5. p \in Seq(Nat) /\ Len(p) = n /\ \A i \in 1..n : p[i] = d[a + i]
    BY <1>4, PieceAt
<1>6. PICK x \in Nat : x = Len(m) + a
    BY <1>2
<1>7. x + n <= Len(j)
    BY <1>2, <1>6
<1>8. \A i \in 1..n : p[i] = j[x + i]
  <2>1. \A i \in 1..n : a + i \in 1..Len(d) /\ x + i = Len(m) + (a + i)
      BY <1>2, <1>6
  <2>2. ASSUME NEW i \in 1..n PROVE p[i] = j[x + i]
    <3>1. PICK k \in 1..Len(d) : k = a + i /\ x + i = Len(m) + k
        BY <2>1
    <3>2. j[Len(m) + k] = d[k]
        BY <1>3
    <3> QED BY <1>5, <3>1, <3>2
  <2> QED BY <2>2
<1>9. p = Piece(j, x, n)
    BY <1>5, <1>7, <1>8, PieceIs
<1> QED BY <1>1, <1>4, <1>6, <1>9

\* The buffered octets and the first of the new ones are a block.
Buffered(b, m, a, r) ==
    b \in Seq(Nat) /\ r <= Len(b) /\ Len(m) = a + r /\ \A i \in 1..r : b[i] = m[a + i]

LEMMA FirstBlock ==
    ASSUME NEW m \in Seq(Nat), NEW d \in Seq(Nat), NEW a \in Nat, NEW r \in Nat, NEW x \in Nat,
           x <= Len(d), NEW b, Buffered(b, m, a, r)
    PROVE  Cat(Piece(b, 0, r), Piece(d, 0, x)) = Piece(Cat(m, d), a, r + x)
<1>0. b \in Seq(Nat) /\ r <= Len(b) /\ Len(m) = a + r /\ \A i \in 1..r : b[i] = m[a + i]
    BY DEF Buffered
<1>1. PICK j \in Seq(Nat) : j = Cat(m, d)
    BY Joined
<1>2. Len(j) = a + r + Len(d) /\ Len(d) \in Nat
  <2>1. Len(j) = Len(m) + Len(d) /\ Len(d) \in Nat
      BY <1>1, Joined
  <2> QED BY <1>0, <2>1
<1>3. /\ \A i \in 1..Len(m) : j[i] = m[i]
      /\ \A i \in 1..Len(d) : j[Len(m) + i] = d[i]
  <2>1. /\ \A i \in 1..Len(m) : Cat(m, d)[i] = m[i]
        /\ \A i \in 1..Len(d) : Cat(m, d)[Len(m) + i] = d[i]
      BY ONLY m \in Seq(Nat), d \in Seq(Nat), JoinedAt
  <2> QED BY <1>1, <2>1
<1>4. PICK p : p = Piece(b, 0, r)
    OBVIOUS
<1>5. p \in Seq(Nat) /\ Len(p) = r /\ \A i \in 1..r : p[i] = b[i]
    BY ONLY <1>0, <1>4, r \in Nat, BeginningAt
<1>6. PICK u : u = Piece(d, 0, x)
    OBVIOUS
<1>7. u \in Seq(Nat) /\ Len(u) = x /\ \A i \in 1..x : u[i] = d[i]
    BY ONLY <1>6, x <= Len(d), d \in Seq(Nat), x \in Nat, BeginningAt
<1>8. PICK f \in Seq(Nat) : f = Cat(p, u)
    BY <1>5, <1>7, Joined
<1>9. /\ Len(f) = r + x
      /\ \A i \in 1..r : f[i] = p[i]
      /\ \A i \in 1..x : f[r + i] = u[i]
  <2>1. p \in Seq(Nat) /\ u \in Seq(Nat)
      BY <1>5, <1>7
  <2>3. Len(Cat(p, u)) = Len(p) + Len(u)
      BY ONLY <2>1, Joined
  <2>2. /\ \A i \in 1..Len(p) : Cat(p, u)[i] = p[i]
        /\ \A i \in 1..Len(u) : Cat(p, u)[Len(p) + i] = u[i]
    <3>1. \A y, z \in Seq(Nat) : /\ \A i \in 1..Len(y) : Cat(y, z)[i] = y[i]
                                 /\ \A i \in 1..Len(z) : Cat(y, z)[Len(y) + i] = z[i]
        BY ONLY JoinedAt
    <3> QED BY <2>1, <3>1, ZenonT(30)
  <2> QED BY <1>5, <1>7, <1>8, <2>2, <2>3
<1>10. PICK n \in Nat : n = r + x
    OBVIOUS
<1>11. \A i \in 1..n : f[i] = j[a + i]
  <2> SUFFICES ASSUME NEW i \in 1..n PROVE f[i] = j[a + i]
      OBVIOUS
  <2>1. CASE i <= r
    <3>1. i \in 1..r /\ a + i \in 1..a + r
        BY <2>1
    <3>2. j[a + i] = m[a + i]
        BY <1>0, <1>3, <3>1
    <3> QED BY <1>0, <1>5, <1>9, <3>1, <3>2
  <2>2. CASE i > r
    <3>1. PICK k \in 1..x : i = r + k /\ a + i = a + r + k
        BY <1>10, <2>2
    <3>2. k \in 1..Len(d)
        BY <1>2
    <3>3. j[a + r + k] = d[k]
        BY <1>0, <1>3, <3>2
    <3> QED BY <1>7, <1>9, <3>1, <3>3
  <2> QED BY <2>1, <2>2
<1>12. a + n <= Len(j)
    BY <1>2, <1>10
<1>13. f = Piece(j, a, n)
  <2>1. Len(f) = n
      BY <1>9, <1>10
  <2> QED BY ONLY <1>11, <1>12, <2>1, f \in Seq(Nat), j \in Seq(Nat), a \in Nat, n \in Nat, PieceIs
<1> QED BY <1>1, <1>4, <1>6, <1>8, <1>10, <1>13

\* The blocks that sha1_update hashes: the buffered one, filled up, and w more.
NewBlocks(b, r, d, w) ==
    <<Cat(Piece(b, 0, r), Piece(d, 0, Block - r))>>
        \o [k \in 1..w |-> Piece(d, (Block - r) + (k - 1) * Block, Block)]

Before(x, f) == <<x>> \o f

Begins(t, x, f, w) == Len(t) = w + 1 /\ t[1] = x /\ \A k \in 1..w : t[1 + k] = f[k]

LEMMA OneAndMore ==
    ASSUME NEW S, NEW x \in S, NEW w \in Nat, NEW f \in [1..w -> S]
    PROVE  Begins(Before(x, f), x, f, w)
<1>1. PICK t : t = Before(x, f)
    OBVIOUS
<1>2. f \in Seq(S) /\ Len(f) = w
    BY FunctionIsSeq
<1>3. PICK s : s = <<x>>
    OBVIOUS
<1>4. s \in Seq(S) /\ Len(s) = 1 /\ s[1] = x
    BY <1>3
<1>5. t = Cat(s, f)
    BY <1>1, <1>3 DEF Before, Cat
<1>6. t \in Seq(S) /\ Len(t) = 1 + w
    BY <1>2, <1>4, <1>5, Joined
<1>7. /\ \A i \in 1..Len(s) : t[i] = s[i]
      /\ \A i \in 1..Len(f) : t[Len(s) + i] = f[i]
  <2>1. s \in Seq(S) /\ f \in Seq(S)
      BY <1>2, <1>4
  <2> QED BY ONLY <1>5, <2>1, JoinedAt
<1>8. t[1] = x /\ \A k \in 1..w : t[1 + k] = f[k]
  <2>1. 1 \in 1..1
      OBVIOUS
  <2> QED BY ONLY <1>2, <1>4, <1>7, <2>1
<1> QED BY <1>1, <1>6, <1>8 DEF Begins

LEMMA UpdateLong ==
    ASSUME NEW s, NEW m, NEW l, NEW q, NEW r, NEW b, Taken(m, l, q, r, b),
           NEW d, NEW n, Measures(d, n), NEW w, NEW e, FillsBlocks(n, r, w, e)
    PROVE  Sha1Update([state |-> s, count |-> l, buffer |-> b], d) =
               [state  |-> CompressAll(s, NewBlocks(b, r, d, w)),
                count  |-> l + n,
                buffer |-> Overlay(b, 0, Piece(d, (Block - r) + w * Block, e))]
<1>0. /\ l % Block = r /\ r \in 0..63 /\ w \in Nat /\ e \in 0..63
      /\ Len(d) = (64 - r) + w * 64 + e /\ n = Len(d)
  <2>1. l % Block = r /\ r \in Nat /\ r <= 63
      BY ONLY Taken(m, l, q, r, b), TakenFacts
  <2>2. n = Len(d) /\ n = (Block - r) + w * Block + e /\ w \in Nat
      BY ONLY Measures(d, n), FillsBlocks(n, r, w, e) DEF Measures, FillsBlocks
  <2>3. e \in 0..63 /\ Block = 64
      BY ONLY FillsBlocks(n, r, w, e) DEF FillsBlocks, Block
  <2> QED BY ONLY <2>1, <2>2, <2>3
<1> DEFINE c == [state |-> s, count |-> l, buffer |-> b]
           idx   == c.count % Block
           room  == Block - idx
           whole == (Len(d) - room) \div Block
           first == Octets(c.buffer, 1, idx) \o Octets(d, 1, room)
           next(k) == Octets(d, room + (k - 1) * Block + 1, room + k * Block)
<1>1. Sha1Update(c, d) =
         IF BlockIsFull(room, Len(d))
         THEN [state  |-> CompressAll(c.state, <<first>> \o [k \in 1..whole |-> next(k)]),
               count  |-> c.count + Len(d),
               buffer |-> Overlay(c.buffer, 0, Octets(d, room + whole * Block + 1, Len(d)))]
         ELSE [c EXCEPT !.count = @ + Len(d), !.buffer = Overlay(@, idx, d)]
    BY DEF Sha1Update
<1>2. c.state = s /\ c.count = l /\ c.buffer = b
    OBVIOUS
<1> HIDE DEF c
<1>3. idx = r /\ room = Block - r
    BY <1>0, <1>2
<1>4. Block = 64
    BY DEF Block
<1>5. Len(d) - room = w * 64 + e /\ e \in 0..63
    BY <1>0, <1>3, <1>4
<1>6. whole = w
  <2>1. PICK k \in Nat : k = w * 64 + e /\ k = w * Block + e
      BY <1>4, <1>5, <1>0
  <2>2. e \in 0..Block - 1
      BY <1>4, <1>5
  <2>3. k \div Block = w
      BY ONLY <2>1, <2>2, k \in Nat, <1>0, InBlocks
  <2> QED BY <1>5, <2>1, <2>3
<1>7. BlockIsFull(room, Len(d))
    BY <1>0, <1>3, <1>4 DEF BlockIsFull
<1>8. first = Cat(Piece(b, 0, r), Piece(d, 0, Block - r))
  <2>1. Octets(b, 1, r) = Piece(b, 0, r) /\ Octets(d, 1, Block - r) = Piece(d, 0, Block - r)
    <3>1. r \in Nat /\ Block - r \in Nat
        BY <1>0, <1>4
    <3> QED BY <3>1, BeginningOf
  <2> QED BY <1>2, <1>3, <2>1 DEF Cat
<1>9. \A k \in 1..w : next(k) = Piece(d, (Block - r) + (k - 1) * Block, Block)
  <2>1. \A k \in 1..w : (Block - r) + k * Block = (Block - r) + (k - 1) * Block + Block
      BY <1>0, <1>4
  <2> QED BY <1>3, <2>1 DEF Piece
<1>10. [k \in 1..whole |-> next(k)] = [k \in 1..w |-> Piece(d, (Block - r) + (k - 1) * Block, Block)]
    BY <1>6, <1>9
<1>11. Octets(d, room + whole * Block + 1, Len(d)) = Piece(d, (Block - r) + w * Block, e)
  <2>1. Len(d) = ((Block - r) + w * Block) + e
      BY <1>0, <1>4
  <2> QED BY <1>3, <1>6, <2>1 DEF Piece
<1> HIDE DEF idx, room, whole, first, next
<1>12. <<first>> \o [k \in 1..whole |-> next(k)] = NewBlocks(b, r, d, w)
    BY <1>8, <1>10 DEF NewBlocks
<1> QED BY <1>0, <1>1, <1>2, <1>7, <1>11, <1>12 DEF c

LEMMA UpdateShort ==
    ASSUME NEW s, NEW m, NEW l, NEW q, NEW r, NEW b, Taken(m, l, q, r, b),
           NEW d, NEW n, Measures(d, n), r + n < Block
    PROVE  Sha1Update([state |-> s, count |-> l, buffer |-> b], d) =
               [state |-> s, count |-> l + n, buffer |-> Overlay(b, r, d)]
<1> DEFINE c == [state |-> s, count |-> l, buffer |-> b]
<1>1. r = l % Block /\ n = Len(d) /\ r \in 0..63 /\ n \in Nat
  <2>1. l % Block = r /\ r \in Nat /\ r <= 63
      BY ONLY Taken(m, l, q, r, b), TakenFacts
  <2> QED BY <2>1 DEF Measures
<1>2. ~BlockIsFull(Block - r, n)
    BY <1>1 DEF BlockIsFull, Block
<1>3. Sha1Update(c, d) = [c EXCEPT !.count = @ + n, !.buffer = Overlay(@, r, d)]
    BY <1>1, <1>2 DEF Sha1Update
<1> QED BY <1>3

\* Blocks and octets of a message with more behind it.
Longer(j, t, u, e) ==
    /\ j \in Seq(Nat) /\ t \in Nat /\ t = Len(j)
    /\ u \in Nat /\ e \in 0..Block - 1 /\ t = u * Block + e

LEMMA LongerFacts ==
    ASSUME NEW j, NEW t, NEW u, NEW e, Longer(j, t, u, e)
    PROVE  Len(Blocks(j)) = u /\ \A k \in 1..u : Blocks(j)[k] = Piece(j, (k - 1) * Block, Block)
<1>1. t \div Block = u
    BY InBlocks DEF Longer
<1>2. j \in Seq(Nat) /\ u \in Nat /\ u = Len(j) \div Block
    BY <1>1 DEF Longer
<1> QED BY ONLY <1>2, BlockAt

LEMMA LongerShort ==
    ASSUME NEW m, NEW l, NEW q, NEW r, NEW b, Taken(m, l, q, r, b),
           NEW d, NEW n, Measures(d, n), r + n < Block
    PROVE  Longer(Cat(m, d), l + n, q, r + n)
<1>1. m \in Seq(Nat) /\ d \in Seq(Nat)
    BY DEF Taken, Measures
<1>2. AreJoined(m, d, Cat(m, d))
    BY ONLY <1>1, JoinedAre
<1>3. l = Len(m) /\ n = Len(d)
    BY DEF Taken, Measures
<1>4. q \in Nat /\ r \in 0..Block - 1 /\ l = q * Block + r /\ n \in Nat /\ l \in Nat
    BY DEF Taken, Measures
<1>5. r + n \in 0..Block - 1 /\ l + n = q * Block + (r + n) /\ l + n \in Nat
    BY ONLY <1>4, r + n < Block DEF Block
<1> QED BY <1>2, <1>3, <1>4, <1>5 DEF Longer, AreJoined

LEMMA LongerLong ==
    ASSUME NEW m, NEW l, NEW q, NEW r, NEW b, Taken(m, l, q, r, b),
           NEW d, NEW n, Measures(d, n), NEW w, NEW e, FillsBlocks(n, r, w, e)
    PROVE  Longer(Cat(m, d), l + n, q + 1 + w, e)
<1>1. m \in Seq(Nat) /\ d \in Seq(Nat)
    BY DEF Taken, Measures
<1>2. AreJoined(m, d, Cat(m, d))
    BY ONLY <1>1, JoinedAre
<1>3. l = Len(m) /\ n = Len(d)
    BY DEF Taken, Measures
<1>4. q \in Nat /\ r \in 0..Block - 1 /\ l = q * Block + r /\ n \in Nat /\ l \in Nat
    BY DEF Taken, Measures
<1>5. w \in Nat /\ e \in 0..Block - 1 /\ n = (Block - r) + w * Block + e
    BY DEF FillsBlocks
<1>6. l + n = (q + 1 + w) * Block + e /\ l + n \in Nat /\ q + 1 + w \in Nat
    BY ONLY <1>4, <1>5 DEF Block
<1> QED BY <1>2, <1>3, <1>5, <1>6 DEF Longer, AreJoined

LEMMA HashedSame ==
    ASSUME NEW m, NEW l, NEW q, NEW r, NEW b, Taken(m, l, q, r, b),
           NEW d, NEW n, Measures(d, n), r + n < Block
    PROVE  Hashed(Cat(m, d)) = Hashed(m)
<1>1. m \in Seq(Nat) /\ d \in Seq(Nat) /\ q \in Nat
    BY DEF Taken, Measures
<1>2. PICK j \in Seq(Nat) : j = Cat(m, d)
    BY <1>1, Joined
<1>3. Len(Blocks(m)) = q
    BY TakenFacts
<1>4. Len(Blocks(j)) = q
    BY <1>2, LongerShort, LongerFacts
<1>5. \A k \in 1..Len(Blocks(m)) : Blocks(j)[k] = Blocks(m)[k]
    BY ONLY <1>1, <1>2, SameBlocks
<1>6. CompressAll(InitialState, Blocks(m)) = CompressAll(InitialState, Blocks(j))
  <2>1. \A k \in 1..q : Blocks(m)[k] = Blocks(j)[k]
      BY <1>3, <1>5
  <2> QED BY ONLY <1>1, <1>3, <1>4, <2>1, CompressSame
<1> QED BY <1>2, <1>6 DEF Hashed

LEMMA HashedMore ==
    ASSUME NEW m, NEW l, NEW q, NEW r, NEW b, Taken(m, l, q, r, b),
           NEW d, NEW n, Measures(d, n), NEW w, NEW e, FillsBlocks(n, r, w, e)
    PROVE  CompressAll(Hashed(m), NewBlocks(b, r, d, w)) = Hashed(Cat(m, d))
<1>1. m \in Seq(Nat) /\ d \in Seq(Nat) /\ b \in Seq(Nat)
    BY DEF Taken, Measures, IsBuffer
<1>2. /\ q \in Nat /\ r \in Nat /\ r <= 63 /\ l \in Nat /\ l = q * 64 + r /\ l = Len(m)
      /\ w \in Nat /\ e \in Nat /\ n \in Nat /\ n = (64 - r) + w * 64 + e /\ n = Len(d)
      /\ Len(b) = 64
  <2>1. r \in Nat /\ r <= 63
      BY TakenFacts
  <2>2. q \in Nat /\ l \in Nat /\ l = q * 64 + r /\ l = Len(m) /\ Len(b) = 64
      BY ONLY Taken(m, l, q, r, b) DEF Taken, IsBuffer, Block
  <2>3. e \in 0..Block - 1 /\ w \in Nat /\ n = (64 - r) + w * 64 + e
      BY ONLY FillsBlocks(n, r, w, e) DEF FillsBlocks, Block
  <2>4. e \in Nat
      BY ONLY <2>3 DEF Block
  <2>5. n \in Nat /\ n = Len(d)
      BY DEF Measures
  <2> QED BY ONLY <2>1, <2>2, <2>3, <2>4, <2>5
<1>3. PICK j \in Seq(Nat) : j = Cat(m, d)
    BY <1>1, Joined
<1>4. PICK u \in Nat, v \in Nat : v = w + 1 /\ u = q + v /\ u = q + 1 + w
    BY <1>2
<1>5. Longer(j, l + n, u, e)
    BY <1>3, <1>4, LongerLong
<1>6. Len(Blocks(m)) = q
    BY TakenFacts
<1>7. Len(Blocks(j)) = u /\ \A k \in 1..u : Blocks(j)[k] = Piece(j, (k - 1) * Block, Block)
    BY <1>5, LongerFacts
<1>8. \A k \in 1..q : Blocks(j)[k] = Blocks(m)[k]
  <2>1. \A k \in 1..Len(Blocks(m)) : Blocks(Cat(m, d))[k] = Blocks(m)[k]
      BY ONLY <1>1, SameBlocks
  <2> QED BY <1>3, <1>6, <2>1
<1> DEFINE first == Cat(Piece(b, 0, r), Piece(d, 0, Block - r))
           more  == [k \in 1..w |-> Piece(d, (Block - r) + (k - 1) * Block, Block)]
<1>9. PICK x \in Nat, a \in Nat : x = Block - r /\ a = q * Block /\ r + x = Block
    BY <1>2 DEF Block
<1>10. first = Piece(j, a, Block)
  <2>1. Len(m) = a + r /\ r <= Len(b) /\ x <= Len(d)
      BY <1>2, <1>9 DEF Block
  <2>2. \A i \in 1..r : b[i] = m[a + i]
      BY <1>9 DEF Taken
  <2>3. Buffered(b, m, a, r)
      BY <1>1, <2>1, <2>2 DEF Buffered
  <2>4. x <= Len(d) /\ r \in Nat
      BY <1>2, <2>1
  <2>5. Cat(Piece(b, 0, r), Piece(d, 0, x)) = Piece(Cat(m, d), a, r + x)
      BY ONLY <1>1, <2>3, <2>4, a \in Nat, x \in Nat, FirstBlock
  <2> QED BY <1>3, <1>9, <2>5
<1>11. ASSUME NEW k \in 1..w
       PROVE  /\ more[k] \in Seq(Nat)
              /\ more[k] = Piece(j, (q + k) * Block, Block)
  <2>0. PICK i \in Nat : k = i + 1 /\ i + 1 <= w
      BY ONLY <1>2, k \in 1..w
  <2>1. PICK y \in Nat, z \in Nat : y = (Block - r) + (k - 1) * Block /\ z = Block
      BY ONLY <1>2, <2>0 DEF Block
  <2>2. y + z <= Len(d)
      BY ONLY <1>2, <2>0, <2>1 DEF Block
  <2>3. Len(m) + y = (q + k) * Block
    <3>1. l = q * 64 + r /\ y = (64 - r) + i * 64 /\ q \in Nat /\ r \in Nat /\ q + k = q + (i + 1)
        BY ONLY <1>2, <2>0, <2>1 DEF Block
    <3>2. l + y = (q + k) * 64
        BY ONLY <3>1, i \in Nat
    <3> QED BY ONLY <1>2, <3>2 DEF Block
  <2>4. Piece(d, y, z) \in Seq(Nat)
      BY ONLY <1>1, <2>2, y \in Nat, z \in Nat, PieceAt
  <2>5. Piece(Cat(m, d), Len(m) + y, z) = Piece(d, y, z)
      BY ONLY <1>1, <2>2, y \in Nat, z \in Nat, BehindPiece
  <2> QED BY <1>3, <2>1, <2>3, <2>4, <2>5
<1>12. first \in Seq(Nat)
  <2>1. a + Block <= Len(j) /\ Block \in Nat
    <3>1. Len(j) = l + n
        BY <1>5 DEF Longer
    <3> QED BY <1>2, <1>9, <3>1 DEF Block
  <2>2. Piece(j, a, Block) \in Seq(Nat)
      BY ONLY <2>1, a \in Nat, j \in Seq(Nat), PieceAt
  <2> HIDE DEF first
  <2> QED BY ONLY <1>10, <2>2
<1>13. PICK nb : nb = NewBlocks(b, r, d, w)
    OBVIOUS
<1>14. Len(nb) = w + 1 /\ nb[1] = first /\ \A k \in 1..w : nb[1 + k] = more[k]
  <2> DEFINE S == Seq(Nat)
  <2> HIDE DEF S
  <2>1. nb = Before(first, more)
      BY <1>13 DEF NewBlocks, Before
  <2>2. first \in S /\ \A k \in 1..w : more[k] \in S
      BY <1>11, <1>12 DEF S
  <2>3. more = [k \in 1..w |-> more[k]]
      OBVIOUS
  <2> HIDE DEF first, more
  <2>4. more \in [1..w -> S]
      BY <2>2, <2>3
  <2>5. PICK o \in S, f \in [1..w -> S] : o = first /\ f = more
      BY <2>2, <2>4
  <2>6. Begins(Before(o, f), o, f, w)
    <3>1. w \in Nat
        BY <1>2
    <3> QED BY <3>1, OneAndMore
  <2>7. Begins(nb, first, more, w)
      BY ONLY <2>1, <2>5, <2>6
  <2> QED BY ONLY <2>7 DEF Begins
<1> HIDE DEF first, more
<1>15. \A i \in 1..v : Blocks(j)[q + i] = nb[i]
  <2> SUFFICES ASSUME NEW i \in 1..v PROVE Blocks(j)[q + i] = nb[i]
      OBVIOUS
  <2>1. q + i \in 1..u
      BY <1>2, <1>4
  <2>4. PICK k \in 1..u : k = q + i
      BY <2>1
  <2>5. Blocks(j)[k] = Piece(j, (k - 1) * Block, Block)
      BY ONLY <1>7, k \in 1..u
  <2>6. Blocks(j)[q + i] = Piece(j, ((q + i) - 1) * Block, Block)
    <3> DEFINE P(y) == Blocks(j)[y] = Piece(j, (y - 1) * Block, Block)
    <3>1. P(k)
        BY <2>5
    <3> HIDE DEF P
    <3>2. P(q + i)
        BY ONLY <2>4, <3>1
    <3> QED BY ONLY <3>2 DEF P
  <2>2. CASE i = 1
    <3>1. ((q + i) - 1) * Block = a
        BY <1>2, <1>9, <2>2 DEF Block
    <3> QED BY ONLY <1>10, <1>14, <2>2, <2>6, <3>1
  <2>3. CASE i # 1
    <3>1. PICK h \in 1..w : i = 1 + h
        BY <1>2, <1>4, <2>3
    <3>2. (q + i) - 1 = q + h
        BY <1>2, <3>1
    <3> QED BY ONLY <1>11, <1>14, <2>6, <3>1, <3>2
  <2> QED BY <2>2, <2>3
<1>16. CompressAll(CompressAll(InitialState, Blocks(m)), nb) = CompressAll(InitialState, Blocks(j))
  <2>1. Together(Blocks(m), nb, Blocks(j), q, v)
      BY <1>2, <1>4, <1>6, <1>7, <1>8, <1>14, <1>15 DEF Together
  <2> QED BY ONLY <2>1, CompressMore
<1> QED BY <1>3, <1>13, <1>16 DEF Hashed

\* What the buffer holds, once the octets behind the whole blocks are in it.
LEMMA HoldsIf ==
    ASSUME NEW j, NEW t, NEW u, NEW e, Longer(j, t, u, e), NEW o, IsBuffer(o),
           \A i \in 1..e : o[i] = j[u * Block + i]
    PROVE  Holds([state |-> Hashed(j), count |-> t, buffer |-> o], j)
<1>1. Taken(j, t, u, e, o)
    BY DEF Longer, Taken
<1> QED BY <1>1 DEF Holds

LEMMA HoldsShort ==
    ASSUME NEW m, NEW l, NEW q, NEW r, NEW b, Taken(m, l, q, r, b),
           NEW d, NEW n, Measures(d, n), r + n < Block
    PROVE  Holds([state |-> Hashed(m), count |-> l + n, buffer |-> Overlay(b, r, d)], Cat(m, d))
<1>1. m \in Seq(Nat) /\ d \in Seq(Nat) /\ IsBuffer(b)
    BY DEF Taken, Measures
<1>2. PICK j \in Seq(Nat) : j = Cat(m, d)
    BY <1>1, Joined
<1>3. Longer(j, l + n, q, r + n)
    BY <1>2, LongerShort
<1>4. /\ q \in Nat /\ r \in Nat /\ l \in Nat /\ l = q * 64 + r /\ l = Len(m)
      /\ n \in Nat /\ n = Len(d)
  <2>1. r \in Nat
      BY TakenFacts
  <2>2. q \in Nat /\ l \in Nat /\ l = q * 64 + r /\ l = Len(m)
      BY ONLY Taken(m, l, q, r, b) DEF Taken, Block
  <2> QED BY <2>1, <2>2 DEF Measures
<1>5. PICK o : o = Overlay(b, r, d)
    OBVIOUS
<1>6. Overlaid(o, b, r, d)
  <2>1. r \in Nat /\ r + Len(d) <= Block
      BY ONLY <1>4, r + n < Block DEF Block
  <2> QED BY ONLY <1>1, <1>5, <2>1, OverlayIs
<1>7. IsBuffer(o) /\ (\A i \in 1..r : o[i] = b[i]) /\ \A i \in 1..n : o[r + i] = d[i]
    BY <1>4, <1>6 DEF Overlaid
<1>8. (\A i \in 1..l : j[i] = m[i]) /\ \A i \in 1..n : j[l + i] = d[i]
  <2>1. AreJoined(m, d, j)
      BY ONLY <1>1, <1>2, JoinedAre
  <2> QED BY <1>4, <2>1 DEF AreJoined
<1>9. \A i \in 1..r : b[i] = m[q * Block + i]
    BY DEF Taken
<1>10. ASSUME NEW i \in 1..r + n PROVE o[i] = j[q * Block + i]
  <2>1. CASE i <= r
    <3>1. i \in 1..r /\ q * Block + i \in 1..l
        BY ONLY <1>4, <2>1, i \in 1..r + n DEF Block
    <3> QED BY <1>7, <1>8, <1>9, <3>1
  <2>2. CASE i > r
    <3>1. PICK k \in 1..n : i = r + k
      <4>1. i - r \in 1..n /\ i = r + (i - r)
          BY ONLY <1>4, <2>2, i \in 1..r + n
      <4> QED BY <4>1
    <3>2. q * Block + i = l + k
        BY ONLY <1>4, <3>1 DEF Block
    <3> QED BY <1>7, <1>8, <3>1, <3>2
  <2> QED BY <1>4, <2>1, <2>2
<1>11. Hashed(j) = Hashed(m)
    BY <1>2, HashedSame
<1>12. Holds([state |-> Hashed(j), count |-> l + n, buffer |-> o], j)
    BY ONLY <1>3, <1>7, <1>10, HoldsIf
<1> QED BY <1>2, <1>5, <1>11, <1>12

LEMMA HoldsLong ==
    ASSUME NEW m, NEW l, NEW q, NEW r, NEW b, Taken(m, l, q, r, b),
           NEW d, NEW n, Measures(d, n), NEW w, NEW e, FillsBlocks(n, r, w, e)
    PROVE  Holds([state  |-> CompressAll(Hashed(m), NewBlocks(b, r, d, w)), count |-> l + n,
                  buffer |-> Overlay(b, 0, Piece(d, (Block - r) + w * Block, e))], Cat(m, d))
<1>1. m \in Seq(Nat) /\ d \in Seq(Nat) /\ IsBuffer(b)
    BY DEF Taken, Measures
<1>2. PICK j \in Seq(Nat) : j = Cat(m, d)
    BY <1>1, Joined
<1>3. Longer(j, l + n, q + 1 + w, e)
    BY <1>2, LongerLong
<1>4. /\ q \in Nat /\ r \in Nat /\ l \in Nat /\ l = q * 64 + r /\ l = Len(m) /\ r <= 63
      /\ n \in Nat /\ n = Len(d) /\ w \in Nat /\ e \in 0..63 /\ n = (64 - r) + w * 64 + e
  <2>1. r \in Nat /\ r <= 63
      BY TakenFacts
  <2>2. q \in Nat /\ l \in Nat /\ l = q * 64 + r /\ l = Len(m)
      BY ONLY Taken(m, l, q, r, b) DEF Taken, Block
  <2>3. e \in 0..Block - 1 /\ w \in Nat /\ n = (64 - r) + w * 64 + e
      BY ONLY FillsBlocks(n, r, w, e) DEF FillsBlocks, Block
  <2>4. e \in 0..63
      BY ONLY <2>3 DEF Block
  <2>5. n \in Nat /\ n = Len(d)
      BY DEF Measures
  <2> QED BY ONLY <2>1, <2>2, <2>3, <2>4, <2>5
<1>5. CompressAll(Hashed(m), NewBlocks(b, r, d, w)) = Hashed(j)
    BY <1>2, HashedMore
<1>6. PICK x \in Nat : /\ x = (Block - r) + w * Block /\ x + e = n
                       /\ l + x = (q + 1 + w) * Block
    BY ONLY <1>4 DEF Block
<1>7. PICK p : p = Piece(d, x, e)
    OBVIOUS
<1>8. IsPiece(p, d, x, e)
  <2>1. x + e <= Len(d) /\ e \in Nat
      BY ONLY <1>4, <1>6
  <2> QED BY ONLY <1>1, <1>7, <2>1, x \in Nat, PieceIsPiece
<1>9. p \in Seq(Nat) /\ Len(p) = e /\ \A i \in 1..e : p[i] = d[x + i]
    BY <1>8 DEF IsPiece
<1>16. PICK z \in Nat : z = 0
    OBVIOUS
<1>10. PICK o : z = 0 /\ o = Overlay(b, z, p)
    BY <1>16
<1>11. Overlaid(o, b, z, p)
  <2>1. z + Len(p) <= Block
      BY ONLY <1>4, <1>9, <1>10 DEF Block
  <2>2. p \in Seq(Nat)
      BY <1>9
  <2> QED BY ONLY <1>1, <1>10, <2>1, <2>2, z \in Nat, OverlayIs
<1>12. IsBuffer(o) /\ \A i \in 1..e : o[i] = p[i]
  <2>1. IsBuffer(o) /\ \A i \in 1..e : o[z + i] = p[i]
      BY <1>9, <1>11 DEF Overlaid
  <2>2. \A i \in 1..e : z + i = i
      BY ONLY <1>4, <1>10
  <2> QED BY <2>1, <2>2
<1>13. \A i \in 1..n : j[l + i] = d[i]
  <2>1. AreJoined(m, d, j)
      BY ONLY <1>1, <1>2, JoinedAre
  <2> QED BY <1>4, <2>1 DEF AreJoined
<1>14. ASSUME NEW i \in 1..e PROVE o[i] = j[(q + 1 + w) * Block + i]
  <2>1. PICK k \in 1..n : k = x + i /\ l + k = (q + 1 + w) * Block + i
    <3>1. PICK y \in Nat : y = (q + 1 + w) * Block /\ l + x = y
        BY <1>4, <1>6
    <3>2. x + i \in 1..n /\ l + (x + i) = y + i
      <4>1. i \in Nat /\ 1 <= i /\ i <= e
          BY ONLY <1>4, i \in 1..e
      <4>2. x + e = n /\ l + x = y /\ l \in Nat /\ n \in Nat
          BY <1>4, <1>6, <3>1
      <4> QED BY ONLY <4>1, <4>2, <1>4, x \in Nat, y \in Nat
    <3> QED BY <3>1, <3>2
  <2> QED BY <1>9, <1>12, <1>13, <2>1
<1>15. Holds([state |-> Hashed(j), count |-> l + n, buffer |-> o], j)
    BY ONLY <1>3, <1>12, <1>14, HoldsIf
<1> QED BY <1>2, <1>5, <1>6, <1>7, <1>10, <1>15

\* sha1_update: what it is given is taken in behind what there is, wherever the buffer
\* stands and however many blocks it fills.
THEOREM UpdateHolds ==
    ASSUME NEW c, NEW m, Holds(c, m), NEW d \in Seq(Nat)
    PROVE  Holds(Sha1Update(c, d), Cat(m, d))
<1>1. PICK l, q, r, b : Taken(m, l, q, r, b) /\ c = [state |-> Hashed(m), count |-> l, buffer |-> b]
    BY DEF Holds
<1>2. PICK n : Measures(d, n)
    BY LenProperties DEF Measures
<1>3. r \in Nat /\ r <= 63 /\ n \in Nat
    BY <1>1, <1>2, TakenFacts DEF Measures
<1>5. CASE r + n < Block
  <2>1. Sha1Update([state |-> Hashed(m), count |-> l, buffer |-> b], d)
            = [state |-> Hashed(m), count |-> l + n, buffer |-> Overlay(b, r, d)]
      BY <1>1, <1>2, <1>5, UpdateShort
  <2>2. Holds([state |-> Hashed(m), count |-> l + n, buffer |-> Overlay(b, r, d)], Cat(m, d))
      BY <1>1, <1>2, <1>5, HoldsShort
  <2> QED BY <1>1, <2>1, <2>2
<1>6. CASE ~(r + n < Block)
  <2>1. \E w, e : FillsBlocks(n, r, w, e)
    <3>1. PICK k \in Nat : k = n - (64 - r)
        BY <1>3, <1>6 DEF Block
    <3>2. PICK w \in Nat, e \in 0..63 : k = w * 64 + e
      <4>1. k \div 64 \in Nat /\ k % 64 \in 0..63 /\ k = (k \div 64) * 64 + (k % 64)
          BY ONLY k \in Nat, Division
      <4> QED BY <4>1
    <3>3. n = (64 - r) + w * 64 + e
        BY <1>3, <3>1, <3>2
    <3>4. FillsBlocks(n, r, w, e)
        BY <3>3 DEF FillsBlocks, Block
    <3> QED BY <3>4
  <2>2. PICK w, e : FillsBlocks(n, r, w, e)
      BY <2>1
  <2>3. Sha1Update([state |-> Hashed(m), count |-> l, buffer |-> b], d)
            = [state  |-> CompressAll(Hashed(m), NewBlocks(b, r, d, w)), count |-> l + n,
               buffer |-> Overlay(b, 0, Piece(d, (Block - r) + w * Block, e))]
      BY <1>1, <1>2, <2>2, UpdateLong
  <2>4. Holds([state  |-> CompressAll(Hashed(m), NewBlocks(b, r, d, w)), count |-> l + n,
               buffer |-> Overlay(b, 0, Piece(d, (Block - r) + w * Block, e))], Cat(m, d))
      BY <1>1, <1>2, <2>2, HoldsLong
  <2> QED BY <1>1, <2>3, <2>4
<1> QED BY <1>5, <1>6

LEMMA ZerosAreNat ==
    ASSUME NEW n \in Nat
    PROVE  Zeros(n) \in Seq(Nat) /\ Len(Zeros(n)) = n
<1>1. Zeros(n) \in [1..n -> Nat]
    BY DEF Zeros
<1> QED BY <1>1, FunctionIsSeq

\* sha1_init: nothing is taken in.
LEMMA InitHolds == Holds(Sha1Init, <<>>)
<1>1. PICK b : b = Zeros(Block)
    OBVIOUS
<1>2. IsBuffer(b)
  <2>1. Block \in Nat
      BY DEF Block
  <2> QED BY <1>1, <2>1, ZerosAreNat DEF IsBuffer
<1>3. Taken(<<>>, 0, 0, 0, b)
  <2>1. 0 \in 0..Block - 1 /\ 0 = 0 * Block + 0
      BY DEF Block
  <2>2. \A i \in 1..0 : FALSE
      OBVIOUS
  <2>3. <<>> \in Seq(Nat) /\ Len(<<>>) = 0
      OBVIOUS
  <2> QED BY <1>2, <2>1, <2>2, <2>3 DEF Taken
<1>4. Hashed(<<>>) = InitialState
  <2>1. Len(Blocks(<<>>)) = 0
      BY <1>3, TakenFacts
  <2> QED BY <2>1, CompressNone DEF Hashed
<1>5. Sha1Init = [state |-> Hashed(<<>>), count |-> 0, buffer |-> b]
    BY <1>1, <1>4 DEF Sha1Init
<1> QED BY <1>3, <1>5 DEF Holds

LEMMA LengthOctetsAreNat ==
    ASSUME NEW n \in Nat
    PROVE  LengthOctets(n) \in Seq(Nat)
<1>1. PICK a \in Nat, b \in Nat : a = (8 * n) \div 256 /\ b = (8 * n) % 256
  <2>1. (8 * n) \div 256 \in Nat /\ (8 * n) % 256 \in Nat
      OBVIOUS
  <2> QED BY <2>1
<1>2. <<a, b>> \in Seq(Nat)
    OBVIOUS
<1>3. PICK z \in Seq(Nat) : z = Zeros(6)
    BY ZerosAreNat
<1>4. LengthOctets(n) = Cat(z, <<a, b>>)
    BY <1>1, <1>3 DEF LengthOctets, Cat
<1> QED BY <1>2, <1>4, Joined

Padding(l) == Cat(<<128>>, Zeros((55 - l) % 64))

\* sha1_final's padding is the standard's.
LEMMA PaddingIs ==
    ASSUME NEW l \in Nat
    PROVE  /\ Padding(l) \in Seq(Nat)
           /\ (IF l % 64 < 56 THEN 56 - (l % 64) ELSE 120 - (l % 64)) - 1 = (55 - l) % 64
<1>1. PICK z \in Nat : z = (55 - l) % 64
    OBVIOUS
<1>2. Zeros(z) \in Seq(Nat) /\ <<128>> \in Seq(Nat)
    BY ZerosAreNat
<1>3. Padding(l) \in Seq(Nat)
    BY <1>1, <1>2, Joined DEF Padding
<1>4. PICK q \in Nat, r \in 0..63 : l = q * 64 + r /\ r = l % 64
  <2>1. l \div 64 \in Nat /\ l % 64 \in 0..63 /\ l = (l \div 64) * 64 + (l % 64)
      BY Division
  <2> QED BY <2>1
<1>5. (55 - l) % 64 = IF r < 56 THEN 55 - r ELSE 119 - r
    BY <1>4
<1> QED BY <1>3, <1>4, <1>5

LEMMA StandardIs ==
    ASSUME NEW m \in Seq(Nat), NEW l \in Nat, l = Len(m)
    PROVE  StandardDigest(m) = StateOctets(Hashed(Cat(Cat(m, Padding(l)), LengthOctets(l))))
<1>1. PICK z \in Seq(Nat) : z = Zeros((55 - l) % 64)
  <2>1. (55 - l) % 64 \in Nat
      OBVIOUS
  <2> QED BY <2>1, ZerosAreNat
<1>2. PICK one \in Seq(Nat) : one = <<128>>
  <2>1. <<128>> \in Seq(Nat)
      OBVIOUS
  <2> QED BY <2>1, Zenon
<1>3. Cat(Cat(m, one), z) = Cat(m, Padding(l))
  <2>1. Cat(Cat(m, one), z) = Cat(m, Cat(one, z))
      BY Assoc
  <2>2. Cat(one, z) = Padding(l)
      BY <1>1, <1>2 DEF Padding
  <2> QED BY <2>1, <2>2
<1>4. PICK p : p = m \o <<128>> \o Zeros((55 - Len(m)) % Block) \o LengthOctets(Len(m))
    OBVIOUS
<1>5. p = Cat(Cat(m, Padding(l)), LengthOctets(l))
  <2>1. p = Cat(Cat(Cat(m, one), z), LengthOctets(l))
      BY <1>1, <1>2, <1>4 DEF Cat, Block
  <2> QED BY <1>3, <2>1
<1>6. StandardDigest(m) = StateOctets(CompressAll(InitialState, Blocks(p)))
    BY <1>4 DEF StandardDigest, Blocks
<1> QED BY <1>5, <1>6 DEF Hashed

\* sha1_final: the digest of what was taken in is the standard's, whether or not the
\* padding needs a block of its own.
THEOREM FinalIsStandard ==
    ASSUME NEW c, NEW m, Holds(c, m)
    PROVE  Sha1Final(c) = StandardDigest(m)
<1>1. PICK l, q, r, b : Taken(m, l, q, r, b) /\ c = [state |-> Hashed(m), count |-> l, buffer |-> b]
    BY DEF Holds
<1>2. m \in Seq(Nat) /\ l \in Nat /\ l = Len(m)
    BY <1>1 DEF Taken
<1>3. PICK d \in Seq(Nat) : d = Padding(l)
    BY <1>2, PaddingIs
<1>4. PICK o \in Seq(Nat) : o = LengthOctets(l)
    BY <1>2, LengthOctetsAreNat
<1>5. PICK u : u = Sha1Update(c, d)
    OBVIOUS
<1>6. Sha1Final(c) = StateOctets(Sha1Update(u, o).state)
  <2>1. c.count = l
      BY <1>1
  <2>2. (IF l % Block < 56 THEN 56 - (l % Block) ELSE 120 - (l % Block)) - 1 = (55 - l) % 64
      BY <1>2, PaddingIs DEF Block
  <2>3. d = <<128>> \o Zeros((IF l % Block < 56 THEN 56 - (l % Block) ELSE 120 - (l % Block)) - 1)
      BY <1>3, <2>2 DEF Padding, Cat
  <2> QED BY <1>4, <1>5, <2>1, <2>3 DEF Sha1Final
<1>7. Holds(u, Cat(m, d))
    BY <1>5, UpdateHolds
<1>8. Holds(Sha1Update(u, o), Cat(Cat(m, d), o))
    BY <1>7, UpdateHolds
<1>9. Sha1Update(u, o).state = Hashed(Cat(Cat(m, d), o))
    BY <1>8 DEF Holds
<1>10. StandardDigest(m) = StateOctets(Hashed(Cat(Cat(m, d), o)))
    BY <1>2, <1>3, <1>4, StandardIs
<1> QED BY <1>6, <1>9, <1>10

-----------------------------------------------------------------------------
(* Base 64.                                                                *)

Sextets(a, b, d) ==
    LET triple == a * 65536 + b * 256 + d
    IN  <<triple \div 262144, (triple \div 4096) % 64, (triple \div 64) % 64, triple % 64>>

\* Three octets, cut between their bits.
AreCut(a, b, d, a1, a2, b1, b2, d1, d2) ==
    /\ a1 \in 0..63 /\ a2 \in 0..3 /\ a = 4 * a1 + a2
    /\ b1 \in 0..15 /\ b2 \in 0..15 /\ b = 16 * b1 + b2
    /\ d1 \in 0..3 /\ d2 \in 0..63 /\ d = 64 * d1 + d2

LEMMA CutSextets ==
    ASSUME NEW a, NEW b, NEW d, NEW a1, NEW a2, NEW b1, NEW b2, NEW d1, NEW d2,
           AreCut(a, b, d, a1, a2, b1, b2, d1, d2)
    PROVE  Sextets(a, b, d) = <<a1, 16 * a2 + b1, 4 * b2 + d1, d2>>
<1> USE DEF AreCut
<1>1. PICK t \in Nat : t = a * 65536 + b * 256 + d
    OBVIOUS
<1>2. t \div 262144 = a1
    BY <1>1
<1>3. (t \div 4096) % 64 = 16 * a2 + b1
  <2>1. t \div 4096 = 64 * a1 + (16 * a2 + b1)
      BY <1>1
  <2> QED BY <2>1
<1>4. (t \div 64) % 64 = 4 * b2 + d1
  <2>1. t \div 64 = 4096 * a1 + 1024 * a2 + 64 * b1 + (4 * b2 + d1)
      BY <1>1
  <2> QED BY <2>1
<1>5. t % 64 = d2
    BY <1>1
<1> QED BY <1>1, <1>2, <1>3, <1>4, <1>5 DEF Sextets

\* The bits of an octet, and six of them, the first one first.
HasBits(a, b7, b6, b5, b4, b3, b2, b1, b0) ==
    /\ {b7, b6, b5, b4, b3, b2, b1, b0} \subseteq 0..1
    /\ a = 128 * b7 + 64 * b6 + 32 * b5 + 16 * b4 + 8 * b3 + 4 * b2 + 2 * b1 + b0
Six(b5, b4, b3, b2, b1, b0) == 32 * b5 + 16 * b4 + 8 * b3 + 4 * b2 + 2 * b1 + b0

LEMMA SextetsOf ==
    ASSUME NEW a, NEW a7, NEW a6, NEW a5, NEW a4, NEW a3, NEW a2, NEW a1, NEW a0,
           NEW b, NEW b7, NEW b6, NEW b5, NEW b4, NEW b3, NEW b2, NEW b1, NEW b0,
           NEW d, NEW d7, NEW d6, NEW d5, NEW d4, NEW d3, NEW d2, NEW d1, NEW d0,
           HasBits(a, a7, a6, a5, a4, a3, a2, a1, a0),
           HasBits(b, b7, b6, b5, b4, b3, b2, b1, b0),
           HasBits(d, d7, d6, d5, d4, d3, d2, d1, d0)
    PROVE  Sextets(a, b, d) =
               <<Six(a7, a6, a5, a4, a3, a2), Six(a1, a0, b7, b6, b5, b4),
                 Six(b3, b2, b1, b0, d7, d6), Six(d5, d4, d3, d2, d1, d0)>>
<1>1. PICK x \in 0..63, y \in 0..3 :
          x = Six(a7, a6, a5, a4, a3, a2) /\ y = 2 * a1 + a0 /\ a = 4 * x + y
    BY DEF HasBits, Six
<1>2. PICK z \in 0..15, u \in 0..15 :
          z = 8 * b7 + 4 * b6 + 2 * b5 + b4 /\ u = 8 * b3 + 4 * b2 + 2 * b1 + b0 /\ b = 16 * z + u
    BY DEF HasBits
<1>3. PICK v \in 0..3, w \in 0..63 :
          v = 2 * d7 + d6 /\ w = Six(d5, d4, d3, d2, d1, d0) /\ d = 64 * v + w
    BY DEF HasBits, Six
<1>4. Sextets(a, b, d) = <<x, 16 * y + z, 4 * u + v, w>>
  <2>1. AreCut(a, b, d, x, y, z, u, v, w)
      BY <1>1, <1>2, <1>3 DEF AreCut
  <2> QED BY ONLY <2>1, CutSextets
<1>5. 16 * y + z = Six(a1, a0, b7, b6, b5, b4)
  <2>1. a1 \in 0..1 /\ a0 \in 0..1 /\ b7 \in 0..1 /\ b6 \in 0..1 /\ b5 \in 0..1 /\ b4 \in 0..1
      BY DEF HasBits
  <2>2. 16 * y = 32 * a1 + 16 * a0
      BY ONLY <1>1, <2>1
  <2>3. z = 8 * b7 + 4 * b6 + 2 * b5 + b4
      BY <1>2
  <2>4. 16 * y + z = 32 * a1 + 16 * a0 + 8 * b7 + 4 * b6 + 2 * b5 + b4
      BY ONLY <2>1, <2>2, <2>3
  <2> QED BY ONLY <2>4 DEF Six
<1>6. 4 * u + v = Six(b3, b2, b1, b0, d7, d6)
  <2>1. b3 \in 0..1 /\ b2 \in 0..1 /\ b1 \in 0..1 /\ b0 \in 0..1 /\ d7 \in 0..1 /\ d6 \in 0..1
      BY DEF HasBits
  <2>2. 4 * u = 32 * b3 + 16 * b2 + 8 * b1 + 4 * b0
      BY ONLY <1>2, <2>1
  <2>3. v = 2 * d7 + d6
      BY <1>3
  <2>4. 4 * u + v = 32 * b3 + 16 * b2 + 8 * b1 + 4 * b0 + 2 * d7 + d6
      BY ONLY <2>1, <2>2, <2>3
  <2> QED BY ONLY <2>4 DEF Six
<1> QED BY <1>1, <1>3, <1>4, <1>5, <1>6

LEMMA BitsAre ==
    ASSUME NEW a \in Octet
    PROVE  HasBits(a, Bit(a, 128), Bit(a, 64), Bit(a, 32), Bit(a, 16),
                      Bit(a, 8), Bit(a, 4), Bit(a, 2), Bit(a, 1))
<1>1. a \in Nat
    BY DEF Octet
<1>2. \A w \in {128, 64, 32, 16, 8, 4, 2, 1} : Bit(a, w) \in 0..1
    BY <1>1 DEF Bit
<1> QED BY <1>2, BitsOfOctet DEF HasBits

LEMMA SextetsOfBits ==
    ASSUME NEW a \in Octet, NEW b \in Octet, NEW d \in Octet
    PROVE  Sextets(a, b, d) =
               <<Six(Bit(a, 128), Bit(a, 64), Bit(a, 32), Bit(a, 16), Bit(a, 8), Bit(a, 4)),
                 Six(Bit(a, 2), Bit(a, 1), Bit(b, 128), Bit(b, 64), Bit(b, 32), Bit(b, 16)),
                 Six(Bit(b, 8), Bit(b, 4), Bit(b, 2), Bit(b, 1), Bit(d, 128), Bit(d, 64)),
                 Six(Bit(d, 32), Bit(d, 16), Bit(d, 8), Bit(d, 4), Bit(d, 2), Bit(d, 1))>>
BY BitsAre, SextetsOf

IsInput(in, n) == in \in Seq(Octet) /\ n \in Nat /\ n = Len(in)

\* An octet, or 0 behind the last.
At(in, n, i) == IF i <= n THEN in[i] ELSE 0

BitAt(in, n, i) ==
    IF i < 8 * n THEN (in[i \div 8 + 1] \div Weights[(i % 8) + 1]) % 2 ELSE 0
CharAt(in, n, c) ==
    32 * BitAt(in, n, 6 * c) + 16 * BitAt(in, n, 6 * c + 1) + 8 * BitAt(in, n, 6 * c + 2)
    + 4 * BitAt(in, n, 6 * c + 3) + 2 * BitAt(in, n, 6 * c + 4) + BitAt(in, n, 6 * c + 5)

Triple(in, n, g) == Sextets(At(in, n, 3 * g + 1), At(in, n, 3 * g + 2), At(in, n, 3 * g + 3))

LEMMA AtIsOctet ==
    ASSUME NEW in, NEW n, IsInput(in, n), NEW i \in Nat \ {0}
    PROVE  At(in, n, i) \in Octet
BY DEF At, IsInput, Octet

LEMMA BitAtIs ==
    ASSUME NEW in, NEW n, IsInput(in, n), NEW y \in Nat, NEW p \in 0..7
    PROVE  BitAt(in, n, 8 * y + p) = Bit(At(in, n, y + 1), Weights[p + 1])
<1>1. PICK i \in Nat : i = 8 * y + p
    OBVIOUS
<1>2. i \div 8 = y /\ i % 8 = p
    BY <1>1
<1>3. n \in Nat
    BY DEF IsInput
<1>4. i < 8 * n <=> y + 1 <= n
    BY <1>1, <1>3
<1>5. CASE y + 1 <= n
    BY <1>1, <1>2, <1>4, <1>5 DEF BitAt, At, Bit
<1>6. CASE ~(y + 1 <= n)
  <2>1. Weights[p + 1] \in Nat \ {0}
      BY DEF Weights
  <2>2. \A w \in Nat \ {0} : (0 \div w) % 2 = 0
    <3>1. \A w \in Nat \ {0} : 0 \div w = 0
        BY Quotient
    <3> QED BY <3>1
  <2>3. BitAt(in, n, i) = 0
      BY <1>4, <1>6 DEF BitAt
  <2>4. At(in, n, y + 1) = 0
      BY <1>6 DEF At
  <2>5. Bit(0, Weights[p + 1]) = 0
      BY <2>1, <2>2 DEF Bit
  <2> QED BY <1>1, <2>3, <2>4, <2>5
<1> QED BY <1>5, <1>6

\* The four characters of a group, bit by bit.
LEMMA CharIs ==
    ASSUME NEW in, NEW n, IsInput(in, n), NEW g \in Nat, NEW k \in 1..4
    PROVE  CharAt(in, n, (4 * g + k) - 1) = Triple(in, n, g)[k]
<1> DEFINE a == At(in, n, 3 * g + 1)
           b == At(in, n, 3 * g + 2)
           d == At(in, n, 3 * g + 3)
           G(t) == BitAt(in, n, 24 * g + t)
<1>1. a \in Octet /\ b \in Octet /\ d \in Octet
    BY AtIsOctet
<1>2. ASSUME NEW p \in 0..7
      PROVE  /\ G(p) = Bit(a, Weights[p + 1]) /\ G(8 + p) = Bit(b, Weights[p + 1])
             /\ G(16 + p) = Bit(d, Weights[p + 1])
  <2>1. PICK x \in Nat, y \in Nat, z \in Nat : x = 3 * g /\ y = 3 * g + 1 /\ z = 3 * g + 2
      OBVIOUS
  <2>2. /\ BitAt(in, n, 8 * x + p) = Bit(At(in, n, x + 1), Weights[p + 1])
        /\ BitAt(in, n, 8 * y + p) = Bit(At(in, n, y + 1), Weights[p + 1])
        /\ BitAt(in, n, 8 * z + p) = Bit(At(in, n, z + 1), Weights[p + 1])
      BY BitAtIs
  <2>3. 8 * x + p = 24 * g + p /\ 8 * y + p = 24 * g + (8 + p) /\ 8 * z + p = 24 * g + (16 + p)
      BY ONLY <2>1, g \in Nat, p \in 0..7
  <2>4. x + 1 = 3 * g + 1 /\ y + 1 = 3 * g + 2 /\ z + 1 = 3 * g + 3
      BY ONLY <2>1, g \in Nat
  <2> QED BY ONLY <2>2, <2>3, <2>4
<1>3. CharAt(in, n, (4 * g + k) - 1)
        = Six(G(6 * (k - 1)), G(6 * (k - 1) + 1), G(6 * (k - 1) + 2),
              G(6 * (k - 1) + 3), G(6 * (k - 1) + 4), G(6 * (k - 1) + 5))
  <2>1. PICK c \in Nat, m \in Nat : c = (4 * g + k) - 1 /\ m = 6 * (k - 1)
      OBVIOUS
  <2>2. /\ 6 * c = 24 * g + m /\ 6 * c + 1 = 24 * g + (m + 1) /\ 6 * c + 2 = 24 * g + (m + 2)
        /\ 6 * c + 3 = 24 * g + (m + 3) /\ 6 * c + 4 = 24 * g + (m + 4)
        /\ 6 * c + 5 = 24 * g + (m + 5)
      BY <2>1
  <2>3. CharAt(in, n, c) = Six(G(m), G(m + 1), G(m + 2), G(m + 3), G(m + 4), G(m + 5))
      BY <2>2 DEF CharAt, Six
  <2> QED BY <2>1, <2>3
<1> HIDE DEF G
<1>4. /\ G(0) = Bit(a, 128) /\ G(1) = Bit(a, 64) /\ G(2) = Bit(a, 32) /\ G(3) = Bit(a, 16)
      /\ G(4) = Bit(a, 8) /\ G(5) = Bit(a, 4) /\ G(6) = Bit(a, 2) /\ G(7) = Bit(a, 1)
    BY <1>2 DEF Weights
<1>5. /\ G(8) = Bit(b, 128) /\ G(9) = Bit(b, 64) /\ G(10) = Bit(b, 32) /\ G(11) = Bit(b, 16)
      /\ G(12) = Bit(b, 8) /\ G(13) = Bit(b, 4) /\ G(14) = Bit(b, 2) /\ G(15) = Bit(b, 1)
    BY <1>2 DEF Weights
<1>6. /\ G(16) = Bit(d, 128) /\ G(17) = Bit(d, 64) /\ G(18) = Bit(d, 32) /\ G(19) = Bit(d, 16)
      /\ G(20) = Bit(d, 8) /\ G(21) = Bit(d, 4) /\ G(22) = Bit(d, 2) /\ G(23) = Bit(d, 1)
    BY <1>2 DEF Weights
<1>7. Triple(in, n, g) = <<Six(G(0), G(1), G(2), G(3), G(4), G(5)),
                           Six(G(6), G(7), G(8), G(9), G(10), G(11)),
                           Six(G(12), G(13), G(14), G(15), G(16), G(17)),
                           Six(G(18), G(19), G(20), G(21), G(22), G(23))>>
    BY <1>1, <1>4, <1>5, <1>6, SextetsOfBits DEF Triple
<1> HIDE DEF a, b, d
<1> QED BY <1>3, <1>7

\* The k-th character of a group.
Encoded(in, n, g, k) == PadGroup(n - 3 * g, Triple(in, n, g))[k]

LEMMA EncodeIsGroups ==
    ASSUME NEW in, NEW n, IsInput(in, n)
    PROVE  Base64Encode(in) = [c \in 1 .. 4 * ((n + 2) \div 3) |->
                                   Encoded(in, n, (c - 1) \div 4, ((c - 1) % 4) + 1)]
<1>1. n = Len(in)
    BY DEF IsInput
<1> QED BY <1>1 DEF Base64Encode, Encoded, Triple, Sextets, At

LEMMA StandardIsChars ==
    ASSUME NEW in, NEW n, IsInput(in, n), NEW chars, chars = (8 * n + 5) \div 6
    PROVE  StandardBase64(in) = [c \in 1..chars |-> CharAt(in, n, c - 1)]
                                \o [i \in 1 .. (-chars) % 4 |-> 64]
<1>1. n = Len(in)
    BY DEF IsInput
<1> QED BY <1>1 DEF StandardBase64, CharAt, BitAt

\* As many characters as bits, and '=' behind them.
LEMMA CharsAre ==
    ASSUME NEW n \in Nat
    PROVE  \E chars, pad \in Nat :
              /\ chars = (8 * n + 5) \div 6 /\ pad = (-chars) % 4
              /\ chars + pad = 4 * ((n + 2) \div 3)
              /\ \A g \in Nat, k \in 1..4 :
                    4 * g + k <= chars + pad => (4 * g + k <= chars <=> k <= (n - 3 * g) + 1)
<1>1. PICK q \in Nat, r \in 0..2 : n = 3 * q + r
  <2>1. n \div 3 \in Nat /\ n % 3 \in 0..2 /\ n = 3 * (n \div 3) + (n % 3)
      OBVIOUS
  <2> QED BY <2>1
<1>2. CASE r = 0
  <2>1. PICK chars \in Nat : chars = 4 * q
      OBVIOUS
  <2>2. chars = (8 * n + 5) \div 6 /\ 0 = (-chars) % 4 /\ chars + 0 = 4 * ((n + 2) \div 3)
      BY <1>1, <1>2, <2>1
  <2>3. \A g \in Nat, k \in 1..4 :
            4 * g + k <= chars + 0 => (4 * g + k <= chars <=> k <= (n - 3 * g) + 1)
      BY <1>1, <1>2, <2>1
  <2> QED BY <2>2, <2>3
<1>3. CASE r = 1
  <2>1. PICK chars \in Nat : chars = 4 * q + 2
      OBVIOUS
  <2>2. chars = (8 * n + 5) \div 6 /\ 2 = (-chars) % 4 /\ chars + 2 = 4 * ((n + 2) \div 3)
      BY <1>1, <1>3, <2>1
  <2>3. \A g \in Nat, k \in 1..4 :
            4 * g + k <= chars + 2 => (4 * g + k <= chars <=> k <= (n - 3 * g) + 1)
      BY <1>1, <1>3, <2>1
  <2> QED BY <2>2, <2>3
<1>4. CASE r = 2
  <2>1. PICK chars \in Nat : chars = 4 * q + 3
      OBVIOUS
  <2>2. chars = (8 * n + 5) \div 6 /\ 1 = (-chars) % 4 /\ chars + 1 = 4 * ((n + 2) \div 3)
      BY <1>1, <1>4, <2>1
  <2>3. \A g \in Nat, k \in 1..4 :
            4 * g + k <= chars + 1 => (4 * g + k <= chars <=> k <= (n - 3 * g) + 1)
      BY <1>1, <1>4, <2>1
  <2> QED BY <2>2, <2>3
<1> QED BY <1>1, <1>2, <1>3, <1>4

LEMMA TripleIsNat ==
    ASSUME NEW in, NEW n, IsInput(in, n), NEW g \in Nat, NEW k \in 1..4
    PROVE  Triple(in, n, g)[k] \in Nat
<1>1. PICK a \in Nat, b \in Nat, d \in Nat :
          a = At(in, n, 3 * g + 1) /\ b = At(in, n, 3 * g + 2) /\ d = At(in, n, 3 * g + 3)
  <2>1. \A i \in Nat \ {0} : At(in, n, i) \in Nat
      BY AtIsOctet, OctetsAreNat
  <2>2. 3 * g + 1 \in Nat \ {0} /\ 3 * g + 2 \in Nat \ {0} /\ 3 * g + 3 \in Nat \ {0}
      OBVIOUS
  <2> QED BY <2>1, <2>2
<1>2. Triple(in, n, g) = Sextets(a, b, d)
    BY <1>1 DEF Triple
<1>3. PICK t \in Nat : t = a * 65536 + b * 256 + d
    OBVIOUS
<1>4. t \div 262144 \in Nat /\ (t \div 4096) % 64 \in Nat /\ (t \div 64) % 64 \in Nat /\ t % 64 \in Nat
    OBVIOUS
<1> QED BY <1>2, <1>3, <1>4 DEF Sextets

\* base64_encode writes what the standard says: three octets at a time, or all their bits
\* six at a time, for every number of octets.
THEOREM EncodeIsStandard ==
    ASSUME NEW in \in Seq(Octet)
    PROVE  Base64Encode(in) = StandardBase64(in)
<1>1. PICK n \in Nat : IsInput(in, n)
    BY LenProperties DEF IsInput
<1>2. PICK chars \in Nat, pad \in Nat :
          /\ chars = (8 * n + 5) \div 6 /\ pad = (-chars) % 4
          /\ chars + pad = 4 * ((n + 2) \div 3)
          /\ \A g \in Nat, k \in 1..4 :
                4 * g + k <= chars + pad => (4 * g + k <= chars <=> k <= (n - 3 * g) + 1)
    BY CharsAre
<1>3. PICK t \in Nat : t = chars + pad
    OBVIOUS
<1> DEFINE e == [c \in 1..t |-> Encoded(in, n, (c - 1) \div 4, ((c - 1) % 4) + 1)]
           s == [c \in 1..chars |-> CharAt(in, n, c - 1)]
           p == [i \in 1..pad |-> 64]
<1>4. Base64Encode(in) = e
    BY <1>1, <1>2, <1>3, EncodeIsGroups
<1>5. StandardBase64(in) = Cat(s, p)
  <2>1. StandardBase64(in) = [c \in 1..chars |-> CharAt(in, n, c - 1)]
                                \o [i \in 1 .. (-chars) % 4 |-> 64]
      BY <1>1, <1>2, StandardIsChars
  <2> QED BY <1>2, <2>1 DEF Cat
<1>6. ASSUME NEW c \in 1..t
      PROVE  \E g \in Nat, k \in 1..4 :
                c = 4 * g + k /\ g = (c - 1) \div 4 /\ k = ((c - 1) % 4) + 1
  <2>1. PICK b \in Nat : b = c - 1
      OBVIOUS
  <2>2. PICK g \in Nat, k \in 0..3 : g = b \div 4 /\ k = b % 4 /\ b = 4 * g + k
      OBVIOUS
  <2>3. k + 1 \in 1..4 /\ c = 4 * g + (k + 1)
      BY <2>1, <2>2
  <2> QED BY <2>1, <2>2, <2>3
<1>7. ASSUME NEW c \in 1..t
      PROVE  /\ c <= chars => e[c] = CharAt(in, n, c - 1) /\ e[c] \in Nat
             /\ c > chars => e[c] = 64
  <2>1. PICK g \in Nat, k \in 1..4 :
            c = 4 * g + k /\ g = (c - 1) \div 4 /\ k = ((c - 1) % 4) + 1
      BY <1>6
  <2>2. e[c] = Encoded(in, n, g, k)
      BY <2>1
  <2>3. c <= chars <=> k <= (n - 3 * g) + 1
      BY <1>2, <1>3, <2>1
  <2>4. Encoded(in, n, g, k) = IF k > (n - 3 * g) + 1 THEN 64 ELSE Triple(in, n, g)[k]
      BY DEF Encoded, PadGroup
  <2>5. Triple(in, n, g)[k] \in Nat /\ Triple(in, n, g)[k] = CharAt(in, n, c - 1)
    <3>1. CharAt(in, n, (4 * g + k) - 1) = Triple(in, n, g)[k]
        BY <1>1, CharIs
    <3> QED BY <1>1, <2>1, <3>1, TripleIsNat
  <2> HIDE DEF e
  <2>6. n - 3 * g \in Int
      OBVIOUS
  <2> QED BY <2>2, <2>3, <2>4, <2>5, <2>6
<1>8. e \in Seq(Nat) /\ Len(e) = t
  <2>1. e = [c \in 1..t |-> e[c]]
      OBVIOUS
  <2> HIDE DEF e
  <2>2. \A c \in 1..t : e[c] \in Nat
      BY <1>7
  <2>3. e \in [1..t -> Nat]
      BY <2>1, <2>2
  <2> QED BY <2>3, FunctionIsSeq
<1>9. s \in Seq(Nat) /\ Len(s) = chars
  <2>1. s = [c \in 1..chars |-> s[c]] /\ \A c \in 1..chars : s[c] = CharAt(in, n, c - 1)
      OBVIOUS
  <2> HIDE DEF s, e
  <2>2. \A c \in 1..chars : s[c] \in Nat
      BY <1>3, <1>7, <2>1
  <2>3. s \in [1..chars -> Nat]
      BY <2>1, <2>2
  <2> QED BY <2>3, FunctionIsSeq
<1>10. p \in Seq(Nat) /\ Len(p) = pad
  <2>1. p \in [1..pad -> Nat]
      OBVIOUS
  <2> QED BY <2>1, FunctionIsSeq
<1>11. (\A c \in 1..chars : s[c] = CharAt(in, n, c - 1)) /\ \A i \in 1..pad : p[i] = 64
    OBVIOUS
<1> HIDE DEF e, s, p
<1>12. PICK j \in Seq(Nat) : j = Cat(s, p) /\ Len(j) = t
  <2>1. Cat(s, p) \in Seq(Nat) /\ Len(Cat(s, p)) = Len(s) + Len(p)
      BY <1>9, <1>10, Joined
  <2> QED BY <1>3, <1>9, <1>10, <2>1
<1>13. /\ \A c \in 1..chars : j[c] = s[c]
       /\ \A i \in 1..pad : j[chars + i] = p[i]
  <2>1. /\ \A c \in 1..Len(s) : Cat(s, p)[c] = s[c]
        /\ \A i \in 1..Len(p) : Cat(s, p)[Len(s) + i] = p[i]
      BY <1>9, <1>10, OctetsJoinedAt
  <2> QED BY ONLY <1>9, <1>10, <1>12, <2>1
<1>14. ASSUME NEW c \in 1..t PROVE e[c] = j[c]
  <2>1. CASE c <= chars
      BY <1>7, <1>11, <1>13, <2>1
  <2>2. CASE c > chars
    <3>1. PICK i \in 1..pad : c = chars + i
        BY <1>3, <2>2
    <3> QED BY <1>7, <1>11, <1>13, <2>2, <3>1
  <2> QED BY <2>1, <2>2
<1>15. e = j
    BY <1>8, <1>12, <1>14, SeqEqual
<1> QED BY <1>4, <1>5, <1>12, <1>15

-----------------------------------------------------------------------------
(* The key and what it is answered with.                                   *)

\* Five words, each its two halves, and what a compression function keeps.
Half == {n \in Nat : n < 65536}
Halves == Half \X Half
States == [1..5 -> Halves]
CompressesToStates ==
    \A state \in States, block \in [1..Block -> Octet] : Compress(state, block) \in States

LEMMA InitialIsState == InitialState \in States
<1>1. /\ <<\h6745, \h2301>> \in Halves /\ <<\hEFCD, \hAB89>> \in Halves
      /\ <<\h98BA, \hDCFE>> \in Halves /\ <<\h1032, \h5476>> \in Halves
      /\ <<\hC3D2, \hE1F0>> \in Halves
    BY DEF Halves, Half
<1>2. \A a, b, c, d, e : {a, b, c, d, e} \subseteq Halves => <<a, b, c, d, e>> \in [1..5 -> Halves]
    OBVIOUS
<1> QED BY <1>1, <1>2 DEF InitialState, States

LEMMA StateOctetsAre ==
    ASSUME NEW state \in States
    PROVE  StateOctets(state) \in Seq(Octet)
<1>1. \A w \in 1..5, h \in 1..2 : state[w][h] \in Half
  <2>1. \A w \in 1..5 : state[w] \in Halves
      BY DEF States
  <2>2. \A x \in Halves : x[1] \in Half /\ x[2] \in Half
      BY DEF Halves
  <2>3. \A h \in 1..2 : h = 1 \/ h = 2
      OBVIOUS
  <2> QED BY <2>1, <2>2, <2>3
<1>2. ASSUME NEW i \in 1..20
      PROVE  (i + 3) \div 4 \in 1..5 /\ (((i - 1) \div 2) % 2) + 1 \in 1..2
    OBVIOUS
<1>3. ASSUME NEW half \in Half PROVE half \div 256 \in Octet /\ half % 256 \in Octet
  <2>1. half \div 256 \in 0..255 /\ half % 256 \in 0..255
      BY DEF Half
  <2> QED BY <2>1 DEF Octet
<1>4. StateOctets(state) \in [1..20 -> Octet]
  <2>1. ASSUME NEW i \in 1..20
        PROVE  state[(i + 3) \div 4][(((i - 1) \div 2) % 2) + 1] \in Half
    <3>1. PICK w \in 1..5, h \in 1..2 : w = (i + 3) \div 4 /\ h = (((i - 1) \div 2) % 2) + 1
        BY <1>2
    <3> QED BY <1>1, <3>1
  <2> DEFINE half(i) == state[(i + 3) \div 4][(((i - 1) \div 2) % 2) + 1]
  <2>2. StateOctets(state) = [i \in 1..20 |-> IF i % 2 = 1 THEN half(i) \div 256 ELSE half(i) % 256]
      BY DEF StateOctets
  <2>3. \A i \in 1..20 : half(i) \in Half
      BY <2>1
  <2> HIDE DEF half
  <2> QED BY <1>3, <2>2, <2>3
<1>5. PICK n \in Nat : n = 20
    OBVIOUS
<1> QED BY <1>4, <1>5, FunctionIsSeq

LEMMA BlocksAreOctets ==
    ASSUME NEW m \in Seq(Octet), NEW n \in Nat, n = Len(m) \div Block
    PROVE  Len(Blocks(m)) = n /\ \A k \in 1..n : Blocks(m)[k] \in [1..Block -> Octet]
<1>1. m \in Seq(Nat) /\ Len(m) \in Nat /\ \A i \in 1..Len(m) : m[i] \in Octet
  <2>1. \A i \in 1..Len(m) : m[i] \in Octet
      BY ElementOfSeq
  <2>2. m \in Seq(Nat)
      BY OctetsAreNat, SeqMonotonic
  <2> QED BY <2>1, <2>2, LenProperties
<1>2. /\ Len(Blocks(m)) = n
      /\ \A k \in 1..n : Blocks(m)[k] = Piece(m, (k - 1) * Block, Block)
    BY ONLY <1>1, n \in Nat, n = Len(m) \div Block, BlockAt
<1>3. ASSUME NEW k \in 1..n PROVE Blocks(m)[k] \in [1..Block -> Octet]
  <2>1. k \in 1..Len(m) \div Block
      OBVIOUS
  <2>2. (k - 1) * Block \in Nat /\ (k - 1) * Block + Block <= Len(m) /\ Block \in Nat
      BY ONLY <1>1, <2>1, BlockFits
  <2>3. PICK a \in Nat, o \in Nat : a = (k - 1) * Block /\ o = Block /\ a + o <= Len(m)
      BY <2>2
  <2>4. PICK p : p = Piece(m, a, o)
      OBVIOUS
  <2>5. p \in Seq(Nat) /\ Len(p) = o /\ \A i \in 1..o : p[i] = m[a + i]
      BY ONLY <1>1, <2>3, <2>4, a \in Nat, o \in Nat, PieceAt
  <2>6. \A i \in 1..o : p[i] \in Octet
    <3>1. \A i \in 1..o : a + i \in 1..Len(m)
        BY ONLY <1>1, <2>3, a \in Nat, o \in Nat
    <3> QED BY <1>1, <2>5, <3>1
  <2>7. p \in [1..o -> Octet]
      BY ONLY <2>5, <2>6, LenProperties
  <2> QED BY <1>2, <2>3, <2>4, <2>7
<1> QED BY <1>2, <1>3

LEMMA HashedIsState ==
    ASSUME CompressesToStates, NEW m \in Seq(Octet)
    PROVE  Hashed(m) \in States
<1>1. PICK n \in Nat : n = Len(m) \div Block
  <2>1. Len(m) \in Nat
      BY LenProperties
  <2> QED BY <2>1 DEF Block
<1>2. PICK b : b = Blocks(m)
    OBVIOUS
<1>3. n = Len(b) /\ \A k \in 1..n : b[k] \in [1..Block -> Octet]
    BY <1>1, <1>2, BlocksAreOctets
<1>4. PICK f : Runs(f, InitialState, b, n) /\ CompressAll(InitialState, b) = f[n]
  <2>1. Len(b) \in Nat
      BY <1>3
  <2>2. \E f : Runs(f, InitialState, b, Len(b)) /\ CompressAll(InitialState, b) = f[Len(b)]
      BY ONLY <2>1, CompressAllRuns
  <2> QED BY <1>3, <2>2
<1> DEFINE T == {k \in Nat : k <= n => f[k] \in States}
<1>5. 0 \in T
    BY <1>4, InitialIsState DEF Runs
<1>6. ASSUME NEW k \in T PROVE k + 1 \in T
  <2>1. k \in Nat /\ (k + 1) - 1 = k
      OBVIOUS
  <2>2. CASE k + 1 <= n
    <3>1. k + 1 \in 1..n /\ f[k] \in States
        BY <2>1, <2>2
    <3>2. f[k + 1] = Compress(f[(k + 1) - 1], b[k + 1])
        BY ONLY <1>4, <3>1 DEF Runs
    <3>3. f[k + 1] \in States
        BY <1>3, <2>1, <3>1, <3>2 DEF CompressesToStates
    <3> QED BY <2>1, <3>3
  <2> QED BY <2>1, <2>2
<1>7. T = Nat
  <2>1. T \in SUBSET Nat
      OBVIOUS
  <2> HIDE DEF T
  <2> QED BY <1>5, <1>6, <2>1, EveryNat
<1>8. f[n] \in States
    BY <1>7
<1> QED BY <1>2, <1>4, <1>8 DEF Hashed

LEMMA GuidIs == Guid \in Seq(Octet) /\ Len(Guid) = 36
<1>1. Guid \in [1..36 -> Octet]
    BY DEF Guid, Octet
<1>2. PICK n \in Nat : n = 36
    OBVIOUS
<1> QED BY <1>1, <1>2, FunctionIsSeq

LEMMA OctetSeq ==
    ASSUME NEW m \in Seq(Octet)
    PROVE  m \in Seq(Nat)
BY OctetsAreNat, SeqMonotonic

LEMMA ZerosAreOctets ==
    ASSUME NEW n \in Nat
    PROVE  Zeros(n) \in Seq(Octet)
<1>1. Zeros(n) \in [1..n -> Octet]
    BY DEF Zeros, Octet
<1> QED BY <1>1, FunctionIsSeq

\* The digest of a message of CatSize octets at most is octets.
LEMMA DigestIsOctets ==
    ASSUME CompressesToStates, NEW m \in Seq(Octet), NEW l \in Nat, l = Len(m), l < 256
    PROVE  StandardDigest(m) \in Seq(Octet)
<1>1. Padding(l) \in Seq(Octet)
  <2>1. <<128>> \in Seq(Octet)
    <3>1. 128 \in Octet
        BY DEF Octet
    <3> QED BY <3>1
  <2>2. PICK z \in Nat : z = (55 - l) % 64
      OBVIOUS
  <2> QED BY <2>1, <2>2, ZerosAreOctets, Joined DEF Padding
<1>2. LengthOctets(l) \in Seq(Octet)
  <2>1. PICK a \in Octet, b \in Octet : a = (8 * l) \div 256 /\ b = (8 * l) % 256
    <3>1. PICK x \in Nat : x = 8 * l /\ x < 2048
        OBVIOUS
    <3>2. x \div 256 \in Nat /\ x \div 256 < 256
      <4>1. x < 256 * 256
          BY <3>1
      <4>2. PICK d \in Nat \ {0}, e \in Nat : d = 256 /\ e = 256 /\ x < e * d
          BY <4>1
      <4>3. x \div d \in Nat /\ x \div d < e
          BY <4>2, Division, SmallQuotient
      <4> QED BY <4>2, <4>3
    <3>3. x % 256 \in Nat /\ x % 256 < 256
        BY <3>1
    <3>4. x \div 256 \in Octet /\ x % 256 \in Octet
        BY <3>2, <3>3 DEF Octet
    <3> HIDE DEF Octet
    <3>5. \E a \in Octet, b \in Octet : a = x \div 256 /\ b = x % 256
        BY <3>4
    <3> QED BY ONLY <3>1, <3>5
  <2>2. <<a, b>> \in Seq(Octet)
      OBVIOUS
  <2>3. PICK z \in Seq(Octet) : z = Zeros(6)
      BY ZerosAreOctets
  <2>4. LengthOctets(l) = Cat(z, <<a, b>>)
      BY <2>1, <2>3 DEF LengthOctets, Cat
  <2> QED BY <2>2, <2>4, Joined
<1>3. PICK p \in Seq(Octet) : p = Cat(Cat(m, Padding(l)), LengthOctets(l))
    BY <1>1, <1>2, Joined
<1>4. StandardDigest(m) = StateOctets(Hashed(p))
  <2>1. m \in Seq(Nat)
      BY OctetSeq
  <2> QED BY <1>3, <2>1, StandardIs
<1> QED BY <1>3, <1>4, HashedIsState, StateOctetsAre

\* compute_accept_key answers a key that is not cut with what the standard says.
THEOREM KeyIsAccepted ==
    ASSUME CompressesToStates, NEW key \in Seq(Octet), Len(key) <= LongestKey
    PROVE  AcceptKey(key) = StandardAccept(key)
<1>1. PICK t \in Seq(Octet) : t = key \o Guid
    BY GuidIs, Joined DEF Cat
<1>2. PICK l \in Nat : l = Len(t) /\ l < 256
  <2>1. Len(t) = Len(key) + 36 /\ Len(key) \in Nat
    <3>1. t = Cat(key, Guid)
        BY <1>1 DEF Cat
    <3>2. Len(Cat(key, Guid)) = Len(key) + Len(Guid) /\ Len(key) \in Nat
        BY GuidIs, Joined
    <3> QED BY <3>1, <3>2, GuidIs
  <2> QED BY <2>1, GuidIs DEF LongestKey, CatSize
<1>3. t \in Seq(Nat)
    BY OctetSeq
<1>4. Octets(t, 1, IF Len(t) < CatSize THEN Len(t) ELSE CatSize - 1) = t
  <2>1. (IF Len(t) < CatSize THEN Len(t) ELSE CatSize - 1) = l
      BY <1>2 DEF CatSize
  <2>2. SubSeq(t, 1, l) = t
      BY <1>2, <1>3
  <2> QED BY <2>1, <2>2 DEF Octets
<1>5. PICK c : c = Sha1Update(Sha1Init, t)
    OBVIOUS
<1>6. AcceptKey(key) = Base64Encode(Sha1Final(c))
    BY <1>1, <1>4, <1>5 DEF AcceptKey
<1>7. Holds(c, t)
  <2>1. Holds(c, Cat(<<>>, t))
      BY <1>3, <1>5, InitHolds, UpdateHolds
  <2>2. Cat(<<>>, t) = t
      BY <1>3, Joined
  <2> QED BY <2>1, <2>2
<1>8. Sha1Final(c) = StandardDigest(t)
    BY <1>7, FinalIsStandard
<1>9. StandardDigest(t) \in Seq(Octet)
    BY <1>2, DigestIsOctets
<1>10. Base64Encode(StandardDigest(t)) = StandardBase64(StandardDigest(t))
    BY <1>9, EncodeIsStandard
<1> QED BY <1>1, <1>6, <1>8, <1>10 DEF StandardAccept
=============================================================================
