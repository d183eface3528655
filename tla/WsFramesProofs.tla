--------------------------- MODULE WsFramesProofs ---------------------------

(***************************************************************************)
(* Proofs about the octets of a WebSocket connection (WsFrames), for every *)
(* value of its constants: requests of any number and length, any bound on *)
(* broadcasts and on calls cut short, any faults.                          *)
(*                                                                         *)
(*   FramesAreUnderstood        what ws_recv_frame returns is what the     *)
(*                              client has sent                            *)
(*   OnlyARaceBreaksTheStream   what the client reads is what the two      *)
(*                              writers have begun, unless they race       *)
(*   AcceptsAreStandard         the response answers the client's key      *)
(*                                                                         *)
(* They rest on invariants of the octets: Understood says what the octets  *)
(* on their way to the server stand for, Jobs what each writer is about to *)
(* send, Answering and Stream what has been sent.  Recursive functions     *)
(* (the octets of a list of frames, the frames in a list of octets) are    *)
(* evaluated by induction, from the least number that would not do.        *)
(***************************************************************************)
EXTENDS WsFrames, WsHandshakeProofs

\* The first k octets of s, and the others.
First(s, k)  == SubSeq(s, 1, k)
Others(s, k) == SubSeq(s, k + 1, Len(s))

\* The first octets of what is to come can be moved behind what is there.
LEMMA Moves ==
    ASSUME NEW S, NEW g \in Seq(S), NEW s \in Seq(S), NEW k \in 0..Len(s)
    PROVE  /\ First(s, k) \in Seq(S) /\ Len(First(s, k)) = k
           /\ Others(s, k) \in Seq(S) /\ Len(Others(s, k)) = Len(s) - k
           /\ Cat(First(s, k), Others(s, k)) = s
           /\ Cat(g, First(s, k)) \in Seq(S) /\ Len(Cat(g, First(s, k))) = Len(g) + k
           /\ Cat(Cat(g, First(s, k)), Others(s, k)) = Cat(g, s)
<1>1. Len(s) \in Nat /\ \A i \in 1..Len(s) : s[i] \in S
    BY LenProperties
<1>2. SubSeq(s, 1, k) \in Seq(S) /\ Len(SubSeq(s, 1, k)) = k
    BY <1>1, SubSeqProperties
<1>3. SubSeq(s, k + 1, Len(s)) \in Seq(S) /\ Len(SubSeq(s, k + 1, Len(s))) = Len(s) - k
  <2>1. k + 1 \in Int /\ Len(s) \in Int /\ \A i \in k + 1..Len(s) : s[i] \in S
      BY <1>1
  <2>2. SubSeq(s, k + 1, Len(s)) \in Seq(S)
        /\ Len(SubSeq(s, k + 1, Len(s))) = IF k + 1 <= Len(s) THEN Len(s) - (k + 1) + 1 ELSE 0
      BY <2>1, SubSeqProperties
  <2> QED BY <2>2, <1>1
<1>4. Cat(SubSeq(s, 1, k), SubSeq(s, k + 1, Len(s))) = s
  <2>1. 1 \in 1..Len(s) + 1 /\ k \in 1 - 1..Len(s) /\ Len(s) \in k..Len(s)
      BY <1>1
  <2>2. SubSeq(s, 1, k) \o SubSeq(s, k + 1, Len(s)) = SubSeq(s, 1, Len(s))
      BY <2>1, ConcatAdjacentSubSeq
  <2> QED BY <2>2, SubSeqFull DEF Cat
<1>5. PICK a \in Seq(S), b \in Seq(S) :
          a = SubSeq(s, 1, k) /\ b = SubSeq(s, k + 1, Len(s))
    BY <1>2, <1>3
<1>6. Cat(Cat(g, a), b) = Cat(g, Cat(a, b))
    BY Assoc
<1>7. Cat(g, a) \in Seq(S) /\ Len(Cat(g, a)) = Len(g) + Len(a)
    BY Joined
<1> QED BY <1>2, <1>3, <1>4, <1>5, <1>6, <1>7 DEF First, Others

\* Two joined pairs that are equal, with first parts of one length, are equal part by part.
LEMMA Parts ==
    ASSUME NEW S, NEW a \in Seq(S), NEW b \in Seq(S), NEW c \in Seq(S), NEW d \in Seq(S),
           Cat(a, b) = Cat(c, d), Len(a) = Len(c)
    PROVE  a = c /\ b = d
<1>1. Len(b) = Len(d)
  <2>1. \A x, y \in Seq(S) : Len(Cat(x, y)) = Len(x) + Len(y) /\ Len(x) \in Nat /\ Len(y) \in Nat
      BY Joined
  <2> QED BY <2>1
<1>2. \A i \in 1..Len(a) : a[i] = c[i]
  <2> SUFFICES ASSUME NEW i \in 1..Len(a) PROVE a[i] = c[i]
      OBVIOUS
  <2>1. Cat(a, b)[i] = a[i]
      BY JoinedAt
  <2>2. Cat(c, d)[i] = c[i]
      BY JoinedAt
  <2> QED BY <2>1, <2>2
<1>3. \A i \in 1..Len(b) : b[i] = d[i]
  <2> SUFFICES ASSUME NEW i \in 1..Len(b) PROVE b[i] = d[i]
      OBVIOUS
  <2>1. Cat(a, b)[Len(a) + i] = b[i]
      BY JoinedBehind
  <2>2. Cat(c, d)[Len(c) + i] = d[i]
      BY <1>1, JoinedBehind
  <2> QED BY <2>1, <2>2
<1> QED BY <1>1, <1>2, <1>3, SeqEqual

LEMMA Rejoined ==
    ASSUME NEW S, NEW s \in Seq(S), NEW t \in Seq(S)
    PROVE  First(Cat(s, t), Len(s)) = s /\ Others(Cat(s, t), Len(s)) = t
<1>1. PICK u \in Seq(S) : u = Cat(s, t)
    BY Joined
<1>2. Len(u) = Len(s) + Len(t) /\ Len(s) \in Nat /\ Len(t) \in Nat
    BY <1>1, Joined
<1>3. PICK k \in 0..Len(u) : k = Len(s)
    BY <1>2
<1>4. PICK a \in Seq(S), b \in Seq(S) : a = First(u, k) /\ b = Others(u, k)
    BY Moves
<1>5. Len(a) = k /\ Cat(a, b) = u
    BY <1>4, Moves
<1>6. Cat(a, b) = Cat(s, t) /\ Len(a) = Len(s)
    BY <1>1, <1>3, <1>5
<1>7. a = s /\ b = t
    BY <1>6, Parts
<1> QED BY <1>1, <1>3, <1>4, <1>7

\* An element can stand in front of a sequence, or with its first element in front of the rest.
LEMMA InFront ==
    ASSUME NEW S, NEW z \in Seq(S), z # <<>>, NEW one \in Seq(S), NEW two \in Seq(S)
    PROVE  Len(one) = 1 /\ Len(two) = 2 /\ two[1] = one[1] /\ two[2] = z[1]
               => Cat(one, z) = Cat(two, Tail(z))
<1>1. Len(z) \in Nat \ {0}
    BY EmptySeq
<1>2. PICK t \in Seq(S) : t = Tail(z)
    BY HeadTailProperties
<1>3. t \in Seq(S)
    BY <1>2
<1>4. /\ Cat(one, z) \in Seq(S) /\ Len(Cat(one, z)) = Len(one) + Len(z)
      /\ \A i \in 1..Len(one) : Cat(one, z)[i] = one[i]
      /\ \A i \in 1..Len(z) : Cat(one, z)[Len(one) + i] = z[i]
  <2>1. Cat(one, z) \in Seq(S) /\ Len(Cat(one, z)) = Len(one) + Len(z)
      BY Joined
  <2>2. ASSUME NEW i \in 1..Len(one) PROVE Cat(one, z)[i] = one[i]
      BY JoinedAt
  <2>3. ASSUME NEW i \in 1..Len(z) PROVE Cat(one, z)[Len(one) + i] = z[i]
      BY JoinedBehind
  <2> QED BY <2>1, <2>2, <2>3
<1>5. /\ Cat(two, t) \in Seq(S) /\ Len(Cat(two, t)) = Len(two) + Len(t)
      /\ \A i \in 1..Len(two) : Cat(two, t)[i] = two[i]
      /\ \A i \in 1..Len(t) : Cat(two, t)[Len(two) + i] = t[i]
  <2>1. Cat(two, t) \in Seq(S) /\ Len(Cat(two, t)) = Len(two) + Len(t)
      BY <1>3, Joined
  <2>2. ASSUME NEW i \in 1..Len(two) PROVE Cat(two, t)[i] = two[i]
      BY <1>3, JoinedAt
  <2>3. ASSUME NEW i \in 1..Len(t) PROVE Cat(two, t)[Len(two) + i] = t[i]
      BY <1>3, JoinedBehind
  <2> QED BY <2>1, <2>2, <2>3
<1>6. Len(t) = Len(z) - 1 /\ \A i \in 1..Len(t) : t[i] = z[i + 1]
    BY <1>1, <1>2, HeadTailProperties
<1>7. SUFFICES ASSUME Len(one) = 1, Len(two) = 2, two[1] = one[1], two[2] = z[1]
               PROVE  Cat(one, z) = Cat(two, t)
    BY <1>2
<1>8. ASSUME NEW i \in 1..1 + Len(z) PROVE Cat(one, z)[i] = Cat(two, t)[i]
  <2>1. CASE i = 1
      BY <2>1, <1>4, <1>5, <1>7
  <2>2. CASE i = 2
    <3>1. Cat(one, z)[1 + 1] = z[1]
        BY <1>1, <1>4, <1>7
    <3> QED BY <3>1, <2>2, <1>5, <1>7
  <2>3. CASE i > 2
    <3>1. PICK j \in Nat : i = j + 2
        BY <1>1, <2>3
    <3>2. j + 1 \in 1..Len(z) /\ j \in 1..Len(t)
        BY <1>1, <1>6, <2>3, <3>1
    <3>3. Cat(one, z)[1 + (j + 1)] = z[j + 1]
        BY <1>4, <1>7, <3>2
    <3>4. Cat(two, t)[2 + j] = t[j] /\ t[j] = z[j + 1]
        BY <1>5, <1>6, <1>7, <3>2
    <3>5. 1 + (j + 1) = i /\ 2 + j = i
        BY <3>1
    <3> QED BY <3>3, <3>4, <3>5
  <2> QED BY <1>1, <2>1, <2>2, <2>3
<1>9. Len(Cat(one, z)) = 1 + Len(z) /\ Len(Cat(two, t)) = 1 + Len(z)
    BY <1>1, <1>4, <1>5, <1>6, <1>7
<1> QED BY <1>4, <1>5, <1>8, <1>9, SeqEqual

-----------------------------------------------------------------------------
(* Numbers as digits.                                                      *)

\* Two digits hold every number below Base * Base.
LEMMA TwoDigits ==
    ASSUME NEW n \in Nat, n < Base * Base
    PROVE  /\ Digits(n, 2) \in Seq(Nat) /\ Len(Digits(n, 2)) = 2
           /\ Number(Digits(n, 2)) = n
<1>1. Base \in Nat \ {0}
    BY WidthAssumption
<1>2. PICK q \in Nat, r \in 0..Base - 1 : q = n \div Base /\ r = n % Base /\ n = q * Base + r
    BY <1>1, Division
<1>3. q < Base
    BY <1>1, <1>2, SmallQuotient
<1>4. q % Base = q
    BY <1>1, <1>2, <1>3
<1>5. Digits(n, 2) = <<q, r>>
    BY <1>2, <1>4 DEF Digits
<1>6. Number(<<q, r>>) = q * Base + r
    BY DEF Number
<1>7. <<q, r>> \in Seq(Nat) /\ Len(<<q, r>>) = 2
    BY <1>2, <1>1
<1> QED BY <1>2, <1>5, <1>6, <1>7

\* Three digits hold every number below Base * Base * Base.
LEMMA ThreeDigits ==
    ASSUME NEW n \in Nat, n < Base * Base * Base
    PROVE  /\ Digits(n, 3) \in Seq(Nat) /\ Len(Digits(n, 3)) = 3
           /\ Number(Digits(n, 3)) = n
<1>1. Base \in Nat \ {0} /\ Base * Base \in Nat \ {0}
  <2>1. Base \in Nat \ {0}
      BY WidthAssumption
  <2> QED BY <2>1
<1>2. PICK q \in Nat, r \in 0..Base - 1 : q = n \div Base /\ r = n % Base /\ n = q * Base + r
    BY <1>1, Division
<1>3. PICK p \in Nat, t \in 0..Base - 1 : p = q \div Base /\ t = q % Base /\ q = p * Base + t
  <2>1. Base \in Nat \ {0}
      BY <1>1
  <2> QED BY <2>1, Division
<1>4. n \div (Base * Base) = p
  <2> DEFINE low == t * Base + r
  <2>1. low \in 0..Base * Base - 1
    <3>1. t * Base + Base <= Base * Base
      <4>1. PICK k \in Nat : Base = t + 1 + k
          BY <1>1
      <4>2. Base * Base = (t + 1 + k) * Base
          BY <4>1
      <4>3. (t + 1 + k) * Base = t * Base + Base + k * Base /\ k * Base \in Nat
          BY <1>1
      <4> QED BY <4>2, <4>3, <1>1
    <3>2. t * Base \in Nat /\ t * Base + r \in Nat /\ r < Base
        BY <1>1
    <3> QED BY <3>1, <3>2, <1>1
  <2>2. n = p * (Base * Base) + low
    <3>1. n = (p * Base + t) * Base + r
        BY <1>2, <1>3
    <3>2. (p * Base + t) * Base = p * (Base * Base) + t * Base
        BY <1>1
    <3>3. p * (Base * Base) \in Nat /\ t * Base \in Nat
        BY <1>1
    <3> QED BY <3>1, <3>2, <3>3
  <2> HIDE DEF low
  <2>3. (p * (Base * Base) + low) \div (Base * Base) = p
      BY <1>1, <2>1, Quotient
  <2> QED BY <2>2, <2>3
<1>5. p < Base
  <2>1. n < Base * (Base * Base)
      BY <1>1
  <2> QED BY <2>1, <1>1, <1>4, SmallQuotient
<1>6. p % Base = p
    BY <1>1, <1>5
<1>7. Digits(n, 3) = <<p, t, r>>
  <2>1. (n \div Base) % Base = t /\ (n \div (Base * Base)) % Base = p /\ n % Base = r
      BY <1>2, <1>3, <1>4, <1>6
  <2> QED BY <2>1 DEF Digits
<1>8. Number(<<p, t, r>>) = (p * Base + t) * Base + r
    BY DEF Number
<1>9. <<p, t, r>> \in Seq(Nat) /\ Len(<<p, t, r>>) = 3
    BY <1>1
<1> QED BY <1>2, <1>3, <1>7, <1>8, <1>9

-----------------------------------------------------------------------------
(* Masks.                                                                  *)

LEMMA OctetOfBits ==
    ASSUME NEW b7 \in 0..1, NEW b6 \in 0..1, NEW b5 \in 0..1, NEW b4 \in 0..1,
           NEW b3 \in 0..1, NEW b2 \in 0..1, NEW b1 \in 0..1, NEW b0 \in 0..1,
           NEW a, a = 128 * b7 + 64 * b6 + 32 * b5 + 16 * b4 + 8 * b3 + 4 * b2 + 2 * b1 + b0
    PROVE  /\ a \in Octet
           /\ Bit(a, 128) = b7 /\ Bit(a, 64) = b6 /\ Bit(a, 32) = b5 /\ Bit(a, 16) = b4
           /\ Bit(a, 8) = b3 /\ Bit(a, 4) = b2 /\ Bit(a, 2) = b1 /\ Bit(a, 1) = b0
BY DEF Octet, Bit

\* A mask applied twice gives back what was masked.
LEMMA XorTwice ==
    ASSUME NEW a \in Octet, NEW b \in Octet
    PROVE  XorOctets(a, b) \in Octet /\ XorOctets(XorOctets(a, b), b) = a
<1> DEFINE c(x, weight) == (x \div weight + b \div weight) % 2
           x == XorOctets(a, b)
<1>1. ASSUME NEW y \in Octet, NEW weight \in {128, 64, 32, 16, 8, 4, 2, 1}
      PROVE  c(y, weight) \in 0..1 /\ c(y, weight) = (Bit(y, weight) + Bit(b, weight)) % 2
             /\ Bit(b, weight) \in 0..1 /\ Bit(y, weight) \in 0..1
  <2>1. y \in Nat /\ b \in Nat
      BY DEF Octet
  <2>2. y \div weight \in Nat /\ b \div weight \in Nat
      BY <2>1
  <2>3. \A i, j \in Nat : (i + j) % 2 \in 0..1 /\ (i + j) % 2 = ((i % 2) + (j % 2)) % 2
                          /\ i % 2 \in 0..1 /\ j % 2 \in 0..1
      OBVIOUS
  <2> QED BY <2>2, <2>3 DEF Bit
<1>2. \A y \in Octet : XorOctets(y, b) = 128 * c(y, 128) + 64 * c(y, 64) + 32 * c(y, 32) + 16 * c(y, 16)
                              + 8 * c(y, 8) + 4 * c(y, 4) + 2 * c(y, 2) + c(y, 1)
  <2> SUFFICES ASSUME NEW y \in Octet
               PROVE  XorOctets(y, b) = 128 * c(y, 128) + 64 * c(y, 64) + 32 * c(y, 32) + 16 * c(y, 16)
                                        + 8 * c(y, 8) + 4 * c(y, 4) + 2 * c(y, 2) + c(y, 1)
      OBVIOUS
  <2>1. c(y, 1) \in 0..1
      BY <1>1
  <2>2. 1 * c(y, 1) = c(y, 1)
    <3> HIDE DEF c
    <3> QED BY <2>1
  <2> QED BY <2>2 DEF XorOctets
<1> HIDE DEF c
<1>3. /\ x \in Octet
      /\ \A weight \in {128, 64, 32, 16, 8, 4, 2, 1} : Bit(x, weight) = c(a, weight)
  <2>1. \A weight \in {128, 64, 32, 16, 8, 4, 2, 1} : c(a, weight) \in 0..1
      BY <1>1
  <2> HIDE DEF x
  <2>2. /\ x \in Octet
        /\ Bit(x, 128) = c(a, 128) /\ Bit(x, 64) = c(a, 64) /\ Bit(x, 32) = c(a, 32)
        /\ Bit(x, 16) = c(a, 16) /\ Bit(x, 8) = c(a, 8) /\ Bit(x, 4) = c(a, 4)
        /\ Bit(x, 2) = c(a, 2) /\ Bit(x, 1) = c(a, 1)
      BY <1>2, <2>1, OctetOfBits DEF x
  <2> QED BY <2>2
<1> HIDE DEF x
<1>4. \A weight \in {128, 64, 32, 16, 8, 4, 2, 1} : c(x, weight) = Bit(a, weight)
  <2> SUFFICES ASSUME NEW weight \in {128, 64, 32, 16, 8, 4, 2, 1}
               PROVE  c(x, weight) = Bit(a, weight)
      OBVIOUS
  <2>1. c(x, weight) = (Bit(x, weight) + Bit(b, weight)) % 2
      BY <1>1, <1>3
  <2>2. Bit(x, weight) = (Bit(a, weight) + Bit(b, weight)) % 2
      BY <1>1, <1>3
  <2>3. Bit(a, weight) \in 0..1 /\ Bit(b, weight) \in 0..1
      BY <1>1
  <2>4. \A i, j \in 0..1 : (((i + j) % 2) + j) % 2 = i
      OBVIOUS
  <2> QED BY <2>1, <2>2, <2>3, <2>4
<1>5. XorOctets(x, b) = a
  <2>1. XorOctets(x, b) = 128 * c(x, 128) + 64 * c(x, 64) + 32 * c(x, 32) + 16 * c(x, 16)
                          + 8 * c(x, 8) + 4 * c(x, 4) + 2 * c(x, 2) + c(x, 1)
      BY <1>2, <1>3
  <2>2. /\ c(x, 128) = Bit(a, 128) /\ c(x, 64) = Bit(a, 64) /\ c(x, 32) = Bit(a, 32)
        /\ c(x, 16) = Bit(a, 16) /\ c(x, 8) = Bit(a, 8) /\ c(x, 4) = Bit(a, 4)
        /\ c(x, 2) = Bit(a, 2) /\ c(x, 1) = Bit(a, 1)
      BY <1>4
  <2> QED BY <2>1, <2>2, BitsOfOctet
<1> QED BY <1>3, <1>5 DEF x

-----------------------------------------------------------------------------
(* A frame of the client, part by part.                                    *)

ClientFrames == {f \in FrameType : Len(f.payload) < Base * Base * Base}

Size(f)     == ShortestLength(Len(f.payload))
HeaderOf(f) == <<f.op, Size(f)[1] + (IF f.masked THEN 8 ELSE 0)>>
LengthOf(f) == Tail(Size(f))
MaskOf(f)   == IF f.masked THEN f.mask ELSE <<>>
BodyOf(f)   == IF f.masked THEN Masked(f.payload, f.mask) ELSE f.payload

\* The first octet of a length is the length, or says how many octets follow.
LEMMA LengthParts ==
    ASSUME NEW f \in ClientFrames
    PROVE  /\ Size(f) \in Seq(Nat) /\ Size(f) # <<>>
           /\ LengthOf(f) \in Seq(Nat)
           /\ Size(f)[1] \in 0..7
           /\ \/ Size(f)[1] <= Small /\ Size(f)[1] = Len(f.payload) /\ LengthOf(f) = <<>>
              \/ /\ Size(f)[1] = Small + 1 /\ Len(LengthOf(f)) = 2
                 /\ Number(LengthOf(f)) = Len(f.payload)
              \/ /\ Size(f)[1] = Small + 2 /\ Len(LengthOf(f)) = 3
                 /\ Number(LengthOf(f)) = Len(f.payload)
<1> DEFINE n == Len(f.payload)
<1>1. n \in Nat /\ n < Base * Base * Base /\ Small \in 0..5
  <2>1. f.payload \in Seq(Octet)
      BY DEF ClientFrames, FrameType
  <2>2. n \in Nat
      BY <2>1, LenProperties
  <2> QED BY <2>2, WidthAssumption DEF ClientFrames
<1>0. Size(f) = ShortestLength(n)
    BY DEF Size
<1> HIDE DEF n
<1>2. CASE n <= Small
  <2>1. Size(f) = <<n>>
      BY <1>0, <1>1, <1>2 DEF ShortestLength
  <2>2. <<n>> \in Seq(Nat) /\ Tail(<<n>>) = <<>> /\ <<n>>[1] = n /\ <<n>> # <<>> /\ <<>> \in Seq(Nat)
      BY <1>1
  <2>3. Size(f) \in Seq(Nat) /\ Size(f) # <<>> /\ Size(f)[1] = n
      BY <2>1, <2>2
  <2>4. LengthOf(f) = <<>> /\ LengthOf(f) \in Seq(Nat)
      BY <2>1, <2>2 DEF LengthOf
  <2>5. n \in 0..7
      BY <1>1, <1>2
  <2> QED BY <1>2, <2>3, <2>4, <2>5 DEF n
<1>3. ASSUME NEW m \in 1..2, NEW d \in Seq(Nat), Len(d) = m + 1, Number(d) = n,
             Size(f) = <<Small + m>> \o d
      PROVE  /\ Size(f) \in Seq(Nat) /\ Size(f) # <<>> /\ LengthOf(f) \in Seq(Nat)
             /\ Size(f)[1] = Small + m
             /\ Len(LengthOf(f)) = m + 1 /\ Number(LengthOf(f)) = n
  <2>1. PICK s \in Nat : s = Small + m
      BY <1>1
  <2>2. <<s>> \o d \in Seq(Nat) /\ (<<s>> \o d)[1] = s /\ <<s>> \o d # <<>> /\ Tail(<<s>> \o d) = d
      OBVIOUS
  <2> QED BY <2>1, <2>2, <1>3 DEF LengthOf
<1>4. CASE n > Small /\ n < Base * Base
  <2>1. Size(f) = <<Small + 1>> \o Digits(n, 2)
      BY <1>0, <1>1, <1>4 DEF ShortestLength
  <2>2. /\ Size(f) \in Seq(Nat) /\ Size(f) # <<>> /\ LengthOf(f) \in Seq(Nat)
        /\ Size(f)[1] = Small + 1
        /\ Len(LengthOf(f)) = 1 + 1 /\ Number(LengthOf(f)) = n
    <3>1. Digits(n, 2) \in Seq(Nat) /\ Len(Digits(n, 2)) = 1 + 1 /\ Number(Digits(n, 2)) = n
        BY <1>1, <1>4, TwoDigits
    <3>2. PICK d \in Seq(Nat) : d = Digits(n, 2)
        BY <3>1
    <3>3. Len(d) = 1 + 1 /\ Number(d) = n /\ Size(f) = <<Small + 1>> \o d /\ 1 \in 1..2
        BY <3>1, <3>2, <2>1
    <3> QED BY <3>3, <1>3
  <2> QED BY <2>2, <1>1 DEF n
<1>5. CASE n > Small /\ ~(n < Base * Base)
  <2>1. Size(f) = <<Small + 2>> \o Digits(n, 3)
      BY <1>0, <1>1, <1>5 DEF ShortestLength
  <2>2. /\ Size(f) \in Seq(Nat) /\ Size(f) # <<>> /\ LengthOf(f) \in Seq(Nat)
        /\ Size(f)[1] = Small + 2
        /\ Len(LengthOf(f)) = 2 + 1 /\ Number(LengthOf(f)) = n
    <3>1. Digits(n, 3) \in Seq(Nat) /\ Len(Digits(n, 3)) = 2 + 1 /\ Number(Digits(n, 3)) = n
        BY <1>1, ThreeDigits
    <3>2. PICK d \in Seq(Nat) : d = Digits(n, 3)
        BY <3>1
    <3>3. Len(d) = 2 + 1 /\ Number(d) = n /\ Size(f) = <<Small + 2>> \o d /\ 2 \in 1..2
        BY <3>1, <3>2, <2>1
    <3> QED BY <3>3, <1>3
  <2> QED BY <2>2, <1>1 DEF n
<1> QED BY <1>1, <1>2, <1>4, <1>5

LEMMA FourOctets ==
    ASSUME NEW m \in [1..4 -> Octet]
    PROVE  m \in Seq(Octet) /\ Len(m) = 4
<1> DEFINE n == 4
<1>1. n \in Nat /\ m \in [1..n -> Octet]
    OBVIOUS
<1> HIDE DEF n
<1>2. m \in Seq(Octet) /\ Len(m) = n
    BY <1>1, FunctionIsSeq
<1> QED BY <1>2 DEF n

\* Masking twice.
LEMMA MaskTwice ==
    ASSUME NEW p \in Seq(Octet), NEW mask \in [1..4 -> Octet]
    PROVE  /\ Masked(p, mask) \in Seq(Octet) /\ Len(Masked(p, mask)) = Len(p)
           /\ Masked(Masked(p, mask), mask) = p
<1> DEFINE n == Len(p)
           at(i) == mask[((i - 1) % 4) + 1]
           q == [i \in 1..n |-> XorOctets(p[i], at(i))]
<1>1. n \in Nat /\ \A i \in 1..n : p[i] \in Octet
    BY LenProperties
<1>2. \A i \in 1..n : at(i) \in Octet
  <2> SUFFICES ASSUME NEW i \in 1..n PROVE at(i) \in Octet
      OBVIOUS
  <2>1. ((i - 1) % 4) + 1 \in 1..4
      BY <1>1
  <2> QED BY <2>1
<1> HIDE DEF at, n
<1>3. \A i \in 1..n : XorOctets(p[i], at(i)) \in Octet
                      /\ XorOctets(XorOctets(p[i], at(i)), at(i)) = p[i]
    BY <1>1, <1>2, XorTwice
<1>4. q \in Seq(Octet) /\ Len(q) = n
    BY <1>1, <1>3
<1>5. Masked(p, mask) = q
    BY DEF Masked, at, n
<1>6. Masked(q, mask) = [i \in 1..n |-> XorOctets(q[i], at(i))]
    BY <1>4 DEF Masked, at
<1>7. Masked(q, mask) \in Seq(Octet) /\ Len(Masked(q, mask)) = n
      /\ \A i \in 1..n : Masked(q, mask)[i] = p[i]
    BY <1>1, <1>3, <1>6
<1>8. Masked(q, mask) = p
    BY <1>7, <1>1, SeqEqual DEF n
<1> QED BY <1>4, <1>5, <1>8 DEF n

\* A frame is its header, the digits of its length, its mask and its body.
LEMMA FrameParts ==
    ASSUME NEW f \in ClientFrames
    PROVE  /\ HeaderOf(f) \in Seq(Nat) /\ Len(HeaderOf(f)) = 2
           /\ LengthOf(f) \in Seq(Nat) /\ MaskOf(f) \in Seq(Nat) /\ BodyOf(f) \in Seq(Nat)
           /\ Len(MaskOf(f)) = (IF f.masked THEN 4 ELSE 0)
           /\ Len(BodyOf(f)) = Len(f.payload)
           /\ (IF f.masked THEN Masked(BodyOf(f), f.mask) ELSE BodyOf(f)) = f.payload
           /\ f.payload \in Seq(Octet) /\ f.masked \in BOOLEAN /\ f.op \in Octet
<1>1. /\ f.payload \in Seq(Octet) /\ f.masked \in BOOLEAN /\ f.op \in Octet
      /\ f.mask \in [1..4 -> Octet]
    BY DEF ClientFrames, FrameType
<1>2. \A p : p \in Seq(Octet) => p \in Seq(Nat)
  <2>1. Octet \subseteq Nat
      BY DEF Octet
  <2> QED BY <2>1, SeqMonotonic
<1>3. f.mask \in Seq(Octet) /\ Len(f.mask) = 4
    BY <1>1, FourOctets
<1>4. /\ Masked(f.payload, f.mask) \in Seq(Octet)
      /\ Len(Masked(f.payload, f.mask)) = Len(f.payload)
      /\ Masked(Masked(f.payload, f.mask), f.mask) = f.payload
    BY <1>1, MaskTwice
<1>5. HeaderOf(f) \in Seq(Nat) /\ Len(HeaderOf(f)) = 2
  <2>1. f.op \in Nat
      BY <1>1, OctetsAreNat
  <2>2. Size(f)[1] \in 0..7
      BY LengthParts
  <2>3. \A m, n \in Nat : <<m, n>> \in Seq(Nat) /\ Len(<<m, n>>) = 2
      OBVIOUS
  <2> QED BY <1>1, <2>1, <2>2, <2>3 DEF HeaderOf
<1>6. MaskOf(f) \in Seq(Nat) /\ Len(MaskOf(f)) = (IF f.masked THEN 4 ELSE 0)
  <2>1. <<>> \in Seq(Nat) /\ Len(<<>>) = 0
      OBVIOUS
  <2>2. f.mask \in Seq(Nat)
      BY <1>2, <1>3
  <2>3. CASE f.masked
      BY <1>3, <2>2, <2>3 DEF MaskOf
  <2>4. CASE ~f.masked
      BY <2>1, <2>4 DEF MaskOf
  <2> QED BY <2>3, <2>4
<1>7. /\ BodyOf(f) \in Seq(Nat) /\ Len(BodyOf(f)) = Len(f.payload)
      /\ (IF f.masked THEN Masked(BodyOf(f), f.mask) ELSE BodyOf(f)) = f.payload
    BY <1>1, <1>2, <1>4 DEF BodyOf
<1>8. LengthOf(f) \in Seq(Nat)
    BY LengthParts
<1> QED BY <1>1, <1>5, <1>6, <1>7, <1>8

LEMMA FrameIsParts ==
    ASSUME NEW f \in ClientFrames
    PROVE  ClientFrame(f) = Cat(HeaderOf(f), Cat(LengthOf(f), Cat(MaskOf(f), BodyOf(f))))
<1>0. ClientFrame(f) = Cat(Cat(Cat(HeaderOf(f), LengthOf(f)), MaskOf(f)), BodyOf(f))
  <2>1. CASE f.masked
      BY <2>1 DEF ClientFrame, HeaderOf, LengthOf, MaskOf, BodyOf, Size, Cat
  <2>2. CASE ~f.masked
    <3>1. PICK one \in Seq(Nat) : one = <<f.op>> /\ Len(one) = 1
      <4>1. f.op \in Nat
          BY FrameParts, OctetsAreNat
      <4>2. \A n \in Nat : <<n>> \in Seq(Nat) /\ Len(<<n>>) = 1
          OBVIOUS
      <4> QED BY <4>1, <4>2
    <3>2. PICK two \in Seq(Nat) : two = HeaderOf(f)
        BY FrameParts
    <3>3. Len(two) = 2 /\ two[1] = one[1] /\ two[2] = Size(f)[1]
      <4>1. Size(f)[1] + 0 = Size(f)[1]
        <5>1. Size(f)[1] \in 0..7
            BY LengthParts
        <5> QED BY <5>1
      <4>2. two = <<f.op, Size(f)[1]>>
          BY <2>2, <3>2, <4>1 DEF HeaderOf
      <4> QED BY <3>1, <4>2
    <3>4. Size(f) \in Seq(Nat) /\ Size(f) # <<>>
        BY LengthParts
    <3>5. Cat(one, Size(f)) = Cat(two, LengthOf(f))
        BY <3>1, <3>2, <3>3, <3>4, InFront DEF LengthOf
    <3>6. ClientFrame(f) = Cat(Cat(one, Size(f)), BodyOf(f))
        BY <2>2, <3>1 DEF ClientFrame, BodyOf, Size, Cat
    <3>7. Cat(Cat(two, LengthOf(f)), MaskOf(f)) = Cat(two, LengthOf(f))
      <4>1. Cat(two, LengthOf(f)) \in Seq(Nat)
          BY <3>2, FrameParts, Joined
      <4>2. MaskOf(f) = <<>>
          BY <2>2 DEF MaskOf
      <4> QED BY <4>1, <4>2, Joined
    <3> QED BY <3>2, <3>5, <3>6, <3>7
  <2> QED BY <2>1, <2>2, FrameParts
<1>1. PICK h \in Seq(Nat), l \in Seq(Nat), m \in Seq(Nat), b \in Seq(Nat) :
          h = HeaderOf(f) /\ l = LengthOf(f) /\ m = MaskOf(f) /\ b = BodyOf(f)
    BY FrameParts
<1>2. Cat(Cat(Cat(h, l), m), b) = Cat(h, Cat(l, Cat(m, b)))
  <2>1. Cat(h, l) \in Seq(Nat) /\ Cat(m, b) \in Seq(Nat)
      BY <1>1, Joined
  <2>2. Cat(Cat(Cat(h, l), m), b) = Cat(Cat(h, l), Cat(m, b))
      BY <1>1, <2>1, Assoc
  <2>3. Cat(Cat(h, l), Cat(m, b)) = Cat(h, Cat(l, Cat(m, b)))
      BY <1>1, <2>1, Assoc
  <2> QED BY <2>2, <2>3
<1> QED BY <1>0, <1>1, <1>2

-----------------------------------------------------------------------------
(* What the server has read of what the client has sent.                   *)

Current == Frames[Len(heard) + 1]
Later   == FramesFrom[Len(heard) + 2]

\* What is still to be read, from the stage on.
Ahead ==
    CASE stage \in {"status", "header"} -> FramesFrom[Len(heard) + 1]
      [] stage = "length"  -> Cat(LengthOf(Current), Cat(MaskOf(Current), Cat(BodyOf(Current), Later)))
      [] stage = "mask"    -> Cat(MaskOf(Current), Cat(BodyOf(Current), Later))
      [] stage = "payload" -> Cat(BodyOf(Current), Later)

ReadTypes ==
    /\ exchange \in DOMAIN Exchanges /\ asking \in BOOLEAN /\ open \in BOOLEAN
    /\ inbox \in Seq(Nat) /\ got \in Seq(Nat)
    /\ frame \in [op : Nat, masked : BOOLEAN, len : Nat, mask : Seq(Nat)]
    /\ stage \in {"http", "status", "header", "length", "mask", "payload", "bye", "closed"}
    /\ open <=> stage # "closed"

HeardSoFar ==
    /\ heard \in Seq(Octet \X Seq(Octet))
    /\ Len(heard) <= Len(Frames)
    /\ \A i \in 1..Len(heard) : heard[i] = <<Frames[i].op, Frames[i].payload>>

\* What the header of the current frame has told.
Announced ==
    /\ Len(heard) < Len(Frames)
    /\ frame.op = Current.op /\ frame.masked = Current.masked
    /\ IF stage = "length" THEN frame.len = Len(LengthOf(Current)) /\ frame.len \in 2..3
                           ELSE frame.len = Len(Current.payload)
    /\ stage = "mask" => Current.masked
    /\ stage = "payload" /\ Current.masked => frame.mask = Current.mask

StreamAhead ==
    /\ stage = "http" => ~asking /\ heard = <<>> /\ Cat(got, inbox) = Request.octets
    /\ stage \in {"status", "header", "length", "mask", "payload"} =>
          IF asking THEN Cat(got, inbox) = Ahead
                    ELSE stage \in {"status", "header"} /\ got = <<>> /\ inbox = <<>> /\ heard = <<>>
    /\ stage \in {"length", "mask", "payload"} => Announced

-----------------------------------------------------------------------------
(* What the two writers are about to send.                                 *)

Texts    == {p \in Seq(Octet) : Len(p) < Base * Base * Base}
Sendable == ({1, 8, 10} \X Texts) \cup {<<Upgrade, <<>>>>}
Pieces   == Seq(Nat) \ {<<>>}

\* A frame as octets, and the octets of the calls that are left.
Encode(f) == IF f[1] = Upgrade THEN <<Upgrade>> ELSE Cat(Header(f[1], Len(f[2])), f[2])
Left(calls) == CASE Len(calls) = 0 -> <<>>
                 [] Len(calls) = 1 -> calls[1]
                 [] Len(calls) = 2 -> Cat(calls[1], calls[2])

Queues   == {<<>>} \cup {<<a>> : a \in Pieces} \cup {<<a, b>> : a \in Pieces, b \in Pieces}
JobTypes == [frame : Sendable \cup {<<>>}, calls : Queues, begun : BOOLEAN]
IsJob(j) ==
    /\ j \in JobTypes
    /\ j.calls # <<>> => j.frame \in Sendable
    /\ j.calls # <<>> /\ ~j.begun => Left(j.calls) = Encode(j.frame)

Jobs ==
    /\ job \in [Writers -> JobTypes]
    /\ \A w \in Writers : IsJob(job[w])
    /\ job["caster"].calls # <<>> => job["caster"].frame[1] = 1
    /\ out \in Seq(Nat)
    /\ \A w \in Writers : job[w].begun => out # <<>>

\* A client that has not been answered has been sent broadcasts at most.
Opening ==
    /\ stage = "http" => job["client"].calls = <<>> /\ (out = <<>> \/ out[1] = 1)

Understood == ReadTypes /\ HeardSoFar /\ StreamAhead
Reads      == Understood /\ Jobs /\ Opening

-----------------------------------------------------------------------------
(* The client's frames, one behind the other.                              *)

LEMMA FramesAre ==
    ASSUME exchange \in DOMAIN Exchanges
    PROVE  /\ Request \in RequestType /\ Frames \in Seq(ClientFrames)
           /\ \A i \in DOMAIN Request.octets : Request.octets[i] = End => i = Len(Request.octets)
<1>1. Exchanges \in Seq([request : RequestType, frames : Seq(FrameType)])
    BY ExchangesAssumption
<1>2. Exchanges[exchange] \in [request : RequestType, frames : Seq(FrameType)]
  <2>1. exchange \in 1..Len(Exchanges)
      BY <1>1, LenProperties
  <2> QED BY <1>1, <2>1, ElementOfSeq
<1>3. Request \in RequestType /\ Frames \in Seq(FrameType)
    BY <1>2 DEF Request, Frames
<1>4. Len(Frames) \in Nat /\ DOMAIN Frames = 1..Len(Frames)
    BY <1>3, LenProperties
<1>5. ASSUME NEW i \in 1..Len(Frames) PROVE Frames[i] \in ClientFrames
  <2>1. Frames[i] \in FrameType
      BY <1>3, ElementOfSeq
  <2>2. Frames[i] \in ToSet(Frames)
      BY <1>4 DEF ToSet
  <2>3. Len(Frames[i].payload) < Base * Base * Base
      BY <2>2, ExchangesAssumption DEF Frames
  <2> QED BY <2>1, <2>3 DEF ClientFrames
<1>6. Frames \in Seq(ClientFrames)
  <2>1. Frames = [i \in 1..Len(Frames) |-> Frames[i]]
      BY <1>3, <1>4
  <2>2. Frames \in [1..Len(Frames) -> ClientFrames]
      BY <2>1, <1>5
  <2> QED BY <1>4, <2>2, FunctionIsSeq
<1> QED BY <1>3, <1>6, ExchangesAssumption DEF Request

\* f is the octets from frame a on.
IsTail(f, a) ==
    f = [i \in a..Len(Frames) + 1 |->
            IF i > Len(Frames) THEN <<>> ELSE ClientFrame(Frames[i]) \o f[i + 1]]

LEMMA TailsExist ==
    ASSUME Len(Frames) \in Nat, NEW m \in Nat
    PROVE  m <= Len(Frames) => \E f : IsTail(f, Len(Frames) + 1 - m)
<1> DEFINE n == Len(Frames)
           T == {k \in Nat : k <= n => \E f : IsTail(f, n + 1 - k)}
<1>1. 0 \in T
  <2>1. IsTail([i \in n + 1..n + 1 |-> <<>>], n + 1)
    <3> HIDE DEF n
    <3>1. n \in Nat
        BY DEF n
    <3>2. \A i \in n + 1..n + 1 : i > n
        BY <3>1
    <3> QED BY <3>2 DEF IsTail, n
  <2>2. n + 1 - 0 = n + 1
      OBVIOUS
  <2> QED BY <2>1, <2>2
<1>2. ASSUME NEW k \in Nat, k + 1 <= n, NEW f, IsTail(f, n + 1 - k)
      PROVE  \E g : IsTail(g, n + 1 - (k + 1))
  <2> DEFINE a == n + 1 - (k + 1)
             g == [i \in a..n + 1 |-> IF i = a THEN ClientFrame(Frames[i]) \o f[i + 1] ELSE f[i]]
             h == [i \in a..n + 1 |-> IF i > n THEN <<>> ELSE ClientFrame(Frames[i]) \o g[i + 1]]
  <2>1. a \in Nat /\ a + 1 = n + 1 - k /\ a <= n
      BY <1>2
  <2> HIDE DEF a
  <2>2. \A i \in a + 1..n + 1 : f[i] = IF i > n THEN <<>> ELSE ClientFrame(Frames[i]) \o f[i + 1]
      BY <1>2, <2>1 DEF IsTail
  <2>3. ASSUME NEW i \in a..n + 1 PROVE g[i] = h[i]
    <3>1. CASE i = a
      <4>1. i <= n /\ i + 1 \in a..n + 1 /\ i + 1 # a
          BY <2>1, <3>1
      <4>2. g[i] = ClientFrame(Frames[i]) \o f[i + 1] /\ g[i + 1] = f[i + 1]
          BY <3>1, <4>1
      <4>3. h[i] = ClientFrame(Frames[i]) \o g[i + 1]
        <5> HIDE DEF g
        <5>1. ~(i > n)
            BY <3>1, <4>1, <2>1
        <5> QED BY <5>1
      <4> QED BY <4>2, <4>3
    <3>2. CASE i # a
      <4>1. i \in a + 1..n + 1
          BY <2>1, <3>2
      <4>2. g[i] = f[i]
          BY <3>2
      <4>3. CASE i > n
        <5>1. h[i] = <<>>
            BY <4>3
        <5> QED BY <2>2, <4>1, <4>2, <4>3, <5>1
      <4>4. CASE ~(i > n)
        <5>1. i + 1 \in a..n + 1 /\ i + 1 # a
            BY <2>1, <4>1, <4>4
        <5>2. g[i + 1] = f[i + 1]
            BY <5>1
        <5>3. h[i] = ClientFrame(Frames[i]) \o g[i + 1]
          <6> HIDE DEF g
          <6> QED BY <4>4
        <5> QED BY <2>2, <4>1, <4>2, <4>4, <5>2, <5>3
      <4> QED BY <4>3, <4>4
    <3> QED BY <3>1, <3>2
  <2>4. g = h
      BY <2>3
  <2>5. IsTail(g, a)
    <3> HIDE DEF g
    <3> QED BY <2>4 DEF IsTail
  <2> QED BY <2>5 DEF a
<1>3. T = Nat
  <2>1. \A k \in T : k + 1 \in T
    <3> SUFFICES ASSUME NEW k \in T, k + 1 <= n PROVE \E g : IsTail(g, n + 1 - (k + 1))
        OBVIOUS
    <3>1. k \in Nat /\ k <= n
        OBVIOUS
    <3> QED BY <1>2, <3>1
  <2>2. T \in SUBSET Nat
      OBVIOUS
  <2> HIDE DEF T
  <2> QED BY <1>1, <2>1, <2>2, EveryNat
<1> HIDE DEF T
<1>4. m \in T
    BY <1>3
<1> QED BY <1>4 DEF T

LEMMA Tails ==
    ASSUME exchange \in DOMAIN Exchanges
    PROVE  /\ FramesFrom[Len(Frames) + 1] = <<>>
           /\ \A i \in 1..Len(Frames) :
                 FramesFrom[i] = ClientFrame(Frames[i]) \o FramesFrom[i + 1]
<1>0. Len(Frames) \in Nat
    BY FramesAre, LenProperties
<1> DEFINE Is(f) == f = [i \in 1..Len(Frames) + 1 |->
                           IF i > Len(Frames) THEN <<>> ELSE ClientFrame(Frames[i]) \o f[i + 1]]
           from == CHOOSE f : Is(f)
<1>1. \E f : Is(f)
  <2>1. PICK f : IsTail(f, Len(Frames) + 1 - Len(Frames))
      BY <1>0, TailsExist
  <2>2. Len(Frames) + 1 - Len(Frames) = 1
      BY <1>0
  <2>3. Is(f)
      BY <2>1, <2>2 DEF IsTail
  <2> QED BY <2>3
<1>2. Is(from)
  <2> HIDE DEF Is
  <2> QED BY <1>1
<1>3. FramesFrom = from
    BY DEF FramesFrom
<1> HIDE DEF from
<1>4. \A i \in 1..Len(Frames) + 1 :
          from[i] = IF i > Len(Frames) THEN <<>> ELSE ClientFrame(Frames[i]) \o from[i + 1]
    BY <1>2
<1>5. from[Len(Frames) + 1] = <<>>
  <2>1. Len(Frames) + 1 \in 1..Len(Frames) + 1 /\ Len(Frames) + 1 > Len(Frames)
      BY <1>0
  <2> QED BY <2>1, <1>4
<1>6. ASSUME NEW i \in 1..Len(Frames) PROVE from[i] = ClientFrame(Frames[i]) \o from[i + 1]
  <2>1. i \in 1..Len(Frames) + 1 /\ ~(i > Len(Frames))
      BY <1>0
  <2> QED BY <2>1, <1>4
<1> QED BY <1>3, <1>5, <1>6

\* The octets from a frame on are those of its parts, and then the octets of the next.
LEMMA TailParts ==
    ASSUME exchange \in DOMAIN Exchanges
    PROVE  /\ Len(Frames) \in Nat
           /\ FramesFrom[Len(Frames) + 1] = <<>>
           /\ \A i \in 1..Len(Frames) + 1 : FramesFrom[i] \in Seq(Nat)
           /\ \A i \in 1..Len(Frames) :
                /\ Frames[i] \in ClientFrames
                /\ FramesFrom[i] =
                     Cat(HeaderOf(Frames[i]), Cat(LengthOf(Frames[i]),
                         Cat(MaskOf(Frames[i]), Cat(BodyOf(Frames[i]), FramesFrom[i + 1]))))
<1> DEFINE n == Len(Frames)
           T == {m \in Nat : m <= n => FramesFrom[n + 1 - m] \in Seq(Nat)}
<1>0. n \in Nat /\ \A i \in 1..n : Frames[i] \in ClientFrames
    BY FramesAre, LenProperties, ElementOfSeq
<1>1. /\ FramesFrom[n + 1] = <<>>
      /\ \A i \in 1..n : FramesFrom[i] = Cat(ClientFrame(Frames[i]), FramesFrom[i + 1])
    BY Tails DEF Cat
<1>2. ASSUME NEW i \in 1..n, FramesFrom[i + 1] \in Seq(Nat)
      PROVE  /\ FramesFrom[i] \in Seq(Nat)
             /\ FramesFrom[i] =
                  Cat(HeaderOf(Frames[i]), Cat(LengthOf(Frames[i]),
                      Cat(MaskOf(Frames[i]), Cat(BodyOf(Frames[i]), FramesFrom[i + 1]))))
  <2>1. PICK f \in ClientFrames : f = Frames[i]
      BY <1>0
  <2>2. PICK h \in Seq(Nat), l \in Seq(Nat), m \in Seq(Nat), b \in Seq(Nat) :
            h = HeaderOf(f) /\ l = LengthOf(f) /\ m = MaskOf(f) /\ b = BodyOf(f)
      BY <2>1, FrameParts
  <2>3. PICK r \in Seq(Nat) : r = FramesFrom[i + 1]
      BY <1>2
  <2>4. FramesFrom[i] = Cat(Cat(h, Cat(l, Cat(m, b))), r)
      BY <1>1, <2>1, <2>2, <2>3, FrameIsParts
  <2>5. /\ Cat(m, b) \in Seq(Nat) /\ Cat(l, Cat(m, b)) \in Seq(Nat)
        /\ Cat(b, r) \in Seq(Nat) /\ Cat(m, Cat(b, r)) \in Seq(Nat)
        /\ Cat(l, Cat(m, Cat(b, r))) \in Seq(Nat)
        /\ Cat(h, Cat(l, Cat(m, Cat(b, r)))) \in Seq(Nat)
      BY <2>2, <2>3, Joined
  <2>6. Cat(Cat(h, Cat(l, Cat(m, b))), r) = Cat(h, Cat(Cat(l, Cat(m, b)), r))
      BY <2>2, <2>3, <2>5, Assoc
  <2>7. Cat(Cat(l, Cat(m, b)), r) = Cat(l, Cat(Cat(m, b), r))
      BY <2>2, <2>3, <2>5, Assoc
  <2>8. Cat(Cat(m, b), r) = Cat(m, Cat(b, r))
      BY <2>2, <2>3, <2>5, Assoc
  <2> QED BY <2>1, <2>2, <2>3, <2>4, <2>5, <2>6, <2>7, <2>8
<1>3. 0 \in T
  <2>1. n + 1 - 0 = n + 1 /\ <<>> \in Seq(Nat)
      BY <1>0
  <2> QED BY <2>1, <1>1
<1>4. ASSUME NEW m \in T PROVE m + 1 \in T
  <2> SUFFICES ASSUME m + 1 <= n PROVE FramesFrom[n + 1 - (m + 1)] \in Seq(Nat)
      OBVIOUS
  <2>1. PICK i \in 1..n : i = n + 1 - (m + 1) /\ i + 1 = n + 1 - m
      BY <1>0
  <2>2. FramesFrom[i + 1] \in Seq(Nat)
      BY <1>0, <2>1
  <2> QED BY <2>1, <2>2, <1>2
<1>5. T = Nat
  <2>1. T \in SUBSET Nat
      OBVIOUS
  <2> HIDE DEF T
  <2> QED BY <1>3, <1>4, <2>1, EveryNat
<1>6. ASSUME NEW i \in 1..n + 1 PROVE FramesFrom[i] \in Seq(Nat)
  <2>1. n + 1 - i \in Nat /\ n + 1 - i <= n /\ n + 1 - (n + 1 - i) = i
      BY <1>0
  <2>2. n + 1 - i \in T
      BY <2>1, <1>5
  <2> QED BY <2>1, <2>2
<1>7. ASSUME NEW i \in 1..n
      PROVE  FramesFrom[i] =
                 Cat(HeaderOf(Frames[i]), Cat(LengthOf(Frames[i]),
                     Cat(MaskOf(Frames[i]), Cat(BodyOf(Frames[i]), FramesFrom[i + 1]))))
  <2>1. i + 1 \in 1..n + 1
      BY <1>0
  <2> QED BY <2>1, <1>2, <1>6
<1> QED BY <1>0, <1>1, <1>6, <1>7

-----------------------------------------------------------------------------
(* Steps that read.                                                        *)

LEMMA SameFrames ==
    ASSUME exchange' = exchange
    PROVE  Frames' = Frames /\ Request' = Request /\ FramesFrom' = FramesFrom
BY DEF Frames, Request, FramesFrom

LEMMA SameCurrent ==
    ASSUME exchange' = exchange, heard' = heard
    PROVE  Current' = Current /\ Later' = Later
BY SameFrames DEF Current, Later

LEMMA UnderstoodInit == Init => Understood
<1> SUFFICES ASSUME Init PROVE Understood
    OBVIOUS
<1>1. /\ exchange \in DOMAIN Exchanges /\ asking = FALSE /\ open = TRUE /\ stage = "http"
      /\ got = <<>> /\ heard = <<>> /\ inbox = Request.octets /\ frame = NoFrame
    BY DEF Init
<1>2. Request.octets \in Seq(Nat)
  <2>1. Request.octets \in Seq(Octet)
      BY <1>1, FramesAre DEF RequestType
  <2> QED BY <2>1, OctetsAreNat, SeqMonotonic
<1>3. ReadTypes
  <2>1. <<>> \in Seq(Nat)
      OBVIOUS
  <2>2. frame \in [op : Nat, masked : BOOLEAN, len : Nat, mask : Seq(Nat)]
      BY <1>1, <2>1 DEF NoFrame
  <2> QED BY <1>1, <1>2, <2>1, <2>2 DEF ReadTypes
<1>4. HeardSoFar
  <2>1. heard \in Seq(Octet \X Seq(Octet)) /\ Len(heard) = 0
      BY <1>1, EmptySeq
  <2>2. Len(Frames) \in Nat
      BY <1>1, TailParts
  <2> QED BY <2>1, <2>2 DEF HeardSoFar
<1>5. StreamAhead
  <2>1. Cat(<<>>, Request.octets) = Request.octets
      BY <1>2, Joined
  <2> QED BY <1>1, <2>1 DEF StreamAhead
<1> QED BY <1>3, <1>4, <1>5 DEF Understood

\* Steps that read nothing.
LEMMA UnderstoodRest ==
    ASSUME Understood, UNCHANGED <<exchange, asking, inbox, open, readVars>>
    PROVE  Understood'
<1>1. UNCHANGED <<exchange, asking, inbox, open, stage, got, frame, heard>>
    BY DEF readVars
<1>2. ReadTypes'
    BY <1>1 DEF Understood, ReadTypes
<1>3. HeardSoFar'
    BY <1>1, SameFrames DEF Understood, HeardSoFar
<1>4. StreamAhead'
  <2>1. Ahead' = Ahead /\ (Announced <=> Announced')
      BY <1>1, SameFrames, SameCurrent DEF Ahead, Announced
  <2> QED BY <1>1, <2>1, SameFrames DEF Understood, StreamAhead
<1> QED BY <1>2, <1>3, <1>4 DEF Understood

LEMMA UnderstoodClose ==
    ASSUME Understood, Close, UNCHANGED <<exchange, asking, inbox>>
    PROVE  Understood'
<1>1. /\ open' = FALSE /\ stage' = "closed"
      /\ UNCHANGED <<exchange, asking, inbox, got, frame, heard>>
    BY DEF Close
<1>2. ReadTypes'
    BY <1>1 DEF Understood, ReadTypes
<1>3. HeardSoFar'
    BY <1>1, SameFrames DEF Understood, HeardSoFar
<1>4. StreamAhead'
    BY <1>1 DEF StreamAhead
<1> QED BY <1>2, <1>3, <1>4 DEF Understood

LEMMA UnderstoodAsk ==
    ASSUME Understood, stage # "http", Ask
    PROVE  Understood'
<1>1. /\ ~asking /\ open /\ asking' = TRUE /\ inbox' = Cat(inbox, FramesFrom[1])
      /\ UNCHANGED <<exchange, open, stage, got, frame, heard>>
    BY DEF Ask, readVars, Cat
<1>2. exchange \in DOMAIN Exchanges /\ inbox \in Seq(Nat) /\ got \in Seq(Nat)
    BY DEF Understood, ReadTypes
<1>3. FramesFrom[1] \in Seq(Nat)
  <2>1. Len(Frames) \in Nat /\ 1 \in 1..Len(Frames) + 1
      BY <1>2, TailParts
  <2> QED BY <2>1, <1>2, TailParts
<1>4. ReadTypes'
  <2>1. inbox' \in Seq(Nat)
      BY <1>1, <1>2, <1>3, Joined
  <2> QED BY <1>1, <2>1 DEF Understood, ReadTypes
<1>5. HeardSoFar'
    BY <1>1, SameFrames DEF Understood, HeardSoFar
<1>6. StreamAhead'
  <2>1. stage \notin {"length", "mask", "payload"}
      BY <1>1 DEF Understood, StreamAhead
  <2>2. ASSUME stage \in {"status", "header"} PROVE Cat(got', inbox') = Ahead'
    <3>1. got = <<>> /\ inbox = <<>> /\ heard = <<>>
        BY <1>1, <2>2 DEF Understood, StreamAhead
    <3>2. Cat(<<>>, Cat(<<>>, FramesFrom[1])) = FramesFrom[1]
        BY <1>3, Joined
    <3>3. Ahead' = FramesFrom[1]
      <4>1. Len(heard') + 1 = 1
          BY <1>1, <3>1
      <4> QED BY <4>1, <1>1, <2>2, SameFrames DEF Ahead
    <3> QED BY <1>1, <3>1, <3>2, <3>3
  <2> QED BY <1>1, <2>1, <2>2 DEF StreamAhead
<1> QED BY <1>4, <1>5, <1>6 DEF Understood

LEMMA UnderstoodRecv ==
    ASSUME Understood, Recv
    PROVE  Understood'
<1>1. /\ open /\ inbox # <<>> /\ UNCHANGED <<exchange, asking, open, stage, frame, heard>>
    BY DEF Recv, Reading
<1>2. exchange \in DOMAIN Exchanges /\ inbox \in Seq(Nat) /\ got \in Seq(Nat)
    BY DEF Understood, ReadTypes
<1>3. PICK k \in 1..Len(inbox) : got' = Cat(got, First(inbox, k)) /\ inbox' = Others(inbox, k)
  <2>1. PICK k \in Moved(Lesser(Len(inbox), Wanted - Len(got))) :
            got' = got \o SubSeq(inbox, 1, k) /\ inbox' = SubSeq(inbox, k + 1, Len(inbox))
      BY DEF Recv
  <2>2. Len(inbox) \in Nat \ {0} /\ Len(got) \in Nat /\ Len(got) < Wanted /\ Wanted \in Nat
    <3>1. Wanted \in Nat
        BY BoundAssumption DEF Wanted, Understood, ReadTypes
    <3> QED BY <1>1, <1>2, <3>1, EmptySeq, LenProperties DEF Recv
  <2>3. Lesser(Len(inbox), Wanted - Len(got)) \in 1..Len(inbox)
      BY <2>2 DEF Lesser
  <2>4. k \in 1..Len(inbox)
      BY <2>1, <2>2, <2>3 DEF Moved
  <2> QED BY <2>1, <2>4 DEF Cat, First, Others
<1>4. got' \in Seq(Nat) /\ inbox' \in Seq(Nat) /\ Cat(got', inbox') = Cat(got, inbox)
    BY <1>2, <1>3, Moves
<1>5. ReadTypes'
    BY <1>1, <1>4 DEF Understood, ReadTypes
<1>6. HeardSoFar'
    BY <1>1, SameFrames DEF Understood, HeardSoFar
<1>7. StreamAhead'
  <2>1. Ahead' = Ahead /\ (Announced <=> Announced')
      BY <1>1, SameFrames, SameCurrent DEF Ahead, Announced
  <2> QED BY <1>1, <1>4, <2>1, SameFrames DEF Understood, StreamAhead
<1> QED BY <1>5, <1>6, <1>7 DEF Understood

\* The blank line is the last octet of a request: behind it nothing has come.
LEMMA RequestIsRead ==
    ASSUME Understood, stage = "http", HasEnd
    PROVE  inbox = <<>> /\ heard = <<>> /\ asking = FALSE
<1>1. /\ exchange \in DOMAIN Exchanges /\ inbox \in Seq(Nat) /\ got \in Seq(Nat)
      /\ ~asking /\ asking \in BOOLEAN /\ heard = <<>> /\ Cat(got, inbox) = Request.octets
    BY DEF Understood, ReadTypes, StreamAhead
<1>2. /\ DOMAIN got = 1..Len(got) /\ Len(got) \in Nat /\ Len(inbox) \in Nat
      /\ Len(Cat(got, inbox)) = Len(got) + Len(inbox)
      /\ DOMAIN Cat(got, inbox) = 1..Len(got) + Len(inbox)
  <2>1. DOMAIN got = 1..Len(got) /\ Len(got) \in Nat /\ Len(inbox) \in Nat
      BY <1>1, LenProperties
  <2>2. Cat(got, inbox) \in Seq(Nat) /\ Len(Cat(got, inbox)) = Len(got) + Len(inbox)
      BY <1>1, Joined
  <2>3. DOMAIN Cat(got, inbox) = 1..Len(Cat(got, inbox))
      BY <2>2, LenProperties
  <2> QED BY <2>1, <2>2, <2>3
<1>3. PICK i \in 1..Len(got) : got[i] = End
    BY <1>2 DEF HasEnd, ToSet
<1>4. Cat(got, inbox)[i] = End
    BY <1>1, <1>3, JoinedAt
<1>5. i = Len(got) + Len(inbox)
  <2>1. i \in DOMAIN Request.octets /\ Request.octets[i] = End
      BY <1>1, <1>2, <1>3, <1>4
  <2>2. i = Len(Request.octets)
      BY <1>1, <2>1, FramesAre
  <2> QED BY <1>1, <1>2, <2>2
<1>6. Len(inbox) = 0
    BY <1>2, <1>3, <1>5
<1>7. inbox = <<>>
    BY <1>1, <1>6, EmptySeq
<1> QED BY <1>1, <1>7

LEMMA UnderstoodHandshake ==
    ASSUME Understood, Handshake
    PROVE  Understood'
<1>1. stage = "http" /\ UNCHANGED <<exchange, asking, inbox>>
    BY DEF Handshake, inVars
<1>2. CASE Close
    BY <1>1, <1>2, UnderstoodClose
<1>3. CASE ~Close
  <2>1. /\ HasEnd /\ stage' = "status" /\ got' = <<>>
        /\ UNCHANGED <<exchange, asking, inbox, open, frame, heard>>
      BY <1>1, <1>3 DEF Handshake
  <2>2. inbox = <<>> /\ heard = <<>> /\ asking = FALSE
      BY <1>1, <2>1, RequestIsRead
  <2>3. ReadTypes'
    <3>1. <<>> \in Seq(Nat)
        OBVIOUS
    <3> QED BY <1>1, <2>1, <3>1 DEF Understood, ReadTypes
  <2>4. HeardSoFar'
      BY <2>1, SameFrames DEF Understood, HeardSoFar
  <2>5. StreamAhead'
      BY <2>1, <2>2 DEF StreamAhead
  <2> QED BY <2>3, <2>4, <2>5 DEF Understood
<1> QED BY <1>2, <1>3

LEMMA UnderstoodStatus ==
    ASSUME Understood, SendStatus
    PROVE  Understood'
<1>1. /\ stage = "status" /\ stage' = "header"
      /\ UNCHANGED <<exchange, asking, inbox, open, got, frame, heard>>
    BY DEF SendStatus, inVars
<1>2. ReadTypes'
    BY <1>1 DEF Understood, ReadTypes
<1>3. HeardSoFar'
    BY <1>1, SameFrames DEF Understood, HeardSoFar
<1>4. StreamAhead'
  <2>1. Ahead' = Ahead
      BY <1>1, SameFrames DEF Ahead
  <2> QED BY <1>1, <2>1 DEF Understood, StreamAhead
<1> QED BY <1>2, <1>3, <1>4 DEF Understood

\* A stage is left with what it was to read: the first part of what was ahead.
LEMMA PartIsRead ==
    ASSUME NEW a \in Seq(Nat), NEW r \in Seq(Nat), inbox \in Seq(Nat), got \in Seq(Nat),
           Cat(got, inbox) = Cat(a, r), Len(got) = Len(a)
    PROVE  got = a /\ inbox = r
BY Parts

\* The frame a stage reads.
LEMMA CurrentParts ==
    ASSUME Understood, stage \in {"header", "length", "mask", "payload"}, Len(heard) < Len(Frames)
    PROVE  /\ Current \in ClientFrames /\ Later \in Seq(Nat)
           /\ HeaderOf(Current) \in Seq(Nat) /\ Len(HeaderOf(Current)) = 2
           /\ LengthOf(Current) \in Seq(Nat) /\ MaskOf(Current) \in Seq(Nat)
           /\ BodyOf(Current) \in Seq(Nat)
           /\ Cat(BodyOf(Current), Later) \in Seq(Nat)
           /\ Cat(MaskOf(Current), Cat(BodyOf(Current), Later)) \in Seq(Nat)
           /\ Cat(LengthOf(Current), Cat(MaskOf(Current), Cat(BodyOf(Current), Later))) \in Seq(Nat)
           /\ FramesFrom[Len(heard) + 1] =
                Cat(HeaderOf(Current), Cat(LengthOf(Current),
                    Cat(MaskOf(Current), Cat(BodyOf(Current), Later))))
<1>1. exchange \in DOMAIN Exchanges /\ Len(heard) \in Nat
    BY LenProperties DEF Understood, ReadTypes, HeardSoFar
<1>2. Len(Frames) \in Nat
    BY <1>1, TailParts
<1>3. PICK i \in 1..Len(Frames) : i = Len(heard) + 1 /\ i + 1 = Len(heard) + 2
    BY <1>1, <1>2
<1>4. /\ Frames[i] \in ClientFrames
      /\ FramesFrom[i] = Cat(HeaderOf(Frames[i]), Cat(LengthOf(Frames[i]),
                             Cat(MaskOf(Frames[i]), Cat(BodyOf(Frames[i]), FramesFrom[i + 1]))))
    BY <1>1, TailParts
<1>5. FramesFrom[i + 1] \in Seq(Nat)
  <2>1. i + 1 \in 1..Len(Frames) + 1
      BY <1>2
  <2> QED BY <1>1, <2>1, TailParts
<1>6. Current = Frames[i] /\ Later = FramesFrom[i + 1]
    BY <1>3 DEF Current, Later
<1>7. Current \in ClientFrames /\ Later \in Seq(Nat)
    BY <1>4, <1>5, <1>6
<1>8. /\ HeaderOf(Current) \in Seq(Nat) /\ Len(HeaderOf(Current)) = 2
      /\ LengthOf(Current) \in Seq(Nat) /\ MaskOf(Current) \in Seq(Nat)
      /\ BodyOf(Current) \in Seq(Nat)
    BY <1>7, FrameParts
<1>9. Cat(BodyOf(Current), Later) \in Seq(Nat)
    BY <1>7, <1>8, Joined
<1>10. Cat(MaskOf(Current), Cat(BodyOf(Current), Later)) \in Seq(Nat)
    BY <1>8, <1>9, Joined
<1>11. Cat(LengthOf(Current), Cat(MaskOf(Current), Cat(BodyOf(Current), Later))) \in Seq(Nat)
    BY <1>8, <1>10, Joined
<1> QED BY <1>3, <1>4, <1>6, <1>7, <1>8, <1>9, <1>10, <1>11

FrameHeaders == [op : Nat, masked : BOOLEAN, len : Nat, mask : Seq(Nat)]

\* The length is known: the mask is next, or the payload.
LEMMA UnderstoodSized ==
    ASSUME Understood, asking, stage \in {"header", "length"}, Len(heard) < Len(Frames),
           inbox = Cat(MaskOf(Current), Cat(BodyOf(Current), Later)),
           NEW h \in FrameHeaders,
           h.op = Current.op, h.masked = Current.masked, h.len = Len(Current.payload),
           Sized(h), UNCHANGED inVars
    PROVE  Understood'
<1>1. CASE h.len > MaxPayload
    BY <1>1, UnderstoodClose DEF Sized, inVars
<1>2. CASE ~(h.len > MaxPayload)
  <2>1. /\ frame' = h /\ got' = <<>> /\ stage' = IF h.masked THEN "mask" ELSE "payload"
        /\ UNCHANGED <<exchange, asking, inbox, open, heard>>
      BY <1>2 DEF Sized, inVars
  <2>2. /\ Current' = Current /\ Later' = Later /\ Frames' = Frames
        /\ BodyOf(Current)' = BodyOf(Current) /\ MaskOf(Current)' = MaskOf(Current)
      BY <2>1, SameCurrent, SameFrames DEF BodyOf, MaskOf
  <2>3. ReadTypes'
    <3>1. <<>> \in Seq(Nat)
        OBVIOUS
    <3>2. stage' \in {"mask", "payload"}
        BY <2>1
    <3>3. stage # "closed" /\ stage' # "closed" /\ open
        BY <3>2 DEF Understood, ReadTypes
    <3> QED BY <2>1, <3>1, <3>2, <3>3 DEF Understood, ReadTypes, FrameHeaders
  <2>4. HeardSoFar'
      BY <2>1, SameFrames DEF Understood, HeardSoFar
  <2>5. Cat(<<>>, inbox) = inbox
      BY Joined DEF Understood, ReadTypes
  <2>6. CASE h.masked
    <3>1. stage' = "mask"
        BY <2>1, <2>6
    <3>2. Ahead' = inbox
        BY <2>2, <3>1 DEF Ahead
    <3>3. Announced'
        BY <2>1, <2>2, <2>6, <3>1 DEF Announced
    <3> QED BY <2>1, <2>3, <2>4, <2>5, <3>1, <3>2, <3>3 DEF Understood, StreamAhead
  <2>7. CASE ~h.masked
    <3>1. stage' = "payload"
        BY <2>1, <2>7
    <3>2. Ahead' = inbox
      <4>1. MaskOf(Current) = <<>>
          BY <2>7 DEF MaskOf
      <4>2. Cat(BodyOf(Current), Later) \in Seq(Nat)
          BY CurrentParts
      <4>3. Cat(<<>>, Cat(BodyOf(Current), Later)) = Cat(BodyOf(Current), Later)
          BY <4>2, Joined
      <4> QED BY <2>2, <3>1, <4>1, <4>3 DEF Ahead
    <3>3. Announced'
        BY <2>1, <2>2, <2>7, <3>1 DEF Announced
    <3> QED BY <2>1, <2>3, <2>4, <2>5, <3>1, <3>2, <3>3 DEF Understood, StreamAhead
  <2> QED BY <2>6, <2>7
<1> QED BY <1>1, <1>2

\* The octets a stage has read in full are the part of the frame it is there for.
LEMMA HeaderIsRead ==
    ASSUME Understood, stage = "header", Filled
    PROVE  /\ asking /\ Len(heard) < Len(Frames)
           /\ got = HeaderOf(Current)
           /\ inbox = Cat(LengthOf(Current), Cat(MaskOf(Current), Cat(BodyOf(Current), Later)))
<1>1. /\ exchange \in DOMAIN Exchanges /\ got \in Seq(Nat) /\ inbox \in Seq(Nat)
      /\ Len(heard) <= Len(Frames) /\ Len(heard) \in Nat
    BY LenProperties DEF Understood, ReadTypes, HeardSoFar
<1>2. Len(got) = 2
    BY DEF Filled, Wanted
<1>3. asking /\ Cat(got, inbox) = FramesFrom[Len(heard) + 1]
  <2>1. got # <<>>
    <3>1. Len(<<>>) = 0
        OBVIOUS
    <3> QED BY <1>2, <3>1
  <2> QED BY <2>1 DEF Understood, StreamAhead, Ahead
<1>4. Len(Frames) \in Nat /\ FramesFrom[Len(Frames) + 1] = <<>>
    BY <1>1, TailParts
<1>5. Len(heard) # Len(Frames)
  <2> SUFFICES ASSUME Len(heard) = Len(Frames) PROVE FALSE
      OBVIOUS
  <2>1. Cat(got, inbox) = <<>>
      BY <1>3, <1>4
  <2>2. Len(Cat(got, inbox)) = Len(got) + Len(inbox) /\ Len(inbox) \in Nat
      BY <1>1, Joined
  <2>3. Len(<<>>) = 0
      OBVIOUS
  <2> QED BY <1>2, <2>1, <2>2, <2>3
<1>6. Len(heard) < Len(Frames)
    BY <1>1, <1>4, <1>5
<1>7. /\ HeaderOf(Current) \in Seq(Nat) /\ Len(HeaderOf(Current)) = 2
      /\ Cat(LengthOf(Current), Cat(MaskOf(Current), Cat(BodyOf(Current), Later))) \in Seq(Nat)
      /\ Cat(got, inbox) =
           Cat(HeaderOf(Current), Cat(LengthOf(Current),
                                      Cat(MaskOf(Current), Cat(BodyOf(Current), Later))))
    BY <1>3, <1>6, CurrentParts
<1>8. PICK a \in Seq(Nat), r \in Seq(Nat) :
          /\ a = HeaderOf(Current)
          /\ r = Cat(LengthOf(Current), Cat(MaskOf(Current), Cat(BodyOf(Current), Later)))
    BY <1>7
<1>9. Cat(got, inbox) = Cat(a, r) /\ Len(got) = Len(a)
    BY <1>2, <1>7, <1>8
<1>10. got = a /\ inbox = r
    BY <1>1, <1>9, PartIsRead
<1> QED BY <1>3, <1>6, <1>8, <1>10

LEMMA LenIsSet ==
    ASSUME NEW f \in FrameHeaders, NEW n \in Nat, NEW g, g = [f EXCEPT !.len = n]
    PROVE  g \in FrameHeaders /\ g.op = f.op /\ g.masked = f.masked /\ g.len = n
BY DEF FrameHeaders

LEMMA UnderstoodHeader ==
    ASSUME Understood, ReadHeader
    PROVE  Understood'
<1> DEFINE code == got[2] % 8
           h == [op |-> got[1], masked |-> got[2] >= 8, len |-> code, mask |-> Zeros(4)]
           z == Size(Current)[1]
<1>1. stage = "header" /\ Filled /\ UNCHANGED inVars
    BY DEF ReadHeader
<1>2. /\ asking /\ Len(heard) < Len(Frames) /\ got = HeaderOf(Current)
      /\ inbox = Cat(LengthOf(Current), Cat(MaskOf(Current), Cat(BodyOf(Current), Later)))
    BY <1>1, HeaderIsRead
<1>3. Current \in ClientFrames
    BY <1>1, <1>2, CurrentParts
<1>4. /\ z \in 0..7 /\ Small \in 0..5 /\ Current.masked \in BOOLEAN /\ Current.op \in Nat
      /\ Current.payload \in Seq(Octet) /\ Len(Current.payload) \in Nat
    BY <1>3, LengthParts, FrameParts, OctetsAreNat, WidthAssumption, LenProperties
<1>5. got[1] = Current.op /\ got[2] = z + (IF Current.masked THEN 8 ELSE 0)
    BY <1>2 DEF HeaderOf
<1>6. code = z /\ (got[2] >= 8) = Current.masked
  <2> HIDE DEF z
  <2>1. PICK y \in 0..7 : y = z
      BY <1>4
  <2>2. CASE Current.masked
    <3>1. got[2] = y + 8 /\ (y + 8) % 8 = y /\ y + 8 >= 8
        BY <2>1, <2>2, <1>5
    <3> QED BY <2>1, <2>2, <3>1
  <2>3. CASE ~Current.masked
    <3>1. got[2] = y /\ y % 8 = y /\ ~(y >= 8)
        BY <2>1, <2>3, <1>5
    <3>2. Current.masked = FALSE
        BY <2>3, <1>4
    <3>3. code = z
        BY <2>1, <3>1
    <3>4. (got[2] >= 8) = FALSE
        BY <3>1
    <3> QED BY <3>2, <3>3, <3>4
  <2> QED BY <2>2, <2>3
<1>7. /\ h.op = Current.op /\ h.masked = Current.masked /\ h.len = z
      /\ h.mask = Zeros(4) /\ h \in FrameHeaders
  <2>1. Zeros(4) \in Seq(Nat)
    <3> DEFINE n == 4
    <3>1. n \in Nat
        OBVIOUS
    <3>2. [i \in 1..n |-> 0] \in [1..n -> Nat]
        OBVIOUS
    <3> HIDE DEF n
    <3>3. [i \in 1..n |-> 0] \in Seq(Nat)
        BY <3>1, <3>2, FunctionIsSeq
    <3> QED BY <3>3 DEF Zeros, n
  <2> QED BY <2>1, <1>4, <1>5, <1>6 DEF FrameHeaders
<1> HIDE DEF h, z, code
<1>8. CASE code <= Small
  <2>1. Sized(h)
      BY <1>8 DEF ReadHeader, h, code
  <2>2. h.len = Len(Current.payload) /\ LengthOf(Current) = <<>>
    <3>1. \/ z <= Small /\ z = Len(Current.payload) /\ LengthOf(Current) = <<>>
          \/ z = Small + 1 \/ z = Small + 2
        BY <1>3, LengthParts DEF z
    <3>2. z <= Small /\ ~(z = Small + 1) /\ ~(z = Small + 2)
        BY <1>4, <1>6, <1>8
    <3> QED BY <1>7, <3>1, <3>2
  <2>3. inbox = Cat(MaskOf(Current), Cat(BodyOf(Current), Later))
    <3>1. Cat(MaskOf(Current), Cat(BodyOf(Current), Later)) \in Seq(Nat)
        BY <1>1, <1>2, CurrentParts
    <3>2. Cat(<<>>, Cat(MaskOf(Current), Cat(BodyOf(Current), Later)))
             = Cat(MaskOf(Current), Cat(BodyOf(Current), Later))
        BY <3>1, Joined
    <3> QED BY <1>2, <2>2, <3>2
  <2> QED BY <1>1, <1>2, <1>7, <2>1, <2>2, <2>3, UnderstoodSized
<1>9. CASE ~(code <= Small)
  <2>1. /\ frame' = [h EXCEPT !.len = IF code = Small + 1 THEN 2 ELSE 3]
        /\ got' = <<>> /\ stage' = "length"
        /\ UNCHANGED <<exchange, asking, inbox, open, heard>>
      BY <1>9 DEF ReadHeader, h, code, inVars
  <2>2. Len(LengthOf(Current)) = (IF code = Small + 1 THEN 2 ELSE 3)
      BY <1>3, <1>4, <1>6, <1>9, LengthParts DEF z
  <2>3. /\ frame' \in FrameHeaders /\ frame'.op = Current.op
        /\ frame'.masked = Current.masked /\ frame'.len = Len(LengthOf(Current))
        /\ frame'.len \in 2..3
    <3>1. PICK n \in 2..3 : n = IF code = Small + 1 THEN 2 ELSE 3
        OBVIOUS
    <3>2. frame' = [h EXCEPT !.len = n] /\ Len(LengthOf(Current)) = n
        BY <2>1, <2>2, <3>1
    <3>3. /\ frame' \in FrameHeaders /\ frame'.op = h.op /\ frame'.masked = h.masked
          /\ frame'.len = n
        BY <1>7, <3>2, LenIsSet
    <3> QED BY <1>7, <3>2, <3>3
  <2>4. /\ Current' = Current /\ Later' = Later /\ Frames' = Frames
        /\ BodyOf(Current)' = BodyOf(Current) /\ MaskOf(Current)' = MaskOf(Current)
        /\ LengthOf(Current)' = LengthOf(Current)
      BY <2>1, SameCurrent, SameFrames DEF BodyOf, MaskOf, LengthOf, Size
  <2>5. ReadTypes'
    <3>1. <<>> \in Seq(Nat)
        OBVIOUS
    <3> QED BY <1>1, <2>1, <2>3, <3>1 DEF Understood, ReadTypes, FrameHeaders
  <2>6. HeardSoFar'
      BY <2>1, SameFrames DEF Understood, HeardSoFar
  <2>7. Ahead' = inbox
      BY <2>1, <2>4, <1>2 DEF Ahead
  <2>8. Announced'
      BY <2>1, <2>3, <2>4, <1>2 DEF Announced
  <2>9. Cat(<<>>, inbox) = inbox
      BY Joined DEF Understood, ReadTypes
  <2> QED BY <1>2, <2>1, <2>5, <2>6, <2>7, <2>8, <2>9 DEF Understood, StreamAhead
<1> QED BY <1>8, <1>9

\* The digits of a length have been read.
LEMMA LengthIsRead ==
    ASSUME Understood, stage = "length", Filled
    PROVE  /\ asking /\ Len(heard) < Len(Frames)
           /\ got = LengthOf(Current)
           /\ inbox = Cat(MaskOf(Current), Cat(BodyOf(Current), Later))
<1>1. got \in Seq(Nat) /\ inbox \in Seq(Nat)
    BY DEF Understood, ReadTypes
<1>2. /\ asking /\ Len(heard) < Len(Frames) /\ frame.len = Len(LengthOf(Current))
      /\ Cat(got, inbox) =
            Cat(LengthOf(Current), Cat(MaskOf(Current), Cat(BodyOf(Current), Later)))
    BY DEF Understood, StreamAhead, Announced, Ahead
<1>3. Len(got) = Len(LengthOf(Current))
    BY <1>2 DEF Filled, Wanted
<1>4. PICK a \in Seq(Nat), r \in Seq(Nat) :
          a = LengthOf(Current) /\ r = Cat(MaskOf(Current), Cat(BodyOf(Current), Later))
    BY <1>2, CurrentParts
<1>5. Cat(got, inbox) = Cat(a, r) /\ Len(got) = Len(a)
    BY <1>2, <1>3, <1>4
<1>6. got = a /\ inbox = r
    BY <1>1, <1>5, PartIsRead
<1> QED BY <1>2, <1>4, <1>6

LEMMA UnderstoodLength ==
    ASSUME Understood, ReadLength
    PROVE  Understood'
<1> DEFINE h == [frame EXCEPT !.len = Number(got)]
<1>1. stage = "length" /\ Filled /\ Sized(h) /\ UNCHANGED inVars
    BY DEF ReadLength
<1>2. /\ asking /\ Len(heard) < Len(Frames) /\ got = LengthOf(Current)
      /\ inbox = Cat(MaskOf(Current), Cat(BodyOf(Current), Later))
    BY <1>1, LengthIsRead
<1>3. /\ frame \in FrameHeaders /\ frame.op = Current.op /\ frame.masked = Current.masked
      /\ frame.len = Len(got) /\ Len(got) \in 2..3
    BY <1>1, <1>2 DEF Understood, ReadTypes, StreamAhead, Announced, FrameHeaders
<1>4. Current \in ClientFrames
    BY <1>1, <1>2, CurrentParts
<1>5. Number(got) = Len(Current.payload) /\ Number(got) \in Nat
  <2>1. Len(<<>>) = 0
      OBVIOUS
  <2>2. Number(got) = Len(Current.payload)
    <3>1. LengthOf(Current) # <<>>
      <4>1. Len(LengthOf(Current)) # 0
        <5>1. Len(got) # 0
          <6>1. PICK n \in 2..3 : n = Len(got)
              BY <1>3
          <6> QED BY <6>1
        <5> QED BY <1>2, <5>1
      <4> QED BY <2>1, <4>1
    <3>2. Number(LengthOf(Current)) = Len(Current.payload)
        BY <1>4, <3>1, LengthParts
    <3> QED BY <1>2, <3>2
  <2>3. Len(Current.payload) \in Nat
      BY <1>4, FrameParts, LenProperties
  <2> QED BY <2>2, <2>3
<1>6. /\ h \in FrameHeaders /\ h.op = Current.op /\ h.masked = Current.masked
      /\ h.len = Len(Current.payload)
    BY <1>3, <1>5 DEF FrameHeaders
<1> HIDE DEF h
<1> QED BY <1>1, <1>2, <1>6, UnderstoodSized

\* The mask has been read.
LEMMA MaskIsRead ==
    ASSUME Understood, stage = "mask", Filled
    PROVE  /\ asking /\ Len(heard) < Len(Frames) /\ Current.masked
           /\ got = Current.mask
           /\ inbox = Cat(BodyOf(Current), Later)
<1>1. got \in Seq(Nat) /\ inbox \in Seq(Nat)
    BY DEF Understood, ReadTypes
<1>2. /\ asking /\ Len(heard) < Len(Frames) /\ Current.masked
      /\ Cat(got, inbox) = Cat(MaskOf(Current), Cat(BodyOf(Current), Later))
    BY DEF Understood, StreamAhead, Announced, Ahead
<1>3. PICK a \in Seq(Nat), r \in Seq(Nat) :
          a = MaskOf(Current) /\ r = Cat(BodyOf(Current), Later)
    BY <1>2, CurrentParts
<1>4. Len(got) = Len(a)
  <2>1. Current \in ClientFrames
      BY <1>2, CurrentParts
  <2> QED BY <1>2, <1>3, <2>1, FrameParts DEF Filled, Wanted
<1>5. Cat(got, inbox) = Cat(a, r)
    BY <1>2, <1>3
<1>6. got = a /\ inbox = r
    BY <1>1, <1>4, <1>5, PartIsRead
<1> QED BY <1>2, <1>3, <1>6 DEF MaskOf

LEMMA UnderstoodMask ==
    ASSUME Understood, ReadMask
    PROVE  Understood'
<1>1. /\ stage = "mask" /\ Filled /\ frame' = [frame EXCEPT !.mask = got]
      /\ got' = <<>> /\ stage' = "payload" /\ UNCHANGED <<exchange, asking, inbox, open, heard>>
    BY DEF ReadMask, inVars
<1>2. /\ asking /\ Len(heard) < Len(Frames) /\ Current.masked /\ got = Current.mask
      /\ inbox = Cat(BodyOf(Current), Later)
    BY <1>1, MaskIsRead
<1>3. /\ frame \in FrameHeaders /\ got \in Seq(Nat) /\ frame.op = Current.op
      /\ frame.masked = Current.masked /\ frame.len = Len(Current.payload)
    BY <1>1 DEF Understood, ReadTypes, StreamAhead, Announced, FrameHeaders
<1>4. /\ frame' \in FrameHeaders /\ frame'.op = Current.op /\ frame'.masked = Current.masked
      /\ frame'.len = Len(Current.payload) /\ frame'.mask = Current.mask
    BY <1>1, <1>2, <1>3 DEF FrameHeaders
<1>5. /\ Current' = Current /\ Later' = Later /\ Frames' = Frames
      /\ BodyOf(Current)' = BodyOf(Current)
    BY <1>1, SameCurrent, SameFrames DEF BodyOf
<1>6. ReadTypes'
  <2>1. <<>> \in Seq(Nat)
      OBVIOUS
  <2> QED BY <1>1, <1>4, <2>1 DEF Understood, ReadTypes, FrameHeaders
<1>7. HeardSoFar'
    BY <1>1, SameFrames DEF Understood, HeardSoFar
<1>8. StreamAhead'
  <2>1. Ahead' = inbox
      BY <1>1, <1>2, <1>5 DEF Ahead
  <2>2. Announced'
      BY <1>1, <1>2, <1>4, <1>5 DEF Announced
  <2>3. Cat(<<>>, inbox) = inbox
      BY Joined DEF Understood, ReadTypes
  <2> QED BY <1>1, <1>2, <2>1, <2>2, <2>3 DEF StreamAhead
<1> QED BY <1>6, <1>7, <1>8 DEF Understood

\* The payload has been read, and is what the client has sent.
LEMMA PayloadIsRead ==
    ASSUME Understood, stage = "payload", Filled
    PROVE  /\ asking /\ Len(heard) < Len(Frames)
           /\ frame.op = Current.op
           /\ (IF frame.masked THEN Masked(got, frame.mask) ELSE got) = Current.payload
           /\ inbox = Later
<1>1. got \in Seq(Nat) /\ inbox \in Seq(Nat)
    BY DEF Understood, ReadTypes
<1>2. /\ asking /\ Len(heard) < Len(Frames) /\ frame.op = Current.op
      /\ frame.masked = Current.masked /\ frame.len = Len(Current.payload)
      /\ Current.masked => frame.mask = Current.mask
      /\ Cat(got, inbox) = Cat(BodyOf(Current), Later)
    BY DEF Understood, StreamAhead, Announced, Ahead
<1>3. PICK a \in Seq(Nat), r \in Seq(Nat) : a = BodyOf(Current) /\ r = Later
    BY <1>2, CurrentParts
<1>4. /\ Len(a) = Len(Current.payload)
      /\ (IF Current.masked THEN Masked(a, Current.mask) ELSE a) = Current.payload
  <2>1. Current \in ClientFrames
      BY <1>2, CurrentParts
  <2> QED BY <1>3, <2>1, FrameParts
<1>5. Cat(got, inbox) = Cat(a, r) /\ Len(got) = Len(a)
    BY <1>2, <1>3, <1>4 DEF Filled, Wanted
<1>6. got = a /\ inbox = r
    BY <1>1, <1>5, PartIsRead
<1> QED BY <1>2, <1>3, <1>4, <1>6

LEMMA UnderstoodPayload ==
    ASSUME Understood, ReadPayload
    PROVE  Understood'
<1> DEFINE p == IF frame.masked THEN Masked(got, frame.mask) ELSE got
<1>1. /\ stage = "payload" /\ Filled /\ heard' = Append(heard, <<frame.op, p>>)
      /\ stage' = NextStage(frame.op) /\ got' = <<>>
      /\ UNCHANGED <<exchange, asking, inbox, open, frame>>
    BY DEF ReadPayload, inVars
<1>2. /\ asking /\ Len(heard) < Len(Frames) /\ frame.op = Current.op
      /\ p = Current.payload /\ inbox = Later
    BY <1>1, PayloadIsRead
<1>3. /\ heard \in Seq(Octet \X Seq(Octet)) /\ Len(heard) \in Nat
      /\ \A i \in 1..Len(heard) : heard[i] = <<Frames[i].op, Frames[i].payload>>
      /\ exchange \in DOMAIN Exchanges
    BY LenProperties DEF Understood, ReadTypes, HeardSoFar
<1>4. Current.op \in Octet /\ Current.payload \in Seq(Octet)
  <2>1. Current \in ClientFrames
      BY <1>1, <1>2, CurrentParts
  <2> QED BY <2>1, FrameParts
<1> HIDE DEF p
<1>5. PICK e \in Octet \X Seq(Octet) : e = <<Current.op, Current.payload>> /\ heard' = Append(heard, e)
    BY <1>1, <1>2, <1>4
<1>6. /\ heard' \in Seq(Octet \X Seq(Octet)) /\ Len(heard') = Len(heard) + 1
      /\ \A i \in 1..Len(heard) : heard'[i] = heard[i]
      /\ heard'[Len(heard) + 1] = e
    BY <1>3, <1>5, AppendProperties
<1>7. ReadTypes'
  <2>1. <<>> \in Seq(Nat)
      OBVIOUS
  <2>2. stage' \in {"bye", "header"}
      BY <1>1 DEF NextStage
  <2>3. open
      BY <1>1 DEF Understood, ReadTypes
  <2> QED BY <1>1, <2>1, <2>2, <2>3 DEF Understood, ReadTypes
<1>8. HeardSoFar'
  <2>1. Len(Frames) \in Nat
      BY <1>3, TailParts
  <2>2. Len(heard') <= Len(Frames)
      BY <1>2, <1>3, <1>6, <2>1
  <2>3. ASSUME NEW i \in 1..Len(heard') PROVE heard'[i] = <<Frames[i].op, Frames[i].payload>>
    <3>1. CASE i \in 1..Len(heard)
        BY <1>3, <1>6, <3>1
    <3>2. CASE i = Len(heard) + 1
        BY <1>5, <1>6, <3>2 DEF Current
    <3> QED BY <1>3, <1>6, <3>1, <3>2
  <2>4. Frames' = Frames
      BY <1>1, SameFrames
  <2> QED BY <1>6, <2>2, <2>3, <2>4 DEF HeardSoFar
<1>9. StreamAhead'
  <2>1. CASE stage' = "bye"
      BY <2>1 DEF StreamAhead
  <2>2. CASE stage' = "header"
    <3>1. Ahead' = FramesFrom[Len(heard') + 1]
        BY <1>1, <2>2, SameFrames DEF Ahead
    <3>2. Len(heard') + 1 = Len(heard) + 2
        BY <1>3, <1>6
    <3>3. Ahead' = inbox
        BY <1>2, <3>1, <3>2 DEF Later
    <3>4. Cat(<<>>, inbox) = inbox
        BY Joined DEF Understood, ReadTypes
    <3> QED BY <1>1, <1>2, <2>2, <3>3, <3>4 DEF StreamAhead
  <2> QED BY <1>1, <2>1, <2>2 DEF NextStage
<1> QED BY <1>7, <1>8, <1>9 DEF Understood

-----------------------------------------------------------------------------
(* The frames the server writes.                                           *)

LEMMA PairIs ==
    ASSUME NEW m \in Nat, NEW n \in Nat, NEW t, t = <<m, n>>
    PROVE  t \in Seq(Nat) /\ Len(t) = 2 /\ t[1] = m /\ t[2] = n
OBVIOUS

LEMMA PairOfNats ==
    ASSUME NEW m \in Nat, NEW n \in Nat
    PROVE  \E t \in Seq(Nat) : t = <<m, n>> /\ Len(t) = 2 /\ t[1] = m /\ t[2] = n
<1>1. <<m, n>> \in Seq(Nat) /\ Len(<<m, n>>) = 2 /\ <<m, n>>[1] = m /\ <<m, n>>[2] = n
    OBVIOUS
<1> QED BY <1>1

\* What three digits can tell.
Limit == Base * Base * Base

LEMMA LongHeader ==
    ASSUME NEW t \in Seq(Nat), NEW d \in Seq(Nat), Len(t) = 2
    PROVE  /\ Cat(t, d) \in Seq(Nat) /\ Len(Cat(t, d)) = 2 + Len(d) /\ Len(d) \in Nat
           /\ Cat(t, d)[1] = t[1] /\ Cat(t, d)[2] = t[2]
           /\ Others(Cat(t, d), 2) = d
<1>1. Cat(t, d) \in Seq(Nat) /\ Len(Cat(t, d)) = Len(t) + Len(d) /\ Len(d) \in Nat
    BY Joined
<1>2. \A i \in 1..Len(t) : Cat(t, d)[i] = t[i]
  <2>1. \A x, y \in Seq(Nat) : \A i \in 1..Len(x) : Cat(x, y)[i] = x[i]
      BY JoinedAt
  <2> QED BY <2>1
<1>3. 1 \in 1..Len(t) /\ 2 \in 1..Len(t)
    OBVIOUS
<1>4. Cat(t, d)[1] = t[1] /\ Cat(t, d)[2] = t[2]
    BY <1>2, <1>3
<1>5. Others(Cat(t, d), Len(t)) = d
    BY Rejoined
<1> QED BY <1>1, <1>4, <1>5

\* A header names its opcode, and the length of what follows.
IsHeader(h, op, n) ==
    /\ h \in Seq(Nat) /\ h[1] = op /\ h[2] \in Nat
    /\ Len(h) = 2 + ExtraDigits(h[2])
    /\ ExtraDigits(h[2]) = 0 => h[2] = n
    /\ ExtraDigits(h[2]) # 0 => Number(Others(h, 2)) = n

LEMMA HeaderFacts ==
    ASSUME NEW op \in Nat, NEW n \in Nat, n < Limit
    PROVE  IsHeader(Header(op, n), op, n)
<1>0. PICK h : h = Header(op, n)
    OBVIOUS
<1>1. Small \in 0..5
    BY WidthAssumption
<1>2. CASE n <= Small
  <2>1. h = <<op, n>>
      BY <1>0, <1>2 DEF Header
  <2>2. PICK t \in Seq(Nat) : t = <<op, n>> /\ Len(t) = 2 /\ t[1] = op /\ t[2] = n
      BY PairOfNats
  <2>3. ExtraDigits(n) = 0
      BY <1>1, <1>2 DEF ExtraDigits
  <2> QED BY <1>0, <2>1, <2>2, <2>3 DEF IsHeader
<1>3. ASSUME NEW m \in 1..2, NEW d \in Seq(Nat), Len(d) = m + 1, Number(d) = n,
             h = Cat(<<op, Small + m>>, d)
      PROVE  IsHeader(h, op, n)
  <2>1. PICK code \in Nat : code = Small + m
      BY <1>1
  <2>2. /\ h \in Seq(Nat) /\ Len(h) = 2 + Len(d) /\ h[1] = op /\ h[2] = code
        /\ Others(h, 2) = d
    <3>1. PICK t \in Seq(Nat) : t = <<op, code>> /\ Len(t) = 2 /\ t[1] = op /\ t[2] = code
      <4>1. PICK t : t = <<op, code>>
          OBVIOUS
      <4>2. t \in Seq(Nat) /\ Len(t) = 2 /\ t[1] = op /\ t[2] = code
          BY <2>1, <4>1, PairIs
      <4> QED BY <4>1, <4>2
    <3>2. h = Cat(t, d)
        BY <1>3, <2>1, <3>1
    <3>3. t[1] = op /\ t[2] = code /\ Len(t) = 2
        BY <3>1
    <3>4. /\ Cat(t, d) \in Seq(Nat) /\ Len(Cat(t, d)) = 2 + Len(d)
          /\ Cat(t, d)[1] = t[1] /\ Cat(t, d)[2] = t[2]
          /\ Others(Cat(t, d), 2) = d
        BY <3>3, LongHeader
    <3> QED BY <3>2, <3>3, <3>4
  <2>3. ExtraDigits(code) = m + 1 /\ m + 1 # 0
      BY <1>1, <2>1 DEF ExtraDigits
  <2>4. h[2] = code /\ h[2] \in Nat /\ h[1] = op /\ h \in Seq(Nat)
      BY <2>1, <2>2
  <2>5. Len(h) = 2 + ExtraDigits(h[2]) /\ ExtraDigits(h[2]) # 0
      BY <1>3, <2>2, <2>3, <2>4
  <2>6. Number(Others(h, 2)) = n
      BY <1>3, <2>2
  <2> QED BY <2>4, <2>5, <2>6 DEF IsHeader
<1>4. CASE n > Small /\ n < Base * Base
  <2>1. PICK d \in Seq(Nat) : d = Digits(n, 2) /\ Len(d) = 1 + 1 /\ Number(d) = n
      BY <1>4, TwoDigits
  <2>2. h = Cat(<<op, Small + 1>>, d) /\ 1 \in 1..2
      BY <1>0, <1>1, <1>4, <2>1 DEF Header, Cat
  <2> QED BY <1>0, <1>3, <2>1, <2>2
<1>5. CASE n > Small /\ ~(n < Base * Base)
  <2>1. PICK d \in Seq(Nat) : d = Digits(n, 3) /\ Len(d) = 2 + 1 /\ Number(d) = n
      BY <1>5, ThreeDigits DEF Limit
  <2>2. h = Cat(<<op, Small + 2>>, d)
      BY <1>0, <1>1, <1>5, <2>1 DEF Header, Cat
  <2>3. 2 \in 1..2
      OBVIOUS
  <2> QED BY <1>0, <1>3, <2>1, <2>2, <2>3
<1> QED BY <1>0, <1>1, <1>2, <1>4, <1>5

LEMMA HeaderIsSeq ==
    ASSUME NEW op \in Nat, NEW n \in Nat, n < Limit
    PROVE  Header(op, n) \in Seq(Nat) /\ Header(op, n) # <<>>
<1>1. PICK h : h = Header(op, n)
    OBVIOUS
<1>2. h \in Seq(Nat) /\ Len(h) = 2 + ExtraDigits(h[2])
    BY <1>1, HeaderFacts DEF IsHeader
<1>3. ExtraDigits(h[2]) \in Nat
    BY DEF ExtraDigits
<1>4. Len(<<>>) = 0
    OBVIOUS
<1> QED BY <1>1, <1>2, <1>3, <1>4

LEMMA TextsAreNat ==
    ASSUME NEW p \in Texts
    PROVE  p \in Seq(Nat) /\ Len(p) \in Nat /\ Len(p) < Limit
<1>1. p \in Seq(Octet) /\ Len(p) < Limit
    BY DEF Texts, Limit
<1>2. p \in Seq(Nat)
    BY <1>1, OctetsAreNat, SeqMonotonic
<1> QED BY <1>1, <1>2, LenProperties

LEMMA LeftOf ==
    /\ Left(<<>>) = <<>>
    /\ \A a : Left(<<a>>) = a
    /\ \A a, b : Left(<<a, b>>) = Cat(a, b)
<1>1. /\ Len(<<>>) = 0
      /\ \A a : Len(<<a>>) = 1 /\ <<a>>[1] = a
      /\ \A a, b : Len(<<a, b>>) = 2 /\ <<a, b>>[1] = a /\ <<a, b>>[2] = b
    OBVIOUS
<1> QED BY <1>1 DEF Left

\* A header and a payload are sent in two calls; an empty payload is not sent.
LEMMA CallsAre ==
    ASSUME NEW h \in Seq(Nat), h # <<>>, NEW p \in Seq(Nat), NEW c, c = Calls(h, p)
    PROVE  c \in Queues /\ c # <<>> /\ Left(c) = Cat(h, p)
<1>1. h \in Pieces
    BY DEF Pieces
<1>2. CASE p = <<>>
  <2>1. c = <<h>>
      BY <1>2 DEF Calls
  <2>2. Cat(h, <<>>) = h
      BY Joined
  <2> QED BY <1>1, <1>2, <2>1, <2>2, LeftOf DEF Queues
<1>3. CASE p # <<>>
  <2>1. p \in Pieces
      BY <1>3 DEF Pieces
  <2>2. c = <<h, p>>
      BY <1>3 DEF Calls
  <2> QED BY <1>1, <2>1, <2>2, LeftOf DEF Queues
<1> QED BY <1>2, <1>3

LEMMA NoJobIsJob == IsJob(NoJob) /\ NoJob.calls = <<>> /\ NoJob.begun = FALSE
<1>1. <<>> \in Queues
    BY DEF Queues
<1> QED BY <1>1 DEF IsJob, JobTypes, NoJob

LEMMA FrameIsJob ==
    ASSUME NEW op \in {1, 8, 10}, NEW p \in Texts, NEW h, h = Header(op, Len(p)),
           NEW j, j = [frame |-> <<op, p>>, calls |-> Calls(h, p), begun |-> FALSE]
    PROVE  IsJob(j) /\ j.calls # <<>> /\ j.frame[1] = op
<1>1. p \in Seq(Nat) /\ Len(p) \in Nat /\ Len(p) < Limit
    BY TextsAreNat
<1>2. h \in Seq(Nat) /\ h # <<>>
  <2>1. PICK n \in Nat, o \in Nat : n = Len(p) /\ o = op /\ n < Limit
      BY <1>1
  <2> QED BY <2>1, HeaderIsSeq
<1>3. PICK c : c = Calls(h, p)
    OBVIOUS
<1>4. c \in Queues /\ c # <<>> /\ Left(c) = Cat(h, p)
    BY <1>1, <1>2, <1>3, CallsAre
<1>5. <<op, p>> \in Sendable
    BY DEF Sendable
<1>6. Encode(<<op, p>>) = Cat(h, p)
  <2>1. op # Upgrade
      BY DEF Upgrade
  <2> QED BY <2>1 DEF Encode
<1>8. j.frame = <<op, p>> /\ j.calls = c /\ j.begun = FALSE /\ j.frame[1] = op
    BY <1>3
<1>9. j \in JobTypes
    BY <1>3, <1>4, <1>5 DEF JobTypes
<1>10. IsJob(j)
  <2>2. Left(j.calls) = Encode(j.frame) /\ j.frame \in Sendable
      BY <1>4, <1>5, <1>6, <1>8
  <2> QED BY <1>9, <2>2 DEF IsJob, JobTypes
<1> QED BY <1>4, <1>8, <1>10

LEMMA TextIsJob ==
    ASSUME NEW p \in Texts
    PROVE  /\ IsJob(Text(p)) /\ Text(p).calls # <<>> /\ Text(p).frame[1] = 1
           /\ Text(p).begun = FALSE
<1>1. PICK h : h = Header(1, Len(p))
    OBVIOUS
<1>2. PICK j : j = [frame |-> <<1, p>>, calls |-> Calls(h, p), begun |-> FALSE]
    OBVIOUS
<1>3. IsJob(j) /\ j.calls # <<>> /\ j.frame[1] = 1
    BY <1>1, <1>2, FrameIsJob
<1>4. j.begun = FALSE /\ Text(p) = j
    BY <1>1, <1>2 DEF Text
<1> QED BY <1>3, <1>4

LEMMA ResponseIsJob ==
    IsJob(Response) /\ Response.frame = <<Upgrade, <<>>>> /\ Response.begun = FALSE
<1>1. PICK o \in Nat : o = Upgrade
    BY DEF Upgrade
<1>2. PICK h \in Seq(Nat) : h = <<o>> /\ h # <<>>
  <2>1. <<o>> \in Seq(Nat) /\ <<o>> # <<>>
      OBVIOUS
  <2> QED BY <2>1
<1>3. h \in Pieces
    BY <1>2 DEF Pieces
<1>4. PICK c \in Queues : c = <<h>>
  <2>1. <<h>> \in Queues
      BY <1>3 DEF Queues
  <2> QED BY <2>1
<1>5. Left(c) = h
    BY <1>4, LeftOf
<1>6. Encode(<<Upgrade, <<>>>>) = h
    BY <1>1, <1>2 DEF Encode
<1>7. /\ Response.frame = <<Upgrade, <<>>>> /\ Response.calls = c /\ Response.begun = FALSE
      /\ Response = [frame |-> <<Upgrade, <<>>>>, calls |-> c, begun |-> FALSE]
    BY <1>1, <1>2, <1>4 DEF Response
<1>8. <<Upgrade, <<>>>> \in Sendable
    BY DEF Sendable
<1>10. Response \in JobTypes
    BY <1>7, <1>8 DEF JobTypes
<1> QED BY <1>5, <1>6, <1>7, <1>8, <1>10 DEF IsJob, JobTypes

\* What a control frame carries of a payload.
LEMMA CutIsText ==
    ASSUME NEW p \in Seq(Octet), NEW cut, cut = SubSeq(p, 1, Lesser(Len(p), Small))
    PROVE  cut \in Texts /\ Len(cut) <= Small
<1>1. PICK k \in 0..Len(p) : k = Lesser(Len(p), Small) /\ k <= Small
  <2>1. Len(p) \in Nat /\ Small \in 0..5
      BY LenProperties, WidthAssumption
  <2> QED BY <2>1 DEF Lesser
<1>2. First(p, k) \in Seq(Octet) /\ Len(First(p, k)) = k
    BY Moves
<1>3. cut = First(p, k)
    BY <1>1 DEF First
<1>4. k < Base * Base * Base
  <2>1. Base \in Nat /\ Base >= 2 /\ Small \in 0..5
      BY WidthAssumption
  <2>2. Base * Base \in Nat /\ Base * Base >= 4
    <3>1. PICK b \in Nat : Base = 2 + b
        BY <2>1
    <3>2. Base * Base = 4 + 4 * b + b * b /\ b * b \in Nat
        BY <3>1
    <3> QED BY <3>2
  <2>3. Base * Base * Base >= 8
    <3>1. PICK q \in Nat, b \in Nat : q = Base * Base /\ q = 4 + b
        BY <2>2
    <3>2. q * Base = 4 * Base + b * Base /\ b * Base \in Nat
        BY <2>1, <3>1
    <3> QED BY <2>1, <3>1, <3>2
  <2> QED BY <1>1, <2>1, <2>3
<1> QED BY <1>1, <1>2, <1>3, <1>4 DEF Texts

LEMMA ControlIsJob ==
    ASSUME NEW op \in {8, 10}, NEW p \in Seq(Octet)
    PROVE  /\ IsJob(Control(op, p)) /\ Control(op, p).calls # <<>>
           /\ Control(op, p).frame[1] = op /\ Control(op, p).begun = FALSE
<1>1. PICK cut : cut = SubSeq(p, 1, Lesser(Len(p), Small))
    OBVIOUS
<1>2. cut \in Texts /\ Len(cut) <= Small
    BY <1>1, CutIsText
<1>3. Header(op, Len(cut)) = <<op, Len(cut)>>
    BY <1>2 DEF Header
<1>4. PICK h : h = Header(op, Len(cut))
    OBVIOUS
<1>5. PICK j : j = [frame |-> <<op, cut>>, calls |-> Calls(h, cut), begun |-> FALSE]
    OBVIOUS
<1>6. IsJob(j) /\ j.calls # <<>> /\ j.frame[1] = op
    BY <1>2, <1>4, <1>5, FrameIsJob
<1>7. j.begun = FALSE /\ Control(op, p) = j
    BY <1>1, <1>3, <1>4, <1>5 DEF Control
<1> QED BY <1>6, <1>7

\* What a frame is answered with.
LEMMA ReplyIsJob ==
    ASSUME NEW op, NEW p \in Seq(Octet), NEW reply \in Replies(op, p)
    PROVE  /\ IsJob(reply) /\ reply.begun = FALSE
           /\ reply.calls # <<>> => reply.frame[1] # Upgrade
<1>1. 8 # Upgrade /\ 10 # Upgrade /\ 1 # Upgrade
    BY DEF Upgrade
<1>2. CASE reply = Control(8, <<>>)
  <2>1. <<>> \in Seq(Octet)
      OBVIOUS
  <2> QED BY <1>1, <1>2, <2>1, ControlIsJob
<1>3. CASE reply = Control(10, p)
    BY <1>1, <1>3, ControlIsJob
<1>4. ASSUME NEW h \in Histories \cup {Failed}, reply = Text(h)
      PROVE  /\ IsJob(reply) /\ reply.begun = FALSE
             /\ reply.calls # <<>> => reply.frame[1] # Upgrade
  <2>1. h \in Texts
      BY TextsAssumption DEF Texts
  <2> QED BY <1>1, <1>4, <2>1, TextIsJob
<1>5. CASE reply = NoJob
    BY <1>5, NoJobIsJob
<1>6. \/ reply \in {Control(8, <<>>), Control(10, p), NoJob}
      \/ \E h \in Histories \cup {Failed} : reply = Text(h)
    BY DEF Replies
<1> QED BY <1>2, <1>3, <1>4, <1>5, <1>6

-----------------------------------------------------------------------------
(* One send.                                                               *)

LEMMA LeftIsSeq ==
    ASSUME NEW c \in Queues
    PROVE  Left(c) \in Seq(Nat) /\ (c # <<>> => Left(c) # <<>>)
<1>1. CASE c = <<>>
  <2>1. <<>> \in Seq(Nat)
      OBVIOUS
  <2> QED BY <1>1, <2>1, LeftOf
<1>2. ASSUME NEW a \in Pieces, c = <<a>> PROVE Left(c) \in Pieces
    BY <1>2, LeftOf
<1>3. ASSUME NEW a \in Pieces, NEW b \in Pieces, c = <<a, b>> PROVE Left(c) \in Pieces
  <2>1. PICK s \in Seq(Nat), t \in Seq(Nat) : s = a /\ t = b /\ s # <<>>
      BY DEF Pieces
  <2>2. Cat(s, t) \in Seq(Nat) /\ Len(Cat(s, t)) = Len(s) + Len(t) /\ Len(s) \in Nat /\ Len(t) \in Nat
      BY Joined
  <2>3. Len(s) # 0 /\ Len(<<>>) = 0
      BY <2>1, EmptySeq
  <2>4. Cat(s, t) # <<>>
      BY <2>2, <2>3
  <2>5. Left(c) = Cat(s, t)
      BY <1>3, <2>1, LeftOf
  <2> QED BY <2>2, <2>4, <2>5 DEF Pieces
<1>4. \/ c = <<>> \/ (\E a \in Pieces : c = <<a>>) \/ (\E a, b \in Pieces : c = <<a, b>>)
    BY DEF Queues
<1> QED BY <1>1, <1>2, <1>3, <1>4 DEF Pieces

\* The octets of one send, of the call that is under way.
LEMMA PieceIsSent ==
    ASSUME NEW a \in Pieces, NEW k \in 1..Len(a)
    PROVE  /\ First(a, k) \in Pieces
           /\ k = Len(a) => First(a, k) = a
           /\ k # Len(a) => Others(a, k) \in Pieces /\ Cat(First(a, k), Others(a, k)) = a
<1>1. PICK s \in Seq(Nat) : s = a
    BY DEF Pieces
<1>2. Len(s) \in Nat /\ k \in 0..Len(s)
    BY <1>1, LenProperties
<1>3. PICK f \in Seq(Nat), o \in Seq(Nat) : f = First(s, k) /\ o = Others(s, k)
    BY <1>2, Moves
<1>4. Len(f) = k /\ Len(o) = Len(s) - k /\ Cat(f, o) = s
  <2>1. /\ Len(First(s, k)) = k /\ Len(Others(s, k)) = Len(s) - k
        /\ Cat(First(s, k), Others(s, k)) = s
      BY <1>2, Moves
  <2> QED BY <1>3, <2>1
<1>5. Len(<<>>) = 0 /\ k # 0
    BY <1>1
<1>6. f \in Pieces
    BY <1>4, <1>5 DEF Pieces
<1>7. CASE k = Len(s)
  <2>1. Len(o) = 0
      BY <1>2, <1>4, <1>7
  <2>2. o = <<>>
      BY <2>1, EmptySeq
  <2>3. Cat(f, <<>>) = f
      BY Joined
  <2>4. f = s
      BY <1>4, <2>2, <2>3
  <2> QED BY <1>1, <1>3, <1>6, <1>7, <2>4
<1>8. CASE k # Len(s)
  <2>1. Len(o) # 0
      BY <1>2, <1>4, <1>8
  <2>2. o \in Pieces
      BY <1>5, <2>1 DEF Pieces
  <2> QED BY <1>1, <1>3, <1>4, <1>6, <1>8, <2>2
<1> QED BY <1>7, <1>8

LEMMA TwoCalls == \A a, b : <<a>> \o <<b>> = <<a, b>>
<1> SUFFICES ASSUME NEW a, NEW b PROVE <<a>> \o <<b>> = <<a, b>>
    OBVIOUS
<1>1. /\ <<a>> \o <<b>> \in Seq({a, b}) /\ Len(<<a>> \o <<b>>) = 2
      /\ (<<a>> \o <<b>>)[1] = a /\ (<<a>> \o <<b>>)[2] = b
    OBVIOUS
<1>2. \A i \in 1..2 : (<<a>> \o <<b>>)[i] = <<a, b>>[i]
    BY <1>1
<1>3. <<a, b>> \in Seq({a, b}) /\ Len(<<a, b>>) = 2
    OBVIOUS
<1> QED BY <1>1, <1>2, <1>3, SeqEqual

\* What has not been sent stays to be sent.
LEMMA RestIsLeft ==
    ASSUME NEW c \in Queues, c # <<>>, NEW k \in 1..Len(Head(c))
    PROVE  /\ First(Head(c), k) \in Pieces
           /\ Rest(c, k) \in Queues
           /\ Left(c) = Cat(First(Head(c), k), Left(Rest(c, k)))
<1>1. /\ \A a : Tail(<<a>>) = <<>> /\ Head(<<a>>) = a /\ <<a>> \o <<>> = <<a>>
      /\ \A a, b : Tail(<<a, b>>) = <<b>> /\ Head(<<a, b>>) = a
    OBVIOUS
<1>2. ASSUME NEW a \in Pieces, c = <<a>>
      PROVE  /\ First(Head(c), k) \in Pieces
             /\ Rest(c, k) \in Queues
             /\ Left(c) = Cat(First(Head(c), k), Left(Rest(c, k)))
  <2>1. Head(c) = a /\ Tail(c) = <<>> /\ Left(c) = a /\ k \in 1..Len(a)
      BY <1>1, <1>2, LeftOf
  <2>2. First(a, k) \in Pieces
      BY <2>1, PieceIsSent
  <2>3. CASE k = Len(a)
    <3>1. Rest(c, k) = <<>>
        BY <2>1, <2>3 DEF Rest
    <3>2. First(a, k) = a
        BY <2>1, <2>3, PieceIsSent
    <3>3. Cat(a, <<>>) = a
        BY Joined DEF Pieces
    <3> QED BY <2>1, <2>2, <3>1, <3>2, <3>3, LeftOf DEF Queues
  <2>4. CASE k # Len(a)
    <3>1. PICK o \in Pieces : o = Others(a, k) /\ Cat(First(a, k), o) = a
        BY <2>1, <2>4, PieceIsSent
    <3>2. Rest(c, k) = <<o>>
        BY <1>1, <2>1, <2>4, <3>1 DEF Rest, Others
    <3> QED BY <2>1, <2>2, <3>1, <3>2, LeftOf DEF Queues
  <2> QED BY <2>3, <2>4
<1>3. ASSUME NEW a \in Pieces, NEW b \in Pieces, c = <<a, b>>
      PROVE  /\ First(Head(c), k) \in Pieces
             /\ Rest(c, k) \in Queues
             /\ Left(c) = Cat(First(Head(c), k), Left(Rest(c, k)))
  <2>1. Head(c) = a /\ Tail(c) = <<b>> /\ Left(c) = Cat(a, b) /\ k \in 1..Len(a)
      BY <1>1, <1>3, LeftOf
  <2>2. First(a, k) \in Pieces
      BY <2>1, PieceIsSent
  <2>3. CASE k = Len(a)
    <3>1. Rest(c, k) = <<b>>
        BY <2>1, <2>3 DEF Rest
    <3>2. First(a, k) = a
        BY <2>1, <2>3, PieceIsSent
    <3> QED BY <2>1, <2>2, <3>1, <3>2, LeftOf DEF Queues
  <2>4. CASE k # Len(a)
    <3>1. PICK o \in Pieces : o = Others(a, k) /\ Cat(First(a, k), o) = a
        BY <2>1, <2>4, PieceIsSent
    <3>2. Rest(c, k) = <<o, b>>
        BY <2>1, <2>4, <3>1, TwoCalls DEF Rest, Others
    <3>3. PICK f \in Pieces : f = First(a, k)
        BY <2>2
    <3>4. Cat(Cat(f, o), b) = Cat(f, Cat(o, b))
        BY Assoc DEF Pieces
    <3>5. Cat(a, b) = Cat(f, Cat(o, b))
        BY <3>1, <3>3, <3>4
    <3> QED BY <2>1, <2>2, <3>2, <3>3, <3>5, LeftOf DEF Queues
  <2> QED BY <2>3, <2>4
<1>4. (\E a \in Pieces : c = <<a>>) \/ (\E a, b \in Pieces : c = <<a, b>>)
    BY DEF Queues
<1> QED BY <1>2, <1>3, <1>4

\* A call of send: some octets of what is left.
Sends(w, piece, r) ==
    /\ out' = Cat(out, piece)
    /\ Left(job[w].calls) = Cat(piece, Left(r))
    /\ job' = [job EXCEPT ![w] = [frame |-> job[w].frame, calls |-> r, begun |-> TRUE]]

LEMMA SendIs ==
    ASSUME Jobs, NEW w \in Writers, Send(w)
    PROVE  \E piece \in Pieces, r \in Queues : Sends(w, piece, r)
<1> DEFINE c == job[w].calls
<1>1. job \in [Writers -> JobTypes] /\ c \in Queues /\ c # <<>>
    BY DEF Jobs, JobTypes, Send
<1>2. PICK k \in Moved(Len(Head(c))) :
          /\ out' = out \o SubSeq(Head(c), 1, k)
          /\ job' = [job EXCEPT ![w].calls = Rest(@, k), ![w].begun = TRUE]
    BY DEF Send
<1>3. Head(c) \in Pieces
  <2>1. (\E a \in Pieces : c = <<a>>) \/ (\E a, b \in Pieces : c = <<a, b>>)
      BY <1>1 DEF Queues
  <2>2. (\A a : Head(<<a>>) = a) /\ (\A a, b : Head(<<a, b>>) = a)
      OBVIOUS
  <2> QED BY <2>1, <2>2
<1>4. k \in 1..Len(Head(c))
  <2>1. PICK n : n = Len(Head(c))
      OBVIOUS
  <2>2. n \in Nat /\ n # 0
      BY <1>3, <2>1, EmptySeq DEF Pieces
  <2> QED BY <1>2, <2>1, <2>2 DEF Moved
<1>5. PICK piece \in Pieces, r \in Queues :
          /\ piece = First(Head(c), k) /\ r = Rest(c, k) /\ Left(c) = Cat(piece, Left(r))
    BY <1>1, <1>4, RestIsLeft
<1>6. out' = Cat(out, piece)
    BY <1>2, <1>5 DEF First, Cat
<1>7. job' = [job EXCEPT ![w] = [frame |-> job[w].frame, calls |-> r, begun |-> TRUE]]
  <2>1. job[w] \in JobTypes
      BY <1>1
  <2>2. job[w] = [frame |-> job[w].frame, calls |-> job[w].calls, begun |-> job[w].begun]
      BY <2>1 DEF JobTypes
  <2>3. PICK one : one = [job EXCEPT ![w].calls = r]
      OBVIOUS
  <2>4. one \in [Writers -> JobTypes] /\ one = [job EXCEPT ![w] = [@ EXCEPT !.calls = r]]
      BY <1>1, <2>1, <2>3 DEF JobTypes
  <2>5. one[w] = [frame |-> job[w].frame, calls |-> r, begun |-> job[w].begun]
      BY <1>1, <2>2, <2>4
  <2>6. job' = [one EXCEPT ![w].begun = TRUE]
      BY <1>2, <1>5, <2>3
  <2>7. job' = [one EXCEPT ![w] = [frame |-> job[w].frame, calls |-> r, begun |-> TRUE]]
    <3>1. job' = [one EXCEPT ![w] = [one[w] EXCEPT !.begun = TRUE]]
        BY <2>6
    <3>2. [one[w] EXCEPT !.begun = TRUE] = [frame |-> job[w].frame, calls |-> r, begun |-> TRUE]
      <4>1. PICK yes : yes = TRUE
          OBVIOUS
      <4>2. [one[w] EXCEPT !.begun = yes] = [frame |-> job[w].frame, calls |-> r, begun |-> yes]
          BY <2>5
      <4> QED BY <4>1, <4>2, Zenon
    <3> QED BY <3>1, <3>2
  <2> QED BY <1>1, <2>4, <2>7
<1> QED BY <1>5, <1>6, <1>7 DEF Sends

LEMMA JobsSet ==
    ASSUME Jobs, NEW w \in Writers, NEW j, IsJob(j), job' = [job EXCEPT ![w] = j],
           out' \in Seq(Nat), out # <<>> => out' # <<>>, j.begun => out' # <<>>,
           w = "caster" /\ j.calls # <<>> => j.frame[1] = 1
    PROVE  Jobs'
<1>1. job \in [Writers -> JobTypes] /\ j \in JobTypes
    BY DEF Jobs, IsJob
<1>2. job' \in [Writers -> JobTypes] /\ job'[w] = j
      /\ \A v \in Writers : v # w => job'[v] = job[v]
    BY <1>1
<1>3. "caster" \in Writers
    BY DEF Writers
<1>4. ASSUME NEW v \in Writers PROVE IsJob(job'[v]) /\ (job'[v].begun => out' # <<>>)
    BY <1>2 DEF Jobs
<1>5. job'["caster"].calls # <<>> => job'["caster"].frame[1] = 1
    BY <1>2, <1>3 DEF Jobs
<1>6. \A v \in Writers : IsJob(job[v])' /\ (job[v].begun' => out' # <<>>)
    BY <1>4 DEF IsJob, Left, Encode, Header, Digits, Cat
<1> QED BY <1>2, <1>5, <1>6 DEF Jobs

LEMMA JobsRest ==
    ASSUME Jobs, UNCHANGED <<job, out>>
    PROVE  Jobs'
BY DEF Jobs

LEMMA JobsClose ==
    ASSUME Jobs, Close
    PROVE  Jobs'
<1>1. job' = [w \in Writers |-> NoJob] /\ out' = out
    BY DEF Close
<1>2. IsJob(NoJob) /\ NoJob.calls = <<>> /\ NoJob.begun = FALSE /\ NoJob \in JobTypes
    BY NoJobIsJob DEF IsJob
<1>3. "caster" \in Writers
    BY DEF Writers
<1> QED BY <1>1, <1>2, <1>3 DEF Jobs

LEMMA JobsInit == Init => Jobs
<1> SUFFICES ASSUME Init PROVE Jobs
    OBVIOUS
<1>1. job = [w \in Writers |-> NoJob] /\ out = <<>>
    BY DEF Init
<1>2. IsJob(NoJob) /\ NoJob.calls = <<>> /\ NoJob.begun = FALSE /\ NoJob \in JobTypes
    BY NoJobIsJob DEF IsJob
<1>3. "caster" \in Writers /\ <<>> \in Seq(Nat)
    BY DEF Writers
<1> QED BY <1>1, <1>2, <1>3 DEF Jobs

LEMMA JobsHandshake ==
    ASSUME Jobs, Handshake
    PROVE  Jobs'
<1>1. CASE Close
    BY <1>1, JobsClose
<1>2. CASE ~Close
  <2>1. job' = [job EXCEPT !["client"] = Response] /\ out' = out
      BY <1>2 DEF Handshake
  <2>2. "client" \in Writers /\ "client" # "caster" /\ out \in Seq(Nat)
      BY DEF Writers, Jobs
  <2> QED BY <2>1, <2>2, ResponseIsJob, JobsSet
<1> QED BY <1>1, <1>2

LEMMA JobsStatus ==
    ASSUME Jobs, SendStatus
    PROVE  Jobs'
<1>1. job' = [job EXCEPT !["client"] = Text(Online)] /\ out' = out
    BY DEF SendStatus
<1>2. "client" \in Writers /\ "client" # "caster" /\ out \in Seq(Nat) /\ Online \in Texts
    BY TextsAssumption DEF Writers, Jobs, Texts
<1> QED BY <1>1, <1>2, TextIsJob, JobsSet

LEMMA JobsBroadcast ==
    ASSUME Jobs, Broadcast
    PROVE  Jobs'
<1>1. job' = [job EXCEPT !["caster"] = Text(Sample)] /\ out' = out
    BY DEF Broadcast
<1>2. "caster" \in Writers /\ out \in Seq(Nat) /\ Sample \in Texts
    BY TextsAssumption DEF Writers, Jobs, Texts
<1> QED BY <1>1, <1>2, TextIsJob, JobsSet

LEMMA JobsPayload ==
    ASSUME Understood, Jobs, ReadPayload
    PROVE  Jobs'
<1> DEFINE p == IF frame.masked THEN Masked(got, frame.mask) ELSE got
<1>1. stage = "payload" /\ Filled /\ out' = out
      /\ \E reply \in Replies(frame.op, p) : job' = [job EXCEPT !["client"] = reply]
    BY DEF ReadPayload
<1>2. p \in Seq(Octet)
  <2>1. p = Current.payload /\ Len(heard) < Len(Frames)
      BY <1>1, PayloadIsRead
  <2>2. Current \in ClientFrames
      BY <1>1, <2>1, CurrentParts
  <2> QED BY <2>1, <2>2, FrameParts
<1> HIDE DEF p
<1>3. PICK reply \in Replies(frame.op, p) : job' = [job EXCEPT !["client"] = reply]
    BY <1>1
<1>4. IsJob(reply) /\ reply.begun = FALSE
    BY <1>2, ReplyIsJob
<1>5. "client" \in Writers /\ "client" # "caster" /\ out \in Seq(Nat)
    BY DEF Writers, Jobs
<1> QED BY <1>1, <1>3, <1>4, <1>5, JobsSet

LEMMA JobsSend ==
    ASSUME Jobs, NEW w \in Writers, Send(w)
    PROVE  Jobs'
<1>1. PICK piece \in Pieces, r \in Queues : Sends(w, piece, r)
    BY SendIs
<1>2. PICK j : j = [frame |-> job[w].frame, calls |-> r, begun |-> TRUE]
    OBVIOUS
<1>3. job' = [job EXCEPT ![w] = j] /\ out' = Cat(out, piece)
    BY <1>1, <1>2 DEF Sends
<1>4. /\ job[w] \in JobTypes /\ IsJob(job[w]) /\ job[w].calls # <<>> /\ out \in Seq(Nat)
      /\ w = "caster" => job[w].frame[1] = 1
    BY DEF Jobs, Send
<1>5. IsJob(j)
  <2>1. j \in JobTypes /\ j.begun /\ j.frame = job[w].frame
      BY <1>2, <1>4 DEF JobTypes
  <2> QED BY <1>4, <2>1 DEF IsJob
<1>6. Cat(out, piece) \in Seq(Nat) /\ Cat(out, piece) # <<>>
  <2>1. PICK s \in Seq(Nat), t \in Seq(Nat) : s = out /\ t = piece /\ t # <<>>
      BY <1>4 DEF Pieces
  <2>2. Cat(s, t) \in Seq(Nat) /\ Len(Cat(s, t)) = Len(s) + Len(t) /\ Len(s) \in Nat /\ Len(t) \in Nat
      BY Joined
  <2>3. Len(t) # 0 /\ Len(<<>>) = 0
      BY <2>1, EmptySeq
  <2>4. Cat(s, t) # <<>>
      BY <2>2, <2>3
  <2> QED BY <2>1, <2>2, <2>4
<1>7. out' \in Seq(Nat) /\ out' # <<>>
    BY <1>3, <1>6
<1>8. w = "caster" /\ j.calls # <<>> => j.frame[1] = 1
    BY <1>2, <1>4
<1> QED BY <1>3, <1>5, <1>7, <1>8, JobsSet

LEMMA JobsSendFails ==
    ASSUME Jobs, NEW w \in Writers, SendFails(w)
    PROVE  Jobs'
<1>1. CASE Close
    BY <1>1, JobsClose
<1>2. CASE ~Close
  <2>1. job' = [job EXCEPT ![w] = NoJob] /\ out' = out
      BY <1>2 DEF SendFails
  <2>2. out \in Seq(Nat)
      BY DEF Jobs
  <2> QED BY <2>1, <2>2, NoJobIsJob, JobsSet
<1> QED BY <1>1, <1>2

LEMMA FirstOf ==
    ASSUME NEW S, NEW s \in Seq(S), s # <<>>, NEW t \in Seq(S)
    PROVE  Cat(s, t)[1] = s[1] /\ Cat(s, t) \in Seq(S) /\ Cat(s, t) # <<>>
<1>1. Len(s) \in Nat /\ Len(t) \in Nat /\ Len(s) # 0
    BY EmptySeq, LenProperties
<1>2. 1 \in 1..Len(s)
    BY <1>1
<1>3. Cat(s, t)[1] = s[1]
  <2>1. \A i \in 1..Len(s) : Cat(s, t)[i] = s[i]
      BY JoinedAt
  <2> QED BY <1>2, <2>1
<1>4. Cat(s, t) \in Seq(S) /\ Len(Cat(s, t)) = Len(s) + Len(t)
    BY Joined
<1>5. Len(<<>>) = 0
    OBVIOUS
<1> QED BY <1>1, <1>3, <1>4, <1>5

LEMMA EncodeIs ==
    ASSUME NEW f \in Sendable
    PROVE  /\ Encode(f) \in Seq(Nat) /\ Encode(f) # <<>> /\ Encode(f)[1] = f[1]
           /\ \/ f = <<Upgrade, <<>>>> /\ Encode(f) = <<Upgrade>>
              \/ f[1] # Upgrade /\ f[1] \in {1, 8, 10} /\ f[2] \in Texts
                 /\ f = <<f[1], f[2]>> /\ Encode(f) = Cat(Header(f[1], Len(f[2])), f[2])
<1>1. CASE f = <<Upgrade, <<>>>>
  <2>1. f[1] = Upgrade /\ Encode(f) = <<Upgrade>>
      BY <1>1 DEF Encode
  <2>2. Upgrade \in Nat
      BY DEF Upgrade
  <2>3. \A n \in Nat : <<n>> \in Seq(Nat) /\ <<n>> # <<>> /\ <<n>>[1] = n
      OBVIOUS
  <2> QED BY <1>1, <2>1, <2>2, <2>3
<1>2. ASSUME NEW op \in {1, 8, 10}, NEW p \in Texts, f = <<op, p>>
      PROVE  /\ Encode(f) \in Seq(Nat) /\ Encode(f) # <<>> /\ Encode(f)[1] = f[1]
             /\ f[1] # Upgrade /\ f[1] \in {1, 8, 10} /\ f[2] \in Texts
             /\ f = <<f[1], f[2]>> /\ Encode(f) = Cat(Header(f[1], Len(f[2])), f[2])
  <2>1. f[1] = op /\ f[2] = p /\ op # Upgrade /\ op \in Nat
      BY <1>2 DEF Upgrade
  <2>2. Encode(f) = Cat(Header(op, Len(p)), p)
      BY <2>1 DEF Encode
  <2>3. PICK n \in Nat, o \in Nat : n = Len(p) /\ o = op /\ n < Limit
      BY <2>1, TextsAreNat
  <2>4. PICK h \in Seq(Nat) : h = Header(o, n) /\ h # <<>> /\ h[1] = o
    <3>1. PICK h : h = Header(o, n)
        OBVIOUS
    <3>2. h \in Seq(Nat) /\ h # <<>>
        BY <2>3, <3>1, HeaderIsSeq
    <3>3. h[1] = o
        BY <2>3, <3>1, HeaderFacts DEF IsHeader
    <3> QED BY <3>1, <3>2, <3>3
  <2>5. PICK s \in Seq(Nat) : s = p
      BY TextsAreNat
  <2>6. Cat(h, s)[1] = h[1] /\ Cat(h, s) \in Seq(Nat) /\ Cat(h, s) # <<>>
      BY <2>4, FirstOf
  <2> QED BY <1>2, <2>1, <2>2, <2>3, <2>4, <2>5, <2>6
<1>3. f = <<Upgrade, <<>>>> \/ \E op \in {1, 8, 10}, p \in Texts : f = <<op, p>>
    BY DEF Sendable
<1> QED BY <1>1, <1>2, <1>3

\* A job that has not been begun begins with the opcode of its frame.
LEMMA BeginsWithOpcode ==
    ASSUME Jobs, NEW w \in Writers, job[w].calls # <<>>, ~job[w].begun,
           NEW piece \in Pieces, NEW r \in Queues, Left(job[w].calls) = Cat(piece, Left(r))
    PROVE  piece[1] = job[w].frame[1] /\ job[w].frame \in Sendable
           /\ Encode(job[w].frame) = Cat(piece, Left(r))
<1>1. IsJob(job[w])
    BY DEF Jobs
<1>2. job[w].frame \in Sendable /\ Left(job[w].calls) = Encode(job[w].frame)
    BY <1>1 DEF IsJob
<1>3. Encode(job[w].frame)[1] = job[w].frame[1]
    BY <1>2, EncodeIs
<1>4. PICK s \in Seq(Nat), t \in Seq(Nat) : s = piece /\ t = Left(r) /\ s # <<>>
    BY LeftIsSeq DEF Pieces
<1>5. Cat(s, t)[1] = s[1]
    BY <1>4, FirstOf
<1> QED BY <1>2, <1>3, <1>4, <1>5

LEMMA OpeningSend ==
    ASSUME Jobs, Opening, NEW w \in Writers, Send(w)
    PROVE  Opening'
<1> SUFFICES ASSUME stage = "http"
             PROVE  job'["client"].calls = <<>> /\ (out' = <<>> \/ out'[1] = 1)
    BY DEF Opening, Send, readVars
<1>1. job["client"].calls = <<>> /\ (out = <<>> \/ out[1] = 1) /\ job[w].calls # <<>>
    BY DEF Opening, Send
<1>2. w = "caster"
    BY <1>1 DEF Writers
<1>3. PICK piece \in Pieces, r \in Queues : Sends(w, piece, r)
    BY SendIs
<1>4. job'["client"].calls = <<>>
  <2>1. job \in [Writers -> JobTypes] /\ "client" \in Writers /\ "client" # w
      BY <1>2 DEF Jobs, Writers
  <2> QED BY <1>1, <1>3, <2>1 DEF Sends
<1>5. PICK s \in Seq(Nat), t \in Seq(Nat) : s = out /\ t = piece
    BY DEF Jobs, Pieces
<1>6. out' = Cat(s, t)
    BY <1>3, <1>5 DEF Sends
<1>7. CASE out = <<>>
  <2>1. ~job[w].begun
      BY <1>7 DEF Jobs
  <2>2. t[1] = 1
    <3>1. job[w].frame[1] = 1
        BY <1>1, <1>2 DEF Jobs
    <3>2. piece[1] = job[w].frame[1]
        BY <1>1, <1>3, <2>1, BeginsWithOpcode DEF Sends
    <3> QED BY <1>5, <3>1, <3>2
  <2>3. Cat(<<>>, t) = t
      BY Joined
  <2> QED BY <1>4, <1>5, <1>6, <1>7, <2>2, <2>3
<1>8. CASE out # <<>>
  <2>1. Cat(s, t)[1] = s[1]
      BY <1>5, <1>8, FirstOf
  <2> QED BY <1>1, <1>4, <1>5, <1>6, <1>8, <2>1
<1> QED BY <1>7, <1>8

\* Every step but a send leaves a client that has not been answered as it is.
LEMMA OpeningRest ==
    ASSUME Opening, out' = out,
           stage' = "http" => stage = "http" /\ job'["client"].calls = job["client"].calls
    PROVE  Opening'
BY DEF Opening

LEMMA CloseIsNoOpening ==
    ASSUME Close
    PROVE  Opening'
BY DEF Close, Opening

LEMMA ReadsInit == Init => Reads
<1> SUFFICES ASSUME Init PROVE Reads
    OBVIOUS
<1>1. Opening
  <2>1. job = [w \in Writers |-> NoJob] /\ out = <<>> /\ "client" \in Writers
      BY DEF Init, Writers
  <2> QED BY <2>1, NoJobIsJob DEF Opening
<1> QED BY <1>1, UnderstoodInit, JobsInit DEF Reads

LEMMA ReadsNext == Reads /\ [Next]_vars => Reads'
<1> SUFFICES ASSUME Reads, [Next]_vars PROVE Reads'
    OBVIOUS
<1> USE DEF Reads
<1>1. CASE Ask
  <2>1. stage # "http"
      BY <1>1 DEF Ask, Opening, Upgrade
  <2>2. UNCHANGED <<job, out, stage>>
      BY <1>1 DEF Ask, outVars, readVars
  <2> QED BY <1>1, <2>1, <2>2, UnderstoodAsk, JobsRest, OpeningRest
<1>2. CASE HangUp
    BY <1>2, UnderstoodRest, JobsRest, OpeningRest DEF HangUp, outVars, readVars
<1>3. CASE Recv
  <2>1. UNCHANGED <<job, out, stage>>
      BY <1>3 DEF Recv, outVars
  <2> QED BY <1>3, <2>1, UnderstoodRecv, JobsRest, OpeningRest
<1>4. CASE RecvFails
    BY <1>4, UnderstoodClose, JobsClose, CloseIsNoOpening DEF RecvFails, inVars
<1>5. CASE Handshake
  <2>1. CASE Close
      BY <1>5, <2>1, UnderstoodHandshake, JobsHandshake, CloseIsNoOpening
  <2>2. CASE ~Close
    <3>1. stage' = "status" /\ out' = out
        BY <1>5, <2>2 DEF Handshake
    <3> QED BY <1>5, <3>1, UnderstoodHandshake, JobsHandshake, OpeningRest
  <2> QED BY <2>1, <2>2
<1>6. CASE SendStatus
  <2>1. stage' = "header" /\ out' = out
      BY <1>6 DEF SendStatus
  <2> QED BY <1>6, <2>1, UnderstoodStatus, JobsStatus, OpeningRest
<1>7. ASSUME NEW h, Sized(h), ~Close
      PROVE  UNCHANGED <<job, out>> /\ stage' # "http"
    BY <1>7 DEF Sized, outVars
<1>8. CASE ReadHeader
  <2>1. CASE Close
      BY <1>8, <2>1, UnderstoodHeader, JobsClose, CloseIsNoOpening
  <2>2. CASE ~Close
    <3>1. UNCHANGED <<job, out>> /\ stage' # "http"
        BY <1>7, <1>8, <2>2 DEF ReadHeader, outVars
    <3> QED BY <1>8, <3>1, UnderstoodHeader, JobsRest, OpeningRest
  <2> QED BY <2>1, <2>2
<1>9. CASE ReadLength
  <2>1. CASE Close
      BY <1>9, <2>1, UnderstoodLength, JobsClose, CloseIsNoOpening
  <2>2. CASE ~Close
    <3>1. UNCHANGED <<job, out>> /\ stage' # "http"
        BY <1>7, <1>9, <2>2 DEF ReadLength
    <3> QED BY <1>9, <3>1, UnderstoodLength, JobsRest, OpeningRest
  <2> QED BY <2>1, <2>2
<1>10. CASE ReadMask
  <2>1. UNCHANGED <<job, out>> /\ stage' # "http"
      BY <1>10 DEF ReadMask, outVars
  <2> QED BY <1>10, <2>1, UnderstoodMask, JobsRest, OpeningRest
<1>11. CASE ReadPayload
  <2>1. out' = out /\ stage' # "http"
      BY <1>11 DEF ReadPayload, NextStage
  <2> QED BY <1>11, <2>1, UnderstoodPayload, JobsPayload, OpeningRest
<1>12. CASE NoMemory
    BY <1>12, UnderstoodClose, JobsClose, CloseIsNoOpening DEF NoMemory, inVars
<1>13. CASE Bye
    BY <1>13, UnderstoodClose, JobsClose, CloseIsNoOpening DEF Bye, inVars
<1>14. CASE Broadcast
  <2>1. UNCHANGED <<exchange, asking, inbox, open, readVars, out, stage>>
      BY <1>14 DEF Broadcast, inVars, readVars
  <2>2. job'["client"] = job["client"]
    <3>1. job \in [Writers -> JobTypes] /\ "client" \in Writers /\ "client" # "caster"
        BY DEF Jobs, Writers
    <3> QED BY <1>14, <3>1 DEF Broadcast
  <2> QED BY <1>14, <2>1, <2>2, UnderstoodRest, JobsBroadcast, OpeningRest
<1>15. ASSUME NEW w \in Writers, Send(w) PROVE Reads'
  <2>1. UNCHANGED <<exchange, asking, inbox, open, readVars>>
      BY <1>15 DEF Send, inVars
  <2> QED BY <1>15, <2>1, UnderstoodRest, JobsSend, OpeningSend
<1>16. ASSUME NEW w \in Writers, SendFails(w) PROVE Reads'
  <2>1. CASE Close
      BY <1>16, <2>1, UnderstoodClose, JobsSendFails, CloseIsNoOpening DEF SendFails, inVars
  <2>2. CASE ~Close
    <3>1. /\ UNCHANGED <<exchange, asking, inbox, open, readVars, out, stage>>
          /\ job' = [job EXCEPT ![w] = NoJob]
        BY <1>16, <2>2 DEF SendFails, inVars, readVars
    <3>2. stage = "http" => job'["client"].calls = job["client"].calls
      <4>1. job \in [Writers -> JobTypes] /\ "client" \in Writers
          BY DEF Jobs, Writers
      <4> QED BY <3>1, <4>1, NoJobIsJob DEF Opening
    <3> QED BY <1>16, <3>1, <3>2, UnderstoodRest, JobsSendFails, OpeningRest
  <2> QED BY <2>1, <2>2
<1>17. CASE UNCHANGED vars
  <2>1. UNCHANGED <<exchange, asking, inbox, open, readVars, job, out, stage>>
      BY <1>17 DEF vars, inVars, readVars, outVars
  <2> QED BY <2>1, UnderstoodRest, JobsRest, OpeningRest
<1> QED
  BY <1>1, <1>2, <1>3, <1>4, <1>5, <1>6, <1>8, <1>9, <1>10, <1>11, <1>12, <1>13, <1>14, <1>15,
     <1>16, <1>17
  DEF Next, Client, Done

\* However TCP cuts the octets of a client, and whatever the other threads do, what
\* ws_recv_frame returns is what the client has sent: frame by frame, unmasked, and
\* with the length it was given in any of the three forms.
THEOREM FramesAreUnderstood == Spec => []RequestsAreUnderstood
<1>1. ASSUME Reads PROVE RequestsAreUnderstood
  <2> DEFINE sent == [i \in DOMAIN Frames |-> <<Frames[i].op, Frames[i].payload>>]
  <2>1. exchange \in DOMAIN Exchanges /\ HeardSoFar
      BY <1>1 DEF Reads, Understood, ReadTypes
  <2>2. Len(Frames) \in Nat /\ DOMAIN Frames = 1..Len(Frames)
      BY <2>1, FramesAre, LenProperties
  <2>3. Len(heard) \in Nat /\ Len(heard) <= Len(Frames) /\ heard \in Seq(Octet \X Seq(Octet))
        /\ \A i \in 1..Len(heard) : heard[i] = <<Frames[i].op, Frames[i].payload>>
      BY <2>1, LenProperties DEF HeardSoFar
  <2>4. \A i \in 1..Len(heard) : heard[i] = sent[i]
    <3>1. 1..Len(heard) \subseteq DOMAIN Frames
        BY <2>2, <2>3
    <3> QED BY <2>3, <3>1
  <2>5. Len(sent) = Len(Frames) /\ DOMAIN sent = 1..Len(Frames)
      BY <2>2
  <2> HIDE DEF sent
  <2>6. IsPrefix(heard, sent)
      BY <2>3, <2>4, <2>5 DEF IsPrefix
  <2> QED BY <2>6 DEF RequestsAreUnderstood, sent
<1> QED BY <1>1, ReadsInit, ReadsNext, PTL DEF Spec

-----------------------------------------------------------------------------
(* Frames in the octets a client is sent.                                  *)

\* Octets that are k further on.
LEMMA SameSub ==
    ASSUME NEW S, NEW s, NEW t, NEW m \in Int, NEW n \in Int, NEW k \in Int,
           \A i \in m..n : s[i] \in S /\ t[k + i] = s[i]
    PROVE  SubSeq(t, k + m, k + n) = SubSeq(s, m, n)
<1>1. /\ SubSeq(s, m, n) \in Seq(S)
      /\ Len(SubSeq(s, m, n)) = IF m <= n THEN n - m + 1 ELSE 0
      /\ \A i \in 1..n - m + 1 : SubSeq(s, m, n)[i] = s[m + i - 1]
    BY SubSeqProperties
<1>2. PICK a \in Int, b \in Int : a = k + m /\ b = k + n
    OBVIOUS
<1>3. \A j \in a..b : t[j] \in S
  <2> SUFFICES ASSUME NEW j \in a..b PROVE t[j] \in S
      OBVIOUS
  <2>1. j - k \in m..n /\ k + (j - k) = j
      BY <1>2
  <2> QED BY <2>1
<1>4. /\ SubSeq(t, a, b) \in Seq(S)
      /\ Len(SubSeq(t, a, b)) = IF a <= b THEN b - a + 1 ELSE 0
      /\ \A i \in 1..b - a + 1 : SubSeq(t, a, b)[i] = t[a + i - 1]
    BY <1>3, SubSeqProperties
<1>5. PICK x \in Seq(S), y \in Seq(S) : x = SubSeq(s, m, n) /\ y = SubSeq(t, a, b)
    BY <1>1, <1>4
<1>6. Len(x) = Len(y) /\ \A i \in 1..Len(x) : i \in 1..n - m + 1 /\ i \in 1..b - a + 1
    BY <1>1, <1>2, <1>4, <1>5
<1>7. ASSUME NEW i \in 1..Len(x) PROVE x[i] = y[i]
  <2>1. x[i] = s[m + i - 1] /\ y[i] = t[a + i - 1]
      BY <1>1, <1>4, <1>5, <1>6
  <2>2. m + i - 1 \in m..n /\ k + (m + i - 1) = a + i - 1
      BY <1>2, <1>6
  <2>3. t[k + (m + i - 1)] = s[m + i - 1]
      BY <2>2
  <2> QED BY <2>1, <2>2, <2>3
<1>8. x = y
    BY <1>6, <1>7, SeqEqual
<1> QED BY <1>2, <1>5, <1>8

LEMMA SameHere ==
    ASSUME NEW S, NEW s, NEW t, NEW m \in Int, NEW n \in Int,
           \A i \in m..n : s[i] \in S /\ t[i] = s[i]
    PROVE  SubSeq(t, m, n) = SubSeq(s, m, n)
<1>1. \A i \in m..n : s[i] \in S /\ t[0 + i] = s[i]
    OBVIOUS
<1>2. 0 \in Int /\ 0 + m = m /\ 0 + n = n
    OBVIOUS
<1>3. SubSeq(t, 0 + m, 0 + n) = SubSeq(s, m, n)
    BY <1>1, <1>2, SameSub
<1> QED BY <1>2, <1>3

\* What is sent later does not change the frames there are.
LEMMA StaysWhole ==
    ASSUME NEW s \in Seq(Nat), NEW t \in Seq(Nat), NEW p \in Nat, IsWhole(s, p)
    PROVE  /\ IsWhole(Cat(s, t), p) /\ FrameEnd(Cat(s, t), p) = FrameEnd(s, p)
           /\ FrameAt(Cat(s, t), p) = FrameAt(s, p)
           /\ FrameEnd(s, p) <= Len(s)
<1> DEFINE u == Cat(s, t)
           x == ExtraDigits(s[p + 2])
<1>1. u \in Seq(Nat) /\ Len(u) = Len(s) + Len(t) /\ Len(s) \in Nat /\ Len(t) \in Nat
    BY Joined
<1>2. \A i \in 1..Len(s) : u[i] = s[i] /\ s[i] \in Nat
    BY JoinedAt, ElementOfSeq
<1>3. p + 2 <= Len(s) /\ HeaderEnd(s, p) <= Len(s) /\ FrameEnd(s, p) <= Len(s)
    BY DEF IsWhole
<1> HIDE DEF u
<1>4. u[p + 1] = s[p + 1] /\ u[p + 2] = s[p + 2] /\ s[p + 2] \in Nat
  <2>1. p + 1 \in 1..Len(s) /\ p + 2 \in 1..Len(s)
      BY <1>1, <1>3
  <2> QED BY <1>2, <2>1
<1>5. x \in {0, 2, 3}
    BY DEF ExtraDigits
<1>6. HeaderEnd(s, p) = p + 2 + x /\ HeaderEnd(u, p) = p + 2 + x
    BY <1>4 DEF HeaderEnd
<1> HIDE DEF x
<1>7. PICK e \in Nat : e = p + 2 + x /\ e <= Len(s)
    BY <1>3, <1>5, <1>6
<1>8. ASSUME NEW m \in Int, NEW n \in Int, 1 <= m, n <= Len(s)
      PROVE  SubSeq(u, m, n) = SubSeq(s, m, n)
  <2>1. \A i \in m..n : s[i] \in Nat /\ u[i] = s[i]
    <3>1. \A i \in m..n : i \in 1..Len(s)
        BY <1>1, <1>8
    <3> QED BY <1>2, <3>1
  <2> QED BY <2>1, SameHere
<1>9. SubSeq(u, p + 3, e) = SubSeq(s, p + 3, e)
  <2>1. PICK m \in Int, n \in Int : m = p + 3 /\ n = e /\ 1 <= m /\ n <= Len(s)
      BY <1>7
  <2>2. SubSeq(u, m, n) = SubSeq(s, m, n)
      BY <1>8, <2>1
  <2> QED BY <2>1, <2>2
<1>0. FrameEnd(s, p) \in Int
  <2>1. CASE x = 0
      BY <1>4, <1>6, <1>7, <2>1 DEF FrameEnd, x
  <2>2. CASE x # 0
    <3>1. e - (p + 3) + 1 \in 2..3
        BY <1>5, <1>7, <2>2
    <3>2. PICK d : d = SubSeq(s, p + 3, e)
        OBVIOUS
    <3>3. d \in Seq(Nat) /\ Len(d) = e - (p + 3) + 1
      <4>1. \A i \in p + 3..e : s[i] \in Nat
          BY <1>1, <1>2, <1>7
      <4>2. PICK a \in Int : a = p + 3 /\ a <= e
          BY <3>1
      <4> QED BY <3>2, <4>1, <4>2, SubSeqProperties
    <3>4. Number(d) \in Int
      <4>1. Base \in Nat
          BY WidthAssumption
      <4>2. \A i \in 1..Len(d) : d[i] \in Nat
          BY <3>3, ElementOfSeq
      <4>3. d[1] \in Nat /\ d[2] \in Nat /\ (Len(d) # 2 => d[3] \in Nat)
          BY <3>1, <3>3, <4>2
      <4>4. PICK y \in Nat, z \in Nat : y = d[1] /\ z = d[2]
          BY <4>3
      <4>5. y * Base + z \in Nat
        <5>1. y * Base \in Nat
            BY <4>1
        <5> QED BY <5>1
      <4>6. Len(d) = 2 => Number(d) = y * Base + z
          BY <4>4 DEF Number
      <4>7. Len(d) # 2 => Number(d) = (y * Base + z) * Base + d[3]
          BY <4>4 DEF Number
      <4>8. (y * Base + z) * Base \in Nat
          BY <4>1, <4>5
      <4> QED BY <4>3, <4>5, <4>6, <4>7, <4>8
    <3>5. FrameEnd(s, p) = e + Number(d)
        BY <1>6, <1>7, <2>2, <3>2 DEF FrameEnd, x
    <3> QED BY <3>4, <3>5
  <2> QED BY <2>1, <2>2
<1>10. FrameEnd(u, p) = FrameEnd(s, p)
    BY <1>4, <1>6, <1>7, <1>9 DEF FrameEnd
<1>11. FrameAt(u, p) = FrameAt(s, p)
  <2>1. PICK f : f = FrameEnd(s, p)
      OBVIOUS
  <2>2. SubSeq(u, e + 1, f) = SubSeq(s, e + 1, f)
    <3>1. f \in Int
        BY <1>0, <2>1
    <3>2. PICK m \in Int, n \in Int : m = e + 1 /\ n = f /\ 1 <= m /\ n <= Len(s)
        BY <1>3, <1>7, <2>1, <3>1
    <3>3. SubSeq(u, m, n) = SubSeq(s, m, n)
        BY <1>8, <3>2
    <3> QED BY <3>2, <3>3
  <2> QED BY <1>4, <1>6, <1>7, <1>10, <2>1, <2>2 DEF FrameAt
<1>12. IsWhole(u, p)
  <2>1. p + 2 <= Len(u)
      BY <1>1, <1>3
  <2>2. HeaderEnd(u, p) <= Len(u)
      BY <1>1, <1>6, <1>7
  <2>3. FrameEnd(u, p) <= Len(u)
    <3>1. PICK f \in Int : f = FrameEnd(s, p)
        BY <1>0
    <3> QED BY <1>1, <1>3, <1>10, <3>1
  <2> QED BY <2>1, <2>2, <2>3 DEF IsWhole
<1> QED BY <1>3, <1>10, <1>11, <1>12 DEF u

Frame == {f \in Sendable : f[1] # Upgrade}

\* The octets of t behind those of s.
LEMMA SubBehind ==
    ASSUME NEW s \in Seq(Nat), NEW t \in Seq(Nat), NEW m \in Int, NEW n \in Int, 1 <= m, n <= Len(t)
    PROVE  SubSeq(Cat(s, t), Len(s) + m, Len(s) + n) = SubSeq(t, m, n)
<1>1. Len(s) \in Int /\ Len(t) \in Nat
    BY LenProperties
<1>2. \A i \in 1..Len(t) : Cat(s, t)[Len(s) + i] = t[i] /\ t[i] \in Nat
    BY JoinedAt, ElementOfSeq
<1>3. m..n \subseteq 1..Len(t)
    BY <1>1
<1>4. PICK u : u = Cat(s, t)
    OBVIOUS
<1>7. PICK k \in Int : k = Len(s)
    BY <1>1
<1>5. \A i \in m..n : t[i] \in Nat /\ u[k + i] = t[i]
    BY <1>2, <1>3, <1>4, <1>7
<1>6. SubSeq(u, k + m, k + n) = SubSeq(t, m, n)
    BY <1>5, SameSub
<1> QED BY <1>4, <1>6, <1>7

\* A frame that is sent in full is read as what it is.
LEMMA OneFrame ==
    ASSUME NEW s \in Seq(Nat), NEW f \in Frame
    PROVE  /\ IsWhole(Cat(s, Encode(f)), Len(s))
           /\ FrameEnd(Cat(s, Encode(f)), Len(s)) = Len(Cat(s, Encode(f)))
           /\ FrameAt(Cat(s, Encode(f)), Len(s)) = f
<1>1. PICK op \in Nat, p \in Seq(Nat) : f = <<op, p>> /\ p \in Texts
                                         /\ Encode(f) = Cat(Header(op, Len(p)), p)
  <2>1. f \in Sendable /\ f[1] # Upgrade
      BY DEF Frame
  <2>2. f[1] \in {1, 8, 10} /\ f[2] \in Texts
        /\ f = <<f[1], f[2]>> /\ Encode(f) = Cat(Header(f[1], Len(f[2])), f[2])
    <3>1. ~(f = <<Upgrade, <<>>>>)
        BY <2>1
    <3> QED BY <2>1, <3>1, EncodeIs
  <2>3. f[1] \in Nat /\ f[2] \in Seq(Nat)
      BY <2>2, TextsAreNat
  <2> QED BY <2>2, <2>3
<1>2. PICK n \in Nat : n = Len(p) /\ n < Limit
    BY <1>1, TextsAreNat
<1>3. PICK h : h = Header(op, n)
    OBVIOUS
<1>18. IsHeader(h, op, n)
    BY <1>2, <1>3, HeaderFacts
<1>4. /\ h \in Seq(Nat) /\ h[1] = op /\ h[2] \in Nat
      /\ Len(h) = 2 + ExtraDigits(h[2])
    BY <1>18 DEF IsHeader
<1>5. /\ ExtraDigits(h[2]) = 0 => h[2] = n
      /\ ExtraDigits(h[2]) # 0 => Number(Others(h, 2)) = n
    BY <1>18 DEF IsHeader
<1>6. PICK x \in {0, 2, 3} : x = ExtraDigits(h[2])
    BY DEF ExtraDigits
<1>7. PICK u \in Seq(Nat) : u = Cat(h, p)
    BY <1>4, Joined
<1>16. \A i \in 1..Len(h) : u[i] = h[i] /\ h[i] \in Nat
  <2>1. PICK y \in Seq(Nat), z \in Seq(Nat) : y = h /\ z = p
      BY <1>1, <1>4
  <2>2. \A i \in 1..Len(y) : Cat(y, z)[i] = y[i] /\ y[i] \in Nat
      BY OctetsJoinedAt
  <2> QED BY <1>7, <2>1, <2>2
<1>8. PICK t \in Seq(Nat) : t = Cat(s, u)
    BY Joined
<1>17. ASSUME NEW m \in Int, NEW k \in Int, 1 <= m, k <= Len(u)
       PROVE  SubSeq(t, Len(s) + m, Len(s) + k) = SubSeq(u, m, k)
  <2>1. SubSeq(Cat(s, u), Len(s) + m, Len(s) + k) = SubSeq(u, m, k)
    <3>1. u \in Seq(Nat)
        BY <1>7
    <3> QED BY <3>1, <1>17, SubBehind, ZenonT(30)
  <2> QED BY <1>8, <2>1
<1>9. Len(s) \in Nat /\ Len(u) = 2 + x + n /\ Len(t) = Len(s) + (2 + x + n)
  <2>1. Len(u) = Len(h) + Len(p) /\ Len(h) \in Nat
      BY <1>4, <1>7, Joined
  <2>2. Len(t) = Len(s) + Len(u) /\ Len(s) \in Nat
      BY <1>8, Joined
  <2> QED BY <1>2, <1>4, <1>6, <2>1, <2>2
<1>10. u[1] = op /\ u[2] = h[2]
  <2>1. \A i \in 1..Len(h) : u[i] = h[i]
      BY <1>16
  <2>2. PICK m \in Nat : m = Len(h) /\ m = 2 + x
      BY <1>4, <1>6
  <2>3. 1 \in 1..m /\ 2 \in 1..m
      BY <2>2
  <2> QED BY <1>4, <2>1, <2>2, <2>3
<1>11. t[Len(s) + 1] = op /\ t[Len(s) + 2] = h[2]
  <2>1. \A i \in 1..Len(u) : t[Len(s) + i] = u[i]
    <3>1. \A i \in 1..Len(u) : Cat(s, u)[Len(s) + i] = u[i]
      <4>1. u \in Seq(Nat)
          BY <1>7
      <4> QED BY <4>1, JoinedAt, SMTT(30)
    <3> QED BY <1>8, <3>1
  <2>2. 1 \in 1..Len(u) /\ 2 \in 1..Len(u)
      BY <1>9
  <2>3. t[Len(s) + 1] = u[1] /\ t[Len(s) + 2] = u[2]
      BY <2>1, <2>2
  <2> QED BY <1>10, <2>3
<1>12. HeaderEnd(t, Len(s)) = Len(s) + (2 + x)
    BY <1>6, <1>9, <1>11 DEF HeaderEnd
<1>13. FrameEnd(t, Len(s)) = Len(s) + (2 + x + n)
  <2>1. CASE x = 0
    <3>1. ExtraDigits(t[Len(s) + 2]) = 0 /\ t[Len(s) + 2] = n
        BY <1>5, <1>6, <1>11, <2>1
    <3>2. FrameEnd(t, Len(s)) = HeaderEnd(t, Len(s)) + n
        BY <3>1 DEF FrameEnd
    <3> QED BY <1>9, <1>12, <2>1, <3>2
  <2>2. CASE x # 0
    <3>1. Number(Others(h, 2)) = n
        BY <1>5, <1>6, <2>2
    <3>2. PICK a \in Int, b \in Int : a = 3 /\ b = 2 + x /\ 1 <= a /\ b <= Len(u)
        BY <1>9
    <3>3. SubSeq(t, Len(s) + a, Len(s) + b) = SubSeq(u, a, b)
        BY <1>17, <3>2
    <3>4. SubSeq(u, a, b) = SubSeq(h, a, b)
      <4>1. \A i \in 1..Len(h) : u[i] = h[i] /\ h[i] \in Nat
          BY <1>16
      <4>2. \A i \in a..b : h[i] \in Nat /\ u[0 + i] = h[i]
          BY <1>4, <1>6, <3>2, <4>1
      <4>3. SubSeq(u, 0 + a, 0 + b) = SubSeq(h, a, b)
          BY <4>2, SameSub
      <4> QED BY <4>3
    <3>5. SubSeq(h, a, b) = Others(h, 2)
        BY <1>4, <1>6, <3>2 DEF Others
    <3>6. Number(SubSeq(t, Len(s) + 3, HeaderEnd(t, Len(s)))) = n
        BY <1>12, <3>1, <3>2, <3>3, <3>4, <3>5
    <3> QED BY <1>2, <1>6, <1>9, <1>11, <1>12, <2>2, <3>6 DEF FrameEnd
  <2> QED BY <2>1, <2>2
<1>14. FrameAt(t, Len(s)) = <<op, p>>
  <2>1. PICK a \in Int, b \in Int : a = 2 + x + 1 /\ b = Len(u) /\ 1 <= a /\ b <= Len(u)
      BY <1>9
  <2>2. SubSeq(t, Len(s) + a, Len(s) + b) = SubSeq(u, a, b)
      BY <1>17, <2>1
  <2>3. SubSeq(u, a, b) = p
    <3>1. Others(u, Len(h)) = p
        BY <1>4, <1>7, Rejoined
    <3> QED BY <1>4, <1>6, <2>1, <3>1 DEF Others
  <2>4. HeaderEnd(t, Len(s)) + 1 = Len(s) + a /\ FrameEnd(t, Len(s)) = Len(s) + b
      BY <1>9, <1>12, <1>13, <2>1
  <2> QED BY <1>11, <2>2, <2>3, <2>4 DEF FrameAt
<1>15. IsWhole(t, Len(s))
  <2>1. Len(s) + 2 <= Len(t) /\ HeaderEnd(t, Len(s)) <= Len(t) /\ FrameEnd(t, Len(s)) <= Len(t)
      BY <1>9, <1>12, <1>13
  <2> QED BY <2>1 DEF IsWhole
<1>19. t = Cat(s, Encode(f)) /\ Len(t) = FrameEnd(t, Len(s)) /\ f = <<op, p>>
    BY <1>1, <1>2, <1>3, <1>7, <1>8, <1>9, <1>13
<1> QED BY <1>14, <1>15, <1>19

\* A frame that is sent in part is not read.
LEMMA PartIsNotRead ==
    ASSUME NEW s \in Seq(Nat), NEW f \in Frame, NEW a \in Seq(Nat), NEW r \in Pieces,
           Encode(f) = Cat(a, r)
    PROVE  ~IsWhole(Cat(s, a), Len(s))
<1> SUFFICES ASSUME IsWhole(Cat(s, a), Len(s)) PROVE FALSE
    OBVIOUS
<1>1. PICK t \in Seq(Nat), q \in Seq(Nat) : t = Cat(s, a) /\ q = r /\ q # <<>>
    BY Joined DEF Pieces
<1>2. PICK n \in Nat : n = Len(s)
    BY LenProperties
<1>3. FrameEnd(Cat(t, q), n) = FrameEnd(t, n) /\ FrameEnd(t, n) <= Len(t)
    BY <1>1, <1>2, StaysWhole
<1>4. Cat(t, q) = Cat(s, Encode(f))
  <2>1. Cat(Cat(s, a), q) = Cat(s, Cat(a, q))
      BY Assoc
  <2> QED BY <1>1, <2>1
<1>5. FrameEnd(Cat(t, q), n) = Len(Cat(t, q))
    BY <1>2, <1>4, OneFrame
<1>6. Len(Cat(t, q)) = Len(t) + Len(q) /\ Len(t) \in Nat /\ Len(q) \in Nat
    BY Joined
<1>7. Len(q) # 0
    BY <1>1, EmptySeq
<1> QED BY <1>3, <1>5, <1>6, <1>7

-----------------------------------------------------------------------------
(* The frames of a stream.                                                 *)

\* The frames fs are in s, one behind the other: the response, and behind c[i] octets
\* the next one.
Marks(s, fs, c) ==
    /\ fs \in Seq(Sendable) /\ fs # <<>> /\ s # <<>>
    /\ c \in [1..Len(fs) -> Nat] /\ c[1] = 1 /\ fs[1] = <<s[1], <<>>>>
    /\ \A i \in 1..Len(fs) : i <= c[i] /\ c[i] <= Len(s)
    /\ \A i \in 1..Len(fs) - 1 :
          IsWhole(s, c[i]) /\ c[i + 1] = FrameEnd(s, c[i]) /\ fs[i + 1] = FrameAt(s, c[i])

LEMMA MarksStay ==
    ASSUME NEW s \in Seq(Nat), NEW t \in Seq(Nat), NEW fs, NEW c, Marks(s, fs, c)
    PROVE  Marks(Cat(s, t), fs, c)
<1>1. PICK u \in Seq(Nat) : u = Cat(s, t)
    BY Joined
<1>2. Len(u) = Len(s) + Len(t) /\ Len(s) \in Nat /\ Len(t) \in Nat
    BY <1>1, Joined
<1>3. u # <<>> /\ u[1] = s[1]
    BY <1>1, FirstOf DEF Marks
<1>4. fs \in Seq(Sendable) /\ Len(fs) \in Nat /\ c \in [1..Len(fs) -> Nat]
    BY LenProperties DEF Marks
<1>5. ASSUME NEW i \in 1..Len(fs) PROVE i <= c[i] /\ c[i] <= Len(u)
  <2>1. i <= c[i] /\ c[i] <= Len(s) /\ c[i] \in Nat
      BY <1>4 DEF Marks
  <2>2. PICK k \in Nat : k = c[i]
      BY <2>1
  <2> QED BY <1>2, <2>1, <2>2
<1>6. ASSUME NEW i \in 1..Len(fs) - 1
      PROVE  IsWhole(u, c[i]) /\ c[i + 1] = FrameEnd(u, c[i]) /\ fs[i + 1] = FrameAt(u, c[i])
  <2>1. PICK p \in Nat : p = c[i]
    <3>1. i \in 1..Len(fs)
        BY <1>4
    <3> QED BY <1>4, <3>1
  <2>2. IsWhole(s, p) /\ c[i + 1] = FrameEnd(s, p) /\ fs[i + 1] = FrameAt(s, p)
      BY <2>1 DEF Marks
  <2>3. /\ IsWhole(Cat(s, t), p) /\ FrameEnd(Cat(s, t), p) = FrameEnd(s, p)
        /\ FrameAt(Cat(s, t), p) = FrameAt(s, p)
      BY <2>2, StaysWhole
  <2> QED BY <1>1, <2>1, <2>2, <2>3
<1>7. Marks(u, fs, c)
    BY <1>3, <1>4, <1>5, <1>6 DEF Marks
<1> QED BY <1>1, <1>7

\* s is the frames fs and nothing else.
Whole(s, fs) == \E c : Marks(s, fs, c) /\ c[Len(fs)] = Len(s)

LEMMA WholeAndOne ==
    ASSUME NEW s \in Seq(Nat), NEW fs, Whole(s, fs), NEW f \in Frame
    PROVE  Whole(Cat(s, Encode(f)), Append(fs, f))
<1>1. PICK c : Marks(s, fs, c) /\ c[Len(fs)] = Len(s)
    BY DEF Whole
<1>2. Encode(f) \in Seq(Nat) /\ f \in Sendable /\ Encode(f) # <<>>
    BY EncodeIs DEF Frame
<1>3. PICK e \in Seq(Nat) : e = Encode(f) /\ e # <<>>
    BY <1>2
<1>4. PICK u \in Seq(Nat) : u = Cat(s, e)
    BY Joined
<1>5. Marks(u, fs, c)
    BY <1>1, <1>3, <1>4, MarksStay
<1>6. IsWhole(u, Len(s)) /\ FrameEnd(u, Len(s)) = Len(u) /\ FrameAt(u, Len(s)) = f
    BY <1>3, <1>4, OneFrame
<1>7. fs \in Seq(Sendable) /\ fs # <<>> /\ c \in [1..Len(fs) -> Nat]
    BY <1>5 DEF Marks
<1>8. PICK n \in Nat : n = Len(fs) /\ n >= 1
  <2>1. Len(fs) \in Nat /\ Len(fs) # 0
      BY <1>7, EmptySeq, LenProperties
  <2> QED BY <2>1
<1>9. PICK gs : gs = Append(fs, f)
    OBVIOUS
<1>10. /\ gs \in Seq(Sendable) /\ gs # <<>> /\ Len(gs) = n + 1
       /\ \A i \in 1..n : gs[i] = fs[i]
       /\ gs[n + 1] = f
    BY <1>2, <1>7, <1>8, <1>9, AppendProperties
<1>11. Len(u) \in Nat /\ Len(s) \in Nat /\ Len(s) < Len(u)
  <2>1. Len(u) = Len(s) + Len(e) /\ Len(s) \in Nat /\ Len(e) \in Nat
      BY <1>4, Joined
  <2>2. Len(e) # 0
      BY <1>3, EmptySeq
  <2> QED BY <2>1, <2>2
<1> DEFINE d == [i \in 1..n + 1 |-> IF i <= n THEN c[i] ELSE Len(u)]
<1>12. d \in [1..n + 1 -> Nat] /\ d[n + 1] = Len(u) /\ \A i \in 1..n : d[i] = c[i]
    BY <1>7, <1>8, <1>11
<1> HIDE DEF d
<1>13. /\ \A i \in 1..n : i <= c[i] /\ c[i] <= Len(u)
       /\ \A i \in 1..n - 1 :
            IsWhole(u, c[i]) /\ c[i + 1] = FrameEnd(u, c[i]) /\ fs[i + 1] = FrameAt(u, c[i])
       /\ c[1] = 1 /\ fs[1] = <<u[1], <<>>>> /\ u # <<>>
       /\ n <= Len(s)
  <2>1. n \in 1..Len(fs)
      BY <1>8
  <2>2. n <= c[n] /\ c[n] = Len(s)
      BY <1>1, <1>8, <2>1 DEF Marks
  <2> QED BY <1>5, <1>8, <2>2 DEF Marks
<1>14. ASSUME NEW i \in 1..n + 1 PROVE i <= d[i] /\ d[i] <= Len(u)
  <2>1. CASE i \in 1..n
      BY <1>12, <1>13, <2>1
  <2>2. CASE i = n + 1
      BY <1>8, <1>11, <1>12, <1>13, <2>2
  <2> QED BY <1>8, <2>1, <2>2
<1>15. ASSUME NEW i \in 1..n
       PROVE  IsWhole(u, d[i]) /\ d[i + 1] = FrameEnd(u, d[i]) /\ gs[i + 1] = FrameAt(u, d[i])
  <2>1. CASE i \in 1..n - 1
    <3>1. i \in 1..n /\ i + 1 \in 1..n
        BY <1>8, <2>1
    <3> QED BY <1>10, <1>12, <1>13, <2>1, <3>1
  <2>2. CASE i = n
    <3>1. d[i] = Len(s)
        BY <1>1, <1>8, <1>12, <2>2
    <3> QED BY <1>6, <1>10, <1>12, <2>2, <3>1
  <2> QED BY <1>8, <2>1, <2>2
<1>16. Marks(u, gs, d)
  <2>1. 1 \in 1..n /\ 1..Len(gs) = 1..n + 1 /\ 1..Len(gs) - 1 = 1..n
      BY <1>8, <1>10
  <2>2. d[1] = 1 /\ gs[1] = <<u[1], <<>>>>
      BY <1>10, <1>12, <1>13, <2>1
  <2> QED BY <1>10, <1>12, <1>13, <1>14, <1>15, <2>1, <2>2 DEF Marks
<1>17. d[Len(gs)] = Len(u)
    BY <1>10, <1>12
<1> QED BY <1>3, <1>4, <1>9, <1>16, <1>17 DEF Whole

\* What a client reads from it: these frames, when no other one follows in full.
LEMMA MarksAreRead ==
    ASSUME NEW s \in Seq(Nat), NEW fs, NEW c, Marks(s, fs, c), ~IsWhole(s, c[Len(fs)])
    PROVE  Received(s) = fs
<1> DEFINE After(before) == IF IsWhole(s, before.end)
                             THEN [end    |-> FrameEnd(s, before.end),
                                   frames |-> Append(before.frames, FrameAt(s, before.end))]
                             ELSE before
           first == [end |-> 1, frames |-> <<<<s[1], <<>>>>>>]
           Is(f) == f = [n \in 1..Len(s) |-> IF n = 1 THEN first ELSE After(f[n - 1])]
           read == CHOOSE f : Is(f)
           m(k) == IF k <= Len(fs) THEN k ELSE Len(fs)
           g == [k \in 1..Len(s) |-> [end |-> c[m(k)], frames |-> SubSeq(fs, 1, m(k))]]
<1>1. /\ fs \in Seq(Sendable) /\ Len(fs) \in Nat /\ Len(fs) >= 1 /\ Len(s) \in Nat
      /\ c \in [1..Len(fs) -> Nat] /\ c[1] = 1 /\ fs[1] = <<s[1], <<>>>> /\ s # <<>>
  <2>1. fs \in Seq(Sendable) /\ fs # <<>>
      BY DEF Marks
  <2>2. Len(fs) \in Nat /\ Len(fs) # 0 /\ Len(s) \in Nat
      BY <2>1, EmptySeq, LenProperties
  <2> QED BY <2>1, <2>2 DEF Marks
<1>2. Len(fs) <= Len(s)
  <2>1. Len(fs) \in 1..Len(fs)
      BY <1>1
  <2>2. Len(fs) <= c[Len(fs)] /\ c[Len(fs)] <= Len(s) /\ c[Len(fs)] \in Nat
      BY <1>1, <2>1 DEF Marks
  <2> QED BY <1>1, <2>2
<1>3. g[1] = first
  <2>1. 1 \in 1..Len(s) /\ m(1) = 1
      BY <1>1, <1>2
  <2>2. SubSeq(fs, 1, 1) = <<fs[1]>>
    <3>1. 1 \in 1..Len(fs)
        BY <1>1
    <3>2. SubSeq(fs, 1, 1) = <<fs[1]>> \o SubSeq(fs, 1 + 1, 1)
        BY <1>1, <3>1, SubSeqRecursiveFirst
    <3>3. SubSeq(fs, 1 + 1, 1) = <<>>
        BY SubSeqEmpty
    <3>4. <<fs[1]>> \o <<>> = <<fs[1]>>
        OBVIOUS
    <3> QED BY <3>2, <3>3, <3>4
  <2> QED BY <1>1, <2>1, <2>2
<1>4. ASSUME NEW k \in 2..Len(s) PROVE g[k] = After(g[k - 1])
  <2>1. k \in 1..Len(s) /\ k - 1 \in 1..Len(s)
      BY <1>1
  <2>2. CASE k <= Len(fs)
    <3>1. m(k) = k /\ m(k - 1) = k - 1
        BY <1>1, <2>2
    <3>2. PICK i \in 1..Len(fs) - 1 : i = k - 1 /\ i + 1 = k
        BY <1>1, <2>2
    <3>3. IsWhole(s, c[i]) /\ c[i + 1] = FrameEnd(s, c[i]) /\ fs[i + 1] = FrameAt(s, c[i])
        BY DEF Marks
    <3>4. SubSeq(fs, 1, i + 1) = Append(SubSeq(fs, 1, i), fs[i + 1])
        BY <1>1
    <3>5. g[k - 1] = [end |-> c[i], frames |-> SubSeq(fs, 1, i)]
        BY <2>1, <3>1, <3>2
    <3>6. g[k] = [end |-> c[i + 1], frames |-> SubSeq(fs, 1, i + 1)]
        BY <2>1, <3>1, <3>2
    <3> HIDE DEF g, m
    <3>7. g[k - 1].end = c[i] /\ g[k - 1].frames = SubSeq(fs, 1, i)
        BY <3>5
    <3> QED BY <3>3, <3>4, <3>6, <3>7
  <2>3. CASE ~(k <= Len(fs))
    <3>1. m(k) = Len(fs) /\ m(k - 1) = Len(fs)
        BY <1>1, <2>3
    <3>2. g[k] = g[k - 1] /\ g[k - 1].end = c[Len(fs)]
        BY <2>1, <3>1
    <3> HIDE DEF g, m
    <3> QED BY <3>2
  <2> QED BY <2>2, <2>3
<1>5. Is(g)
  <2> DEFINE h == [k \in 1..Len(s) |-> IF k = 1 THEN first ELSE After(g[k - 1])]
  <2>1. ASSUME NEW k \in 1..Len(s) PROVE g[k] = h[k]
    <3> HIDE DEF g, first, After
    <3>1. CASE k = 1
        BY <1>3, <3>1
    <3>2. CASE k # 1
      <4>1. k \in 2..Len(s)
          BY <1>1, <3>2
      <4> QED BY <1>4, <3>2, <4>1
    <3> QED BY <3>1, <3>2
  <2>2. g = h
    <3> HIDE DEF first, After
    <3> QED BY <2>1
  <2> QED BY <2>2
<1>6. Is(read)
  <2> HIDE DEF Is
  <2> QED BY <1>5
<1>7. Received(s) = read[Len(s)].frames
    BY <1>1 DEF Received
<1> HIDE DEF read, g, first, After
<1>8. \A k \in 1..Len(s) : read[k] = IF k = 1 THEN first ELSE After(read[k - 1])
    BY <1>6
<1> DEFINE T == {k \in Nat : k + 1 <= Len(s) => read[k + 1] = g[k + 1]}
<1>9. 0 \in T
    BY <1>1, <1>3, <1>8
<1>10. ASSUME NEW k \in T PROVE k + 1 \in T
  <2> SUFFICES ASSUME k + 1 + 1 <= Len(s) PROVE read[k + 1 + 1] = g[k + 1 + 1]
      OBVIOUS
  <2>1. PICK j \in 2..Len(s) : j = k + 1 + 1 /\ j - 1 = k + 1
      BY <1>1
  <2>2. read[j] = After(read[j - 1])
      BY <1>1, <1>8, <2>1
  <2>3. read[j - 1] = g[j - 1]
      BY <1>1, <2>1
  <2> QED BY <1>4, <2>1, <2>2, <2>3
<1>11. T = Nat
  <2>1. T \in SUBSET Nat
      OBVIOUS
  <2> HIDE DEF T
  <2> QED BY <1>9, <1>10, <2>1, EveryNat
<1>12. read[Len(s)] = g[Len(s)]
  <2>1. Len(s) - 1 \in T /\ Len(s) - 1 + 1 = Len(s)
    <3>1. Len(s) - 1 \in Nat /\ Len(s) - 1 + 1 = Len(s)
        BY <1>1, <1>2
    <3> HIDE DEF T
    <3> QED BY <1>11, <3>1
  <2> QED BY <1>1, <2>1
<1>13. g[Len(s)].frames = SubSeq(fs, 1, Len(fs))
  <2>1. Len(s) \in 1..Len(s)
      BY <1>1, <1>2
  <2>2. m(Len(s)) = Len(fs)
      BY <1>1, <1>2
  <2> HIDE DEF m
  <2> QED BY <2>1, <2>2 DEF g
<1>14. SubSeq(fs, 1, Len(fs)) = fs
    BY <1>1, SubSeqFull
<1> QED BY <1>7, <1>12, <1>13, <1>14

-----------------------------------------------------------------------------
(* What has been sent.                                                     *)

ResponseFrame == <<Upgrade, <<>>>>

\* The response is still to be sent.
Waiting == stage = "status" /\ job["client"].calls # <<>>

\* The response is sent before the thread goes on, and nothing is sent before it unless
\* a broadcast comes too early.
Answering ==
    /\ Waiting => job["client"].frame = ResponseFrame /\ ~job["client"].begun
    /\ stage # "status" /\ job["client"].calls # <<>> => job["client"].frame # ResponseFrame
    /\ open /\ stage # "http" /\ ~Waiting => log # <<>>
    /\ ~raced /\ (stage = "http" \/ Waiting) => log = <<>>

\* s is the frames fs, without the octets rest of the last one.
Part(s, fs, rest) ==
    \E base \in Seq(Nat), sent \in Seq(Nat), before \in Seq(Sendable), f \in Frame :
        /\ fs = Append(before, f) /\ Whole(base, before)
        /\ s = Cat(base, sent) /\ Encode(f) = Cat(sent, rest)

\* No frame is under way.
Between == \A w \in Writers : ~Midway(w)

Stream ==
    /\ log \in Seq(Sendable) /\ torn \in BOOLEAN /\ raced \in BOOLEAN
    /\ ~raced /\ log = <<>> => out = <<>> /\ ~torn /\ Between
    /\ ~raced /\ log # <<>> =>
        /\ Between => Whole(out, log) \/ ((torn \/ ~open) /\ \E rest \in Pieces : Part(out, log, rest))
        /\ \A w \in Writers : Midway(w) =>
              ~torn /\ ~Midway(Other(w)) /\ Part(out, log, Left(job[w].calls))

LEMMA WritersAre ==
    /\ Writers = {"client", "caster"}
    /\ \A w \in Writers : Other(w) \in Writers /\ Other(w) # w /\ Other(Other(w)) = w
    /\ \A v, w \in Writers : v = w \/ v = Other(w)
BY DEF Writers, Other

\* A stream that ends in a part of a frame is read as the frames before it.
LEMMA PartIsLeftOut ==
    ASSUME NEW s, NEW fs, NEW rest \in Pieces, Part(s, fs, rest)
    PROVE  fs # <<>> /\ Received(s) = Front(fs)
<1>1. PICK base \in Seq(Nat), sent \in Seq(Nat), before \in Seq(Sendable), f \in Frame :
          /\ fs = Append(before, f) /\ Whole(base, before)
          /\ s = Cat(base, sent) /\ Encode(f) = Cat(sent, rest)
    BY DEF Part
<1>2. PICK c : Marks(base, before, c) /\ c[Len(before)] = Len(base)
    BY <1>1 DEF Whole
<1>3. PICK u \in Seq(Nat) : u = Cat(base, sent)
    BY <1>1, Joined
<1>4. Marks(u, before, c)
    BY <1>1, <1>2, <1>3, MarksStay
<1>5. ~IsWhole(u, Len(base))
    BY <1>1, <1>3, PartIsNotRead
<1>6. Received(u) = before
    BY <1>2, <1>4, <1>5, MarksAreRead
<1>7. fs # <<>> /\ Front(fs) = before
  <2>1. f \in Sendable
      BY DEF Frame
  <2>2. /\ fs \in Seq(Sendable) /\ fs # <<>> /\ Len(fs) = Len(before) + 1
        /\ \A i \in 1..Len(before) : fs[i] = before[i]
      BY <1>1, <2>1, AppendProperties
  <2>3. PICK n \in Nat : n = Len(before) /\ Len(fs) - 1 = n
      BY <1>1, <2>2, LenProperties
  <2>4. \A i \in 1..n : before[i] \in Sendable /\ fs[0 + i] = before[i]
      BY <1>1, <2>2, <2>3, ElementOfSeq
  <2>5. SubSeq(fs, 0 + 1, 0 + n) = SubSeq(before, 1, n)
      BY <2>4, SameSub
  <2>6. SubSeq(before, 1, n) = before
      BY <1>1, <2>3, SubSeqFull
  <2> QED BY <2>2, <2>3, <2>5, <2>6 DEF Front
<1> QED BY <1>1, <1>3, <1>6, <1>7

LEMMA WholeIsRead ==
    ASSUME NEW s \in Seq(Nat), NEW fs, Whole(s, fs)
    PROVE  Received(s) = fs
<1>1. PICK c : Marks(s, fs, c) /\ c[Len(fs)] = Len(s)
    BY DEF Whole
<1>2. ~IsWhole(s, Len(s))
  <2>1. Len(s) \in Nat
      BY LenProperties
  <2> QED BY <2>1 DEF IsWhole
<1> QED BY <1>1, <1>2, MarksAreRead

\* In every such state a client reads the frames begun, the last one perhaps in part.
LEMMA StreamIsRead ==
    ASSUME Jobs, Stream
    PROVE  BrokenOnlyByRace
<1> SUFFICES ASSUME ~raced PROVE StreamIsWhole
    BY DEF BrokenOnlyByRace
<1>1. out \in Seq(Nat)
    BY DEF Jobs
<1>2. CASE log = <<>>
    BY <1>2 DEF Stream, StreamIsWhole, Received
<1>3. CASE log # <<>> /\ Whole(out, log)
    BY <1>1, <1>3, WholeIsRead DEF StreamIsWhole
<1>4. ASSUME log # <<>>, NEW rest \in Pieces, Part(out, log, rest) PROVE StreamIsWhole
    BY <1>4, PartIsLeftOut DEF StreamIsWhole
<1>5. ASSUME log # <<>>, NEW w \in Writers, Midway(w) PROVE StreamIsWhole
  <2>1. Part(out, log, Left(job[w].calls))
      BY <1>5 DEF Stream
  <2>2. Left(job[w].calls) \in Pieces
    <3>1. job[w].calls \in Queues /\ job[w].calls # <<>>
        BY <1>5 DEF Jobs, JobTypes, Midway
    <3> QED BY <3>1, LeftIsSeq DEF Pieces
  <2> QED BY <1>4, <1>5, <2>1, <2>2
<1> QED BY <1>2, <1>3, <1>4, <1>5 DEF Stream, Between

-----------------------------------------------------------------------------
(* Steps that send.                                                        *)

\* More of the frame that is under way, or the rest of it.
LEMMA MoreIsSent ==
    ASSUME NEW s \in Seq(Nat), NEW fs, NEW piece \in Pieces, NEW r \in Queues,
           Part(s, fs, Cat(piece, Left(r)))
    PROVE  IF r = <<>> THEN Whole(Cat(s, piece), fs) ELSE Part(Cat(s, piece), fs, Left(r))
<1>1. PICK base \in Seq(Nat), sent \in Seq(Nat), before \in Seq(Sendable), f \in Frame :
          /\ fs = Append(before, f) /\ Whole(base, before)
          /\ s = Cat(base, sent) /\ Encode(f) = Cat(sent, Cat(piece, Left(r)))
    BY DEF Part
<1>2. PICK p \in Seq(Nat), q \in Seq(Nat) : p = piece /\ q = Left(r)
    BY LeftIsSeq DEF Pieces
<1>3. PICK more \in Seq(Nat) : more = Cat(sent, p)
    BY <1>1, Joined
<1>4. Cat(s, p) = Cat(base, more)
    BY <1>1, <1>3, Assoc
<1>5. Encode(f) = Cat(more, q)
  <2>1. Cat(Cat(sent, p), q) = Cat(sent, Cat(p, q))
      BY <1>1, Assoc
  <2> QED BY <1>1, <1>2, <1>3, <2>1
<1>6. CASE r = <<>>
  <2>1. Cat(more, <<>>) = more
      BY <1>3, Joined
  <2>2. Encode(f) = more
      BY <1>2, <1>5, <1>6, <2>1, LeftOf
  <2>3. Whole(Cat(base, Encode(f)), Append(before, f))
      BY <1>1, WholeAndOne
  <2> QED BY <1>1, <1>2, <1>4, <1>6, <2>2, <2>3
<1>7. CASE r # <<>>
    BY <1>1, <1>2, <1>3, <1>4, <1>5, <1>7 DEF Part
<1> QED BY <1>6, <1>7

\* The first send of a frame.
LEMMA FrameIsBegun ==
    ASSUME NEW s \in Seq(Nat), NEW fs, Whole(s, fs), NEW f \in Frame,
           NEW piece \in Pieces, NEW r \in Queues, Encode(f) = Cat(piece, Left(r))
    PROVE  IF r = <<>> THEN Whole(Cat(s, piece), Append(fs, f))
                       ELSE Part(Cat(s, piece), Append(fs, f), Left(r))
<1>1. fs \in Seq(Sendable)
    BY DEF Whole, Marks
<1>2. Part(s, Append(fs, f), Cat(piece, Left(r)))
  <2>1. Cat(s, <<>>) = s /\ <<>> \in Seq(Nat)
    <3>1. <<>> \in Seq(Nat)
        OBVIOUS
    <3> QED BY <3>1, Joined
  <2>2. Cat(<<>>, Cat(piece, Left(r))) = Cat(piece, Left(r))
    <3>1. Cat(piece, Left(r)) \in Seq(Nat)
        BY LeftIsSeq, Joined DEF Pieces
    <3> QED BY <3>1, Joined
  <2> QED BY <1>1, <2>1, <2>2 DEF Part
<1> QED BY <1>2, MoreIsSent

\* The response is one octet.
LEMMA ResponseIsSent ==
    ASSUME NEW piece \in Pieces, NEW r \in Queues, Encode(ResponseFrame) = Cat(piece, Left(r))
    PROVE  r = <<>> /\ Whole(piece, <<ResponseFrame>>)
<1>1. PICK p \in Seq(Nat), q \in Seq(Nat) : p = piece /\ q = Left(r) /\ p # <<>>
    BY LeftIsSeq DEF Pieces
<1>2. PICK e \in Seq(Nat) : e = Cat(p, q) /\ Len(e) = 1 /\ e[1] = Upgrade
  <2>1. Encode(ResponseFrame) = <<Upgrade>>
      BY DEF Encode, ResponseFrame
  <2>2. Upgrade \in Nat
      BY DEF Upgrade
  <2>3. \A n \in Nat : <<n>> \in Seq(Nat) /\ Len(<<n>>) = 1 /\ <<n>>[1] = n
      OBVIOUS
  <2> QED BY <1>1, <2>1, <2>2, <2>3
<1>3. Len(p) = 1 /\ Len(q) = 0
  <2>1. Len(e) = Len(p) + Len(q) /\ Len(p) \in Nat /\ Len(q) \in Nat
      BY <1>1, <1>2, Joined
  <2>2. Len(p) # 0
      BY <1>1, EmptySeq
  <2>3. PICK i \in Nat, j \in Nat, k \in Nat :
            i = Len(p) /\ j = Len(q) /\ k = Len(e) /\ k = i + j
      BY <2>1
  <2>4. i # 0 /\ k = 1
      BY <1>2, <2>2, <2>3
  <2>5. i = 1 /\ j = 0
      BY <2>3, <2>4
  <2> QED BY <2>3, <2>5
<1>4. r = <<>>
  <2>1. q = <<>>
      BY <1>3, EmptySeq
  <2> QED BY <1>1, <2>1, LeftIsSeq
<1>5. p = e
  <2>1. Cat(p, <<>>) = p
      BY Joined
  <2> QED BY <1>1, <1>2, <1>4, <2>1, LeftOf
<1>6. PICK fs \in Seq(Sendable) : fs = <<ResponseFrame>> /\ Len(fs) = 1 /\ fs[1] = ResponseFrame /\ fs # <<>>
  <2>1. ResponseFrame \in Sendable
      BY DEF ResponseFrame, Sendable
  <2>2. \A f \in Sendable : <<f>> \in Seq(Sendable) /\ Len(<<f>>) = 1 /\ <<f>>[1] = f /\ <<f>> # <<>>
      OBVIOUS
  <2> QED BY <2>1, <2>2
<1>7. Marks(p, fs, [i \in 1..1 |-> 1])
  <2>1. fs[1] = <<p[1], <<>>>>
      BY <1>2, <1>5, <1>6 DEF ResponseFrame
  <2>2. \A i \in 1..1 : i = 1
      OBVIOUS
  <2> QED BY <1>1, <1>3, <1>6, <2>1, <2>2 DEF Marks
<1>8. Whole(p, fs)
  <2>1. [i \in 1..1 |-> 1][Len(fs)] = Len(p)
      BY <1>3, <1>6
  <2> QED BY <1>7, <2>1 DEF Whole
<1> QED BY <1>1, <1>4, <1>6, <1>8

-----------------------------------------------------------------------------
(* The stream, step by step.                                               *)

\* Frames under way are under way as before, or no longer: nothing is sent.
LEMMA StreamRest ==
    ASSUME Stream, UNCHANGED <<open, out, log, torn, raced>>,
           \A w \in Writers : (Midway(w)' <=> Midway(w)) /\ (Midway(w) => job'[w] = job[w])
    PROVE  Stream'
<1>1. Between' <=> Between
    BY DEF Between
<1>2. \A w \in Writers : Midway(Other(w))' <=> Midway(Other(w))
    BY WritersAre
<1>3. \A w \in Writers : Midway(w) => Left(job[w].calls)' = Left(job[w].calls)
    BY DEF Left, Cat
<1> QED BY <1>1, <1>2, <1>3 DEF Stream

\* A writer that is not sending takes up a frame.
LEMMA StreamJob ==
    ASSUME Jobs, Stream, UNCHANGED <<open, out, log, torn, raced>>, NEW v \in Writers,
           job[v].calls = <<>>, NEW j, ~j.begun, job' = [job EXCEPT ![v] = j]
    PROVE  Stream'
<1>1. job \in [Writers -> JobTypes]
    BY DEF Jobs
<1>2. \A w \in Writers : job'[w] = IF w = v THEN j ELSE job[w]
    BY <1>1
<1>3. \A w \in Writers : (Midway(w)' <=> Midway(w)) /\ (Midway(w) => job'[w] = job[w])
    BY <1>2 DEF Midway
<1> QED BY <1>3, StreamRest

\* A frame is given up, or the connection: its octets are a part of it.
LEMMA StreamGivenUp ==
    ASSUME Jobs, Stream, UNCHANGED <<out, log, raced>>, Between', torn' \in BOOLEAN,
           ~open' \/ torn' \/ (Between /\ torn' = torn /\ open' = open),
           Between => torn' = torn, torn => torn'
    PROVE  Stream'
<1> SUFFICES ASSUME ~raced
             PROVE  /\ log = <<>> => out = <<>> /\ ~torn'
                    /\ log # <<>> =>
                         Whole(out, log) \/ ((torn' \/ ~open') /\ \E rest \in Pieces : Part(out, log, rest))
    BY DEF Stream, Between
<1>1. CASE log = <<>>
    BY <1>1 DEF Stream
<1>2. CASE log # <<>> /\ Between
    BY <1>2 DEF Stream
<1>3. ASSUME log # <<>>, NEW w \in Writers, Midway(w)
      PROVE  (torn' \/ ~open') /\ \E rest \in Pieces : Part(out, log, rest)
  <2>1. Part(out, log, Left(job[w].calls))
      BY <1>3 DEF Stream
  <2>2. Left(job[w].calls) \in Pieces
    <3>1. job[w].calls \in Queues /\ job[w].calls # <<>>
        BY <1>3 DEF Jobs, JobTypes, Midway
    <3> QED BY <3>1, LeftIsSeq DEF Pieces
  <2>3. torn' \/ ~open'
      BY <1>3 DEF Between
  <2> QED BY <2>1, <2>2, <2>3
<1> QED BY <1>1, <1>2, <1>3 DEF Between

LEMMA StreamClose ==
    ASSUME Jobs, Stream, Close
    PROVE  Stream'
<1>1. /\ job' = [w \in Writers |-> NoJob] /\ UNCHANGED <<out, log, raced, torn>> /\ ~open'
    BY DEF Close
<1>2. Between'
    BY <1>1, NoJobIsJob DEF Between, Midway
<1>3. torn' \in BOOLEAN
    BY <1>1 DEF Stream
<1> QED BY <1>1, <1>2, <1>3, StreamGivenUp

LEMMA StreamSendFails ==
    ASSUME Jobs, Stream, NEW v \in Writers, SendFails(v)
    PROVE  Stream'
<1>1. CASE Close
    BY <1>1, StreamClose
<1>2. CASE ~Close
  <2>1. /\ job' = [job EXCEPT ![v] = NoJob] /\ torn' = (torn \/ Midway(v))
        /\ UNCHANGED <<open, out, log, raced>>
      BY <1>2 DEF SendFails
  <2>2. job \in [Writers -> JobTypes]
      BY DEF Jobs
  <2>3. job'[v] = NoJob /\ \A w \in Writers : w # v => job'[w] = job[w]
      BY <2>1, <2>2
  <2>4. ~Midway(v)' /\ \A w \in Writers : w # v => (Midway(w)' <=> Midway(w))
      BY <2>3, NoJobIsJob DEF Midway
  <2>5. torn \in BOOLEAN /\ torn' \in BOOLEAN
      BY <2>1 DEF Stream, Midway
  <2>6. CASE Midway(v) /\ ~raced
    <3>1. log # <<>>
        BY <2>6 DEF Stream, Between
    <3>2. ~Midway(Other(v))
        BY <2>6, <3>1 DEF Stream
    <3>3. Between'
        BY <2>4, <3>2, WritersAre DEF Between
    <3>4. torn' /\ ~Between
        BY <2>1, <2>6 DEF Between
    <3> QED BY <2>1, <2>5, <3>3, <3>4, StreamGivenUp
  <2>7. CASE ~Midway(v)
    <3>1. torn' = torn
        BY <2>1, <2>5, <2>7 DEF Stream
    <3>2. \A w \in Writers : (Midway(w)' <=> Midway(w)) /\ (Midway(w) => job'[w] = job[w])
        BY <2>3, <2>4, <2>7
    <3> QED BY <2>1, <3>1, <3>2, StreamRest
  <2>8. CASE raced
      BY <2>1, <2>5, <2>8 DEF Stream
  <2> QED BY <2>6, <2>7, <2>8
<1> QED BY <1>1, <1>2

LEMMA StreamSend ==
    ASSUME Jobs, Opening, Answering, Stream, NEW v \in Writers, Send(v)
    PROVE  Stream'
<1>1. PICK piece \in Pieces, r \in Queues : Sends(v, piece, r)
    BY SendIs
<1>2. /\ open /\ job[v].calls # <<>> /\ UNCHANGED <<open, stage, torn>>
      /\ log' = (IF job[v].begun THEN log ELSE Append(log, job[v].frame))
      /\ raced' = (raced \/ Intrudes(v))
    BY DEF Send, readVars
<1>3. /\ out' = Cat(out, piece) /\ Left(job[v].calls) = Cat(piece, Left(r))
      /\ job' = [job EXCEPT ![v] = [frame |-> job[v].frame, calls |-> r, begun |-> TRUE]]
    BY <1>1 DEF Sends
<1>4. /\ job \in [Writers -> JobTypes] /\ job[v] \in JobTypes /\ IsJob(job[v])
      /\ out \in Seq(Nat) /\ log \in Seq(Sendable) /\ torn \in BOOLEAN
    BY DEF Jobs, Stream
<1>5. job[v].frame \in Sendable
    BY <1>2, <1>4 DEF IsJob
<1>6. log' \in Seq(Sendable) /\ torn' \in BOOLEAN /\ raced' \in BOOLEAN
  <2>1. Append(log, job[v].frame) \in Seq(Sendable)
      BY <1>4, <1>5, AppendProperties
  <2>2. raced' \in BOOLEAN
      BY <1>2 DEF Stream, Intrudes, Midway
  <2> QED BY <1>2, <1>4, <2>1, <2>2
<1>7. CASE raced'
    BY <1>6, <1>7 DEF Stream
<1>8. CASE ~raced'
  <2>1. ~raced /\ ~Midway(Other(v)) /\ (~job[v].begun => ~torn) /\ (v = "caster" => log # <<>>)
      BY <1>2, <1>8 DEF Intrudes
  <2>2. /\ job'[v].calls = r /\ job'[v].begun
        /\ job'[Other(v)] = job[Other(v)]
      BY <1>3, <1>4, WritersAre
  <2>3. (Midway(v)' <=> r # <<>>) /\ ~Midway(Other(v))'
      BY <2>1, <2>2 DEF Midway
  <2>4. Left(job[v].calls)' = Left(r)
      BY <2>2 DEF Left, Cat
  <2>5. SUFFICES ASSUME NEW r1, r1 = Left(r)
                 PROVE  ~torn /\ log' # <<>>
                        /\ (IF r = <<>> THEN Whole(out', log') ELSE Part(out', log', r1))
    <3>1. ~torn /\ log' # <<>>
          /\ (IF r = <<>> THEN Whole(out', log') ELSE Part(out', log', Left(r)))
        BY <2>5
    <3>2. Between' <=> r = <<>>
        BY <2>3, WritersAre DEF Between
    <3>3. \A w \in Writers : Midway(w)' => w = v
        BY <2>3, WritersAre
    <3> QED BY <1>2, <1>6, <2>3, <2>4, <3>1, <3>2, <3>3 DEF Stream
  <2>6. CASE job[v].begun
    <3>1. Midway(v)
        BY <1>2, <2>6 DEF Midway
    <3>2. log # <<>>
        BY <2>1, <3>1 DEF Stream, Between
    <3>3. ~torn /\ Part(out, log, Cat(piece, Left(r)))
        BY <1>3, <2>1, <3>1, <3>2 DEF Stream
    <3>4. IF r = <<>> THEN Whole(Cat(out, piece), log) ELSE Part(Cat(out, piece), log, Left(r))
        BY <1>4, <3>3, MoreIsSent
    <3>5. log' = log /\ out' = Cat(out, piece)
        BY <1>2, <1>3, <2>6
    <3> QED BY <2>5, <3>2, <3>3, <3>4, <3>5
  <2>7. CASE ~job[v].begun
    <3>1. /\ ~torn /\ log' = Append(log, job[v].frame) /\ out' = Cat(out, piece)
          /\ Encode(job[v].frame) = Cat(piece, Left(r))
      <4>1. Left(job[v].calls) = Encode(job[v].frame)
          BY <1>2, <1>4, <2>7 DEF IsJob
      <4> QED BY <1>2, <1>3, <2>1, <2>7, <4>1
    <3>2. CASE log = <<>>
      <4>1. v = "client"
          BY <2>1, <3>2, WritersAre
      <4>2. stage # "http"
          BY <1>2, <4>1 DEF Opening
      <4>3. Waiting
          BY <1>2, <3>2, <4>2 DEF Answering
      <4>4. job[v].frame = ResponseFrame
          BY <4>1, <4>3 DEF Answering
      <4>5. r = <<>> /\ Whole(piece, <<ResponseFrame>>)
          BY <3>1, <4>4, ResponseIsSent
      <4>6. Append(<<>>, ResponseFrame) = <<ResponseFrame>> /\ <<ResponseFrame>> # <<>>
          OBVIOUS
      <4>7. out = <<>>
          BY <2>1, <3>2 DEF Stream
      <4>8. Cat(<<>>, piece) = piece
          BY Joined DEF Pieces
      <4> QED BY <3>1, <3>2, <4>4, <4>5, <4>6, <4>7, <4>8
    <3>3. CASE log # <<>>
      <4>1. Between
        <5>1. ~Midway(v)
            BY <2>7 DEF Midway
        <5> QED BY <2>1, <5>1, WritersAre DEF Between
      <4>2. Whole(out, log)
          BY <1>2, <2>1, <3>1, <3>3, <4>1 DEF Stream
      <4>3. PICK f \in Frame : f = job[v].frame
        <5>1. CASE v = "caster"
          <6>1. job[v].frame[1] = 1 /\ 1 # Upgrade
              BY <1>2, <5>1 DEF Jobs, Upgrade
          <6> QED BY <1>5, <6>1 DEF Frame
        <5>2. CASE v = "client"
          <6>1. stage # "status"
              BY <1>2, <2>1, <3>3, <5>2 DEF Answering, Waiting
          <6>2. job[v].frame # ResponseFrame
              BY <1>2, <5>2, <6>1 DEF Answering
          <6>3. job[v].frame[1] # Upgrade
              BY <1>5, <6>2, EncodeIs DEF ResponseFrame
          <6> QED BY <1>5, <6>3 DEF Frame
        <5> QED BY <5>1, <5>2, WritersAre
      <4>4. IF r = <<>> THEN Whole(Cat(out, piece), Append(log, f))
                        ELSE Part(Cat(out, piece), Append(log, f), Left(r))
          BY <1>4, <3>1, <4>2, <4>3, FrameIsBegun
      <4>5. Append(log, f) # <<>>
          BY <1>4, <1>5, <4>3, AppendProperties
      <4> QED BY <2>5, <3>1, <4>3, <4>4, <4>5
    <3> QED BY <3>2, <3>3
  <2> QED BY <2>6, <2>7
<1> QED BY <1>7, <1>8

-----------------------------------------------------------------------------
(* The response comes first, step by step.                                 *)

LEMMA AnsweringInit == Init => Answering
<1> SUFFICES ASSUME Init PROVE Answering
    OBVIOUS
<1>1. job["client"] = NoJob /\ stage = "http" /\ log = <<>>
    BY DEF Init, Writers
<1> QED BY <1>1, NoJobIsJob DEF Answering, Waiting

LEMMA StreamInit == Init => Stream
<1> SUFFICES ASSUME Init PROVE Stream
    OBVIOUS
<1>1. /\ job = [w \in Writers |-> NoJob] /\ out = <<>> /\ log = <<>>
      /\ torn = FALSE /\ raced = FALSE
    BY DEF Init
<1>2. Between
    BY <1>1, NoJobIsJob DEF Between, Midway
<1>3. <<>> \in Seq(Sendable)
    OBVIOUS
<1> QED BY <1>1, <1>2, <1>3 DEF Stream

LEMMA AnsweringRest ==
    ASSUME Answering, UNCHANGED <<open, log, raced>>, job'["client"] = job["client"],
           \/ stage' = stage
           \/ stage \notin {"http", "status"} /\ stage' \notin {"http", "status"}
    PROVE  Answering'
BY DEF Answering, Waiting

LEMMA AnsweringClose ==
    ASSUME Close
    PROVE  Answering'
<1>1. /\ job' = [w \in Writers |-> NoJob] /\ "client" \in Writers
      /\ ~open' /\ stage' = "closed"
    BY DEF Close, Writers
<1> QED BY <1>1, NoJobIsJob DEF Answering, Waiting

\* The client's thread takes up a frame, or none, after the response.
LEMMA AnsweringJob ==
    ASSUME Jobs, Answering, UNCHANGED <<open, log, raced>>,
           Reading, stage # "http", stage' \notin {"http", "status"},
           NEW j, j.calls # <<>> => j.frame[1] # Upgrade,
           job' = [job EXCEPT !["client"] = j]
    PROVE  Answering'
<1>1. job'["client"] = j
    BY DEF Jobs, Writers
<1>2. j.calls # <<>> => j.frame # ResponseFrame
  <2>1. ResponseFrame[1] = Upgrade
      BY DEF ResponseFrame
  <2> QED BY <2>1
<1>3. ~Waiting /\ log # <<>>
    BY DEF Answering, Waiting, Reading
<1> QED BY <1>1, <1>2, <1>3 DEF Answering, Waiting

LEMMA AnsweringHandshake ==
    ASSUME Jobs, Answering, Handshake
    PROVE  Answering'
<1>1. CASE Close
    BY <1>1, AnsweringClose
<1>2. CASE ~Close
  <2>1. /\ stage = "http" /\ stage' = "status" /\ UNCHANGED <<open, log, raced>>
        /\ job' = [job EXCEPT !["client"] = Response]
      BY <1>2 DEF Handshake
  <2>2. job'["client"] = Response
      BY <2>1 DEF Jobs, Writers
  <2>3. Response.calls # <<>>
    <3>1. Response.calls = <<<<Upgrade>>>>
        BY DEF Response
    <3>2. \A a : <<a>> # <<>>
        OBVIOUS
    <3> QED BY <3>1, <3>2
  <2> QED BY <2>1, <2>2, <2>3, ResponseIsJob DEF Answering, Waiting, ResponseFrame
<1> QED BY <1>1, <1>2

LEMMA AnsweringSend ==
    ASSUME Jobs, Opening, Answering, Stream, NEW v \in Writers, Send(v)
    PROVE  Answering'
<1>1. PICK piece \in Pieces, r \in Queues : Sends(v, piece, r)
    BY SendIs
<1>2. /\ open /\ job[v].calls # <<>> /\ UNCHANGED <<open, stage>>
      /\ log' = (IF job[v].begun THEN log ELSE Append(log, job[v].frame))
      /\ raced' = (raced \/ Intrudes(v))
    BY DEF Send, readVars
<1>3. /\ Left(job[v].calls) = Cat(piece, Left(r))
      /\ job' = [job EXCEPT ![v] = [frame |-> job[v].frame, calls |-> r, begun |-> TRUE]]
      /\ job \in [Writers -> JobTypes] /\ IsJob(job[v])
    BY <1>1 DEF Sends, Jobs
<1>4. log \in Seq(Sendable) /\ raced \in BOOLEAN
    BY DEF Stream
<1>5. log # <<>> => log' # <<>>
  <2>1. job[v].frame \in Sendable
      BY <1>2, <1>3 DEF IsJob
  <2>2. Append(log, job[v].frame) # <<>>
      BY <1>4, <2>1, AppendProperties
  <2> QED BY <1>2, <2>2
<1>6. CASE v = "caster"
  <2>1. job'["client"] = job["client"]
      BY <1>3, <1>6 DEF Writers
  <2>2. log = <<>> => raced'
      BY <1>2, <1>6 DEF Intrudes
  <2> QED BY <1>2, <1>5, <2>1, <2>2 DEF Answering, Waiting
<1>7. CASE v = "client"
  <2>1. job'["client"].calls = r /\ job'["client"].frame = job["client"].frame
      BY <1>3, <1>7
  <2>2. stage # "http"
      BY <1>2, <1>7 DEF Opening
  <2>3. CASE stage = "status"
    <3>1. Waiting
        BY <1>2, <1>7, <2>3 DEF Waiting
    <3>2. job[v].frame = ResponseFrame /\ ~job[v].begun
        BY <1>7, <3>1 DEF Answering
    <3>3. Encode(ResponseFrame) = Cat(piece, Left(r))
        BY <1>2, <1>3, <3>2 DEF IsJob
    <3>4. r = <<>>
        BY <3>3, ResponseIsSent
    <3>5. log' # <<>>
      <4>1. ResponseFrame \in Sendable
          BY DEF ResponseFrame, Sendable
      <4>2. Append(log, ResponseFrame) # <<>>
          BY <1>4, <4>1, AppendProperties
      <4> QED BY <1>2, <3>2, <4>2
    <3>6. ~Waiting' /\ stage' = "status"
        BY <1>2, <2>1, <2>3, <3>4 DEF Waiting
    <3> QED BY <3>5, <3>6 DEF Answering
  <2>4. CASE stage # "status"
    <3>1. ~Waiting /\ ~Waiting'
        BY <1>2, <2>4 DEF Waiting
    <3>2. log # <<>>
        BY <1>2, <2>2, <3>1 DEF Answering
    <3> QED BY <1>2, <1>5, <1>7, <2>1, <2>2, <2>4, <3>1, <3>2 DEF Answering
  <2> QED BY <2>3, <2>4
<1> QED BY <1>6, <1>7, WritersAre

LEMMA AnsweringSendFails ==
    ASSUME Jobs, Answering, NEW v \in Writers, SendFails(v)
    PROVE  Answering'
<1>1. CASE Close
    BY <1>1, AnsweringClose
<1>2. CASE ~Close
  <2>1. /\ v # "caster" /\ stage # "status" /\ job' = [job EXCEPT ![v] = NoJob]
        /\ UNCHANGED <<open, stage, log, raced>>
      BY <1>2 DEF SendFails, readVars
  <2>2. job'["client"] = NoJob
      BY <2>1, WritersAre DEF Jobs
  <2> QED BY <2>1, <2>2, NoJobIsJob DEF Answering, Waiting
<1> QED BY <1>1, <1>2

-----------------------------------------------------------------------------
(* The stream, and what it rests on.                                       *)

Sending == Reads /\ Answering /\ Stream

\* The client's thread, not sending, takes up a frame or none.
LEMMA TakesUp ==
    ASSUME Sending, Reading, UNCHANGED <<open, out, log, torn, raced>>,
           NEW j, ~j.begun, job' = [job EXCEPT !["client"] = j]
    PROVE  Stream'
<1>1. "client" \in Writers
    BY DEF Writers
<1> QED BY <1>1, StreamJob DEF Sending, Reads, Reading

\* A step that sends nothing and takes up nothing.
LEMMA Rests ==
    ASSUME Sending, UNCHANGED <<open, out, log, torn, raced, job>>,
           \/ stage' = stage
           \/ stage \notin {"http", "status"} /\ stage' \notin {"http", "status"}
    PROVE  Answering' /\ Stream'
<1>1. \A w \in Writers : (Midway(w)' <=> Midway(w)) /\ (Midway(w) => job'[w] = job[w])
    BY DEF Midway
<1> QED BY <1>1, AnsweringRest, StreamRest DEF Sending

LEMMA Ends ==
    ASSUME Sending, Close
    PROVE  Answering' /\ Stream'
BY AnsweringClose, StreamClose DEF Sending, Reads

LEMMA SendingInit == Init => Sending
BY ReadsInit, AnsweringInit, StreamInit DEF Sending

LEMMA SendingNext == Sending /\ [Next]_vars => Sending'
<1> SUFFICES ASSUME Sending, [Next]_vars PROVE Answering' /\ Stream'
    BY ReadsNext DEF Sending
<1>0. Jobs /\ Understood /\ Opening /\ Answering /\ Stream
    BY DEF Sending, Reads
<1>1. CASE Ask
    BY <1>1, Rests DEF Ask, readVars, outVars
<1>2. CASE HangUp
    BY <1>2, Rests DEF HangUp, readVars, outVars
<1>3. CASE Recv
    BY <1>3, Rests DEF Recv, outVars
<1>4. CASE RecvFails \/ NoMemory \/ Bye
    BY <1>4, Ends DEF RecvFails, NoMemory, Bye
<1>5. CASE Handshake
  <2>1. CASE Close
      BY <2>1, Ends
  <2>2. CASE ~Close
    <3>1. /\ Reading /\ UNCHANGED <<open, out, log, torn, raced>>
          /\ job' = [job EXCEPT !["client"] = Response]
        BY <1>5, <2>2 DEF Handshake
    <3>2. ~Response.begun
        BY ResponseIsJob
    <3> QED BY <1>0, <1>5, <3>1, <3>2, AnsweringHandshake, TakesUp
  <2> QED BY <2>1, <2>2
<1>6. CASE SendStatus
  <2>1. /\ Reading /\ stage = "status" /\ stage' = "header"
        /\ UNCHANGED <<open, out, log, torn, raced>>
        /\ job' = [job EXCEPT !["client"] = Text(Online)]
      BY <1>6 DEF SendStatus
  <2>2. PICK j : j = Text(Online)
      OBVIOUS
  <2>3. ~j.begun /\ j.frame[1] # Upgrade
    <3>1. Online \in Texts /\ 1 # Upgrade
        BY TextsAssumption DEF Texts, Upgrade
    <3> QED BY <2>2, <3>1, TextIsJob
  <2> QED BY <1>0, <2>1, <2>2, <2>3, AnsweringJob, TakesUp
<1>7. ASSUME NEW f, Sized(f), stage \notin {"http", "status"} PROVE Answering' /\ Stream'
  <2>1. CASE Close
      BY <2>1, Ends
  <2>2. CASE ~Close
    <3>1. UNCHANGED <<open, outVars>> /\ stage' \notin {"http", "status"}
        BY <1>7, <2>2 DEF Sized
    <3> QED BY <1>7, <3>1, Rests DEF outVars
  <2> QED BY <2>1, <2>2
<1>8. CASE ReadHeader
  <2>1. CASE \E f : Sized(f)
      BY <1>7, <1>8, <2>1 DEF ReadHeader
  <2>2. CASE ~\E f : Sized(f)
    <3>1. UNCHANGED <<open, outVars>> /\ stage' = "length" /\ stage = "header"
        BY <1>8, <2>2 DEF ReadHeader
    <3> QED BY <3>1, Rests DEF outVars
  <2> QED BY <2>1, <2>2
<1>9. CASE ReadLength
    BY <1>7, <1>9 DEF ReadLength
<1>10. CASE ReadMask
    BY <1>10, Rests DEF ReadMask, outVars
<1>11. CASE ReadPayload
  <2> DEFINE p == IF frame.masked THEN Masked(got, frame.mask) ELSE got
  <2>1. /\ Reading /\ stage = "payload" /\ UNCHANGED <<open, out, log, torn, raced>>
        /\ stage' \notin {"http", "status"} /\ Filled
        /\ \E reply \in Replies(frame.op, p) : job' = [job EXCEPT !["client"] = reply]
      BY <1>11 DEF ReadPayload, NextStage
  <2>2. p \in Seq(Octet)
    <3>1. p = Current.payload /\ Len(heard) < Len(Frames)
        BY <1>0, <2>1, PayloadIsRead
    <3>2. Current \in ClientFrames
        BY <1>0, <2>1, <3>1, CurrentParts
    <3> QED BY <3>1, <3>2, FrameParts
  <2> HIDE DEF p
  <2>3. PICK reply \in Replies(frame.op, p) : job' = [job EXCEPT !["client"] = reply]
      BY <2>1
  <2>4. reply.begun = FALSE /\ (reply.calls # <<>> => reply.frame[1] # Upgrade)
      BY <2>2, ReplyIsJob
  <2> QED BY <1>0, <2>1, <2>3, <2>4, AnsweringJob, TakesUp
<1>12. CASE Broadcast
  <2>1. /\ job["caster"].calls = <<>> /\ job' = [job EXCEPT !["caster"] = Text(Sample)]
        /\ UNCHANGED <<open, out, log, torn, raced, stage>>
      BY <1>12 DEF Broadcast, readVars
  <2>2. PICK j : j = Text(Sample)
      OBVIOUS
  <2>3. ~j.begun
    <3>1. Sample \in Texts
        BY TextsAssumption DEF Texts
    <3> QED BY <2>2, <3>1, TextIsJob
  <2>4. job'["client"] = job["client"] /\ "caster" \in Writers
      BY <1>0, <2>1 DEF Jobs, Writers
  <2> QED BY <1>0, <2>1, <2>2, <2>3, <2>4, AnsweringRest, StreamJob
<1>13. ASSUME NEW w \in Writers, Send(w) PROVE Answering' /\ Stream'
    BY <1>0, <1>13, AnsweringSend, StreamSend
<1>14. ASSUME NEW w \in Writers, SendFails(w) PROVE Answering' /\ Stream'
    BY <1>0, <1>14, AnsweringSendFails, StreamSendFails
<1>15. CASE UNCHANGED vars
    BY <1>15, Rests DEF vars, readVars, outVars
<1> QED
  BY <1>1, <1>2, <1>3, <1>4, <1>5, <1>6, <1>8, <1>9, <1>10, <1>11, <1>12, <1>13, <1>14, <1>15
  DEF Next, Client, Done

\* Whatever the two writers send, and wherever a send stops or a connection ends, the
\* client reads the frames begun, in their order, the last one perhaps in part: unless
\* one writer has sent in the middle of the other's frame, before the response, or
\* behind a frame that was given up.
THEOREM OnlyARaceBreaksTheStream == Spec => []BrokenOnlyByRace
<1>1. Sending => BrokenOnlyByRace
    BY StreamIsRead DEF Sending, Reads
<1> QED BY <1>1, SendingInit, SendingNext, PTL DEF Spec

-----------------------------------------------------------------------------
(* What the handshake is answered with.                                    *)

\* find_header_value returns octets.
LEMMA KeyIsOctets ==
    ASSUME NEW e \in DOMAIN Exchanges
    PROVE  Keys[e] \in Seq(Octet)
<1> DEFINE lines == Exchanges[e].request.lines
           I == {i \in 1..Len(lines) : Names(lines[i], "Sec-WebSocket-Key")}
<1>1. lines \in Seq([name : STRING, blanks : Nat, value : Seq(Octet)])
  <2>1. Exchanges \in Seq([request : RequestType, frames : Seq(FrameType)])
      BY ExchangesAssumption
  <2>2. Exchanges[e] \in [request : RequestType, frames : Seq(FrameType)]
    <3>1. e \in 1..Len(Exchanges)
        BY <2>1, LenProperties
    <3> QED BY <2>1, <3>1, ElementOfSeq
  <2> QED BY <2>2 DEF RequestType
<1>2. Keys[e] = FindHeaderValue(lines, "Sec-WebSocket-Key")
    BY DEF Keys
<1>3. SelectInSeq(lines, LAMBDA line : Names(line, "Sec-WebSocket-Key")) = IF I # {} THEN Min(I) ELSE 0
    BY DEF SelectInSeq
<1>4. Keys[e] = IF (IF I # {} THEN Min(I) ELSE 0) = 0 THEN <<>>
                ELSE lines[IF I # {} THEN Min(I) ELSE 0].value
    BY <1>2, <1>3 DEF FindHeaderValue
<1>5. I # {} => Min(I) \in I
  <2>1. I \in SUBSET Nat
      BY <1>1, LenProperties
  <2> HIDE DEF I
  <2> SUFFICES ASSUME I # {} PROVE Min(I) \in I
      OBVIOUS
  <2>2. \E n \in I : \A m \in I : n <= m
      BY <2>1, LeastNat
  <2> QED BY <2>2 DEF Min
<1>6. ASSUME NEW i \in I PROVE lines[i].value \in Seq(Octet)
  <2>1. lines[i] \in [name : STRING, blanks : Nat, value : Seq(Octet)]
      BY <1>1, ElementOfSeq
  <2> QED BY <2>1
<1>7. <<>> \in Seq(Octet)
    OBVIOUS
<1> HIDE DEF I, lines
<1> QED BY <1>4, <1>5, <1>6, <1>7

\* The answer that goes with this client's key.
Accepted == Keys[exchange] # <<>> /\ accept = Accepts[exchange]

\* It is there before the response is sent, and stays.
HandshakeDone ==
    /\ stage \notin {"http", "closed"} => Accepted
    /\ out # <<>> /\ out[1] = Upgrade => Accepted

LEMMA HandshakeDoneRest ==
    ASSUME HandshakeDone, UNCHANGED <<exchange, accept, out>>,
           stage' \notin {"http", "closed"} => stage \notin {"http", "closed"}
    PROVE  HandshakeDone'
BY DEF HandshakeDone, Accepted, Keys, Accepts

LEMMA HandshakeDoneClose ==
    ASSUME HandshakeDone, Close, UNCHANGED exchange
    PROVE  HandshakeDone'
BY HandshakeDoneRest DEF Close

LEMMA HandshakeDoneHandshake ==
    ASSUME HandshakeDone, Opening, Handshake
    PROVE  HandshakeDone'
<1>1. stage = "http" /\ exchange' = exchange
    BY DEF Handshake, inVars
<1>2. CASE Close
    BY <1>1, <1>2, HandshakeDoneClose
<1>3. CASE ~Close
  <2>1. Keys[exchange] # <<>> /\ accept' = Accepts[exchange]
      BY <1>3 DEF Handshake
  <2> QED BY <1>1, <2>1 DEF HandshakeDone, Accepted, Keys, Accepts
<1> QED BY <1>2, <1>3

LEMMA HandshakeDoneSend ==
    ASSUME HandshakeDone, Understood, Jobs, Opening, NEW w \in Writers, Send(w)
    PROVE  HandshakeDone'
<1>1. open /\ UNCHANGED <<exchange, accept, stage>>
    BY DEF Send, inVars, readVars
<1>2. stage # "closed"
    BY <1>1 DEF Understood, ReadTypes
<1>3. CASE stage = "http"
  <2>1. Opening'
      BY OpeningSend
  <2>2. out' = <<>> \/ out'[1] = 1
      BY <1>1, <1>3, <2>1 DEF Opening
  <2> QED BY <1>1, <1>3, <2>2 DEF HandshakeDone, Upgrade
<1>4. CASE stage # "http"
    BY <1>1, <1>2, <1>4 DEF HandshakeDone, Accepted, Keys, Accepts
<1> QED BY <1>3, <1>4

LEMMA HandshakeDoneNext == Reads /\ HandshakeDone /\ [Next]_vars => HandshakeDone'
<1> SUFFICES ASSUME Understood, Jobs, Opening, HandshakeDone, [Next]_vars PROVE HandshakeDone'
    BY DEF Reads
<1>1. CASE Ask
    BY <1>1, HandshakeDoneRest DEF Ask, readVars, outVars
<1>2. CASE HangUp
    BY <1>2, HandshakeDoneRest DEF HangUp, readVars, outVars
<1>3. CASE Recv
    BY <1>3, HandshakeDoneRest DEF Recv, outVars
<1>4. CASE RecvFails \/ NoMemory \/ Bye
    BY <1>4, HandshakeDoneClose DEF RecvFails, NoMemory, Bye, inVars
<1>5. CASE Handshake
    BY <1>5, HandshakeDoneHandshake
<1>6. CASE SendStatus
    BY <1>6, HandshakeDoneRest DEF SendStatus, inVars
<1>7. ASSUME NEW f, Sized(f), stage \notin {"http", "closed"}, UNCHANGED inVars
      PROVE  HandshakeDone'
  <2>1. CASE Close
      BY <1>7, <2>1, HandshakeDoneClose DEF inVars
  <2>2. CASE ~Close
      BY <1>7, <2>2, HandshakeDoneRest DEF Sized, inVars, outVars
  <2> QED BY <2>1, <2>2
<1>8. CASE ReadHeader
  <2>1. CASE \E f : Sized(f)
      BY <1>7, <1>8, <2>1 DEF ReadHeader
  <2>2. CASE ~\E f : Sized(f)
    <3>1. UNCHANGED <<exchange, accept, out>> /\ stage = "header"
        BY <1>8, <2>2 DEF ReadHeader, inVars, outVars
    <3> QED BY <3>1, HandshakeDoneRest
  <2> QED BY <2>1, <2>2
<1>9. CASE ReadLength
    BY <1>7, <1>9 DEF ReadLength
<1>10. CASE ReadMask
    BY <1>10, HandshakeDoneRest DEF ReadMask, inVars, outVars
<1>11. CASE ReadPayload
    BY <1>11, HandshakeDoneRest DEF ReadPayload, inVars
<1>12. CASE Broadcast
    BY <1>12, HandshakeDoneRest DEF Broadcast, inVars, readVars
<1>13. ASSUME NEW w \in Writers, Send(w) PROVE HandshakeDone'
    BY <1>13, HandshakeDoneSend
<1>14. ASSUME NEW w \in Writers, SendFails(w) PROVE HandshakeDone'
  <2>1. CASE Close
      BY <1>14, <2>1, HandshakeDoneClose DEF SendFails, inVars
  <2>2. CASE ~Close
      BY <1>14, <2>2, HandshakeDoneRest DEF SendFails, inVars, readVars
  <2> QED BY <2>1, <2>2
<1>15. CASE UNCHANGED vars
    BY <1>15, HandshakeDoneRest DEF vars, inVars, readVars, outVars
<1> QED
  BY <1>1, <1>2, <1>3, <1>4, <1>5, <1>6, <1>8, <1>9, <1>10, <1>11, <1>12, <1>13, <1>14, <1>15
  DEF Next, Client, Done

\* A client that has the response in hand finds in it what RFC 6455 expects for its
\* key, for any key that cat does not cut, and whatever the request has besides: the
\* header is found, SHA-1 is that of the standard for every compression function that
\* keeps 32-bit words, and so is base 64.
THEOREM AcceptsAreStandard ==
    ASSUME CompressesToStates, KeysAreExpected
    PROVE  Spec => []AcceptIsStandard
<1>1. Init => HandshakeDone
    BY DEF Init, HandshakeDone
<1>2. ASSUME Reads, HandshakeDone PROVE AcceptIsStandard
  <2> SUFFICES ASSUME Accepted PROVE accept = Request.accept
      BY <1>2 DEF HandshakeDone, AcceptIsStandard
  <2>1. exchange \in DOMAIN Exchanges
      BY <1>2 DEF Reads, Understood, ReadTypes
  <2>2. PICK key \in Seq(Octet) : key = Keys[exchange]
      BY <2>1, KeyIsOctets
  <2>3. key # <<>> /\ accept = AcceptKey(key)
      BY <2>1, <2>2 DEF Accepted, Accepts
  <2>4. Len(key) <= LongestKey /\ Request.accept = StandardAccept(key)
      BY <2>1, <2>2, <2>3 DEF KeysAreExpected, Request
  <2>5. AcceptKey(key) = StandardAccept(key)
      BY <2>4, KeyIsAccepted
  <2> QED BY <2>3, <2>4, <2>5
<1>3. Reads /\ HandshakeDone /\ [Next]_vars => Reads' /\ HandshakeDone'
    BY ReadsNext, HandshakeDoneNext
<1> QED BY <1>1, <1>2, <1>3, ReadsInit, PTL DEF Spec
=============================================================================
