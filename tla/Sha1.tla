--------------------------------- MODULE Sha1 ---------------------------------
(***************************************************************************)
(* The compression function of SHA-1 (FIPS 180-1) as sha1_transform of     *)
(* src/infra/websocket/ws_server.c computes it: the value of Compress in   *)
(* WsHandshake.  A word of 32 bits is its two halves.                      *)
(***************************************************************************)
EXTENDS Integers, Sequences, Bitwise

Both(op(_, _), a, b) == <<op(a[1], b[1]), op(a[2], b[2])>>
WordXor(a, b) == Both(LAMBDA x, y : x ^^ y, a, b)
WordAnd(a, b) == Both(LAMBDA x, y : x & y, a, b)
WordOr(a, b)  == Both(LAMBDA x, y : x | y, a, b)
WordNot(a)    == <<65535 - a[1], 65535 - a[2]>>

Add(a, b) ==
    LET low == a[2] + b[2]
    IN  <<(a[1] + b[1] + low \div 65536) % 65536, low % 65536>>

\* rol32, for n up to 15
Rol(a, n) ==
    LET up(half, other) == (half * 2 ^ n + other \div 2 ^ (16 - n)) % 65536
    IN  <<up(a[1], a[2]), up(a[2], a[1])>>

\* The function and the constant of round i.
Choice(i, b, c, d) ==
    CASE i < 20       -> WordOr(WordAnd(b, c), WordAnd(WordNot(b), d))
      [] i \in 40..59 -> WordOr(WordOr(WordAnd(b, c), WordAnd(b, d)), WordAnd(c, d))
      [] OTHER        -> WordXor(WordXor(b, c), d)
RoundConstant(i) ==
    CASE i < 20       -> <<\h5A82, \h7999>>
      [] i \in 20..39 -> <<\h6ED9, \hEBA1>>
      [] i \in 40..59 -> <<\h8F1B, \hBCDC>>
      [] OTHER        -> <<\hCA62, \hC1D6>>

Word == Nat \X Nat

\* w[0..79]
Schedule(block) ==
    LET extend[w \in Seq(Word)] ==
            LET next(i) == Rol(WordXor(WordXor(w[i - 3], w[i - 8]), WordXor(w[i - 14], w[i - 16])), 1)
            IN  IF Len(w) = 80 THEN w ELSE extend[Append(w, next(Len(w) + 1))]
    IN  extend[[i \in 1..16 |-> <<block[4 * i - 3] * 256 + block[4 * i - 2],
                                  block[4 * i - 1] * 256 + block[4 * i]>>]]

\* One of the 80 rounds; rol32(b, 30) is its halves swapped and 14 more bits.
Round(w, s, i) ==
    LET temp == Add(Add(Rol(s[1], 5), Choice(i, s[2], s[3], s[4])),
                    Add(s[5], Add(RoundConstant(i), w[i + 1])))
    IN  <<temp, s[1], Rol(<<s[2][2], s[2][1]>>, 14), s[3], s[4]>>

\* sha1_transform
Sha1Transform(state, block) ==
    LET rounds[w \in Seq(Word), s \in Seq(Word), i \in 0..80] ==
            IF i = 80 THEN s ELSE rounds[w, Round(w, s, i), i + 1]
        end == rounds[Schedule(block), state, 0]
    IN  [i \in 1..5 |-> Add(state[i], end[i])]
=============================================================================
