----------------------------- MODULE WsHandshake -----------------------------
(***************************************************************************)
(* What the opening handshake of src/infra/websocket/ws_server.c computes: *)
(* the key header is found, hashed with SHA-1 and written in base 64.      *)
(* Beside each algorithm stands the definition a client holds it to (RFC   *)
(* 6455, FIPS 180-1, RFC 4648), written without buffers and indices.       *)
(*                                                                         *)
(* Octets are numbers, and a word of 32 bits is its two halves.            *)
(***************************************************************************)
EXTENDS Integers, SequencesExt

CONSTANT Compress(_, _)   \* sha1_transform: the state after a block (module Sha1)

Block      == 64    \* octets of a SHA-1 block
CatSize    == 256   \* char cat[256]

\* WS_GUID: "258EAFA5-E914-47DA-95CA-C5AB0DC85B11"
Guid == <<50, 53, 56, 69, 65, 70, 65, 53, 45, 69, 57, 49, 52, 45, 52, 55, 68, 65,
          45, 57, 53, 67, 65, 45, 67, 53, 65, 66, 48, 68, 67, 56, 53, 66, 49, 49>>

Octet == 0..255

Zeros(n) == [i \in 1..n |-> 0]

Octets(s, from, to) == SubSeq(s, from, to)

-----------------------------------------------------------------------------
(* SHA-1.                                                                  *)

CompressAll(state, blocks) ==
    LET after[n \in 0..Len(blocks)] ==
            IF n = 0 THEN state ELSE Compress(after[n - 1], blocks[n])
    IN  after[Len(blocks)]

\* sha1_init; count is kept in octets.
InitialState ==
    <<<<\h6745, \h2301>>, <<\hEFCD, \hAB89>>, <<\h98BA, \hDCFE>>, <<\h1032, \h5476>>, <<\hC3D2, \hE1F0>>>>
Sha1Init == [state |-> InitialState, count |-> 0, buffer |-> Zeros(Block)]

\* A digest as octets.
StateOctets(state) ==
    [i \in 1..20 |-> LET half == state[(i + 3) \div 4][(((i - 1) \div 2) % 2) + 1]
                     IN  IF i % 2 = 1 THEN half \div 256 ELSE half % 256]

\* memcpy into the buffer behind idx octets; what lies beyond stays.
Overlay(buffer, idx, data) ==
    Octets(buffer, 1, idx) \o data \o Octets(buffer, idx + Len(data) + 1, Block)

\* (slip) a block that is filled exactly waits for the next octet
BlockWaits(room, n) == n > room

\* len >= part
BlockIsFull(room, n) == n >= room

\* sha1_update: fill the buffered block, hash whole blocks, buffer the rest.
Sha1Update(ctx, data) ==
    LET idx   == ctx.count % Block
        room  == Block - idx
        n     == Len(data)
        whole == (n - room) \div Block
        first == Octets(ctx.buffer, 1, idx) \o Octets(data, 1, room)
        next(k) == Octets(data, room + (k - 1) * Block + 1, room + k * Block)
    IN  IF BlockIsFull(room, n)
         THEN [state  |-> CompressAll(ctx.state, <<first>> \o [k \in 1..whole |-> next(k)]),
               count  |-> ctx.count + n,
               buffer |-> Overlay(ctx.buffer, 0, Octets(data, room + whole * Block + 1, n))]
         ELSE [ctx EXCEPT !.count = @ + n, !.buffer = Overlay(@, idx, data)]

\* The count in bits as 8 octets, the first ones first.  A message of CatSize
\* octets at most needs the last two only.
LengthOctets(n) == Zeros(6) \o <<(8 * n) \div 256, (8 * n) % 256>>

\* sha1_final: 0x80 and zeros up to 8 octets before the end of a block.
Sha1Final(ctx) ==
    LET idx    == ctx.count % Block
        padLen == IF idx < 56 THEN 56 - idx ELSE 120 - idx
        padded == Sha1Update(ctx, <<128>> \o Zeros(padLen - 1))
    IN  StateOctets(Sha1Update(padded, LengthOctets(ctx.count)).state)

\* FIPS 180-1: the message, a one bit, zeros, the length, cut into blocks.
StandardDigest(m) ==
    LET padded == m \o <<128>> \o Zeros((55 - Len(m)) % Block) \o LengthOctets(Len(m))
    IN  StateOctets(CompressAll(InitialState,
                                [k \in 1 .. Len(padded) \div Block |->
                                     Octets(padded, (k - 1) * Block + 1, k * Block)]))

-----------------------------------------------------------------------------
(* Base 64.  A character is its number in the alphabet, 64 is '='.         *)

\* (slip) the padding does not depend on how many octets are left
AlwaysFour(rem, chars) == chars

\* '=' in place of the characters that hold no bit of an octet.
PadGroup(rem, chars) ==
    [i \in 1..4 |-> IF i > rem + 1 THEN 64 ELSE chars[i]]

\* base64_encode: three octets, the missing ones 0, become four characters.
Base64Encode(in) ==
    LET group(g) ==
            LET at(i)  == IF 3 * g + i <= Len(in) THEN in[3 * g + i] ELSE 0
                triple == at(1) * 65536 + at(2) * 256 + at(3)
            IN  PadGroup(Len(in) - 3 * g,
                         <<triple \div 262144, (triple \div 4096) % 64,
                           (triple \div 64) % 64, triple % 64>>)
    IN  [c \in 1 .. 4 * ((Len(in) + 2) \div 3) |-> group((c - 1) \div 4)[((c - 1) % 4) + 1]]

\* What the bits of an octet are worth, the first one first.
Weights == <<128, 64, 32, 16, 8, 4, 2, 1>>

\* RFC 4648: the bits in groups of six, zeros behind the last, '=' up to a
\* multiple of four characters.
StandardBase64(in) ==
    LET bits  == 8 * Len(in)
        bit(i) == IF i < bits THEN (in[i \div 8 + 1] \div Weights[(i % 8) + 1]) % 2 ELSE 0
        chars == (bits + 5) \div 6
        char(c) == 32 * bit(6 * c) + 16 * bit(6 * c + 1) + 8 * bit(6 * c + 2)
                   + 4 * bit(6 * c + 3) + 2 * bit(6 * c + 4) + bit(6 * c + 5)
    IN  [c \in 1..chars |-> char(c - 1)] \o [i \in 1 .. (-chars) % 4 |-> 64]

-----------------------------------------------------------------------------
(* The request.  A header line has a name, blanks behind the colon and a     *)
(* value; the cases of the letters of a name do not count.                   *)

\* Lines that name the header and have something behind the colon.
Names(line, name) == line.name = name /\ line.blanks + Len(line.value) > 0

\* find_header_value: the first such line; blanks before the value are skipped,
\* and there is no value when nothing else follows.
FindHeaderValue(lines, name) ==
    LET i == SelectInSeq(lines, LAMBDA line : Names(line, name))
    IN  IF i = 0 THEN <<>> ELSE lines[i].value

\* compute_accept_key: snprintf cuts the text off at the size of cat.
AcceptKey(key) ==
    LET cat == key \o Guid
        ctx == Sha1Update(Sha1Init, Octets(cat, 1, IF Len(cat) < CatSize THEN Len(cat)
                                                                     ELSE CatSize - 1))
    IN  Base64Encode(Sha1Final(ctx))

\* What cat has room for in front of the GUID and the NUL.
LongestKey == CatSize - 1 - Len(Guid)

\* RFC 6455, 4.2.2: what the client expects for its key.
StandardAccept(key) == StandardBase64(StandardDigest(key \o Guid))
=============================================================================
