------------------------------- MODULE WsFrames -------------------------------
(***************************************************************************)
(* The octets of one WebSocket connection (src/infra/websocket/            *)
(* ws_server.c).  TCP hands the client's octets to its thread in pieces of *)
(* any size.  In the other direction two threads write: the client's own   *)
(* thread its answers, without a lock, and the gateway's writer its        *)
(* broadcasts.  A frame is a header and a payload in two calls of          *)
(* send_all, and each may take several sends.                              *)
(*                                                                         *)
(* The widths are small: a length up to Small fits the header, up to       *)
(* Base^2 - 1 two more digits, and everything else three (for 125, 65535   *)
(* and eight octets).  The first octet of a header is its opcode; nothing  *)
(* in the code looks at FIN.  What becomes of the client's memory and      *)
(* descriptor is the subject of WsServer.                                  *)
(***************************************************************************)
EXTENDS WsHandshake

CONSTANTS
    Small,        \* 125
    Base,         \* 256
    MaxPayload,   \* WS_MAX_PAYLOAD
    HttpMax,      \* HTTP_MAX - 1: octets of a request that are read
    Exchanges,    \* what clients may send, in a list: a request and the frames after it
    Histories,    \* the texts a history may be answered with
    Online, Failed, Sample,   \* the texts of a status, an error and a broadcast
    MaxCasts,     \* bound: broadcasts in a behaviour
    MaxCuts,      \* bound: calls of recv and send that move less than they could
    Faults        \* what may go wrong in this instance

(***************************************************************************)
(*   stall    a send fails: SO_SNDTIMEO runs out, or a reset               *)
(*   silence  a recv fails: SO_RCVTIMEO runs out, or a reset               *)
(*   hangup   the client closes its side                                   *)
(*   memory   malloc of the payload fails                                  *)
(*   query    db_reader_history_last_json fails                            *)
(***************************************************************************)
FaultKinds == {"stall", "silence", "hangup", "memory", "query"}

ASSUME WidthAssumption == Small \in 0..5 /\ Base \in Nat \ {0, 1} /\ MaxPayload < Base * Base * Base
ASSUME BoundAssumption ==
    HttpMax \in Nat /\ MaxCasts \in Nat /\ MaxCuts \in Nat /\ Faults \subseteq FaultKinds

\* Octets with a meaning of their own in this model.
End     == 201   \* the blank line at the end of a request
Upgrade == 101   \* the response 101 Switching Protocols

\* A request ends at its blank line: what a client sends it after, it sends as frames.
RequestType ==
    [get: BOOLEAN, lines: Seq([name: STRING, blanks: Nat, value: Seq(Octet)]),
     accept: Seq(Nat), octets: Seq(Octet)]
FrameType == [op: Octet, masked: BOOLEAN, payload: Seq(Octet), mask: [1..4 -> Octet]]
ASSUME ExchangesAssumption ==
    /\ Exchanges \in Seq([request: RequestType, frames: Seq(FrameType)])
    /\ \A e \in DOMAIN Exchanges :
        /\ LET octets == Exchanges[e].request.octets
           IN  \A i \in DOMAIN octets : octets[i] = End => i = Len(octets)
        /\ \A f \in ToSet(Exchanges[e].frames) : Len(f.payload) < Base * Base * Base

\* A length fits the digits it is written in, as it does eight octets.
ASSUME TextsAssumption ==
    \A text \in Histories \cup {Online, Failed, Sample} :
        text \in Seq(Octet) /\ Len(text) < Base * Base * Base

VARIABLES
    exchange,   \* what this client sends: an index of Exchanges
    asking,     \* the client has sent its frames
    hung,       \* the client has closed its side
    inbox,      \* octets on their way to the server
    open,       \* the descriptor is open
    stage,      \* what client_thread is about to read or do
    got,        \* what it has read for it
    frame,      \* the header it has read: op, masked, len, mask
    heard,      \* history: the frames ws_recv_frame has returned
    accept,     \* Sec-WebSocket-Accept of the response
    job,        \* per writer: the frame it sends and the calls of send_all left
    out,        \* the octets sent to the client
    log,        \* history: the frames begun, in this order
    casts,      \* how many broadcasts there were
    cuts,       \* how many calls of recv and send were cut short
    raced,      \* history: a send fell into the middle of another's frame
    torn,       \* history: a frame was given up in its middle, and the connection stays
    fault       \* history: a send or malloc has failed

inVars  == <<exchange, asking, hung, inbox>>
readVars == <<stage, got, frame, heard, accept>>
outVars == <<job, out, log, raced, torn>>
counts == <<casts, cuts>>
vars == <<inVars, open, readVars, outVars, counts, fault>>

Writers == {"client", "caster"}
Other(w) == IF w = "client" THEN "caster" ELSE "client"

NoJob   == [frame |-> <<>>, calls |-> <<>>, begun |-> FALSE]
NoFrame == [op |-> 0, masked |-> FALSE, len |-> 0, mask |-> <<>>]

Frames  == Exchanges[exchange].frames
Request == Exchanges[exchange].request

Init ==
    /\ exchange \in DOMAIN Exchanges
    /\ asking = FALSE /\ hung = FALSE
    /\ inbox = Request.octets
    /\ open = TRUE /\ stage = "http" /\ got = <<>> /\ frame = NoFrame
    /\ heard = <<>> /\ accept = <<>>
    /\ job = [w \in Writers |-> NoJob]
    /\ out = <<>> /\ log = <<>> /\ casts = 0 /\ cuts = 0 /\ raced = FALSE
    /\ torn = FALSE /\ fault = FALSE

-----------------------------------------------------------------------------
(* Frames as octets.                                                       *)

\* The last len digits of a number, the first one first.
Digits(n, len) ==
    IF len = 2 THEN <<(n \div Base) % Base, n % Base>>
               ELSE <<(n \div (Base * Base)) % Base, (n \div Base) % Base, n % Base>>

Number(digits) ==
    IF Len(digits) = 2 THEN digits[1] * Base + digits[2]
                       ELSE (digits[1] * Base + digits[2]) * Base + digits[3]

\* (slip) len <= 65536
HeaderTwoTooLong(op, len) ==
    IF len <= Small THEN <<op, len>>
    ELSE IF len <= Base * Base THEN <<op, Small + 1>> \o Digits(len, 2)
    ELSE <<op, Small + 2>> \o Digits(len, 3)

\* The header ws_send_text writes.
Header(op, len) ==
    IF len <= Small THEN <<op, len>>
    ELSE IF len < Base * Base THEN <<op, Small + 1>> \o Digits(len, 2)
    ELSE <<op, Small + 2>> \o Digits(len, 3)

Lesser(m, n) == IF m < n THEN m ELSE n

\* A call of send_all for the header and, unless it is empty, the payload.
Calls(header, payload) == IF payload = <<>> THEN <<header>> ELSE <<header, payload>>

Text(p) == [frame |-> <<1, p>>, calls |-> Calls(Header(1, Len(p)), p), begun |-> FALSE]

\* ws_send_control: what does not fit the short form is cut off.
Control(op, p) ==
    LET cut == SubSeq(p, 1, Lesser(Len(p), Small))
    IN  [frame |-> <<op, cut>>, calls |-> Calls(<<op, Len(cut)>>, cut), begun |-> FALSE]

Response == [frame |-> <<Upgrade, <<>>>>, calls |-> <<<<Upgrade>>>>, begun |-> FALSE]

\* a ^ b on octets: bit by bit, the sum without its carry.
XorOctets(a, b) ==
    LET bit(weight) == weight * ((a \div weight + b \div weight) % 2)
    IN  bit(128) + bit(64) + bit(32) + bit(16) + bit(8) + bit(4) + bit(2) + bit(1)

Masked(p, mask) == [i \in 1..Len(p) |-> XorOctets(p[i], mask[((i - 1) % 4) + 1])]

\* The length of a frame in its shortest form (RFC 6455, 5.2).
ShortestLength(n) ==
    CASE n <= Small                      -> <<n>>
      [] n > Small /\ n < Base * Base    -> <<Small + 1>> \o Digits(n, 2)
      [] OTHER                           -> <<Small + 2>> \o Digits(n, 3)

\* A frame of the client, the mask bit added to the second octet.
ClientFrame(f) ==
    LET size == ShortestLength(Len(f.payload))
    IN  IF f.masked
         THEN <<f.op, size[1] + 8>> \o Tail(size) \o f.mask \o Masked(f.payload, f.mask)
         ELSE <<f.op>> \o size \o f.payload

\* The client's frames from the i-th on, as octets.
FramesFrom ==
    LET from[i \in 1 .. Len(Frames) + 1] ==
            IF i > Len(Frames) THEN <<>> ELSE ClientFrame(Frames[i]) \o from[i + 1]
    IN  from

\* The frame behind p octets of s, as a client reads it (RFC 6455, 5.2): its second
\* octet is its length, or says how many digits of the length follow.
ExtraDigits(code) == CASE code = Small + 1 -> 2 [] code = Small + 2 -> 3 [] OTHER -> 0
HeaderEnd(s, p) == p + 2 + ExtraDigits(s[p + 2])
FrameEnd(s, p) ==
    HeaderEnd(s, p) + (IF ExtraDigits(s[p + 2]) = 0 THEN s[p + 2]
                                                    ELSE Number(SubSeq(s, p + 3, HeaderEnd(s, p))))
IsWhole(s, p) ==
    /\ p + 2 <= Len(s)
    /\ HeaderEnd(s, p) <= Len(s)
    /\ FrameEnd(s, p) <= Len(s)
FrameAt(s, p) == <<s[p + 1], SubSeq(s, HeaderEnd(s, p) + 1, FrameEnd(s, p))>>

\* The frames a client reads from the octets it is sent: the response first (RFC 6455,
\* 4.1), then one after the other.  There are not more of them than octets.
Received(s) ==
    LET read[n \in 1..Len(s)] ==
            IF n = 1 THEN [end |-> 1, frames |-> <<<<s[1], <<>>>>>>]
            ELSE LET before == read[n - 1]
                 IN  IF IsWhole(s, before.end)
                      THEN [end    |-> FrameEnd(s, before.end),
                            frames |-> Append(before.frames, FrameAt(s, before.end))]
                      ELSE before
    IN  IF s = <<>> THEN <<>> ELSE read[Len(s)].frames

-----------------------------------------------------------------------------
(* The client.                                                             *)

\* With the response in hand, the client sends its frames.
Ask ==
    /\ ~asking /\ ~hung /\ open /\ out # <<>> /\ out[1] = Upgrade
    /\ asking' = TRUE
    /\ inbox' = inbox \o FramesFrom[1]
    /\ UNCHANGED <<exchange, hung, open, readVars, outVars, counts, fault>>

HangUp ==
    /\ "hangup" \in Faults /\ ~hung
    /\ hung' = TRUE
    /\ UNCHANGED <<exchange, asking, inbox, open, readVars, outVars, counts, fault>>

-----------------------------------------------------------------------------
(* client_thread: reading.                                                 *)

\* How many octets a call that could move n of them moves.
Moved(n) == IF cuts < MaxCuts THEN 1..n ELSE {n}
Cut(short) == cuts' = IF short THEN cuts + 1 ELSE cuts

\* It is not sending.
Reading == open /\ job["client"].calls = <<>>

\* close(c->fd).  A broadcast under way fails with it.
Close ==
    /\ open' = FALSE /\ stage' = "closed"
    /\ job' = [w \in Writers |-> NoJob]
    /\ UNCHANGED <<got, frame, heard, accept, out, log, raced, torn>>

\* How many octets are asked for.
Wanted == CASE stage = "http"    -> HttpMax
            [] stage = "header"  -> 2
            [] stage = "length"  -> frame.len
            [] stage = "mask"    -> 4
            [] stage = "payload" -> frame.len
            [] OTHER             -> 0

\* recv_all has what it was asked for.
Filled == Len(got) = Wanted

\* read_http_request goes on up to the blank line.
HasEnd == End \in ToSet(got)

\* A recv hands out some of the octets that have arrived.
Recv ==
    /\ Reading /\ inbox # <<>>
    /\ IF stage = "http" THEN ~HasEnd ELSE ~Filled
    /\ Len(got) < Wanted
    /\ \E k \in Moved(Lesser(Len(inbox), Wanted - Len(got))) :
        /\ got' = got \o SubSeq(inbox, 1, k)
        /\ inbox' = SubSeq(inbox, k + 1, Len(inbox))
        /\ Cut(k < Lesser(Len(inbox), Wanted - Len(got)))
    /\ UNCHANGED <<exchange, asking, hung, open, stage, frame, heard, accept, outVars, casts, fault>>

\* recv returns 0 or fails: the connection ends.
RecvFails ==
    /\ Reading /\ Len(got) < Wanted /\ inbox = <<>>
    /\ IF stage = "http" THEN ~HasEnd ELSE TRUE
    /\ hung \/ "silence" \in Faults
    /\ Close
    /\ UNCHANGED <<inVars, counts, fault>>

-----------------------------------------------------------------------------
(* client_thread: the handshake.                                           *)

\* The key ws_handshake finds, and what it answers it with.
Keys    == [e \in DOMAIN Exchanges |->
               FindHeaderValue(Exchanges[e].request.lines, "Sec-WebSocket-Key")]
Accepts == [e \in DOMAIN Exchanges |-> IF Keys[e] = <<>> THEN <<>> ELSE AcceptKey(Keys[e])]

\* ws_handshake with the whole request in its buffer, or a buffer that is full.
\* What came behind the request in the same recv is dropped.
Handshake ==
    /\ Reading /\ stage = "http" /\ (HasEnd \/ Len(got) = HttpMax)
    /\ IF HasEnd /\ Request.get /\ Keys[exchange] # <<>>
        THEN /\ accept' = Accepts[exchange]
             /\ job' = [job EXCEPT !["client"] = Response]
             /\ stage' = "status" /\ got' = <<>>
             /\ UNCHANGED <<open, frame, heard, out, log, raced, torn>>
        ELSE Close
    /\ UNCHANGED <<inVars, counts, fault>>

\* The handshake is over: the status.
SendStatus ==
    /\ Reading /\ stage = "status"
    /\ job' = [job EXCEPT !["client"] = Text(Online)]
    /\ stage' = "header"
    /\ UNCHANGED <<inVars, open, got, frame, heard, accept, out, log, raced, torn, counts, fault>>

-----------------------------------------------------------------------------
(* client_thread: ws_recv_frame and the loop around it.                    *)

\* What is read when the length is known; one that is too long ends the loop.
Sized(f) ==
    IF f.len > MaxPayload
     THEN Close
     ELSE /\ frame' = f /\ got' = <<>>
          /\ stage' = IF f.masked THEN "mask" ELSE "payload"
          /\ UNCHANGED <<open, heard, accept, outVars>>

\* The two octets of a header; a length marker calls for 2 or 3 more.
ReadHeader ==
    /\ Reading /\ stage = "header" /\ Filled
    /\ LET code == got[2] % 8
           f == [op |-> got[1], masked |-> got[2] >= 8, len |-> code, mask |-> Zeros(4)]
       IN  IF code <= Small
            THEN Sized(f)
            ELSE /\ frame' = [f EXCEPT !.len = IF code = Small + 1 THEN 2 ELSE 3]
                 /\ got' = <<>> /\ stage' = "length"
                 /\ UNCHANGED <<open, heard, accept, outVars>>
    /\ UNCHANGED <<inVars, counts, fault>>

\* (slip) the octets are taken as the number they are on a little-endian machine
ReadLengthReversed ==
    /\ Reading /\ stage = "length" /\ Filled
    /\ Sized([frame EXCEPT !.len = Number(Reverse(got))])
    /\ UNCHANGED <<inVars, counts, fault>>

ReadLength ==
    /\ Reading /\ stage = "length" /\ Filled
    /\ Sized([frame EXCEPT !.len = Number(got)])
    /\ UNCHANGED <<inVars, counts, fault>>

ReadMask ==
    /\ Reading /\ stage = "mask" /\ Filled
    /\ frame' = [frame EXCEPT !.mask = got]
    /\ got' = <<>> /\ stage' = "payload"
    /\ UNCHANGED <<inVars, open, heard, accept, outVars, counts, fault>>

\* is_history_request: "type" (1) and behind it "history" (2), before a NUL.
IsHistoryRequest(p) ==
    \E i, j \in 1..Len(p) :
        i < j /\ p[i] = 1 /\ p[j] = 2 /\ \A k \in 1..j : p[k] # 0

\* What the loop answers a frame with, and whether it goes on.
Replies(op, p) ==
    CASE op = 8 -> {Control(8, <<>>)}
      [] op = 9 -> {Control(10, p)}
      [] op = 1 /\ IsHistoryRequest(p) ->
            {Text(h) : h \in Histories} \cup (IF "query" \in Faults THEN {Text(Failed)} ELSE {})
      [] OTHER -> {NoJob}

\* (slip) a pong ends the connection like a close
AfterReply(op) == IF op \in {8, 10} THEN "bye" ELSE "header"

\* break after a close, continue after everything else
NextStage(op) == IF op = 8 THEN "bye" ELSE "header"

\* The payload is unmasked and the frame answered.
ReadPayload ==
    /\ Reading /\ stage = "payload" /\ Filled
    /\ LET p == IF frame.masked THEN Masked(got, frame.mask) ELSE got
       IN  /\ heard' = Append(heard, <<frame.op, p>>)
           /\ \E reply \in Replies(frame.op, p) : job' = [job EXCEPT !["client"] = reply]
    /\ stage' = NextStage(frame.op) /\ got' = <<>>
    /\ UNCHANGED <<inVars, open, frame, accept, out, log, raced, torn, counts, fault>>

\* malloc of the payload fails.
NoMemory ==
    /\ "memory" \in Faults
    /\ Reading /\ stage = "payload" /\ got = <<>>
    /\ Close
    /\ fault' = TRUE
    /\ UNCHANGED <<inVars, counts>>

\* The close was answered.
Bye ==
    /\ Reading /\ stage = "bye"
    /\ Close
    /\ UNCHANGED <<inVars, counts, fault>>

Client == Recv \/ RecvFails \/ Handshake \/ SendStatus \/ ReadHeader \/ ReadLength
          \/ ReadMask \/ ReadPayload \/ Bye

-----------------------------------------------------------------------------
(* Sending.                                                                *)

\* ws_server_broadcast comes to this client, handshake or not.
Broadcast ==
    /\ open /\ casts < MaxCasts /\ job["caster"].calls = <<>>
    /\ casts' = casts + 1
    /\ job' = [job EXCEPT !["caster"] = Text(Sample)]
    /\ UNCHANGED <<inVars, open, readVars, out, log, raced, torn, cuts, fault>>

\* w is in the middle of a frame.
Midway(w) == job[w].calls # <<>> /\ job[w].begun

\* A send that no client can tell from the rest of another frame, or that comes
\* before the response.
Intrudes(w) == Midway(Other(w)) \/ (~job[w].begun /\ torn) \/ (w = "caster" /\ log = <<>>)

\* send_all goes on behind what has been sent.
Rest(calls, k) ==
    IF k = Len(Head(calls)) THEN Tail(calls)
    ELSE <<SubSeq(Head(calls), k + 1, Len(Head(calls)))>> \o Tail(calls)

\* One send of send_all.
Send(w) ==
    /\ open /\ job[w].calls # <<>>
    /\ LET octets == Head(job[w].calls) IN
       \E k \in Moved(Len(octets)) :
        /\ Cut(k < Len(octets))
        /\ out' = out \o SubSeq(octets, 1, k)
        /\ job' = [job EXCEPT ![w].calls = Rest(@, k), ![w].begun = TRUE]
    /\ log' = IF job[w].begun THEN log ELSE Append(log, job[w].frame)
    /\ raced' = (raced \/ Intrudes(w))
    /\ UNCHANGED <<inVars, open, readVars, casts, torn, fault>>

\* The broadcast drops the client whose send fails; ws_handshake fails; all other
\* sends of client_thread are not looked at, and what is left of the frame is not
\* sent.
SendFails(w) ==
    /\ "stall" \in Faults
    /\ open /\ job[w].calls # <<>>
    /\ IF w = "caster" \/ stage = "status"
        THEN Close
        ELSE /\ job' = [job EXCEPT ![w] = NoJob]
             /\ torn' = (torn \/ Midway(w))
             /\ UNCHANGED <<open, readVars, out, log, raced>>
    /\ fault' = TRUE
    /\ UNCHANGED <<inVars, counts>>

Done == ~open /\ UNCHANGED vars

Next == Ask \/ HangUp \/ Client \/ NoMemory \/ Broadcast
        \/ (\E w \in Writers : Send(w) \/ SendFails(w)) \/ Done

Spec == Init /\ [][Next]_vars

\* The threads run, and a send is not stalled for ever.  Nothing makes the client
\* send or the gateway broadcast.
FairSpec == Spec /\ WF_vars(Client) /\ \A w \in Writers : WF_vars(Send(w))

-----------------------------------------------------------------------------
(* What a client can rely on.                                              *)

\* However TCP cuts the octets, ws_recv_frame returns the frames the client has
\* sent, each once and in their order, unmasked and with the right length.
RequestsAreUnderstood ==
    IsPrefix(heard, [i \in DOMAIN Frames |-> <<Frames[i].op, Frames[i].payload>>])

\* What the clients of an instance expect: the answer of RFC 6455 to a key that is not
\* too long.
KeysAreExpected ==
    \A e \in DOMAIN Exchanges :
        Keys[e] # <<>> =>
            /\ Len(Keys[e]) <= LongestKey
            /\ Exchanges[e].request.accept = StandardAccept(Keys[e])

\* A client that checks Sec-WebSocket-Accept finds what it expects for its key.
AcceptIsStandard == out # <<>> /\ out[1] = Upgrade => accept = Request.accept

\* ws_server.c:5: a client connecting is sent the status, and from then on frames:
\* it reads the frames begun, in this order, the last one perhaps in part.
StreamIsWhole ==
    Received(out) = log \/ (log # <<>> /\ Received(out) = Front(log))

\* Nothing but a race of the two writers can spoil the stream: a send between two
\* sends of the other's frame, a broadcast before the response, or going on after
\* a frame that was given up half way.
BrokenOnlyByRace == ~raced => StreamIsWhole

\* The request comes second; the frame before it is one that ends nothing.
Answerable ==
    /\ asking
    /\ Frames[1].op # 8 /\ Len(Frames[1].payload) <= MaxPayload

Answered == \E i \in DOMAIN log : log[i] \in {<<1, p>> : p \in Histories \cup {Failed}}

\* A history request is answered, with the history or with an error, whatever came
\* before it and however it came, unless a send or malloc fails.
RequestIsAnswered == Answerable ~> (Answered \/ fault)
=============================================================================
