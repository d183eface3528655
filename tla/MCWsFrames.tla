------------------------------ MODULE MCWsFrames ------------------------------
(* WsFrames on small instances: the lengths on both sides of every boundary,   *)
(* each kind of frame before a history request, and requests with and without  *)
(* what the handshake looks at.                                                *)
EXTENDS WsFrames, Sha1

Repeat(octet, n) == [i \in 1..n |-> octet]

\* The example of RFC 6455, 1.3: the key "dGhlIHNhbXBsZSBub25jZQ==" is answered with
\* "s3pPLMBiTxaQ9kYGzzhZRbK+xOo=".  The key of a client has 24 characters: with the
\* GUID, 60 octets are hashed, which leaves no room for the length in the first block.
ClientKey ==
    <<100, 71, 104, 108, 73, 72, 78, 104, 98, 88, 66, 115,
      90, 83, 66, 117, 98, 50, 53, 106, 90, 81, 61, 61>>
ClientAccept ==
    <<44, 55, 41, 15, 11, 12, 1, 34, 19, 49, 26, 16, 61, 36,
      24, 6, 51, 51, 33, 25, 17, 27, 10, 62, 49, 14, 40, 64>>

Line(name, blanks, value) == [name |-> name, blanks |-> blanks, value |-> value]
Host      == Line("Host", 1, <<1>>)
KeyLine(blanks, key) == Line("Sec-WebSocket-Key", blanks, key)

HttpRequest(get, lines, accept_, n) ==
    [get |-> get, lines |-> lines, accept |-> accept_, octets |-> Repeat(200, n) \o <<End>>]

Proper == HttpRequest(TRUE, <<Host, KeyLine(1, ClientKey)>>, ClientAccept, 2)

Requests ==
    <<Proper,
     HttpRequest(TRUE, <<KeyLine(0, ClientKey), Host>>, ClientAccept, 1),
     HttpRequest(TRUE, <<KeyLine(1, SubSeq(ClientKey, 1, 19))>>, StandardAccept(SubSeq(ClientKey, 1, 19)), 1),
     HttpRequest(FALSE, <<KeyLine(1, ClientKey)>>, ClientAccept, 1),
     HttpRequest(TRUE, <<Host>>, ClientAccept, 1),
     HttpRequest(TRUE, <<KeyLine(2, <<>>), KeyLine(1, ClientKey)>>, ClientAccept, 1),
     HttpRequest(TRUE, <<Host, KeyLine(1, ClientKey)>>, ClientAccept, HttpMax)>>

ClientSends(op, masked, payload) ==
    [op |-> op, masked |-> masked, payload |-> payload, mask |-> <<1, 2, 3, 0>>]

HistoryRequest == ClientSends(1, TRUE, <<1, 2>>)

FirstFrames ==
    <<ClientSends(1, TRUE, <<2, 1>>), ClientSends(1, TRUE, <<1, 0, 2>>), ClientSends(1, FALSE, <<3>>),
     ClientSends(1, TRUE, <<>>), ClientSends(1, TRUE, Repeat(3, 15)), ClientSends(1, TRUE, Repeat(2, 16)),
     ClientSends(1, FALSE, Repeat(3, 18)), ClientSends(2, TRUE, <<1, 2>>), ClientSends(8, TRUE, <<>>),
     ClientSends(9, TRUE, <<3, 1>>), ClientSends(9, TRUE, <<>>), ClientSends(10, TRUE, <<>>)>>

Exchange(request, f) == [request |-> request, frames |-> <<f, HistoryRequest>>]

Pong == ClientSends(10, TRUE, <<>>)

SomeExchanges ==
    [i \in DOMAIN Requests |-> Exchange(Requests[i], Pong)]
    \o [i \in DOMAIN FirstFrames |-> Exchange(Proper, FirstFrames[i])]

OneExchange == <<Exchange(Proper, Pong)>>

SomeHistories == {<<3>>, Repeat(2, 16)}
OnlineText == <<1>>
FailedText == <<0>>
SampleText == <<1, 1>>

\* What the proofs assume of the instance and of the compression function.
ASSUME ExpectationAssumption == KeysAreExpected
ASSUME WordsAssumption ==
    \A octet \in {0, 170, 255} :
        Sha1Transform(InitialState, Repeat(octet, Block)) \in [1..5 -> (0..65535) \X (0..65535)]
=============================================================================
