--------------------------- MODULE DashboardProofs ---------------------------
(***************************************************************************)
(* Theorems about Dashboard for every number of rows, frames, sockets and  *)
(* requests, every size of a batch and of what the page keeps: what its    *)
(* buttons and its label show, that its panel follows the stream, that an  *)
(* answer holds the latest rows and history and stream leave no hole.      *)
(***************************************************************************)
EXTENDS Dashboard, WellFoundedInduction, FiniteSetTheorems, TLAPS

-----------------------------------------------------------------------------
(* The connection.                                                         *)

\* The server's side and the page's side of a connection agree, and nothing is on
\* its way, asked or answered without one.
Link ==
    /\ socket \in {"none", "connecting", "open", "closed"}
    /\ closing \in Nat
    /\ joined \in BOOLEAN
    /\ joined <=> socket = "open"
    /\ \E S : wire \in Seq(S)
    /\ \E S : requests \in Seq(S)
    /\ ~joined => wire = <<>> /\ requests = <<>> /\ client = "recv" /\ source = "none"

LEMMA Appended ==
    ASSUME NEW S, NEW s \in Seq(S), NEW e
    PROVE  /\ Append(s, e) \in Seq(S \cup {e})
           /\ Len(Append(s, e)) = Len(s) + 1
           /\ \A i \in 1..Len(s) : Append(s, e)[i] = s[i]
           /\ Append(s, e)[Len(s) + 1] = e
<1>1. s \in Seq(S \cup {e}) /\ e \in S \cup {e}
    OBVIOUS
<1> QED BY <1>1

LEMMA Shifted ==
    ASSUME NEW S, NEW s \in Seq(S), s # <<>>
    PROVE  /\ Tail(s) \in Seq(S)
           /\ Len(s) \in Nat \ {0}
           /\ Len(Tail(s)) = Len(s) - 1
           /\ \A i \in 1..Len(s) - 1 : Tail(s)[i] = s[i + 1]
           /\ Head(s) = s[1]
OBVIOUS

LEMMA LinkInit == Init => Link
<1> SUFFICES ASSUME Init PROVE Link
    OBVIOUS
<1>1. <<>> \in Seq({})
    OBVIOUS
<1> QED BY <1>1 DEF Init, ReplayInit, Link

\* A server step.
LEMMA LinkServer ==
    ASSUME Link, Server, UNCHANGED <<socket, closing, viewVars, dataVars, givenVars>>
    PROVE  Link'
<1>1. UNCHANGED <<socket, closing, source>> /\ joined' = joined
    BY DEF Server, Commit, Broadcast, Receive, Query, QueryFails, SendHistory, givenVars
<1>2. CASE Commit \/ Query \/ QueryFails
  <2>1. UNCHANGED <<wire, requests>> /\ (client # "recv" \/ UNCHANGED client)
      BY <1>2 DEF Commit, Query, QueryFails, askVars
  <2> QED BY <1>1, <2>1 DEF Link
<1>3. CASE Broadcast
  <2>1. UNCHANGED <<requests, client>>
      BY <1>3 DEF Broadcast, askVars
  <2>2. PICK S : wire \in Seq(S)
      BY DEF Link
  <2>3. \/ wire' = wire
        \/ joined /\ wire' = Append(wire, Frame("telemetry", <<cast + 1>>))
      BY <1>3 DEF Broadcast
  <2>4. Append(wire, Frame("telemetry", <<cast + 1>>))
        \in Seq(S \cup {Frame("telemetry", <<cast + 1>>)})
      BY <2>2, Appended
  <2>5. \E R : wire' \in Seq(R)
    <3>1. CASE wire' = wire
        BY <2>2, <3>1
    <3>2. CASE wire' = Append(wire, Frame("telemetry", <<cast + 1>>))
        BY <2>4, <3>2
    <3> QED BY <2>3, <3>1, <3>2
  <2> QED BY <1>1, <2>1, <2>3, <2>5 DEF Link
<1>4. CASE Receive
  <2>1. PICK S : requests \in Seq(S)
      BY DEF Link
  <2>2. requests # <<>> /\ requests' = Tail(requests) /\ wire' = wire
      BY <1>4 DEF Receive
  <2>3. requests' \in Seq(S)
      BY <2>1, <2>2, Shifted
  <2> QED BY <1>1, <2>2, <2>3 DEF Link
<1>5. CASE SendHistory
  <2>1. client = "send" /\ requests' = requests
        /\ wire' = Append(wire, Frame("history", answer))
      BY <1>5 DEF SendHistory
  <2>2. PICK S : wire \in Seq(S)
      BY DEF Link
  <2>3. \E R : wire' \in Seq(R)
      BY <2>1, <2>2, Appended
  <2> QED BY <1>1, <2>1, <2>3 DEF Link
<1> QED BY <1>2, <1>3, <1>4, <1>5 DEF Server

\* A step of the page.
LEMMA LinkPage == ASSUME Link, Page PROVE Link'
<1>0. <<>> \in Seq({})
    OBVIOUS
<1>1. ASSUME Connect \/ Disconnect \/ OnClose PROVE Link'
  <2>1. Leave /\ socket' \in {"connecting", "none", "closed"} /\ closing' \in Nat
      BY <1>1 DEF Connect, Disconnect, OnClose, CloseSocket, Link
  <2> QED BY <1>0, <2>1 DEF Link, Leave, Part
<1>2. ASSUME OnOpen PROVE Link'
  <2>1. /\ socket' = "open" /\ joined' = TRUE /\ closing' = closing
        /\ wire' = <<Frame("status", <<>>)>>
        /\ \E n : requests' = <<n>>
      BY <1>2 DEF OnOpen, Join
  <2>2. \A e : <<e>> \in Seq({e})
      OBVIOUS
  <2> QED BY <2>1, <2>2 DEF Link
<1>3. ASSUME OldOnClose PROVE Link'
    BY <1>3 DEF OldOnClose, replayVars, askVars, givenVars, Link
<1>4. ASSUME OnStatus \/ OnTelemetry \/ OnHistory PROVE Link'
  <2>1. Taken /\ wire # <<>>
      BY <1>4 DEF OnStatus, OnTelemetry, OnHistory, Arrives
  <2>2. joined
      BY <2>1 DEF Link
  <2>3. PICK S : wire \in Seq(S)
      BY DEF Link
  <2>4. wire' \in Seq(S)
      BY <2>1, <2>3, Shifted DEF Taken
  <2> QED BY <2>1, <2>2, <2>4 DEF Link, Taken, askVars
<1>5. ASSUME RequestHistory PROVE Link'
  <2>1. PICK e : /\ socket = "open" /\ UNCHANGED <<joined, wire, socket, closing>>
                 /\ requests' = Append(requests, e)
      BY <1>5 DEF RequestHistory
  <2>2. PICK S : requests \in Seq(S)
      BY DEF Link
  <2>3. requests' \in Seq(S \cup {e})
      BY <2>1, <2>2, Appended
  <2> QED BY <2>1, <2>3 DEF Link
<1>6. ASSUME TogglePause \/ ClearAll PROVE Link'
    BY <1>6 DEF TogglePause, ClearAll, Deaf, replayVars, askVars, givenVars, Link
<1> QED BY <1>1, <1>2, <1>3, <1>4, <1>5, <1>6 DEF Page

LEMMA LinkStep == ASSUME Link, [Next]_vars PROVE Link'
<1>1. CASE UNCHANGED vars
    BY <1>1 DEF vars, replayVars, askVars, givenVars, Link
<1> QED BY <1>1, LinkServer, LinkPage DEF Next

\* The two ends agree on whether there is a connection, and what belongs to one
\* that was closed is gone: nothing of it reaches the next.
THEOREM EndsAgree == Spec => []Link
BY LinkInit, LinkStep, PTL DEF Spec

-----------------------------------------------------------------------------
(* Buttons and label.                                                      *)

Shows == buttons /\ label = "connected"

ShowsNot == ~buttons /\ label # "connected"

\* The view is right while a socket is open unless a late event has spoilt it, and
\* while there is none unless the event that puts it right is to come.
View ==
    /\ buttons \in BOOLEAN /\ late \in BOOLEAN
    /\ socket = "open" => Shows \/ late
    /\ socket \in {"connecting", "closed"} => ShowsNot
    /\ socket = "none" /\ closing = 0 => ShowsNot
    /\ late => socket = "open" /\ ~buttons

LEMMA ViewStep == ASSUME Link, View, [Next]_vars PROVE View'
<1> USE DEF Shows, ShowsNot
<1>1. ASSUME Connect PROVE View'
    BY <1>1 DEF Connect, View
<1>2. ASSUME Disconnect PROVE View'
  <2>1. socket = "open" \/ (socket = "none" /\ closing # 0)
      BY <1>2 DEF Disconnect, View, Link
  <2>2. closing' # 0
      BY <1>2, <2>1 DEF Disconnect, CloseSocket, Link
  <2> QED BY <1>2, <2>2 DEF Disconnect, View, viewVars
<1>3. ASSUME OnOpen PROVE View'
    BY <1>3 DEF OnOpen, View
<1>4. ASSUME OnClose PROVE View'
    BY <1>4 DEF OnClose, ShowDisconnected, View
<1>5. ASSUME OldOnClose PROVE View'
    BY <1>5 DEF OldOnClose, ShowDisconnected, View
<1>6. ASSUME OnStatus PROVE View'
  <2>1. socket = "open"
      BY <1>6 DEF OnStatus, Arrives, Link
  <2> QED BY <1>6, <2>1 DEF OnStatus, Taken, View
<1>7. ASSUME UNCHANGED <<socket, closing, viewVars>> PROVE View'
    BY <1>7 DEF View, viewVars
<1>8. CASE Server /\ UNCHANGED <<socket, closing, viewVars, dataVars, givenVars>>
    BY <1>7, <1>8
<1>9. CASE OnTelemetry \/ OnHistory \/ RequestHistory \/ TogglePause \/ ClearAll
  <2>1. UNCHANGED <<socket, closing, viewVars>>
      BY <1>9 DEF OnTelemetry, OnHistory, Taken, RequestHistory, TogglePause, ClearAll, Deaf
  <2> QED BY <1>7, <2>1
<1>10. CASE UNCHANGED vars
    BY <1>7, <1>10 DEF vars
<1> QED BY <1>1, <1>2, <1>3, <1>4, <1>5, <1>6, <1>8, <1>9, <1>10 DEF Next, Page

\* An open connection is shown as one unless an old socket's close event has found
\* it open, and what is none is shown as one at most while such an event is to come,
\* whatever is clicked and whenever the server ends or refuses a connection.
THEOREM ViewTellsTruth == Spec => []ViewIsTrue
<1>1. Init => View
    BY DEF Init, View, ShowsNot
<1>2. Link /\ View => ViewIsTrue
  <2> SUFFICES ASSUME Link, View PROVE ViewIsTrue
      OBVIOUS
  <2>1. closing > 0 <=> closing # 0
      BY DEF Link
  <2>2. socket # "open" /\ closing = 0 => ShowsNot
      BY DEF View, Link
  <2> QED BY <2>1, <2>2 DEF View, Shows, ShowsNot, ViewIsTrue
<1> QED BY <1>1, <1>2, EndsAgree, ViewStep, PTL DEF Spec

-----------------------------------------------------------------------------
(* The panel.                                                              *)

Live(i) == wire[i].type = "telemetry"

\* The last live frame under way, if there is one, is that of the newest sample;
\* if there is none, the panel shows it, when a live frame came last.
Stream ==
    joined =>
        /\ \A i \in 1..Len(wire) :
               Live(i) /\ (\A j \in i + 1..Len(wire) : ~Live(j)) =>
                   wire[i].items = <<cast>>
        /\ source = "telemetry" /\ (\A i \in 1..Len(wire) : ~Live(i)) => panel = cast

\* A step that leaves the connection's frames and the panel alone.
LEMMA StreamKept ==
    ASSUME Stream, UNCHANGED <<wire, cast, joined, source, panel>>
    PROVE  Stream'
BY DEF Stream, Live

\* A frame goes behind the others.
LEMMA FrameAppended ==
    ASSUME Link, NEW f, wire' = Append(wire, f)
    PROVE  \E n \in Nat : /\ Len(wire) = n /\ Len(wire') = n + 1
                          /\ wire'[n + 1] = f
                          /\ \A i \in 1..n : wire'[i] = wire[i]
<1>1. PICK S : wire \in Seq(S)
    BY DEF Link
<1>2. Len(wire) \in Nat
    BY <1>1
<1> QED BY <1>1, <1>2, Appended

LEMMA StreamCast ==
    ASSUME Link, Stream, Broadcast, UNCHANGED <<source, panel>>
    PROVE  Stream'
<1> SUFFICES ASSUME joined PROVE Stream'
    BY DEF Stream, Broadcast
<1>1. /\ wire' = Append(wire, Frame("telemetry", <<cast + 1>>))
      /\ cast' = cast + 1
    BY DEF Broadcast
<1>2. PICK n \in Nat : /\ Len(wire') = n + 1
                       /\ wire'[n + 1] = Frame("telemetry", <<cast + 1>>)
    BY <1>1, FrameAppended
<1>3. wire'[n + 1].type = "telemetry" /\ wire'[n + 1].items = <<cast'>>
    BY <1>1, <1>2 DEF Frame
<1>4. \A i \in 1..Len(wire') : i = n + 1 \/ n + 1 \in i + 1..Len(wire')
    BY <1>2
<1>5. n + 1 \in 1..Len(wire')
    BY <1>2
<1> QED BY <1>3, <1>4, <1>5 DEF Stream, Live

LEMMA StreamAnswered ==
    ASSUME Link, Stream, SendHistory, UNCHANGED <<source, panel>>
    PROVE  Stream'
<1>1. wire' = Append(wire, Frame("history", answer)) /\ cast' = cast /\ joined' = joined
    BY DEF SendHistory
<1>2. PICK n \in Nat : /\ Len(wire) = n /\ Len(wire') = n + 1
                       /\ wire'[n + 1] = Frame("history", answer)
                       /\ \A i \in 1..n : wire'[i] = wire[i]
    BY <1>1, FrameAppended
<1>3. wire'[n + 1].type # "telemetry"
    BY <1>2 DEF Frame
<1>4. ASSUME joined, NEW i \in 1..n + 1, wire'[i].type = "telemetry",
             \A j \in i + 1..n + 1 : wire'[j].type # "telemetry"
      PROVE  wire'[i].items = <<cast>>
  <2>1. i \in 1..n
      BY <1>3, <1>4
  <2>2. \A j \in i + 1..n : wire[j].type # "telemetry"
      BY <1>2, <1>4, <2>1
  <2> QED BY <1>2, <1>4, <2>1, <2>2 DEF Stream, Live
<1>5. ASSUME joined, source = "telemetry", \A i \in 1..n + 1 : wire'[i].type # "telemetry"
      PROVE  panel = cast
  <2>1. \A i \in 1..n : wire[i].type # "telemetry"
      BY <1>2, <1>5
  <2> QED BY <1>2, <1>5, <2>1 DEF Stream, Live
<1> QED BY <1>1, <1>2, <1>4, <1>5 DEF Stream, Live

\* A frame is taken off the front: what is behind it moves up by one.
LEMMA StreamTaken ==
    ASSUME Link, Stream, Taken, wire # <<>>
    PROVE  /\ joined /\ joined' = joined /\ cast' = cast
           /\ \A i \in 1..Len(wire') :
                  Live(i)' /\ (\A j \in i + 1..Len(wire') : ~Live(j)') =>
                      wire'[i].items = <<cast>>
           /\ (\A i \in 1..Len(wire') : ~Live(i)') =>
                  /\ Head(wire).type = "telemetry" => Head(wire).items = <<cast>>
                  /\ Head(wire).type # "telemetry" => \A i \in 1..Len(wire) : ~Live(i)
<1>1. joined /\ joined' = joined /\ cast' = cast /\ wire' = Tail(wire)
    BY DEF Link, Taken
<1>2. PICK S : wire \in Seq(S)
    BY DEF Link
<1>3. PICK n \in Nat : /\ Len(wire) = n + 1 /\ Len(wire') = n
                       /\ \A i \in 1..n : wire'[i] = wire[i + 1]
                       /\ Head(wire) = wire[1]
  <2>1. Len(wire) - 1 \in Nat /\ Len(wire) = (Len(wire) - 1) + 1
      BY <1>2
  <2>2. Len(wire') = Len(wire) - 1 /\ Head(wire) = wire[1]
        /\ \A i \in 1..Len(wire) - 1 : wire'[i] = wire[i + 1]
      BY <1>1, <1>2, Shifted
  <2> QED BY <2>1, <2>2
<1>4. ASSUME NEW i \in 1..n, wire'[i].type = "telemetry",
             \A j \in i + 1..n : wire'[j].type # "telemetry"
      PROVE  wire'[i].items = <<cast>>
  <2>1. \A j \in (i + 1) + 1..n + 1 : wire[j].type # "telemetry"
    <3> SUFFICES ASSUME NEW j \in (i + 1) + 1..n + 1 PROVE wire[j].type # "telemetry"
        OBVIOUS
    <3>1. j - 1 \in i + 1..n /\ j - 1 \in 1..n /\ (j - 1) + 1 = j
        OBVIOUS
    <3> QED BY <1>3, <1>4, <3>1
  <2>2. i + 1 \in 1..n + 1 /\ wire'[i] = wire[i + 1]
      BY <1>3
  <2> QED BY <1>1, <1>3, <1>4, <2>1, <2>2 DEF Stream, Live
<1>5. ASSUME \A i \in 1..n : wire'[i].type # "telemetry"
      PROVE  \A i \in 2..n + 1 : wire[i].type # "telemetry"
  <2> SUFFICES ASSUME NEW i \in 2..n + 1 PROVE wire[i].type # "telemetry"
      OBVIOUS
  <2>1. i - 1 \in 1..n /\ (i - 1) + 1 = i
      OBVIOUS
  <2> QED BY <1>3, <1>5, <2>1
<1>6. ASSUME \A i \in 1..n : wire'[i].type # "telemetry",
             Head(wire).type = "telemetry"
      PROVE  Head(wire).items = <<cast>>
  <2>1. 1 \in 1..n + 1 /\ \A j \in 1 + 1..n + 1 : wire[j].type # "telemetry"
      BY <1>5, <1>6
  <2> QED BY <1>1, <1>3, <1>6, <2>1 DEF Stream, Live
<1>7. ASSUME \A i \in 1..n : wire'[i].type # "telemetry",
             Head(wire).type # "telemetry"
      PROVE  \A i \in 1..n + 1 : wire[i].type # "telemetry"
  <2>1. \A i \in 1..n + 1 : i = 1 \/ i \in 2..n + 1
      OBVIOUS
  <2> QED BY <1>3, <1>5, <1>7, <2>1
<1> QED BY <1>1, <1>3, <1>4, <1>6, <1>7 DEF Live

LEMMA StreamStep == ASSUME Link, Stream, [Next]_vars PROVE Stream'
<1>1. ASSUME Leave PROVE Stream'
    BY <1>1 DEF Leave, Part, Stream
<1>2. CASE Connect \/ Disconnect \/ OnClose
    BY <1>1, <1>2 DEF Connect, Disconnect, OnClose
<1>3. CASE OnOpen
  <2>1. source' = "none" /\ wire' = <<Frame("status", <<>>)>>
      BY <1>3 DEF OnOpen, Join, Link, givenVars
  <2>2. Len(wire') = 1 /\ wire'[1].type = "status"
      BY <2>1 DEF Frame
  <2> QED BY <2>1, <2>2 DEF Stream, Live
<1>4. CASE OldOnClose \/ RequestHistory \/ TogglePause
  <2>1. UNCHANGED <<wire, cast, joined, source, panel>>
      BY <1>4 DEF OldOnClose, RequestHistory, TogglePause, Deaf, replayVars, dataVars, givenVars
  <2> QED BY <2>1, StreamKept
<1>5. CASE ClearAll
    BY <1>5 DEF ClearAll, Deaf, replayVars, Stream, Live
<1>6. CASE OnStatus
  <2>1. /\ Taken /\ wire # <<>> /\ Head(wire).type # "telemetry"
        /\ UNCHANGED <<source, panel>>
      BY <1>6 DEF OnStatus, Arrives, dataVars, givenVars
  <2> QED BY <2>1, StreamTaken DEF Stream
<1>7. CASE OnTelemetry
  <2>1. Taken /\ wire # <<>> /\ Head(wire).type = "telemetry"
      BY <1>7 DEF OnTelemetry, Arrives
  <2>2. source' = "telemetry" => panel' = Head(wire).items[1]
      BY <1>7 DEF OnTelemetry
  <2>3. ASSUME source' = "telemetry", \A i \in 1..Len(wire') : ~Live(i)'
        PROVE  panel' = cast
    <3>1. Head(wire).items = <<cast>>
        BY <2>1, <2>3, StreamTaken
    <3> QED BY <2>2, <2>3, <3>1
  <2>4. joined /\ cast' = cast
      BY <2>1, StreamTaken
  <2>5. \A i \in 1..Len(wire') :
            Live(i)' /\ (\A j \in i + 1..Len(wire') : ~Live(j)') =>
                wire'[i].items = <<cast>>
      BY <2>1, StreamTaken
  <2> QED BY <2>3, <2>4, <2>5 DEF Stream
<1>8. CASE OnHistory
  <2>1. Taken /\ wire # <<>> /\ Head(wire).type # "telemetry"
      BY <1>8 DEF OnHistory, Arrives
  <2>2. source' = "history" \/ UNCHANGED <<source, panel>>
      BY <1>8 DEF OnHistory
  <2> QED BY <2>1, <2>2, StreamTaken DEF Stream
<1>9. CASE Server /\ UNCHANGED <<socket, closing, viewVars, dataVars, givenVars>>
  <2>1. UNCHANGED <<source, panel>>
      BY <1>9 DEF dataVars, givenVars
  <2>2. CASE Commit \/ Receive \/ Query \/ QueryFails
    <3>1. UNCHANGED <<wire, cast, joined>>
        BY <2>2 DEF Commit, Receive, Query, QueryFails
    <3> QED BY <2>1, <3>1, StreamKept
  <2> QED BY <1>9, <2>1, <2>2, StreamCast, StreamAnswered DEF Server
<1>10. CASE UNCHANGED vars
    BY <1>10, StreamKept DEF vars, replayVars, dataVars, givenVars
<1> QED BY <1>2, <1>3, <1>4, <1>5, <1>6, <1>7, <1>8, <1>9, <1>10 DEF Next, Page

\* Behind any number of pauses, reconnections and answers, a panel that a live frame
\* was the last to set shows the newest sample broadcast once the frames under way
\* have come.
THEOREM PanelFollowsStream == Spec => []PanelIsNewest
<1>1. Init => Stream
    BY DEF Init, ReplayInit, Stream
<1>2. Stream => PanelIsNewest
  <2> SUFFICES ASSUME Stream, joined, wire = <<>>, source = "telemetry"
               PROVE  panel = cast
      BY DEF PanelIsNewest
  <2>1. \A i \in 1..Len(wire) : FALSE
      OBVIOUS
  <2> QED BY <2>1 DEF Stream
<1> QED BY <1>1, <1>2, EndsAgree, StreamStep, PTL DEF Spec

-----------------------------------------------------------------------------
(* Induction on numbers.                                                   *)

\* A set of numbers that is not empty has a least one.
LEMMA LeastNat ==
    ASSUME NEW T \in SUBSET Nat, T # {}
    PROVE  \E n \in T : \A m \in T : n <= m
<1>1. IsWellFoundedOn(OpToRel(<, Nat), Nat)
    BY NatLessThanWellFounded
<1>2. PICK n \in T : \A m \in T : ~ (<<m, n>> \in OpToRel(<, Nat))
    BY <1>1, WFMin
<1>3. ASSUME NEW m \in T PROVE n <= m
  <2>1. ~(m < n)
      BY <1>2, <1>3 DEF OpToRel
  <2> QED BY <2>1
<1> QED BY <1>3

\* A set that has 0, and n + 1 whenever it has n, holds every number.
LEMMA EveryNat ==
    ASSUME NEW T \in SUBSET Nat, 0 \in T, \A n \in T : n + 1 \in T
    PROVE  T = Nat
<1> SUFFICES ASSUME Nat \ T # {} PROVE FALSE
    OBVIOUS
<1>1. PICK n \in Nat \ T : \A m \in Nat \ T : n <= m
    BY LeastNat
<1>2. n - 1 \in Nat /\ n - 1 \in T
    BY <1>1
<1> QED BY <1>1, <1>2

-----------------------------------------------------------------------------
(* The order of an answer.                                                 *)

\* Newer is a strict order of the rows in which any two can be compared.
LEMMA NewerOrders ==
    ASSUME rows \in Seq(Nat),
           NEW i \in 1..Len(rows), NEW j \in 1..Len(rows), NEW k \in 1..Len(rows)
    PROVE  /\ ~Newer(i, i)
           /\ i # j => Newer(i, j) \/ Newer(j, i)
           /\ Newer(i, j) /\ Newer(j, k) => Newer(i, k)
<1>1. rows[i] \in Nat /\ rows[j] \in Nat /\ rows[k] \in Nat
    OBVIOUS
<1> QED BY <1>1 DEF Newer

\* s lists the first n rows, the newest first.
Lists(s, n) ==
    /\ s \in [1..n -> 1..n]
    /\ \A i, j \in 1..n : i < j => Newer(s[i], s[j])

\* The next row has its place in front of the first one it is newer than.
LEMMA OneMore ==
    ASSUME rows \in Seq(Nat), NEW n \in Nat, n + 1 <= Len(rows), NEW s, Lists(s, n)
    PROVE  \E t : Lists(t, n + 1)
<1> DEFINE new == n + 1
           P == {p \in 1..n + 1 : p = n + 1 \/ Newer(new, s[p])}
<1>1. PICK p \in P : \A q \in P : p <= q
  <2>1. n + 1 \in P /\ P \in SUBSET Nat
      OBVIOUS
  <2> HIDE DEF P
  <2> QED BY <2>1, LeastNat
<1> DEFINE t == [i \in 1..n + 1 |-> IF i < p THEN s[i] ELSE IF i = p THEN new ELSE s[i - 1]]
<1>2. \A i \in 1..n : s[i] \in 1..n /\ s[i] \in 1..Len(rows) /\ s[i] # new
    BY DEF Lists
<1>3. t \in [1..n + 1 -> 1..n + 1]
  <2> SUFFICES ASSUME NEW i \in 1..n + 1 PROVE t[i] \in 1..n + 1
      OBVIOUS
  <2>1. CASE i < p
      BY <1>2, <2>1
  <2>2. CASE i = p
      BY <2>2
  <2>3. CASE i > p
    <3>1. i - 1 \in 1..n
        BY <2>3
    <3> QED BY <1>2, <2>3, <3>1
  <2> QED BY <2>1, <2>2, <2>3
<1>4. \A i \in 1..n : i < p => Newer(s[i], new)
  <2> SUFFICES ASSUME NEW i \in 1..n, i < p PROVE Newer(s[i], new)
      OBVIOUS
  <2>1. ~Newer(new, s[i])
      BY <1>1
  <2>2. new \in 1..Len(rows)
      OBVIOUS
  <2> QED BY <1>2, <2>1, <2>2, NewerOrders
<1>5. \A i \in 1..n : i >= p => Newer(new, s[i])
  <2> SUFFICES ASSUME NEW i \in 1..n, i >= p PROVE Newer(new, s[i])
      OBVIOUS
  <2>1. p \in 1..n /\ Newer(new, s[p])
      BY <1>1
  <2>2. i = p \/ Newer(s[p], s[i])
      BY <2>1 DEF Lists
  <2>3. new \in 1..Len(rows) /\ s[p] \in 1..Len(rows) /\ s[i] \in 1..Len(rows)
      BY <1>2, <2>1
  <2> QED BY <2>1, <2>2, <2>3, NewerOrders
<1>6. ASSUME NEW i \in 1..n + 1, NEW j \in 1..n + 1, i < j
      PROVE  Newer(t[i], t[j])
  <2>1. CASE j < p
      BY <1>6, <2>1 DEF Lists
  <2>2. CASE j = p
    <3>1. i \in 1..n /\ i < p
        BY <1>6, <2>2
    <3> QED BY <1>4, <2>2, <3>1
  <2>3. CASE j > p
    <3>1. j - 1 \in 1..n /\ t[j] = s[j - 1]
        BY <1>6, <2>3
    <3>2. CASE i < p
      <4>1. i \in 1..n /\ i < j - 1 /\ t[i] = s[i]
          BY <2>3, <3>2
      <4> QED BY <3>1, <4>1 DEF Lists
    <3>3. CASE i = p
      <4>1. t[i] = new /\ j - 1 >= p
          BY <1>6, <3>3
      <4> QED BY <1>5, <3>1, <4>1
    <3>4. CASE i > p
      <4>1. i - 1 \in 1..n /\ i - 1 < j - 1 /\ t[i] = s[i - 1]
          BY <1>6, <3>4
      <4> QED BY <3>1, <4>1 DEF Lists
    <3> QED BY <3>2, <3>3, <3>4
  <2> QED BY <2>1, <2>2, <2>3
<1> QED BY <1>3, <1>6 DEF Lists

\* Rows can be put in order, however many there are.
LEMMA RowsHaveOrder ==
    ASSUME rows \in Seq(Nat)
    PROVE  \E s : Lists(s, Len(rows))
<1> DEFINE T == {n \in Nat : n <= Len(rows) => \E s : Lists(s, n)}
<1>1. 0 \in T
  <2>1. Lists(<<>>, 0)
      BY DEF Lists
  <2> QED BY <2>1
<1>2. \A n \in T : n + 1 \in T
    BY OneMore
<1>3. T = Nat
  <2> HIDE DEF T
  <2>1. T \in SUBSET Nat
      BY DEF T
  <2> QED BY <1>1, <1>2, <2>1, EveryNat
<1> HIDE DEF T
<1>4. Len(rows) \in T
    BY <1>3
<1> QED BY <1>4 DEF T

\* The reader's order holds each row once.
LEMMA OrderIsComplete ==
    ASSUME rows \in Seq(Nat)
    PROVE  /\ Lists(NewestFirst, Len(rows))
           /\ \A k \in 1..Len(rows) : \E i \in 1..Len(rows) : NewestFirst[i] = k
<1> DEFINE s == NewestFirst
           D == 1..Len(rows)
<1>0. Len(rows) \in Nat /\ DOMAIN rows = D
    OBVIOUS
<1>1. Lists(s, Len(rows))
    BY <1>0, RowsHaveOrder DEF Lists, NewestFirst
<1>2. s \in Injection(D, D)
  <2>1. s \in [D -> D]
      BY <1>1 DEF Lists
  <2>2. ASSUME NEW i \in D, NEW j \in D, s[i] = s[j] PROVE i = j
    <3>1. ~Newer(s[i], s[j]) /\ ~Newer(s[j], s[i])
        BY <2>1, <2>2, NewerOrders
    <3>2. ~(i < j) /\ ~(j < i)
        BY <1>1, <2>2, <3>1 DEF Lists
    <3> QED BY <3>2
  <2> HIDE DEF s
  <2> QED BY <2>1, <2>2 DEF Injection, IsInjective
<1>3. s \in Surjection(D, D)
  <2>1. IsFiniteSet(D)
      BY <1>0, FS_Interval
  <2> HIDE DEF D, s
  <2> QED BY <1>2, <2>1, FS_Injection
<1>4. \A k \in D : \E i \in D : s[i] = k
  <2> HIDE DEF D, s
  <2> QED BY <1>3 DEF Surjection
<1> QED BY <1>1, <1>4

-----------------------------------------------------------------------------
(* Answers.                                                                *)

Samples == [type : {"telemetry", "history"}, items : Seq(Nat)]

TypeOK ==
    /\ rows \in Seq(Nat) /\ cast \in 0..Len(rows)
    /\ requests \in Seq(Nat) /\ last \in Nat
    /\ wire \in Seq(Samples \cup {Frame("status", <<>>)})
    /\ given \in SUBSET Nat

Size == LET wanted == IF last <= 0 THEN Default ELSE last IN Min({wanted, MaxLimit, basis})

\* The answer is made of the newest of the first basis rows, the older ones first.
Newest ==
    client = "send" =>
        /\ basis \in 0..Len(rows) /\ answer \in Seq(1..basis)
        /\ \A i, j \in 1..Len(answer) : i < j => Newer(answer[j], answer[i])
        /\ \A k \in 1..basis :
               (\E i \in 1..Len(answer) : answer[i] = k)
                   \/ \A i \in 1..Len(answer) : Newer(answer[i], k)
        /\ Len(answer) <= Size
        /\ cut \/ Len(answer) = Size

LEMMA FunctionIsSeq ==
    ASSUME NEW S, NEW n \in Nat, NEW f \in [1..n -> S], NEW m \in 0..n
    PROVE  /\ f \in Seq(S) /\ Len(f) = n
           /\ SubSeq(f, 1, m) = [i \in 1..m |-> f[i]]
<1>1. f \in Seq(S) /\ Len(f) = n
    OBVIOUS
<1> QED BY <1>1

LEMMA LeastOfThree ==
    ASSUME NEW a \in Nat, NEW b \in Nat, NEW c \in Nat
    PROVE  /\ Min({a, b, c}) \in {a, b, c}
           /\ Min({a, b, c}) <= a /\ Min({a, b, c}) <= b /\ Min({a, b, c}) <= c
<1> DEFINE S == {a, b, c}
<1>1. \E x \in S : \A y \in S : x <= y
    OBVIOUS
<1>2. Min(S) \in S /\ \A y \in S : Min(S) <= y
    BY <1>1 DEF Min
<1> QED BY <1>2

\* What the SELECT steps through, and what is made of its first n rows.
LEMMA Answered ==
    ASSUME rows \in Seq(Nat), last \in Nat, Query
    PROVE  Newest'
<1> DEFINE len == Len(rows)
           limit == Limit(last)
           size == IF len < limit THEN len ELSE limit
           found == NewestRows(limit)
           s == NewestFirst
           wanted == IF last <= 0 THEN Default ELSE last
<1>1. /\ len \in Nat /\ limit \in Nat /\ size \in 0..len
      /\ size = Min({wanted, MaxLimit, len})
  <2>1. len \in Nat
      OBVIOUS
  <2>2. limit \in Nat /\ MaxLimit \in Nat /\ wanted \in Nat
      BY LimitsAssumption DEF Limit
  <2>3. size = Min({wanted, MaxLimit, len})
    <3>1. limit = IF wanted < MaxLimit THEN wanted ELSE MaxLimit
        BY LimitsAssumption DEF Limit
    <3> QED BY <2>1, <2>2, <3>1, LeastOfThree
  <2> QED BY <2>1, <2>2, <2>3
<1>2. /\ s \in [1..len -> 1..len]
      /\ \A i, j \in 1..len : i < j => Newer(s[i], s[j])
      /\ \A k \in 1..len : \E i \in 1..len : s[i] = k
    BY OrderIsComplete DEF Lists
<1>3. found = [i \in 1..size |-> s[i]] /\ Len(found) = size
  <2> HIDE DEF s
  <2>1. found = SubSeq(s, 1, size)
      BY DEF NewestRows, s
  <2>2. found = [i \in 1..size |-> s[i]]
    <3> HIDE DEF size, found
    <3> QED BY <1>1, <1>2, <2>1, FunctionIsSeq
  <2>3. size \in Nat
      BY <1>1
  <2> HIDE DEF size, found, s, len
  <2> QED BY <2>2, <2>3
<1>4. PICK n \in 0..size : /\ cut' \/ n = size
                           /\ answer' = Reverse(SubSeq(found, 1, n))
                           /\ basis' = len /\ client' = "send"
                           /\ UNCHANGED <<rows, last>>
  <2>0. size \in Nat /\ Len(found) = size
      BY <1>1, <1>3
  <2> HIDE DEF found, size
  <2>1. PICK n \in (IF "step" \in Faults THEN 0 ELSE Len(found))..Len(found) :
            /\ answer' = Reverse(SubSeq(found, 1, n)) /\ cut' = (n < Len(found))
            /\ basis' = len /\ client' = "send" /\ UNCHANGED <<rows, last>>
      BY DEF Query, found
  <2>2. n \in 0..size
      BY <2>0, <2>1
  <2>3. n < size \/ n = size
      BY <2>0, <2>2
  <2>4. cut' \/ n = size
      BY <2>0, <2>1, <2>3
  <2> QED BY <2>1, <2>2, <2>4
<1>5. answer' = [i \in 1..n |-> s[(n - i) + 1]]
  <2>1. SubSeq(found, 1, n) = [i \in 1..n |-> s[i]]
    <3> HIDE DEF found, s, size
    <3>0. size \in 0..len /\ n \in 0..size /\ len \in Nat
        BY <1>1, <1>4, SMTT(30)
    <3>1. s \in [1..len -> 1..len]
        BY <1>2
    <3> HIDE DEF len
    <3>2. found \in [1..size -> 1..len] /\ \A i \in 1..size : found[i] = s[i]
      <4>1. \A i \in 1..size : s[i] \in 1..len
          BY <3>0, <3>1
      <4> QED BY <1>3, <4>1
    <3>3. SubSeq(found, 1, n) = [i \in 1..n |-> found[i]]
        BY <3>0, <3>2, FunctionIsSeq
    <3> QED BY <3>0, <3>2, <3>3
  <2> HIDE DEF found, s, size
  <2>2. Len(SubSeq(found, 1, n)) = n
      BY <2>1
  <2> QED BY <1>4, <2>1, <2>2 DEF Reverse
<1>6. Size' = size
    BY <1>1, <1>4 DEF Size
<1> HIDE DEF found, s, size, limit
<1>7. answer' \in Seq(1..basis') /\ Len(answer') = n
  <2>1. n \in Nat /\ basis' = len /\ answer' \in [1..n -> 1..len]
    <3>0. n \in Nat /\ basis' = len
        BY <1>1, <1>4
    <3> SUFFICES ASSUME NEW i \in 1..n PROVE s[(n - i) + 1] \in 1..len
        BY <1>5, <3>0
    <3>1. (n - i) + 1 \in 1..len
        BY <1>1
    <3> QED BY <1>2, <3>1
  <2> QED BY <2>1, FunctionIsSeq
<1>8. \A i, j : Newer(i, j)' <=> Newer(i, j)
    BY <1>4 DEF Newer
<1>9. ASSUME NEW i \in 1..n, NEW j \in 1..n, i < j
      PROVE  Newer(answer'[j], answer'[i])
  <2>1. (n - i) + 1 \in 1..len /\ (n - j) + 1 \in 1..len /\ (n - j) + 1 < (n - i) + 1
      BY <1>1, <1>9
  <2> QED BY <1>2, <1>5, <2>1
<1>10. ASSUME NEW k \in 1..len, \A i \in 1..n : answer'[i] # k, NEW i \in 1..n
       PROVE  Newer(answer'[i], k)
  <2>1. PICK p \in 1..len : s[p] = k
      BY <1>2
  <2>2. ~(p <= n)
    <3> SUFFICES ASSUME p <= n PROVE FALSE
        OBVIOUS
    <3>1. (n - p) + 1 \in 1..n /\ (n - ((n - p) + 1)) + 1 = p
        BY <1>1
    <3> QED BY <1>5, <1>10, <2>1, <3>1
  <2>3. (n - i) + 1 \in 1..len /\ (n - i) + 1 < p
      BY <1>1, <2>2
  <2> QED BY <1>2, <1>5, <2>1, <2>3
<1>11. n <= size /\ (cut' \/ n = size)
    BY <1>1, <1>4
<1>12. basis' = len /\ rows' = rows
    BY <1>4
<1> HIDE DEF len
<1>13. \A k \in 1..len :
           (\E i \in 1..n : answer'[i] = k) \/ \A i \in 1..n : Newer(answer'[i], k)
    BY <1>10
<1>14. basis' \in 0..Len(rows')
    BY <1>1, <1>12 DEF len
<1> QED BY <1>6, <1>7, <1>8, <1>9, <1>11, <1>12, <1>13, <1>14 DEF Newest

\* A commit adds rows behind those there are.
LEMMA Committed ==
    ASSUME TypeOK, Commit
    PROVE  /\ rows' \in Seq(Nat) /\ Len(rows') >= Len(rows)
           /\ \A i \in 1..Len(rows) : rows'[i] = rows[i]
<1>1. PICK ts \in Times : rows' = rows \o ts
    BY DEF Commit
<1>2. PICK n \in Nat : ts \in [1..n -> Nat]
  <2>1. \E n \in 1..BatchSize : ts \in [1..n -> 0..MaxTime]
      BY DEF Times
  <2>2. 1..BatchSize \subseteq Nat /\ 0..MaxTime \subseteq Nat
      BY BatchAssumption, BoundsAssumption
  <2> QED BY <2>1, <2>2
<1>3. ts \in Seq(Nat) /\ rows \in Seq(Nat)
    BY <1>2 DEF TypeOK
<1> QED BY <1>1, <1>3

\* What a step of the page does to the connection: it ends it, it joins, it takes
\* a frame, or it asks at most.
LEMMA PageSteps ==
    ASSUME Page
    PROVE  \/ Leave
           \/ /\ Join /\ given' = given /\ socket = "connecting"
              /\ \E n \in Typed : requests' = <<Clamped(n)>>
           \/ /\ wire # <<>> /\ Taken
              /\ \/ given' = given \cup ToSet(Head(wire).items)
                 \/ given' = given /\ Head(wire).type = "status"
           \/ /\ UNCHANGED <<rows, cast, joined, askVars, wire, given>>
              /\ \/ requests' = requests
                 \/ \E n \in Typed : requests' = Append(requests, Clamped(n))
<1>1. CASE Connect \/ Disconnect \/ OnClose
    BY <1>1 DEF Connect, Disconnect, OnClose
<1>2. CASE OnOpen
    BY <1>2 DEF OnOpen, givenVars
<1>3. CASE OnStatus
    BY <1>3 DEF OnStatus, Arrives, givenVars
<1>4. CASE OnTelemetry \/ OnHistory
    BY <1>4 DEF OnTelemetry, OnHistory, Arrives
<1>5. CASE OldOnClose \/ RequestHistory \/ TogglePause \/ ClearAll
    BY <1>5 DEF OldOnClose, RequestHistory, TogglePause, ClearAll, Deaf, givenVars, replayVars
<1> QED BY <1>1, <1>2, <1>3, <1>4, <1>5 DEF Page

LEMMA Asked == ASSUME NEW n \in Typed PROVE Clamped(n) \in Nat
BY PageAssumption DEF Clamped, Null

LEMMA TypeStep == ASSUME TypeOK, Newest, [Next]_vars PROVE TypeOK'
<1>0. wire \in Seq(Samples \cup {Frame("status", <<>>)})
    BY DEF TypeOK
<1>1. CASE Commit /\ given' = given
  <2>1. cast \in 0..Len(rows')
      BY <1>1, Committed DEF TypeOK
  <2> QED BY <1>1, <2>1, Committed DEF TypeOK, Commit, askVars
<1>2. CASE Broadcast /\ given' = given
  <2>1. UNCHANGED <<rows, requests, last>> /\ cast' = cast + 1 /\ cast' \in 0..Len(rows)
      BY <1>2 DEF Broadcast, askVars, TypeOK
  <2>2. Frame("telemetry", <<cast + 1>>) \in Samples
      BY DEF Frame, Samples, TypeOK
  <2>3. wire' \in Seq(Samples \cup {Frame("status", <<>>)})
      BY <1>0, <1>2, <2>2 DEF Broadcast
  <2> QED BY <1>2, <2>1, <2>3 DEF TypeOK
<1>3. CASE Receive /\ given' = given
  <2>1. JsonFindInt(Head(requests)) \in Nat /\ Tail(requests) \in Seq(Nat)
    <3>1. Head(requests) \in Nat /\ Default \in Nat
        BY <1>3, LimitsAssumption DEF Receive, TypeOK
    <3> QED BY <1>3, <3>1 DEF JsonFindInt, Receive, TypeOK
  <2> QED BY <1>3, <2>1 DEF Receive, TypeOK
<1>4. CASE Query /\ given' = given
    BY <1>4 DEF Query, TypeOK
<1>5. CASE QueryFails /\ given' = given
    BY <1>5, LimitsAssumption DEF QueryFails, TypeOK
<1>6. CASE SendHistory /\ given' = given
  <2>1. Frame("history", answer) \in Samples
    <3>1. basis \in Nat /\ answer \in Seq(1..basis)
        BY <1>6 DEF SendHistory, Newest, TypeOK
    <3> QED BY <3>1 DEF Frame, Samples
  <2>2. wire' \in Seq(Samples \cup {Frame("status", <<>>)})
      BY <1>0, <1>6, <2>1 DEF SendHistory
  <2> QED BY <1>6, <2>2, LimitsAssumption DEF SendHistory, TypeOK
<1>7. CASE Leave
    BY <1>7, LimitsAssumption DEF Leave, Part, TypeOK
<1>8. CASE Join /\ given' = given /\ \E n \in Typed : requests' = <<Clamped(n)>>
  <2>1. requests' \in Seq(Nat)
      BY <1>8, Asked
  <2>2. wire' \in Seq(Samples \cup {Frame("status", <<>>)})
      BY <1>8 DEF Join
  <2> QED BY <1>8, <2>1, <2>2 DEF Join, askVars, TypeOK
<1>9. CASE /\ wire # <<>> /\ Taken
           /\ given' = given \cup ToSet(Head(wire).items) \/ given' = given
  <2>1. Head(wire) \in Samples \cup {Frame("status", <<>>)}
        /\ Tail(wire) \in Seq(Samples \cup {Frame("status", <<>>)})
      BY <1>0, <1>9
  <2>2. Head(wire).items \in Seq(Nat)
    <3>1. CASE Head(wire) \in Samples
        BY <3>1 DEF Samples
    <3>2. CASE Head(wire) = Frame("status", <<>>)
      <4>1. Head(wire).items = <<>>
          BY <3>2 DEF Frame
      <4>2. <<>> \in Seq(Nat)
          OBVIOUS
      <4> QED BY <4>1, <4>2
    <3> QED BY <2>1, <3>1, <3>2
  <2>3. ToSet(Head(wire).items) \in SUBSET Nat
      BY <2>2 DEF ToSet
  <2> QED BY <1>9, <2>1, <2>3 DEF Taken, askVars, TypeOK
<1>10. CASE /\ UNCHANGED <<rows, cast, joined, askVars, wire, given>>
            /\ \/ requests' = requests
               \/ \E n \in Typed : requests' = Append(requests, Clamped(n))
  <2>1. requests' \in Seq(Nat)
    <3>1. requests \in Seq(Nat)
        BY DEF TypeOK
    <3> QED BY <1>10, <3>1, Asked
  <2>2. UNCHANGED <<rows, cast, last, wire, given>>
      BY <1>10 DEF askVars
  <2> QED BY <2>1, <2>2 DEF TypeOK
<1>11. CASE UNCHANGED vars
    BY <1>11 DEF vars, replayVars, askVars, givenVars, TypeOK
<1>12. CASE Page
    BY <1>7, <1>8, <1>9, <1>10, <1>12, PageSteps
<1>13. CASE Server /\ UNCHANGED <<socket, closing, viewVars, dataVars, givenVars>>
  <2>1. given' = given
      BY <1>13 DEF givenVars
  <2> QED BY <1>1, <1>2, <1>3, <1>4, <1>5, <1>6, <1>13, <2>1 DEF Server, TypeOK
<1> QED BY <1>11, <1>12, <1>13 DEF Next

LEMMA NewestStep == ASSUME Link, TypeOK, Newest, [Next]_vars PROVE Newest'
<1>1. ASSUME client' # "send" PROVE Newest'
    BY <1>1 DEF Newest
<1>2. ASSUME UNCHANGED <<rows, askVars>> PROVE Newest'
    BY <1>2 DEF askVars, Newest, Newer, Size
<1>3. CASE Commit
  <2> SUFFICES ASSUME client = "send" PROVE Newest'
      BY <1>1, <1>3 DEF Commit, askVars
  <2>1. UNCHANGED askVars
      BY <1>3 DEF Commit
  <2>2. /\ rows' \in Seq(Nat) /\ Len(rows') >= Len(rows)
        /\ \A i \in 1..Len(rows) : rows'[i] = rows[i]
      BY <1>3, Committed
  <2>3. basis \in 0..Len(rows) /\ answer \in Seq(1..basis) /\ Len(rows) \in Nat
      BY DEF Newest, TypeOK
  <2>4. \A i, j \in 1..basis : Newer(i, j)' <=> Newer(i, j)
    <3>1. \A i \in 1..basis : rows'[i] = rows[i]
        BY <2>2, <2>3
    <3> QED BY <3>1 DEF Newer
  <2>5. \A i \in 1..Len(answer) : answer[i] \in 1..basis
      BY <2>3
  <2>6. basis' \in 0..Len(rows')
      BY <2>1, <2>2, <2>3 DEF askVars
  <2> QED BY <2>1, <2>4, <2>5, <2>6 DEF askVars, Newest, Size
<1>4. CASE Query
    BY <1>4, Answered DEF TypeOK
<1>5. CASE Broadcast
    BY <1>2, <1>5 DEF Broadcast
<1>6. CASE Receive \/ QueryFails \/ SendHistory \/ Leave
    BY <1>1, <1>6 DEF Receive, QueryFails, SendHistory, Leave, Part
<1>7. CASE Page
    BY <1>2, <1>6, <1>7, PageSteps DEF Join, Taken
<1>8. CASE UNCHANGED vars
    BY <1>2, <1>8 DEF vars, replayVars
<1> QED BY <1>3, <1>4, <1>5, <1>6, <1>7, <1>8 DEF Next, Server

LEMMA DataInit == Init => TypeOK /\ Newest
<1> SUFFICES ASSUME Init PROVE TypeOK /\ Newest
    OBVIOUS
<1>1. /\ <<>> \in Seq(Nat) /\ Len(<<>>) = 0
      /\ <<>> \in Seq(Samples \cup {Frame("status", <<>>)})
    OBVIOUS
<1> QED BY <1>1, LimitsAssumption DEF Init, ReplayInit, TypeOK, Newest

\* An answer holds the latest rows by reception time, in chronological order, as
\* many as the request, the limit and the table allow, although batches are
\* committed between reading and sending.
THEOREM AnswersAreLatest == Spec => []AnswerIsLatest
<1>1. Init => TypeOK /\ Newest
    BY DataInit
<1>2. TypeOK /\ Newest => AnswerIsLatest
  <2> SUFFICES ASSUME TypeOK, Newest, client = "send" PROVE AnswerIsLatest
      BY DEF AnswerIsLatest
  <2>1. basis \in 0..Len(rows) /\ answer \in Seq(1..basis) /\ DOMAIN answer = 1..Len(answer)
        /\ Len(rows) \in Nat
      BY DEF Newest, TypeOK
  <2>2. \A i \in DOMAIN answer : answer[i] \in 1..basis
      BY <2>1
  <2>3. \A k \in 1..basis : rows[k] \in Nat
      BY <2>1 DEF TypeOK
  <2>4. ASSUME NEW i \in DOMAIN answer, NEW j \in DOMAIN answer, i < j
        PROVE  rows[answer[i]] <= rows[answer[j]] /\ answer[i] # answer[j]
    <3>1. Newer(answer[j], answer[i])
        BY <2>1, <2>4 DEF Newest
    <3> QED BY <2>2, <2>3, <3>1 DEF Newer
  <2>5. ASSUME NEW k \in 1..basis \ ToSet(answer), NEW i \in DOMAIN answer
        PROVE  rows[k] <= rows[answer[i]]
    <3>1. Newer(answer[i], k)
        BY <2>1, <2>5 DEF Newest, ToSet
    <3> QED BY <2>2, <2>3, <3>1 DEF Newer
  <2> QED BY <2>4, <2>5 DEF AnswerIsLatest, Newest, Size
<1>3. Link /\ TypeOK /\ Newest /\ [Next]_vars => TypeOK' /\ Newest'
    BY TypeStep, NewestStep
<1> QED BY <1>1, <1>2, <1>3, EndsAgree, PTL DEF Spec

-----------------------------------------------------------------------------
(* History and stream.                                                     *)

\* The page has sample k, or a frame under way brings it.
Brings(f, k) == \E m \in 1..Len(f.items) : f.items[m] = k
Coming(k) == k \in given \/ \E n \in 1..Len(wire) : Brings(wire[n], k)

\* What has come or is coming leaves no hole up to the last broadcast, nor will the
\* answer that is made: what is newer than it was broadcast after the page had
\* joined.
Gapless ==
    /\ joined \/ given = {}
    /\ joined /\ Sorted =>
        /\ \A k \in 1..cast, j \in Nat : j < k /\ Coming(j) => Coming(k)
        /\ client = "send" => \A k \in basis + 1..cast : Coming(k)

\* A frame that is sent adds what it brings; one that is taken changes nothing.
LEMMA WireAppended ==
    ASSUME TypeOK, NEW f, wire' = Append(wire, f), given' = given, NEW k
    PROVE  Coming(k)' <=> Coming(k) \/ Brings(f, k)
<1>1. PICK n \in Nat : /\ Len(wire) = n /\ Len(wire') = n + 1 /\ wire'[n + 1] = f
                       /\ \A i \in 1..n : wire'[i] = wire[i]
  <2>1. Len(wire) \in Nat
      BY DEF TypeOK
  <2> QED BY <2>1, Appended DEF TypeOK
<1>2. 1..n + 1 = 1..n \cup {n + 1}
    OBVIOUS
<1>3. (\E i \in 1..n + 1 : Brings(wire'[i], k))
          <=> (\E i \in 1..n : Brings(wire[i], k)) \/ Brings(f, k)
    BY <1>1, <1>2
<1> QED BY <1>1, <1>3 DEF Coming, Brings

LEMMA WireTaken ==
    ASSUME TypeOK, wire # <<>>, Taken, NEW k,
           \/ given' = given \cup ToSet(Head(wire).items)
           \/ given' = given /\ Head(wire).type = "status"
    PROVE  Coming(k)' <=> Coming(k)
<1>1. PICK n \in Nat : /\ Len(wire) = n + 1 /\ Len(wire') = n /\ Head(wire) = wire[1]
                       /\ \A i \in 1..n : wire'[i] = wire[i + 1]
  <2>1. Len(wire) - 1 \in Nat /\ Len(wire) = (Len(wire) - 1) + 1
      BY DEF TypeOK
  <2> QED BY <2>1, Shifted DEF TypeOK, Taken
<1>2. Brings(Head(wire), k) <=> k \in ToSet(Head(wire).items)
  <2>1. Head(wire).items \in Seq(Nat)
    <3>1. Head(wire) \in Samples \cup {Frame("status", <<>>)}
        BY DEF TypeOK
    <3>2. CASE Head(wire) \in Samples
        BY <3>2 DEF Samples
    <3>3. CASE Head(wire) = Frame("status", <<>>)
      <4>1. Head(wire).items = <<>>
          BY <3>3 DEF Frame
      <4>2. <<>> \in Seq(Nat)
          OBVIOUS
      <4> QED BY <4>1, <4>2
    <3> QED BY <3>1, <3>2, <3>3
  <2> QED BY <2>1 DEF Brings, ToSet
<1>3. Head(wire).type = "status" => ~Brings(Head(wire), k)
  <2> SUFFICES ASSUME Head(wire).type = "status" PROVE Head(wire).items = <<>>
      BY DEF Brings
  <2>1. Head(wire) \in Samples \cup {Frame("status", <<>>)}
      BY DEF TypeOK
  <2> QED BY <2>1 DEF Samples, Frame
<1>4. (\E i \in 1..n + 1 : Brings(wire[i], k))
          <=> (\E i \in 1..n : Brings(wire'[i], k)) \/ Brings(Head(wire), k)
  <2>1. ASSUME NEW i \in 1..n + 1, Brings(wire[i], k), i # 1
        PROVE  \E m \in 1..n : Brings(wire'[m], k)
    <3>1. i - 1 \in 1..n /\ (i - 1) + 1 = i
        BY <2>1
    <3> QED BY <1>1, <2>1, <3>1
  <2>2. ASSUME NEW i \in 1..n, Brings(wire'[i], k)
        PROVE  \E m \in 1..n + 1 : Brings(wire[m], k)
    <3>1. i + 1 \in 1..n + 1 /\ wire'[i] = wire[i + 1]
        BY <1>1
    <3> QED BY <2>2, <3>1
  <2>3. 1 \in 1..n + 1
      OBVIOUS
  <2> QED BY <1>1, <2>1, <2>2, <2>3
<1> QED BY <1>1, <1>2, <1>3, <1>4 DEF Coming, Brings

LEMMA GaplessCast == ASSUME TypeOK, Newest, Gapless, Broadcast, given' = given PROVE Gapless'
<1>1. UNCHANGED <<rows, joined, askVars>> /\ cast' = cast + 1 /\ cast \in Nat
    BY DEF Broadcast, TypeOK
<1> SUFFICES ASSUME joined, Sorted PROVE Gapless'
    BY <1>1 DEF Gapless, Sorted
<1>2. \A k \in Nat : Coming(k)' <=> Coming(k) \/ k = cast + 1
  <2> SUFFICES ASSUME NEW k \in Nat PROVE Coming(k)' <=> Coming(k) \/ k = cast + 1
      OBVIOUS
  <2>1. Brings(Frame("telemetry", <<cast + 1>>), k) <=> k = cast + 1
      BY <1>1 DEF Brings, Frame
  <2> QED BY <2>1, WireAppended DEF Broadcast
<1>3. ASSUME NEW k \in 1..cast', NEW j \in Nat, j < k, Coming(j)' PROVE Coming(k)'
  <2>1. k = cast + 1 \/ k \in 1..cast
      BY <1>1
  <2>2. CASE k \in 1..cast
    <3>1. Coming(j)
        BY <1>1, <1>2, <1>3, <2>2
    <3> QED BY <1>2, <1>3, <2>2, <3>1 DEF Gapless
  <2> QED BY <1>2, <2>1, <2>2
<1>4. ASSUME client = "send", NEW k \in basis + 1..cast' PROVE Coming(k)'
  <2>1. basis \in Nat
      BY <1>4 DEF Newest, TypeOK
  <2>2. k \in Nat /\ (k = cast + 1 \/ k \in basis + 1..cast)
      BY <1>1, <1>4, <2>1
  <2> QED BY <1>2, <1>4, <2>2 DEF Gapless
<1> QED BY <1>1, <1>3, <1>4 DEF Gapless, askVars

\* An answer fits in front of what the stream has brought: among the rows that were
\* there when it was read nothing behind its first is missing.
LEMMA GaplessAnswered ==
    ASSUME TypeOK, Newest, Gapless, SendHistory, given' = given PROVE Gapless'
<1>1. UNCHANGED <<rows, joined, cast>> /\ client' = "recv" /\ client = "send"
    BY DEF SendHistory
<1> SUFFICES ASSUME joined, Sorted PROVE Gapless'
    BY <1>1 DEF Gapless, Sorted
<1>2. /\ cast \in Nat /\ Len(rows) \in Nat /\ cast <= Len(rows)
      /\ basis \in 0..Len(rows) /\ answer \in Seq(1..basis)
    BY <1>1 DEF TypeOK, Newest
<1>3. \A k \in Nat : Coming(k)' <=> Coming(k) \/ \E i \in 1..Len(answer) : answer[i] = k
  <2> SUFFICES ASSUME NEW k \in Nat
               PROVE  Coming(k)' <=> Coming(k) \/ \E i \in 1..Len(answer) : answer[i] = k
      OBVIOUS
  <2>1. Brings(Frame("history", answer), k) <=> \E i \in 1..Len(answer) : answer[i] = k
      BY DEF Brings, Frame
  <2> QED BY <2>1, WireAppended DEF SendHistory
<1>4. ASSUME NEW k \in 1..cast, NEW j \in Nat, j < k, Coming(j)' PROVE Coming(k)'
  <2>1. CASE Coming(j)
      BY <1>2, <1>3, <1>4, <2>1 DEF Gapless
  <2>2. CASE k > basis
    <3>1. k \in basis + 1..cast
        BY <1>2, <2>2
    <3> QED BY <1>1, <1>2, <1>3, <3>1 DEF Gapless
  <2>3. CASE k <= basis /\ \E i \in 1..Len(answer) : answer[i] = j
    <3>1. PICK i \in 1..Len(answer) : answer[i] = j
        BY <2>3
    <3>2. k \in 1..basis /\ j \in 1..basis
        BY <1>2, <1>4, <2>3, <3>1
    <3>3. ~Newer(j, k)
      <4>1. j \in DOMAIN rows /\ k \in DOMAIN rows /\ rows[j] \in Nat /\ rows[k] \in Nat
        <5>1. j \in 1..Len(rows) /\ k \in 1..Len(rows)
            BY <1>2, <3>2
        <5>2. rows \in Seq(Nat)
            BY DEF TypeOK
        <5> QED BY <5>1, <5>2
      <4>2. rows[j] <= rows[k]
          BY <1>4, <4>1 DEF Sorted
      <4> QED BY <1>4, <4>1, <4>2 DEF Newer
    <3>4. \E m \in 1..Len(answer) : answer[m] = k
        BY <1>1, <3>1, <3>2, <3>3 DEF Newest
    <3> QED BY <1>2, <1>3, <1>4, <3>4
  <2>4. Coming(j) \/ \E i \in 1..Len(answer) : answer[i] = j
      BY <1>3, <1>4
  <2>5. k <= basis \/ k > basis
      BY <1>2
  <2> QED BY <2>1, <2>2, <2>3, <2>4, <2>5
<1> QED BY <1>1, <1>4 DEF Gapless

LEMMA GaplessStep == ASSUME Link, TypeOK, Newest, Gapless, [Next]_vars PROVE Gapless'
<1>1. CASE Commit /\ given' = given
  <2>1. UNCHANGED <<cast, joined, askVars, wire>> /\ cast = Len(rows)
      BY <1>1 DEF Commit
  <2>2. Sorted' => Sorted
    <3>1. /\ rows' \in Seq(Nat) /\ Len(rows') >= Len(rows) /\ Len(rows) \in Nat
          /\ \A i \in 1..Len(rows) : rows'[i] = rows[i]
        BY <1>1, Committed DEF TypeOK
    <3>2. DOMAIN rows = 1..Len(rows)
        BY DEF TypeOK
    <3>3. DOMAIN rows' = 1..Len(rows')
        BY <3>1
    <3>4. 1..Len(rows) \subseteq 1..Len(rows')
        BY <3>1
    <3> QED BY <3>1, <3>2, <3>3, <3>4 DEF Sorted
  <2>3. \A k : Coming(k)' <=> Coming(k)
      BY <1>1, <2>1 DEF Coming, Brings
  <2> QED BY <1>1, <2>1, <2>2, <2>3 DEF Gapless, askVars
<1>2. CASE Broadcast /\ given' = given
    BY <1>2, GaplessCast
<1>3. CASE (Receive \/ QueryFails) /\ given' = given
  <2>1. UNCHANGED <<rows, cast, joined, wire>> /\ client' # "send"
      BY <1>3 DEF Receive, QueryFails
  <2>2. \A k : Coming(k)' <=> Coming(k)
      BY <1>3, <2>1 DEF Coming, Brings
  <2> QED BY <1>3, <2>1, <2>2 DEF Gapless, Sorted
<1>4. CASE Query /\ given' = given
  <2>1. UNCHANGED <<rows, cast, joined, wire>> /\ basis' = Len(rows)
      BY <1>4 DEF Query
  <2>2. basis' + 1..cast' = {}
      BY <2>1 DEF TypeOK
  <2>3. \A k : Coming(k)' <=> Coming(k)
      BY <1>4, <2>1 DEF Coming, Brings
  <2> QED BY <1>4, <2>1, <2>2, <2>3 DEF Gapless, Sorted
<1>5. CASE SendHistory /\ given' = given
    BY <1>5, GaplessAnswered
<1>6. CASE Leave
    BY <1>6 DEF Leave, Part, Gapless
<1>7. CASE Join /\ given' = given /\ socket = "connecting"
  <2>1. ~joined /\ given' = {} /\ client' = "recv"
      BY <1>7 DEF Join, askVars, Link, Gapless
  <2>2. wire' = <<Frame("status", <<>>)>>
      BY <1>7 DEF Join
  <2>3. \A k : ~Coming(k)'
    <3>1. Len(wire') = 1 /\ wire'[1].items = <<>>
        BY <2>2 DEF Frame
    <3> QED BY <2>1, <3>1 DEF Coming, Brings
  <2> QED BY <1>7, <2>1, <2>3 DEF Join, Gapless
<1>8. CASE /\ wire # <<>> /\ Taken
           /\ \/ given' = given \cup ToSet(Head(wire).items)
              \/ given' = given /\ Head(wire).type = "status"
  <2>1. \A k : Coming(k)' <=> Coming(k)
      BY <1>8, WireTaken
  <2>2. UNCHANGED <<rows, cast, joined, client, basis>> /\ joined
      BY <1>8 DEF Taken, askVars, Link
  <2> QED BY <2>1, <2>2 DEF Gapless, Sorted
<1>9. CASE UNCHANGED <<rows, cast, joined, askVars, wire, given>>
    BY <1>9 DEF askVars, Gapless, Coming, Brings, Sorted
<1>10. CASE UNCHANGED vars
    BY <1>9, <1>10 DEF vars, replayVars, givenVars
<1>11. CASE Page
    BY <1>6, <1>7, <1>8, <1>9, <1>11, PageSteps
<1>12. CASE Server /\ UNCHANGED <<socket, closing, viewVars, dataVars, givenVars>>
  <2>1. given' = given
      BY <1>12 DEF givenVars
  <2> QED BY <1>1, <1>2, <1>3, <1>4, <1>5, <1>12, <2>1 DEF Server
<1> QED BY <1>10, <1>11, <1>12 DEF Next

\* History and live stream leave no hole between them, whenever the page asks and
\* however rows are committed, read and broadcast meanwhile, as long as the clock
\* is not set back.
THEOREM StreamHasNoHole == Spec => []NoHole
<1>1. Init => TypeOK /\ Newest /\ Gapless
  <2>1. Init => Gapless
      BY DEF Init, ReplayInit, Gapless
  <2> QED BY <2>1, DataInit
<1>2. TypeOK /\ Gapless => NoHole
  <2> SUFFICES ASSUME TypeOK, Gapless, joined, wire = <<>>, Sorted,
                      NEW k \in 1..cast, NEW j \in given, j < k
               PROVE  k \in given
      BY DEF NoHole
  <2>1. j \in Nat /\ Coming(j) /\ (Coming(k) <=> k \in given)
      BY DEF TypeOK, Coming
  <2> QED BY <2>1 DEF Gapless
<1>3. Link /\ TypeOK /\ Newest /\ Gapless /\ [Next]_vars => TypeOK' /\ Newest' /\ Gapless'
    BY TypeStep, NewestStep, GaplessStep
<1> QED BY <1>1, <1>2, <1>3, EndsAgree, PTL DEF Spec
=============================================================================
