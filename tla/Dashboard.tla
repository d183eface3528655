----------------------------- MODULE Dashboard -----------------------------
(***************************************************************************)
(* The page (src/ui/app.js) at the end of the connection of Replay: its    *)
(* socket, its buttons and its label, the samples it keeps, the one its    *)
(* panel shows, the pause.  The page is one thread: a step is one callback *)
(* or one click.  A socket that was closed by the page is deaf from then   *)
(* on, but its close event comes some time later, and onclose sets the     *)
(* buttons of whatever connection there is by then.                        *)
(***************************************************************************)
EXTENDS Replay

CONSTANTS
    MaxSamples,   \* state.maxSamples, 500
    MaxAsk,       \* 5000: the page asks for that many rows at most
    Typed,        \* what a user types in the field of the number of rows
    MaxClosing,   \* bound: old sockets whose close event is outstanding
    MaxRequests   \* bound: requests on their way

ASSUME PageAssumption ==
    /\ MaxSamples \in Nat \ {0} /\ MaxAsk \in Nat \ {0} /\ Typed \subseteq Nat
    /\ MaxClosing \in Nat /\ MaxRequests \in Nat \ {0}

VARIABLES
    socket,       \* state.ws: "none", or its readyState
    closing,      \* old sockets whose close event is to come
    buttons,      \* Disconnect, Pause and History can be pressed, Connect not
    label,        \* els.connLabel
    late,         \* history: an old socket's close event found the socket open
    paused, samples,
    panel,        \* the sample renderLatest has shown, 0 when none
    source,       \* history: what came last on this socket, a frame's type or
                  \* "dropped" for a sample that came during a pause
    given         \* history: the samples this socket has brought, dropped or not

viewVars == <<buttons, label, late>>
dataVars == <<paused, samples, panel>>
givenVars == <<source, given>>
vars == <<replayVars, socket, closing, viewVars, dataVars, givenVars>>

Init ==
    /\ ReplayInit
    /\ socket = "none" /\ closing = 0
    /\ buttons = FALSE /\ label = "disconnected" /\ late = FALSE
    /\ paused = FALSE /\ samples = <<>> /\ panel = 0
    /\ source = "none" /\ given = {}

-----------------------------------------------------------------------------
(* Connecting and disconnecting.                                           *)

\* What is under way is lost, and what was given belongs to the past.
Leave ==
    /\ Part
    /\ source' = "none" /\ given' = {}

\* (slip) the callbacks of the old socket are taken off
CloseDeaf == UNCHANGED closing

\* state.ws.close(): an event comes later, unless it has come already.
CloseSocket ==
    IF socket \in {"connecting", "open"}
    THEN closing < MaxClosing /\ closing' = closing + 1
    ELSE UNCHANGED closing

\* connect: the previous socket is closed first; the address may be none.
Connect ==
    /\ ~buttons
    /\ CloseSocket
    /\ Leave
    /\ late' = FALSE
    /\ \/ socket' = "connecting" /\ label' = "connecting"
       \/ socket' = "none" /\ label' = "failed"
    /\ UNCHANGED <<buttons, dataVars>>

Disconnect ==
    /\ buttons
    /\ CloseSocket
    /\ Leave
    /\ socket' = "none"
    /\ UNCHANGED <<viewVars, dataVars>>

\* Math.max(1, Math.min(5000, Number(...))), in which NaN stays what it is.
Clamped(n) == IF n = Null THEN Null ELSE IF n > MaxAsk THEN MaxAsk ELSE n

\* onopen: the buttons, and the first request for the history.  (The client was
\* in the list a little before; what came since is live, and read from here on.)
OnOpen ==
    /\ socket = "connecting"
    /\ Join
    /\ \E n \in Typed : requests' = <<Clamped(n)>>
    /\ socket' = "open"
    /\ buttons' = TRUE /\ label' = "connected" /\ late' = FALSE
    /\ UNCHANGED <<closing, dataVars, givenVars>>

ShowDisconnected == label' = "disconnected" /\ buttons' = FALSE

\* onclose of the socket, which was refused, or which the server has ended.
OnClose ==
    /\ socket \in {"connecting", "open"}
    /\ socket' = "closed"
    /\ Leave
    /\ ShowDisconnected /\ late' = FALSE
    /\ UNCHANGED <<closing, dataVars>>

\* onclose of a socket that connect or disconnect has closed.
OldOnClose ==
    /\ closing > 0
    /\ closing' = closing - 1
    /\ ShowDisconnected /\ late' = (socket = "open")
    /\ UNCHANGED <<replayVars, socket, dataVars, givenVars>>

-----------------------------------------------------------------------------
(* Samples.                                                                *)

\* pushSample, for each of them: the last maxSamples are kept.
Pushed(items) ==
    LET all == samples \o items
        over == Len(all) - MaxSamples
    IN  IF over > 0 THEN SubSeq(all, over + 1, Len(all)) ELSE all

Deaf == UNCHANGED <<replayVars, socket, closing, viewVars>>

Arrives(type) == wire # <<>> /\ Head(wire).type = type

Taken ==
    /\ wire' = Tail(wire)
    /\ UNCHANGED <<rows, cast, joined, requests, askVars, socket, closing>>

OnStatus ==
    /\ Arrives("status")
    /\ label' = "connected"
    /\ Taken
    /\ UNCHANGED <<buttons, late, dataVars, givenVars>>

\* handleTelemetry: while paused the sample is dropped.
OnTelemetry ==
    /\ Arrives("telemetry")
    /\ given' = given \cup ToSet(Head(wire).items)
    /\ IF paused
       THEN source' = "dropped" /\ UNCHANGED <<samples, panel>>
       ELSE /\ samples' = Pushed(Head(wire).items)
            /\ panel' = Head(wire).items[1] /\ source' = "telemetry"
    /\ Taken
    /\ UNCHANGED <<viewVars, paused>>

\* handleHistory: the items are pushed, paused or not; the panel shows the last
\* sample there is then.
OnHistory ==
    /\ Arrives("history")
    /\ samples' = Pushed(Head(wire).items)
    /\ given' = given \cup ToSet(Head(wire).items)
    /\ IF paused \/ samples' = <<>> THEN UNCHANGED <<panel, source>>
       ELSE panel' = Last(samples') /\ source' = "history"
    /\ Taken
    /\ UNCHANGED <<viewVars, paused>>

\* requestHistory, from its button.
RequestHistory ==
    /\ buttons /\ socket = "open" /\ Len(requests) < MaxRequests
    /\ \E n \in Typed : requests' = Append(requests, Clamped(n))
    /\ UNCHANGED <<rows, cast, joined, askVars, wire, socket, closing, viewVars,
                   dataVars, givenVars>>

TogglePause ==
    /\ buttons
    /\ paused' = ~paused
    /\ Deaf /\ UNCHANGED <<samples, panel, givenVars>>

ClearAll ==
    /\ samples' = <<>> /\ panel' = 0 /\ source' = "none"
    /\ Deaf /\ UNCHANGED <<paused, given>>

-----------------------------------------------------------------------------
Page ==
    \/ Connect \/ Disconnect \/ OnOpen \/ OnClose \/ OldOnClose
    \/ OnStatus \/ OnTelemetry \/ OnHistory
    \/ RequestHistory \/ TogglePause \/ ClearAll

Next ==
    \/ Server /\ UNCHANGED <<socket, closing, viewVars, dataVars, givenVars>>
    \/ Page

Spec == Init /\ [][Next]_vars

-----------------------------------------------------------------------------
(* What somebody in front of the page may rely on.                         *)

\* History and live stream leave no hole between them: what a socket has brought
\* is, up to the last broadcast, without a gap, although rows are committed, read
\* and broadcast by two threads (and may come twice and out of order).  It rests
\* on joining before asking, on broadcasting after the commit, and on a clock
\* that was not set back.
NoHole ==
    joined /\ wire = <<>> /\ Sorted =>
        \A k \in 1..cast : (\E j \in given : j < k) => k \in given

\* Buttons and label tell whether the page is connected, but for the close events
\* that connect and disconnect leave to come (app.js 420).  An open connection is
\* shown as one, unless such an event has found it open: then it cannot be used or
\* ended, only replaced.  And what is no connection is shown as one at most until
\* such an event comes.
ViewIsTrue ==
    /\ socket = "open" /\ ~late => buttons /\ label = "connected"
    /\ late => socket = "open" /\ ~buttons
    /\ buttons \/ label = "connected" => socket = "open" \/ closing > 0

\* A panel that a live sample was the last to set shows the newest sample broadcast
\* when nothing is under way, also behind reconnections, pauses and earlier answers.
\* Nothing is said of a panel that an answer has set (app.js 382 may put it back)
\* or of samples that came during a pause.
PanelIsNewest ==
    joined /\ wire = <<>> /\ source = "telemetry" => panel = cast
=============================================================================
