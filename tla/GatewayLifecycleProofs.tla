------------------------ MODULE GatewayLifecycleProofs ------------------------
(***************************************************************************)
(* Theorems about GatewayLifecycle for every choice of failing calls, with *)
(* and without the stats thread, and any set of clients: types, that       *)
(* threads find the parts they use, the detached ones as long as their     *)
(* server exists, and that stop undoes what start has done.                *)
(***************************************************************************)
EXTENDS GatewayLifecycle, TLAPS

-----------------------------------------------------------------------------
(* Type correctness.                                                       *)

Steps == StartSteps \cup StopSteps \cup DumpSteps

LEMMA TypeInit == Init => TypeOK
BY DEF Init, TypeOK, StartSteps, DumpSteps

LEMMA AskTypes ==
    ASSUME Ask, asked \in BOOLEAN, deaf \in BOOLEAN
    PROVE  asked' \in BOOLEAN /\ deaf' \in BOOLEAN
BY DEF Ask

LEMMA TypeStep == ASSUME TypeOK, [Next]_vars PROVE TypeOK'
<1> USE DEF TypeOK, linkVars, StartSteps, StopSteps, DumpSteps
<1>0. CASE UNCHANGED vars
    BY <1>0 DEF vars
<1>1. CASE Start
  <2>1. CASE LibInit
      BY <2>1 DEF LibInit, Makes, Parts
  <2>8. CASE Calloc
    <3>1. main' = "db_writer_open" /\ parts' = parts \cup {"g"} /\ running' = TRUE
        BY <2>8 DEF Calloc, Makes
    <3>2. UNCHANGED <<program, clients, g_running, ended, callbacks, linkVars>>
        BY <2>8 DEF Calloc
    <3> QED BY <3>1, <3>2 DEF Parts
  <2>2. CASE Build
    <3>1. \E part \in {"dbw", "dbr", "ws", "writer", "stats"} : parts' = parts \cup {part}
        BY <2>2 DEF Build, Makes
    <3>2. main' \in StartSteps
        BY <2>2 DEF Build, Makes
    <3>3. UNCHANGED <<program, clients, g_running, running, ended, callbacks, linkVars>>
        BY <2>2 DEF Build
    <3> QED BY <3>1, <3>2, <3>3 DEF Parts, Threads
  <2>3. CASE MqttConnect
      BY <2>3 DEF MqttConnect, Makes, Parts
  <2>4. CASE CallFails
      BY <2>4 DEF CallFails, CleanUp
  <2>5. CASE Register
    <3>1. \E what \in {"user_data", "on_connect", "on_message"} : callbacks' = callbacks \cup {what}
        BY <2>5 DEF Register, Registers
    <3>2. main' \in StartSteps
        BY <2>5 DEF Register, Registers
    <3>3. UNCHANGED <<program, clients, g_running, running, parts, ended, linkVars>>
        BY <2>5 DEF Register
    <3> QED BY <3>1, <3>2, <3>3
  <2>6. CASE Subscribe
      BY <2>6, AskTypes DEF Subscribe
  <2>7. CASE WaitEnds
      BY <2>7 DEF WaitEnds
  <2> QED BY <1>1, <2>1, <2>2, <2>3, <2>4, <2>5, <2>6, <2>7, <2>8 DEF Start
<1>2. CASE Signal
  <2>1. g_running' = FALSE
      BY <1>2 DEF Signal
  <2>2. UNCHANGED <<program, clients, main, running, parts, ended, callbacks, linkVars>>
      BY <1>2 DEF Signal
  <2>3. g_running' \in BOOLEAN
      BY <2>1
  <2> QED BY <2>2, <2>3
<1>3. CASE StopFlag \/ Join
  <2>1. CASE StopFlag
      BY <2>1 DEF StopFlag
  <2>2. CASE Join
      BY <2>2 DEF Join, Joins
  <2> QED BY <1>3, <2>1, <2>2
<1>4. CASE Dispose
    BY <1>4 DEF Dispose, Disposes
<1>5. CASE MqttClose
    BY <1>5 DEF MqttClose
<1>6. ASSUME NEW t \in Threads, ThreadEnds(t) PROVE TypeOK'
    BY <1>6 DEF ThreadEnds
<1>7. CASE Connack \/ Refused \/ Lost \/ Reconnect \/ Message \/ MessageDone
    BY <1>7, ZenonT(40) DEF Connack, CallOnConnect, Refused, Lost, Drop, Reconnect, Message, MessageDone
<1>8. CASE OnConnect
    BY <1>8, AskTypes DEF OnConnect
<1>9. CASE DumpNew
    BY <1>9 DEF DumpNew, Parts
<1>10. CASE DumpConnect \/ DumpSubscribe
    BY <1>10, AskTypes, ZenonT(60) DEF DumpConnect, DumpSubscribe
<1>11. CASE Exited
    BY <1>11 DEF Exited, vars
<1>12. ASSUME NEW c \in Clients, ClientThread(c) PROVE TypeOK'
  <2>1. \/ /\ UNCHANGED main
           /\ \/ clients' = [clients EXCEPT ![c] = "none"]
              \/ clients' = [clients EXCEPT ![c] = "loop"]
              \/ clients' = [clients EXCEPT ![c] = "history"]
        \/ main' = "undefined" /\ UNCHANGED clients
      BY <1>12 DEF ClientThread, Joined, ClientStep, ClientLeaves, ClientMisuses
  <2>2. UNCHANGED <<program, g_running, running, parts, ended, callbacks, linkVars>>
      BY <1>12 DEF ClientThread, Joined, ClientStep, ClientLeaves, ClientMisuses
  <2>3. clients' \in [Clients -> {"none", "loop", "history"}]
      BY <2>1
  <2> QED BY <2>1, <2>2, <2>3
<1> QED BY <1>0, <1>1, <1>2, <1>3, <1>4, <1>5, <1>6, <1>7, <1>8, <1>9, <1>10, <1>11, <1>12
        DEF Next, Stop, Network, Callback, Dump

\* Types of all variables.
THEOREM TypeCorrect == Spec => []TypeOK
BY TypeInit, TypeStep, PTL DEF Spec

-----------------------------------------------------------------------------
(* What exists at each step of start and of stop.                          *)

\* The steps of the two calls from which on something is true.
WithWs     == {"writer_create", "stats_create", "mqtt_connect", "user_data_set",
               "connect_callback_set", "message_callback_set", "subscribe", "wait"}
WithDbr    == WithWs \cup {"ws_server_start"}
WithDbw    == WithDbr \cup {"db_reader_open"}
WithG      == WithDbw \cup {"db_writer_open"}
WithWriter == WithWs \ {"writer_create"}
WithMosq   == WithWriter \ {"stats_create", "mqtt_connect"}

LibGone    == {"exited"}
GGone      == LibGone \cup {"lib_cleanup"}
DbwGone    == GGone \cup {"free"}
DbrGone    == DbwGone \cup {"db_writer_close"}
WsGone     == DbrGone \cup {"db_reader_close"}
LinkGone   == WsGone \cup {"ws_server_stop"}
StatsOver  == LinkGone \cup {"mqtt_close"}
WriterOver == StatsOver \cup {"join_stats"}

\* Start makes the parts in an order in which each finds the ones it uses.
Made ==
    /\ main \in WithG => {"lib", "g"} \subseteq parts
    /\ main \in WithDbw => "dbw" \in parts
    /\ main \in WithDbr => "dbr" \in parts
    /\ main \in WithWs => "ws" \in parts
    /\ main \in WithWriter => "writer" \in parts
    /\ main \in WithMosq \cup {"dump_connect", "dump_subscribe"} => "mosq" \in parts
    /\ main = "lib_init" => parts = {}
    /\ main = "calloc" => parts = {"lib"}
    /\ main \in WithMosq \ {"user_data_set"} => "user_data" \in callbacks

\* Stop disposes of them in the opposite order.
Gone ==
    /\ main \in WriterOver => "writer" \notin parts \ ended
    /\ main \in StatsOver => "stats" \notin parts \ ended
    /\ main \in LinkGone => "mosq" \notin parts
    /\ main \in WsGone => "ws" \notin parts
    /\ main \in DbrGone => "dbr" \notin parts
    /\ main \in DbwGone => "dbw" \notin parts
    /\ main \in GGone => parts \cap {"g", "writer", "stats"} = {}
    /\ main \in LibGone => "lib" \notin parts

\* Whatever there is, what it uses is there too; a client that is gone has
\* neither a thread nor callbacks.
Rests ==
    /\ "writer" \in parts \ ended => {"g", "dbw", "ws"} \subseteq parts
    /\ "stats" \in parts \ ended => "g" \in parts
    /\ "ws" \in parts => "dbr" \in parts
    /\ "dbr" \in parts => "dbw" \in parts
    /\ "dbw" \in parts => "g" \in parts
    /\ "g" \in parts => "lib" \in parts
    /\ "mosq" \notin parts => net = "none" /\ callbacks = {}
    /\ "mosq" \in parts /\ program = "gateway" => {"writer", "ws"} \subseteq parts
    /\ "on_message" \in callbacks /\ program = "gateway" => "user_data" \in callbacks
    /\ net = "on_message" => "on_message" \in callbacks

\* The two programs are apart, and state_dump has no thread before its loop.
Apart ==
    /\ program = "gateway" => main \notin DumpSteps
    /\ program = "state_dump" => main \in DumpSteps \cup {"exited"}
    /\ main \in DumpSteps \ {"dump_loop"} => net = "none"

\* A client thread without its server is one that ws_server_stop has left behind,
\* and only such a thread can meet what is gone.
Strays ==
    /\ program = "state_dump" => "ws" \notin parts /\ ~running
    /\ \A c \in Clients : clients[c] # "none" =>
           program = "gateway" /\ ("ws" \in parts \/ main \in WsGone \cup {"undefined"})
    /\ main \in WriterOver \cup {"lib_init", "calloc", "join_writer", "undefined"} => ~running
    /\ main = "undefined" => parts \cap {"ws", "mosq"} = {}

Order == Made /\ Gone /\ Rests /\ Apart /\ Strays

LEMMA OrderInit == Init => Order
BY DEF Init, Order, Made, Gone, Rests, Apart, Strays, WithG, WithDbw, WithDbr, WithWs, WithWriter,
       WithMosq, WriterOver, StatsOver, LinkGone, WsGone, DbrGone, DbwGone, GGone, LibGone,
       DumpSteps

LEMMA OrderStep == ASSUME TypeOK, Order, [Next]_vars PROVE Order'
<1> USE DEF Order, linkVars, WithG, WithDbw, WithDbr, WithWs, WithWriter, WithMosq,
            WriterOver, StatsOver, LinkGone, WsGone, DbrGone, DbwGone, GGone, LibGone,
            DumpSteps
<1> USE DEF Made, Gone, Rests, Apart, Strays
<1>0. CASE UNCHANGED vars
    BY <1>0 DEF vars
<1>1. CASE LibInit
    BY <1>1 DEF LibInit, Makes
<1>2. CASE Calloc
    BY <1>2 DEF Calloc, Makes
<1>3. CASE Build
    BY <1>3 DEF Build, Makes
<1>4. CASE MqttConnect
    BY <1>4 DEF MqttConnect, Makes
<1>5. CASE CallFails
  <2>1. Made' /\ Gone' /\ Rests' /\ Apart'
      BY <1>5 DEF CallFails, CleanUp
  <2>2. Strays'
      BY <1>5 DEF CallFails, CleanUp
  <2> QED BY <2>1, <2>2
<1>6. CASE Register
    BY <1>6 DEF Register, Registers
<1>7. CASE Subscribe
    BY <1>7 DEF Subscribe
<1>8. CASE WaitEnds \/ Signal \/ StopFlag
    BY <1>8 DEF WaitEnds, Signal, StopFlag
<1>9. CASE Join
    BY <1>9 DEF Join, Joins
<1>10. CASE MqttClose
    BY <1>10 DEF MqttClose
<1>11. CASE Dispose
    BY <1>11 DEF Dispose, Disposes, Threads
<1>12. ASSUME NEW t \in Threads, ThreadEnds(t) PROVE Order'
    BY <1>12 DEF ThreadEnds
<1>13. CASE Connack \/ Refused \/ Lost \/ Reconnect \/ Message \/ MessageDone
    BY <1>13 DEF Connack, CallOnConnect, Refused, Lost, Drop, Reconnect, Message, MessageDone
<1>14. CASE OnConnect
    BY <1>14 DEF OnConnect
<1>15. CASE DumpNew
    BY <1>15 DEF DumpNew
<1>16. CASE DumpConnect
  <2>1. program = "state_dump" /\ (parts' = parts \/ parts' = {})
      BY <1>16 DEF DumpConnect, TypeOK
  <2>2. Strays'
      BY <1>16, <2>1 DEF DumpConnect
  <2>3. Made' /\ Gone' /\ Rests' /\ Apart'
      BY <1>16, <2>1 DEF DumpConnect
  <2> QED BY <2>2, <2>3
<1>17. CASE DumpSubscribe
    BY <1>17 DEF DumpSubscribe
<1>18. CASE Exited
    BY <1>18 DEF Exited, vars
<1>19. ASSUME NEW c \in Clients, ClientThread(c) PROVE Order'
  <2>1. CASE Joined(c) \/ ClientStep(c) \/ ClientLeaves(c)
      BY <2>1 DEF TypeOK, Joined, ClientStep, ClientLeaves, Uses
  <2>2. CASE ClientMisuses(c)
      BY <2>2 DEF TypeOK, ClientMisuses, Uses
  <2> QED BY <1>19, <2>1, <2>2 DEF ClientThread
<1> QED BY <1>0, <1>1, <1>2, <1>3, <1>4, <1>5, <1>6, <1>7, <1>8, <1>9, <1>10, <1>11,
           <1>12, <1>13, <1>14, <1>15, <1>16, <1>17, <1>18, <1>19
        DEF Next, Start, Stop, Network, Callback, Dump

\* Whatever call has failed and whenever the stop comes, a joined thread or a
\* callback finds what it uses until it has ended, a client thread as long as its
\* server exists; only a client that went on after ws_server_stop meets less.
THEOREM ThreadsFindParts == Spec => []UsersFindParts
<1>1. TypeOK /\ Order => UsersFindParts
    BY DEF Order, Rests, Strays, UsersFindParts
<1> QED BY <1>1, OrderInit, OrderStep, TypeCorrect, PTL DEF Spec

\* A process that returns has disposed of all that its start had made.
THEOREM NothingIsLeft == Spec => []StopUndoesStart
<1>1. TypeOK /\ Order => StopUndoesStart
    BY DEF TypeOK, Parts, Threads, Order, Gone, Rests, StopUndoesStart, WriterOver, StatsOver,
           LinkGone, WsGone, DbrGone, DbwGone, GGone, LibGone
<1> QED BY <1>1, OrderInit, OrderStep, TypeCorrect, PTL DEF Spec
=============================================================================
