--------------------------- MODULE GatewayLifecycle ---------------------------
(***************************************************************************)
(* The life of a gateway process and its link to the broker: main          *)
(* (src/apps/telemetry_gateway_main.c), telemetry_gateway_start and _stop  *)
(* (src/app/telemetry_gateway.c) and the MQTT client                       *)
(* (src/infra/mqtt/mqtt_client.c).  Any call of start may fail, and stop   *)
(* then undoes whatever part of the gateway exists.                        *)
(*                                                                         *)
(* state_dump (src/apps/state_dump.c) is the other subscriber.  It has the *)
(* same link and no start or stop worth the name, so both programs are in  *)
(* this module and a behaviour is a run of one of them.                    *)
(*                                                                         *)
(* The client threads of the WebSocket server are detached: ws_server_stop *)
(* frees the server and waits for none of them.  One that goes on uses     *)
(* freed memory or a closed reader, and nothing is known from then on.     *)
(*                                                                         *)
(* The broker forgets the subscription of a connection that ends, because  *)
(* both programs ask for a clean session.  A SUBSCRIBE is queued behind    *)
(* the CONNECT of the present connection and is lost with it.              *)
(***************************************************************************)
EXTENDS Integers

CONSTANTS
    Clients,        \* the connections of dashboards, by the thread that serves one
    StatsEnabled,   \* GW_STATS
    Faults          \* what may go wrong in this instance

(***************************************************************************)
(*   call       a call of telemetry_gateway_start fails                    *)
(*   refused    the broker answers CONNECT with an error                   *)
(*   loss       the connection breaks                                      *)
(*   subscribe  mosquitto_subscribe fails on an open connection            *)
(***************************************************************************)
FaultKinds == {"call", "refused", "loss", "subscribe"}

ASSUME StatsAssumption  == StatsEnabled \in BOOLEAN
ASSUME FaultsAssumption == Faults \subseteq FaultKinds

VARIABLES
    program,     \* the program that runs: "gateway" or "state_dump"
    g_running,   \* cleared by on_sig
    main,        \* the call the main thread is about to make
    running,     \* g->running
    parts,       \* what has been made and not yet been disposed of
    ended,       \* the threads that have returned and can be joined
    clients,     \* the client threads: "none", "loop", "history" (in the reader)
    callbacks,   \* what was registered at the MQTT client
    net,         \* progress of the thread that runs the network loop
    link,        \* the connection to the broker: "down", "connecting", "up"
    asked,       \* a SUBSCRIBE was queued on this connection
    deaf,        \* history: a SUBSCRIBE failed on this connection
    lost         \* history: an earlier connection has ended

linkVars == <<net, link, asked, deaf, lost>>
vars == <<program, g_running, main, running, parts, ended, clients, callbacks, linkVars>>

\* Threads of the gateway that stop joins, if their handle is set.
Threads == {"writer", "stats"}
Parts   == {"lib", "g", "dbw", "dbr", "ws", "mosq"} \cup Threads

StartSteps == {"lib_init", "calloc", "db_writer_open", "db_reader_open", "ws_server_start",
               "writer_create", "stats_create", "mqtt_connect", "user_data_set",
               "connect_callback_set", "message_callback_set", "subscribe", "wait"}
StopSteps  == {"stop", "join_writer", "join_stats", "mqtt_close", "ws_server_stop",
               "db_reader_close", "db_writer_close", "free", "lib_cleanup", "exited", "undefined"}
DumpSteps  == {"dump_new", "dump_connect", "dump_subscribe", "dump_loop"}

Init ==
    /\ program \in {"gateway", "state_dump"}
    /\ main = IF program = "gateway" THEN "lib_init" ELSE "dump_new"
    /\ g_running = TRUE /\ running = FALSE
    /\ parts = {} /\ ended = {} /\ callbacks = {}
    /\ clients = [c \in Clients |-> "none"]
    /\ net = "none" /\ link = "down" /\ asked = FALSE /\ deaf = FALSE /\ lost = FALSE

-----------------------------------------------------------------------------
(* main and telemetry_gateway_start.                                       *)

\* The call named here makes a part, and start goes on with the call there.
Makes(here, part, there) ==
    /\ main = here
    /\ parts' = parts \cup {part}
    /\ main' = there

LibInit ==
    /\ Makes("lib_init", "lib", "calloc")
    /\ UNCHANGED <<program, clients, g_running, running, ended, callbacks, linkVars>>

\* calloc, running = 1, the mutexes and the configuration.
Calloc ==
    /\ Makes("calloc", "g", "db_writer_open")
    /\ running' = TRUE
    /\ UNCHANGED <<program, clients, g_running, ended, callbacks, linkVars>>

Build ==
    /\ \/ Makes("db_writer_open", "dbw", "db_reader_open")
       \/ Makes("db_reader_open", "dbr", "ws_server_start")
       \/ Makes("ws_server_start", "ws", "writer_create")
       \/ Makes("writer_create", "writer", IF StatsEnabled THEN "stats_create" ELSE "mqtt_connect")
       \/ Makes("stats_create", "stats", "mqtt_connect")
    /\ UNCHANGED <<program, clients, g_running, running, ended, callbacks, linkVars>>

\* mqtt_client_connect: the CONNECT is on its way and the loop's thread runs.
\* No callback is registered yet.
MqttConnect ==
    /\ Makes("mqtt_connect", "mosq", "user_data_set")
    /\ link' = "connecting" /\ net' = "idle"
    /\ UNCHANGED <<program, clients, g_running, running, ended, callbacks, asked, deaf, lost>>

\* (slip) the failed start is not cleaned up
ReturnAtOnce == "lib_cleanup"

\* telemetry_gateway_stop(g); return
CleanUp == "stop"

\* A call fails: stop is called on what there is.  Without g there is nothing to
\* stop; without the stats thread the gateway goes on.
CallFails ==
    /\ "call" \in Faults
    /\ \/ main = "calloc" /\ main' = "lib_cleanup"
       \/ /\ main \in {"db_writer_open", "db_reader_open", "ws_server_start",
                       "writer_create", "mqtt_connect"}
          /\ main' = CleanUp
       \/ main = "stats_create" /\ main' = "mqtt_connect"
    /\ UNCHANGED <<program, clients, g_running, running, parts, ended, callbacks, linkVars>>

\* The callback is registered at the client.
Registers(here, what, there) ==
    /\ main = here
    /\ callbacks' = callbacks \cup {what}
    /\ main' = there

\* mosquitto_user_data_set, ..connect_callback_set, ..message_callback_set.
Register ==
    /\ \/ Registers("user_data_set", "user_data", "connect_callback_set")
       \/ Registers("connect_callback_set", "on_connect", "message_callback_set")
       \/ Registers("message_callback_set", "on_message", "subscribe")
    /\ UNCHANGED <<program, clients, g_running, running, parts, ended, linkVars>>

\* mosquitto_subscribe: the packet is queued unless there is no connection.
\* Nobody does more about a failure than to print it.
Ask ==
    IF link = "down"
     THEN UNCHANGED <<asked, deaf>>
     ELSE \/ asked' = TRUE /\ UNCHANGED deaf
          \/ "subscribe" \in Faults /\ deaf' = TRUE /\ UNCHANGED asked

\* (slip) the subscription is left to on_connect
LeaveToCallback ==
    /\ main = "subscribe"
    /\ main' = "wait"
    /\ UNCHANGED <<program, clients, g_running, running, parts, ended, callbacks, linkVars>>

\* The end of start: its own subscription.
Subscribe ==
    /\ main = "subscribe"
    /\ Ask
    /\ main' = "wait"
    /\ UNCHANGED <<program, clients, g_running, running, parts, ended, callbacks, net, link, lost>>

\* on_sig
Signal ==
    /\ program = "gateway" /\ g_running /\ main \notin {"exited", "undefined"}
    /\ g_running' = FALSE
    /\ UNCHANGED <<program, clients, main, running, parts, ended, callbacks, linkVars>>

\* while(g_running) usleep
WaitEnds ==
    /\ main = "wait" /\ ~g_running
    /\ main' = "stop"
    /\ UNCHANGED <<program, clients, g_running, running, parts, ended, callbacks, linkVars>>

Start == LibInit \/ Calloc \/ Build \/ MqttConnect \/ CallFails \/ Register \/ Subscribe \/ WaitEnds

-----------------------------------------------------------------------------
(* telemetry_gateway_stop.                                                 *)

\* running = 0; the writer is woken.
StopFlag ==
    /\ main = "stop"
    /\ running' = FALSE
    /\ main' = "join_writer"
    /\ UNCHANGED <<program, clients, g_running, parts, ended, callbacks, linkVars>>

\* (slip) the threads are not waited for
JoinNobody(here, thread, there) ==
    /\ main = here
    /\ main' = there

\* if(g->writer_th) pthread_join
Joins(here, thread, there) ==
    /\ main = here /\ (thread \in parts => thread \in ended)
    /\ main' = there

Join ==
    /\ \/ Joins("join_writer", "writer", "join_stats")
       \/ Joins("join_stats", "stats", "mqtt_close")
    /\ UNCHANGED <<program, clients, g_running, running, parts, ended, callbacks, linkVars>>

\* mqtt_client_close: the loop's thread is cancelled and joined, the client
\* destroyed, unless start did not get that far.  on_connect can be cut off where
\* it writes; on_message blocks nowhere on its way and is waited for.
MqttClose ==
    /\ main = "mqtt_close"
    /\ IF "mosq" \in parts
        THEN /\ net # "on_message"
             /\ net' = "none" /\ link' = "down" /\ asked' = FALSE
             /\ callbacks' = {} /\ parts' = parts \ {"mosq"}
             /\ deaf' = FALSE
        ELSE UNCHANGED <<net, link, asked, deaf, callbacks, parts>>
    /\ main' = "ws_server_stop"
    /\ UNCHANGED <<program, clients, g_running, running, ended, lost>>

\* The call named here disposes of what there is.  ws_server_stop waits for the
\* accept thread and for no client; db_reader_close gives its connection up,
\* whoever is in a query.
Disposes(here, what, there) ==
    /\ main = here
    /\ parts' = parts \ what
    /\ main' = there

Dispose ==
    /\ \/ Disposes("ws_server_stop", {"ws"}, "db_reader_close")
       \/ Disposes("db_reader_close", {"dbr"}, "db_writer_close")
       \/ Disposes("db_writer_close", {"dbw"}, "free")
       \/ Disposes("free", {"g"} \cup Threads, "lib_cleanup")
       \/ Disposes("lib_cleanup", {"lib"}, "exited")
    /\ UNCHANGED <<program, clients, g_running, running, ended, callbacks, linkVars>>

Stop == StopFlag \/ Join \/ MqttClose \/ Dispose

\* writer_thread and stats_thread end once running is 0.
ThreadEnds(t) ==
    /\ t \in parts \ ended /\ ~running
    /\ ended' = ended \cup {t}
    /\ UNCHANGED <<program, clients, g_running, main, running, parts, callbacks, linkVars>>

-----------------------------------------------------------------------------
(* The client threads of the server.                                       *)

\* accept_thread, which runs until ws_server_stop has joined it.
Joined(c) ==
    /\ "ws" \in parts /\ main # "undefined"
    /\ clients[c] = "none"
    /\ clients' = [clients EXCEPT ![c] = "loop"]
    /\ UNCHANGED <<program, g_running, main, running, parts, ended, callbacks, linkVars>>

\* What the next step of a client thread uses: its server and its own record,
\* which ws_server_stop frees together, and the reader within a history request.
Uses(c) ==
    CASE clients[c] = "none"    -> {}
      [] clients[c] = "loop"    -> {"ws"}
      [] clients[c] = "history" -> {"ws", "dbr"}

\* A history request comes in or is answered; the connection ends in between.
ClientStep(c) ==
    /\ main \notin {"exited", "undefined"}
    /\ clients[c] # "none" /\ Uses(c) \subseteq parts
    /\ clients' = [clients EXCEPT ![c] = IF @ = "loop" THEN "history" ELSE "loop"]
    /\ UNCHANGED <<program, g_running, main, running, parts, ended, callbacks, linkVars>>

ClientLeaves(c) ==
    /\ main \notin {"exited", "undefined"}
    /\ clients[c] = "loop" /\ Uses(c) \subseteq parts
    /\ clients' = [clients EXCEPT ![c] = "none"]
    /\ UNCHANGED <<program, g_running, main, running, parts, ended, callbacks, linkVars>>

\* The thread goes on without one of them.
ClientMisuses(c) ==
    /\ main \notin {"exited", "undefined"}
    /\ ~(Uses(c) \subseteq parts)
    /\ main' = "undefined"
    /\ UNCHANGED <<program, g_running, running, parts, ended, clients, callbacks, linkVars>>

ClientThread(c) == Joined(c) \/ ClientStep(c) \/ ClientLeaves(c) \/ ClientMisuses(c)

-----------------------------------------------------------------------------
(* The thread that runs the network loop, and the broker.                  *)

\* The CONNACK arrives; on_connect is called if it is registered by now.
CallOnConnect == net' = IF "on_connect" \in callbacks THEN "on_connect" ELSE "idle"

Connack ==
    /\ net = "idle" /\ link = "connecting"
    /\ link' = "up"
    /\ CallOnConnect
    /\ UNCHANGED <<program, clients, g_running, main, running, parts, ended, callbacks, asked, deaf, lost>>

OnConnect ==
    /\ net = "on_connect"
    /\ Ask
    /\ net' = "idle"
    /\ UNCHANGED <<program, clients, g_running, main, running, parts, ended, callbacks, link, lost>>

\* What was queued on a connection ends with it; the broker starts from nothing.
Drop ==
    /\ link' = "down" /\ asked' = FALSE /\ deaf' = FALSE /\ lost' = TRUE
    /\ UNCHANGED <<program, clients, g_running, main, running, parts, ended, callbacks, net>>

\* on_connect with rc # 0 only prints it.
Refused == net = "idle" /\ link = "connecting" /\ "refused" \in Faults /\ Drop

Lost == net = "idle" /\ link # "down" /\ "loss" \in Faults /\ Drop

\* The loop connects again, 1 to 10 s later.
Reconnect ==
    /\ net = "idle" /\ link = "down"
    /\ link' = "connecting"
    /\ UNCHANGED <<program, clients, g_running, main, running, parts, ended, callbacks, net, asked, deaf, lost>>

\* A message reaches on_message; without the callback it is dropped.
Message ==
    /\ net = "idle" /\ link = "up" /\ asked /\ "on_message" \in callbacks
    /\ net' = "on_message"
    /\ UNCHANGED <<program, clients, g_running, main, running, parts, ended, callbacks, link, asked, deaf, lost>>

MessageDone ==
    /\ net = "on_message"
    /\ net' = "idle"
    /\ UNCHANGED <<program, clients, g_running, main, running, parts, ended, callbacks, link, asked, deaf, lost>>

Callback == OnConnect \/ MessageDone
Network  == Connack \/ Refused \/ Lost \/ Reconnect \/ Message \/ Callback

-----------------------------------------------------------------------------
(* main of state_dump.  Its network loop is run by the main thread.        *)

DumpNew ==
    /\ main = "dump_new"
    /\ parts' = {"lib", "mosq"}
    /\ callbacks' = {"on_message"}
    /\ main' = "dump_connect"
    /\ UNCHANGED <<program, clients, g_running, running, ended, linkVars>>

\* mosquitto_connect; when it fails the process returns and takes all with it.
DumpConnect ==
    /\ main = "dump_connect"
    /\ \/ main' = "dump_subscribe" /\ link' = "connecting" /\ UNCHANGED <<parts, callbacks>>
       \/ /\ "call" \in Faults
          /\ main' = "exited" /\ parts' = {} /\ callbacks' = {} /\ UNCHANGED link
    /\ UNCHANGED <<program, clients, g_running, running, ended, net, asked, deaf, lost>>

DumpSubscribe ==
    /\ main = "dump_subscribe"
    /\ Ask
    /\ main' = "dump_loop" /\ net' = "idle"
    /\ UNCHANGED <<program, clients, g_running, running, parts, ended, callbacks, link, lost>>

Dump == DumpNew \/ DumpConnect \/ DumpSubscribe

-----------------------------------------------------------------------------
Exited == main \in {"exited", "undefined"} /\ UNCHANGED vars

Next ==
    \/ Start \/ Signal \/ Stop \/ Network \/ Dump \/ Exited
    \/ \E t \in Threads : ThreadEnds(t)
    \/ \E c \in Clients : ClientThread(c)

Spec == Init /\ [][Next]_vars

\* The threads run.  Nothing is assumed of the broker, of a client or of a signal.
Fairness ==
    /\ WF_vars(Start) /\ WF_vars(Stop) /\ WF_vars(Dump)
    /\ WF_vars(Callback)
    /\ \A t \in Threads : WF_vars(ThreadEnds(t))

FairSpec == Spec /\ Fairness

-----------------------------------------------------------------------------
(* What a start, a stop and a subscription promise.                        *)

\* Every variable keeps its type.
TypeOK ==
    /\ program \in {"gateway", "state_dump"}
    /\ main \in StartSteps \cup StopSteps \cup DumpSteps
    /\ g_running \in BOOLEAN /\ running \in BOOLEAN
    /\ parts \subseteq Parts /\ ended \subseteq Threads
    /\ clients \in [Clients -> {"none", "loop", "history"}]
    /\ callbacks \subseteq {"user_data", "on_connect", "on_message"}
    /\ net \in {"none", "idle", "on_connect", "on_message"}
    /\ link \in {"down", "connecting", "up"}
    /\ asked \in BOOLEAN /\ deaf \in BOOLEAN /\ lost \in BOOLEAN

\* Whatever call of start has failed, and whenever the stop comes: a thread that
\* stop joins and a callback find what they use until they have ended, the writer
\* the database and the server, a callback the gateway and the writer that will
\* take its sample.  A client thread finds the reader and the gateway as long as
\* its server exists, and no longer: nothing waits for a client, so the only
\* thread that can use what is gone is a client that went on after ws_server_stop,
\* in a gateway that is stopping.
UsersFindParts ==
    /\ "writer" \in parts \ ended => {"g", "dbw", "ws"} \subseteq parts
    /\ "stats" \in parts \ ended => "g" \in parts
    /\ net # "none" => "mosq" \in parts
    /\ program = "gateway" /\ net # "none" => {"lib", "g", "dbw", "dbr", "ws", "writer"} \subseteq parts
    /\ program = "gateway" /\ net = "on_message" => "user_data" \in callbacks
    /\ \A c \in Clients : clients[c] # "none" /\ "ws" \in parts => {"g", "dbr"} \subseteq parts
    /\ main = "undefined" => ~running /\ parts \cap {"ws", "mosq"} = {}

\* When the process returns, by any of the six failing calls or by a signal, all
\* that start has made has been disposed of.  Client threads may be left; the
\* process takes them with it.
StopUndoesStart == main = "exited" => parts = {} /\ callbacks = {} /\ net = "none"

\* A connection the broker has accepted is subscribed, unless it ends first or a
\* SUBSCRIBE failed on it: neither a CONNACK handled before on_connect was set
\* nor a connection lost during start leaves the gateway connected and deaf.
\* state_dump, which subscribes once, can rely on its first connection only.
StableLinkIsSubscribed ==
    (link = "up" /\ (program = "gateway" \/ ~lost)) ~> (asked \/ deaf \/ link # "up")
=============================================================================
