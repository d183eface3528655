------------------------------ MODULE RobotSim ------------------------------
(***************************************************************************)
(* The robot simulator: main starts the sensor threads and the state       *)
(* publisher (src/apps/robot_main.c), each sensor writes its part of a     *)
(* shared cache (src/sim/sensors), the publisher copies the cache and      *)
(* sends the copy (src/sim/telemetry_state_pub.c), and everything stops    *)
(* when a signal or a failed start clears g_running.                       *)
(*                                                                         *)
(* The part of a sensor is reduced to a stamp, the number of times it was  *)
(* set, in two halves that are written by two steps: a copy made in        *)
(* between would show two different ones.  Stamps and seq are counted      *)
(* modulo SeqSize, which is 2^32 in the code.                              *)
(***************************************************************************)
EXTENDS Integers, SequencesExt

CONSTANTS
    Sensors,     \* the sensors in the order main starts them
    SeqSize,     \* seq is counted modulo this
    Faults       \* what may go wrong in this instance

(***************************************************************************)
(*   start     calloc or pthread_create fails: a start function returns an *)
(*             error                                                       *)
(*   connect   mqtt_client_connect fails in a thread                       *)
(*   memory    malloc of the packed snapshot fails                         *)
(***************************************************************************)
FaultKinds == {"start", "connect", "memory"}

ASSUME SensorsAssumption ==
    /\ Sensors \in Seq(STRING) /\ IsInjective(Sensors)
    /\ {"state", "free"} \cap ToSet(Sensors) = {}
ASSUME SeqSizeAssumption == SeqSize \in Nat \ {0}
ASSUME FaultsAssumption == Faults \subseteq FaultKinds

Groups  == ToSet(Sensors)
Threads == Append(Sensors, "state")      \* started, and joined, in this order

VARIABLES
    g_running,   \* cleared by a signal or by main
    main,        \* "start", "join", "exited"
    next,        \* the thread main starts or joins next
    started,     \* the number of threads main has started
    at,          \* progress of each thread
    mu,          \* the thread that holds the cache's mutex, or "free"
    cache, seq,  \* the cache
    copy         \* the publisher's copy of both

vars == <<g_running, main, next, started, at, mu, cache, seq, copy>>
mainVars  == <<g_running, main, next, started>>
cacheVars == <<mu, cache, seq>>

Stamp == [a : 0..SeqSize - 1, b : 0..SeqSize - 1]
Zero  == [g \in Groups |-> [a |-> 0, b |-> 0]]

Init ==
    /\ g_running = TRUE /\ main = "start" /\ next = 1 /\ started = 0
    /\ at = [t \in ToSet(Threads) |-> "none"]
    /\ mu = "free" /\ cache = Zero /\ seq = 0
    /\ copy = [parts |-> Zero, seq |-> 0]

GoTo(t, place) == at' = [at EXCEPT ![t] = place]

-----------------------------------------------------------------------------
(* main and the signal handler.                                            *)

StartThread ==
    /\ main = "start" /\ next <= Len(Threads)
    /\ GoTo(Threads[next], "connect")
    /\ started' = next /\ next' = next + 1
    /\ UNCHANGED <<g_running, main, cacheVars, copy>>

\* (slip) the error path of main returns without joining the first thread
ForgetFirst ==
    /\ main = "start" /\ next <= Len(Threads) /\ "start" \in Faults
    /\ g_running' = FALSE
    /\ main' = "join" /\ next' = IF started > 0 THEN 2 ELSE 1
    /\ UNCHANGED <<started, at, cacheVars, copy>>

\* A start fails: main stops the threads it has started and joins them.  (It
\* leaves g_running alone when the first one fails: nobody reads it then.)
StartFails ==
    /\ main = "start" /\ next <= Len(Threads) /\ "start" \in Faults
    /\ g_running' = (g_running /\ next = 1)
    /\ main' = "join" /\ next' = 1
    /\ UNCHANGED <<started, at, cacheVars, copy>>

AllStarted ==
    /\ main = "start" /\ next > Len(Threads)
    /\ main' = "join" /\ next' = 1
    /\ UNCHANGED <<g_running, started, at, cacheVars, copy>>

Join ==
    /\ main = "join" /\ next <= started /\ at[Threads[next]] = "done"
    /\ next' = next + 1
    /\ UNCHANGED <<g_running, main, started, at, cacheVars, copy>>

\* main returns: the cache, a local variable of main, is gone.
Return ==
    /\ main = "join" /\ next > started
    /\ main' = "exited"
    /\ UNCHANGED <<g_running, next, started, at, cacheVars, copy>>

\* on_sigint
Signal ==
    /\ g_running /\ main # "exited"
    /\ g_running' = FALSE
    /\ UNCHANGED <<main, next, started, at, cacheVars, copy>>

-----------------------------------------------------------------------------
(* What all threads do.                                                    *)

\* mqtt_client_connect
Connect(t) ==
    /\ at[t] = "connect"
    /\ \/ GoTo(t, "loop")
       \/ "connect" \in Faults /\ GoTo(t, "done")     \* free(a); return
    /\ UNCHANGED <<mainVars, cacheVars, copy>>

\* while (*(a->rt.running))
Loop(t) ==
    /\ at[t] = "loop"
    /\ GoTo(t, IF g_running THEN "lock" ELSE "close")
    /\ UNCHANGED <<mainVars, cacheVars, copy>>

\* (slip) the mutex is not taken
LockNothing(t) ==
    /\ at[t] = "lock"
    /\ mu' = mu
    /\ GoTo(t, "first")
    /\ UNCHANGED <<mainVars, cache, seq, copy>>

Lock(t) ==
    /\ at[t] = "lock" /\ mu = "free"
    /\ mu' = t
    /\ GoTo(t, "first")
    /\ UNCHANGED <<mainVars, cache, seq, copy>>

\* The tick: sleep_until_next_tick and the end of the publisher's loop.
Wake(t) ==
    /\ at[t] = "sleep"
    /\ GoTo(t, "loop")
    /\ UNCHANGED <<mainVars, cacheVars, copy>>

\* mqtt_client_close; free(a); return
Close(t) ==
    /\ at[t] = "close"
    /\ GoTo(t, "done")
    /\ UNCHANGED <<mainVars, cacheVars, copy>>

-----------------------------------------------------------------------------
(* A sensor: telemetry_cache_set_imu, _tilt, _motor.                       *)

NextStamp(n) == (n + 1) % SeqSize

SetFirst(g) ==
    /\ at[g] = "first"
    /\ cache' = [cache EXCEPT ![g].a = NextStamp(@)]
    /\ GoTo(g, "second")
    /\ UNCHANGED <<mainVars, mu, seq, copy>>

\* (slip) the mutex is given back before seq++, which is lost now and then
SetSecondLosesSeq(g) ==
    /\ at[g] = "second"
    /\ cache' = [cache EXCEPT ![g].b = NextStamp(@)]
    /\ seq' \in {seq, NextStamp(seq)}
    /\ mu' = "free"
    /\ GoTo(g, "sleep")
    /\ UNCHANGED <<mainVars, copy>>

\* The rest of the part, seq++ and unlock.  The raw topics are published before
\* or after; they carry the sensor's own values.
SetSecond(g) ==
    /\ at[g] = "second"
    /\ cache' = [cache EXCEPT ![g].b = NextStamp(@)]
    /\ seq' = NextStamp(seq)
    /\ mu' = "free"
    /\ GoTo(g, "sleep")
    /\ UNCHANGED <<mainVars, copy>>

Sensor(g) ==
    Connect(g) \/ Loop(g) \/ Lock(g) \/ SetFirst(g) \/ SetSecond(g) \/ Wake(g) \/ Close(g)

-----------------------------------------------------------------------------
(* The publisher: telemetry_cache_get and mosquitto_publish.               *)

\* Half of the fields are copied.
CopyFirst ==
    /\ at["state"] = "first"
    /\ copy' = [copy EXCEPT !.parts = [g \in Groups |-> [@[g] EXCEPT !.a = cache[g].a]]]
    /\ GoTo("state", "second")
    /\ UNCHANGED <<mainVars, cacheVars>>

\* The other half, seq, and unlock.
CopySecond ==
    /\ at["state"] = "second"
    /\ copy' = [parts |-> [g \in Groups |-> [copy.parts[g] EXCEPT !.b = cache[g].b]],
                seq |-> seq]
    /\ mu' = "free"
    /\ GoTo("state", "publish")
    /\ UNCHANGED <<mainVars, cache, seq>>

\* (slip) without memory the pass is repeated whatever running says
RepeatPass ==
    /\ at["state"] = "publish"
    /\ \/ GoTo("state", "sleep")
       \/ "memory" \in Faults /\ GoTo("state", "lock")
    /\ UNCHANGED <<mainVars, cacheVars, copy>>

\* The snapshot is packed and published.  Without memory the tick is skipped
\* and the loop begins again after a millisecond.
Publish ==
    /\ at["state"] = "publish"
    /\ \/ GoTo("state", "sleep")
       \/ "memory" \in Faults /\ GoTo("state", "loop")
    /\ UNCHANGED <<mainVars, cacheVars, copy>>

Publisher ==
    \/ Connect("state") \/ Loop("state") \/ Lock("state") \/ CopyFirst \/ CopySecond
    \/ Publish \/ Wake("state") \/ Close("state")

-----------------------------------------------------------------------------
Main == StartThread \/ StartFails \/ AllStarted \/ Join \/ Return

Exited == main = "exited" /\ UNCHANGED vars

Next == Main \/ Signal \/ (\E g \in Groups : Sensor(g)) \/ Publisher \/ Exited

Spec == Init /\ [][Next]_vars

\* Threads that can run do, and ticks come.
Fairness ==
    /\ WF_vars(Main)
    /\ \A g \in Groups : WF_vars(Sensor(g))
    /\ WF_vars(Publisher)

FairSpec == Spec /\ Fairness

-----------------------------------------------------------------------------
(* What the simulator promises.                                            *)

\* Every variable keeps its type, and main joins only threads it has started.
TypeOK ==
    /\ g_running \in BOOLEAN /\ main \in {"start", "join", "exited"}
    /\ started \in 0..Len(Threads) /\ next \in 1..started + 1
    /\ at \in [ToSet(Threads) -> {"none", "connect", "loop", "lock", "first",
                   "second", "publish", "sleep", "close", "done"}]
    /\ mu \in ToSet(Threads) \cup {"free"}
    /\ cache \in [Groups -> Stamp] /\ seq \in 0..SeqSize - 1
    /\ copy \in [parts : [Groups -> Stamp], seq : 0..SeqSize - 1]

\* The updates that the parts hold, sensor after sensor.
TotalOf(parts) ==
    LET total[i \in 0..Len(Sensors)] ==
            IF i = 0 THEN 0 ELSE total[i - 1] + parts[Sensors[i]].a
    IN  total[Len(Sensors)]

\* A published snapshot is one state of the cache: no part is half old, although
\* the sensors write while the publisher reads.
SnapshotIsWhole ==
    at["state"] = "publish" => \A g \in Groups : copy.parts[g].a = copy.parts[g].b

\* seq names the state of the cache that is published: it is the number of
\* updates its parts hold, although four threads count it.
SeqNamesSnapshot ==
    at["state"] = "publish" => copy.seq = TotalOf(copy.parts) % SeqSize

\* main returns, and the cache on its stack disappears, only when every thread
\* it has started has ended, whichever start failed.
CacheOutlivesThreads ==
    main = "exited" => \A t \in ToSet(Threads) : at[t] \in {"none", "done"}

\* After a signal or a failed start the simulator ends.
ShutdownEnds == (~g_running) ~> main = "exited"
=============================================================================
