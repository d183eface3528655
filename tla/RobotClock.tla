----------------------------- MODULE RobotClock -----------------------------
(***************************************************************************)
(* RobotSim with a clock, and with what the motor sensors count.           *)
(*                                                                         *)
(* A thread reads CLOCK_MONOTONIC once, when it is connected, and from     *)
(* then on adds its period to that time and sleeps until then              *)
(* (src/include/util/time_utils.h; telemetry_state_pub.c has its own copy  *)
(* of the code).  However late it wakes, the time it sleeps for next does  *)
(* not move: it makes up for what it has missed without a pause.  The      *)
(* clock goes on between any two steps, so a thread can be held up         *)
(* anywhere.                                                               *)
(*                                                                         *)
(* A motor sensor adds the movement of a pass to tick_frac, takes the      *)
(* whole ticks out of it and counts them in 32 bits.  Movement is in       *)
(* parts of a tick, and Turn is the movement after which the count is at   *)
(* zero again.                                                             *)
(***************************************************************************)
EXTENDS RobotSim

CONSTANTS
    Second,    \* 1000000000 ns
    Period,    \* period_ns of each thread
    Horizon,   \* bound: a simulator that is not told to stop does not get older
    Motors,    \* the sensors that count ticks
    Part,      \* parts of a tick that movements are multiples of
    Moves,     \* the movements of a pass
    CountSize  \* the count is modulo this: 2^32

ASSUME ClockAssumption ==
    /\ Second \in Nat \ {0} /\ Horizon \in Nat
    /\ Period \in [ToSet(Threads) -> Nat \ {0}]
ASSUME MotorAssumption ==
    /\ Motors \subseteq Groups
    /\ Part \in Nat \ {0} /\ CountSize \in Nat \ {0} /\ Moves \subseteq Nat

VARIABLES
    now,         \* CLOCK_MONOTONIC
    due,         \* next of each thread: a timespec
    began,       \* history: the time a thread read before its first pass
    passes,      \* history: the ticks it has gone to sleep for
    tick_frac,   \* of each motor, in parts
    tick_count,  \* of each motor
    moved        \* history: its movement since it was started, modulo Turn

motorVars == <<tick_frac, tick_count, moved>>
clockVars == <<now, due, began, passes, motorVars>>

Turn == Part * CountSize

Timespec == [sec : Nat, nsec : Nat]
At(n)    == [sec |-> n \div Second, nsec |-> n % Second]
Ns(ts)   == ts.sec * Second + ts.nsec

ClockInit ==
    /\ Init
    /\ now = 0 /\ due = [t \in ToSet(Threads) |-> At(0)]
    /\ began = [t \in ToSet(Threads) |-> 0] /\ passes = [t \in ToSet(Threads) |-> 0]
    /\ tick_frac = [g \in Motors |-> 0] /\ tick_count = [g \in Motors |-> 0]
    /\ moved = [g \in Motors |-> 0]

-----------------------------------------------------------------------------
(* The clock.                                                              *)

\* The time t sleeps for has come.
Late(t) == now >= Ns(due[t])

\* Time passes; when the simulator has been stopped, as long as someone sleeps.
Clock ==
    /\ IF g_running THEN now < Horizon
        ELSE \E t \in ToSet(Threads) : at[t] = "sleep" /\ ~Late(t)
    /\ now' = now + 1
    /\ UNCHANGED <<vars, due, began, passes, motorVars>>

\* (slip) while (next->tv_nsec > 1000000000L)
CarryLate(ts, ns) ==
    IF ts.nsec + ns > Second
     THEN [sec |-> ts.sec + 1, nsec |-> ts.nsec + ns - Second]
     ELSE [ts EXCEPT !.nsec = @ + ns]

\* next->tv_nsec += period_ns, carried over into tv_sec by a loop.
Advance(ts, ns) ==
    [sec |-> ts.sec + (ts.nsec + ns) \div Second, nsec |-> (ts.nsec + ns) % Second]

\* clock_nanosleep returns: the time has come, or it is no time at all (EINVAL).
SleepEnds(t) == Late(t) \/ due[t].nsec >= Second

\* t goes to sleep.
Tick(t) ==
    /\ due' = [due EXCEPT ![t] = Advance(@, Period[t])]
    /\ passes' = [passes EXCEPT ![t] = @ + 1]

-----------------------------------------------------------------------------
(* The threads.                                                            *)

\* clock_gettime, before the first pass.
TimedConnect(t) ==
    /\ Connect(t)
    /\ IF at'[t] = "loop"
        THEN /\ due' = [due EXCEPT ![t] = At(now)]
             /\ began' = [began EXCEPT ![t] = now]
        ELSE UNCHANGED <<due, began>>
    /\ UNCHANGED <<now, passes, motorVars>>

\* (slip) what is left of a tick is lost
DropFraction(g, m) ==
    /\ tick_frac' = [tick_frac EXCEPT ![g] = 0]
    /\ tick_count' = [tick_count EXCEPT ![g] = (@ + (tick_frac[g] + m) \div Part) % CountSize]

\* floor(tick_frac) ticks are taken out of tick_frac and counted.
CountTicks(g, m) ==
    /\ tick_frac' = [tick_frac EXCEPT ![g] = (@ + m) % Part]
    /\ tick_count' = [tick_count EXCEPT ![g] = (@ + (tick_frac[g] + m) \div Part) % CountSize]

\* A pass of a motor begins: it has moved.
TimedLoop(t) ==
    /\ Loop(t)
    /\ IF at'[t] = "lock" /\ t \in Motors
        THEN \E m \in Moves :
                /\ CountTicks(t, m)
                /\ moved' = [moved EXCEPT ![t] = (@ + m) % Turn]
        ELSE UNCHANGED motorVars
    /\ UNCHANGED <<now, due, began, passes>>

TimedWake(t) ==
    /\ Wake(t) /\ SleepEnds(t)
    /\ UNCHANGED clockVars

\* A handler that runs in t ends its sleep early (EINTR), which t does not look at.
Interrupted(t) ==
    /\ ~g_running /\ Wake(t)
    /\ UNCHANGED clockVars

\* The end of the pass of a sensor, and of the publisher; without memory the
\* publisher begins the pass again.
TimedSetSecond(g) ==
    /\ SetSecond(g) /\ Tick(g)
    /\ UNCHANGED <<now, began, motorVars>>

TimedPublish ==
    /\ Publish
    /\ IF at'["state"] = "sleep" THEN Tick("state") ELSE UNCHANGED <<due, passes>>
    /\ UNCHANGED <<now, began, motorVars>>

Untimed(A) == A /\ UNCHANGED clockVars

TimedSensor(g) ==
    \/ TimedConnect(g) \/ TimedLoop(g) \/ Untimed(Lock(g)) \/ Untimed(SetFirst(g))
    \/ TimedSetSecond(g) \/ TimedWake(g) \/ Untimed(Close(g))

TimedPublisher ==
    \/ TimedConnect("state") \/ TimedLoop("state") \/ Untimed(Lock("state"))
    \/ Untimed(CopyFirst) \/ Untimed(CopySecond) \/ TimedPublish
    \/ TimedWake("state") \/ Untimed(Close("state"))

-----------------------------------------------------------------------------
ClockNext ==
    \/ Clock
    \/ Untimed(Main) \/ Untimed(Signal) \/ Untimed(Exited)
    \/ (\E g \in Groups : TimedSensor(g)) \/ TimedPublisher
    \/ \E t \in ToSet(Threads) : Interrupted(t)

ClockSpec == ClockInit /\ [][ClockNext]_<<vars, clockVars>>

\* Threads that can run do, and time passes.
ClockFairSpec ==
    /\ ClockSpec
    /\ WF_<<vars, clockVars>>(Clock) /\ WF_<<vars, clockVars>>(Untimed(Main))
    /\ \A g \in Groups : WF_<<vars, clockVars>>(TimedSensor(g))
    /\ WF_<<vars, clockVars>>(TimedPublisher)

-----------------------------------------------------------------------------
(* What the clock and the counters promise.                                *)

\* t has read the clock.
Timed(t) == at[t] \notin {"none", "connect", "done"}

\* In its pass, and not on its way to the next.
InPass(t) == at[t] \in {"lock", "first", "second", "publish"}

\* A thread keeps to its rate however long it is held up: it sleeps for the times
\* began + k * period, each of them a valid time and each once, and it never begins
\* a pass before its time, also when it makes up for lost ones.
OnSchedule ==
    \A t \in ToSet(Threads) : Timed(t) =>
        /\ due[t].nsec < Second
        /\ Ns(due[t]) = began[t] + passes[t] * Period[t]
        /\ InPass(t) => Late(t)

\* The ticks a motor publishes are its whole movement since it was started, to the
\* tick: nothing is lost between passes or when the count wraps.
CountIsExact ==
    \A g \in Motors : tick_count[g] = moved[g] \div Part /\ tick_frac[g] = moved[g] % Part
=============================================================================
