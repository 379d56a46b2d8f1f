----------------------------- MODULE DelayTiming -----------------------------
(***************************************************************************)
(* How long DelayTask delays, to the tick.  Scheduler says what the code   *)
(* does: the end of a delay is a sum in w bits, which Tick compares with   *)
(* <=, visiting the delayed tasks in the order of their priorities.  This  *)
(* module states, as DelayLength, what that comes to, and counts the ticks *)
(* of each delay down from there.                                          *)
(***************************************************************************)
EXTENDS Scheduler

CONSTANTS
    Durations,      \* the arguments of DelayTask, in microseconds
    TickLength      \* 1000000 / tickfrequency microseconds, 1000 in the code

VARIABLE
    toGo        \* the ticks each delayed task has still to wait for, if its
                \* delay lasts DelayLength (no code reads it)

timingVars == <<vars, toGo>>

\* duration_cast to systemtick::ticks, then to uint32_t.
ToTicks(d) == (d \div TickLength) % TickModulus

ASSUME DurationsAssumption ==
    /\ TickLength \in Nat \ {0}
    /\ Durations \subseteq Nat
    /\ \A d \in Durations : ToTicks(d) \in Delays

\* The ticks a delay of n lasts that begins at time now.  A sum that does not
\* wrap around: n, but never none.  A sum that does: one.  Both are different
\* just before the clock itself wraps around.
DelayLength(now, n) ==
    IF now = TickModulus - 1
    THEN IF n = 0 THEN TickModulus ELSE n
    ELSE IF n = 0 \/ now + n >= TickModulus THEN 1 ELSE n

TimingInit == Init /\ toGo = [t \in Task |-> 0]

\* Notes that the delay of t by n ticks begins.
Begins(t, n) == toGo' = [toGo EXCEPT ![t] = DelayLength(systicks, n)]

\* DelayTask of a duration, for the current task.
DelayFor(t, d) ==
    /\ Delay(t, ToTicks(d))
    /\ Begins(t, ToTicks(d))

DelayOtherFor(caller, t, n) ==
    /\ DelayOther(caller, t, n)
    /\ Begins(t, n)

\* Every delayed task waits for one tick less.
TimedTick ==
    /\ Tick
    /\ toGo' = [t \in Task |-> IF parent[t] = DelayedTasks THEN toGo[t] - 1
                                                          ELSE toGo[t]]

\* A task that leaves the delayed list, however it does, waits no more.
Untimed ==
    /\ \/ \E t \in Task, n \in PriorityRange : SetPriority(t, n)
       \/ \E t \in Task : Start(t) \/ BlockReturn(t)
       \/ \E caller, t \in Task : Yield(caller, t)
       \/ \E t \in Task, l \in BlockList : Block(t, l)
       \/ \E l \in BlockList : Unblock(l)
       \/ TickVisit
       \/ SwitchContext
    /\ toGo' = [t \in Task |-> IF parent'[t] = DelayedTasks THEN toGo[t] ELSE 0]

TimingNext ==
    \/ \E t \in Task, d \in Durations : DelayFor(t, d)
    \/ \E caller, t \in Task, n \in Delays : DelayOtherFor(caller, t, n)
    \/ TimedTick
    \/ Untimed

TimingSpec == TimingInit /\ [][TimingNext]_timingVars

-----------------------------------------------------------------------------
\* A task that Tick takes off the delayed list has waited exactly as long as
\* DelayLength says, whatever the other tasks do to the list meanwhile, and
\* none waits longer (DelayTask, Scheduler::Tick).
DelaysAreExact ==
    [][\A t \in Task :
         parent[t] = DelayedTasks =>
            /\ toGo[t] >= 0
            /\ TickVisit /\ parent'[t] # DelayedTasks => toGo[t] = 0]_timingVars
=============================================================================
