----------------------------- MODULE MCScheduler -----------------------------
(* Finite instances of Scheduler for TLC. *)
EXTENDS Scheduler

CONSTANTS t1, t2, t3, b

OneList == {b}
ThreeTasks == {t1, t2, t3}
TwoPriorities == {0, 1}

\* With a clock of 3 values tickDelay wraps around.
OneDelay == {2}
NoInterval == [t \in Task \cup {Idle} |-> 0]
TaskSymmetry == Permutations({t1, t2, t3})
=============================================================================
