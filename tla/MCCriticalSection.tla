-------------------------- MODULE MCCriticalSection --------------------------
(* Finite instances of CriticalSection for TLC. *)
EXTENDS CriticalSection

CONSTANTS t1, t2, BlockedTasks

TwoTasks == {t1, t2}
OneBlockList == {BlockedTasks}
TwoPriorities == {0, 1}
SomeDelays == {1}
NoInterval == [t \in Task \cup {Idle} |-> 0]
TaskSymmetry == Permutations(Task)
==============================================================================
