------------------------------- MODULE MCFifo -------------------------------
(* Finite instances of Fifo for TLC. *)
EXTENDS Fifo

CONSTANTS t1, t2, t3

ThreeTasks == {t1, t2, t3}
BothSemaphores == {pushSemaphore, popSemaphore}
TwoPriorities == {0, 1}
NoDelay == {}
NoInterval == [t \in Task \cup {Idle} |-> 0]
Initially == [s \in BlockList |-> IF s = pushSemaphore THEN Count ELSE 0]
AtMost == [s \in BlockList |-> Count]
JustOne == {1}
TaskSymmetry == Permutations(Task)
=============================================================================
