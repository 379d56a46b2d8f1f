------------------------------- MODULE MCHeap -------------------------------
(* Finite instances of Heap for TLC. *)
EXTENDS Heap

CONSTANTS t1, t2, t3, b

ThreeTasks == {t1, t2, t3}
OneList == {b}
TwoPriorities == {0, 1}
NoDelay == {}
NoInterval == [t \in Task \cup {Idle} |-> 0]
TaskSymmetry == Permutations({t1, t2, t3})
=============================================================================
