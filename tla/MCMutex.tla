------------------------------- MODULE MCMutex -------------------------------
(* Finite instances of Mutex for TLC. *)
EXTENDS Mutex

CONSTANTS t1, t2, t3, m1

ThreeTasks == {t1, t2, t3}
OneMutex == {m1}
TwoPriorities == {0, 1}
NoDelay == {}
NoInterval == [t \in Task \cup {Idle} |-> 0]
=============================================================================
