----------------------------- MODULE MCSemaphore -----------------------------
(* Finite instances of Semaphore for TLC. *)
EXTENDS Semaphore

CONSTANTS t1, t2, s1

TwoTasks == {t1, t2}
OneSemaphore == {s1}
TwoPriorities == {0, 1}
OneDelay == {1}
NoInterval == [t \in Task \cup {Idle} |-> 0]
OneToken == [s \in BlockList |-> 1]
TwoTokens == [s \in BlockList |-> 2]
OneOrTwo == {1, 2}
=============================================================================
