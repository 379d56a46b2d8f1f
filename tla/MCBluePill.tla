----------------------------- MODULE MCBluePill -----------------------------
(* Finite instances of BluePill for TLC. *)
EXTENDS BluePill

BothTasks == {task1, task2}
OneSemaphore == {temperatureValueSemaphore}
TwoPriorities == {0, 1}
ShortDelays == {2, 3}
NoInterval == [t \in Task \cup {Idle} |-> 0]
Empty == [s \in BlockList |-> 0]
TwoTokens == [s \in BlockList |-> 2]
JustOne == {1}
=============================================================================
