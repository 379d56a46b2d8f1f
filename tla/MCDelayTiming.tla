---------------------------- MODULE MCDelayTiming ----------------------------
(* Finite instances of DelayTiming for TLC. *)
EXTENDS DelayTiming

CONSTANTS t1, t2, b

TwoTasks == {t1, t2}
OneList == {b}
TwoPriorities == {0, 1}
AllTicks == 0 .. TickModulus - 1
SomeDurations == {0, 2, 3, 7, 11}

\* Only t1 is delayed again by each tick that wakes it.
OneInterval == [t \in Task \cup {Idle} |-> IF t = t1 THEN 1 ELSE 0]
=============================================================================
