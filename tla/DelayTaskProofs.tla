--------------------------- MODULE DelayTaskProofs ---------------------------
(***************************************************************************)
(* DelayTask, and with it Yield.  First how long a delay lasts, proved to  *)
(* the tick: for any number of tasks, any delays that fit the clock and    *)
(* any width of the clock.  Then, of the two calls taken step by step with *)
(* interrupts anywhere: that they are atomic until a tick comes in the     *)
(* middle of a push, that criticalNestingCounter is right until a task     *)
(* stores a stale value of it, and which task a broken push can lose.      *)
(***************************************************************************)
EXTENDS DelayTiming, CriticalSection, SchedulerProofs, FiniteSetTheorems

\* A number less than the modulus is its own remainder.
LEMMA SmallRemainder ==
    ASSUME NEW m \in Nat \ {0}, NEW x \in 0 .. m - 1
    PROVE  x % m = x
  OBVIOUS

\* What the wrapped sum of two clock values is.
LEMMA WrappedSum ==
    ASSUME NEW a \in 0 .. TickModulus - 1, NEW b \in 0 .. TickModulus - 1
    PROVE  (a + b) % TickModulus =
             IF a + b < TickModulus THEN a + b ELSE a + b - TickModulus
<1> DEFINE m == TickModulus
           x == a + b
           q == x \div m
           r == x % m
<1>1. m \in Nat \ {0} /\ x \in Nat /\ x < 2 * m
  BY TimeAssumption
<1> HIDE DEF m, x
<1>2. q \in Nat /\ r \in 0 .. m - 1 /\ x = m * q + r
  BY <1>1
<1> HIDE DEF q, r
<1>3. CASE q = 0
  BY <1>1, <1>2, <1>3 DEF m, x, r
<1>4. CASE q = 1
  BY <1>1, <1>2, <1>4 DEF m, x, r
<1>5. CASE q >= 2
  <2>1. q - 2 \in Nat /\ m * q = m * (q - 2) + 2 * m
    BY <1>1, <1>2, <1>5
  <2>2. m * (q - 2) \in Nat
    BY <1>1, <2>1
  <2> QED
    BY <1>1, <1>2, <2>1, <2>2
<1> QED
  BY <1>2, <1>3, <1>4, <1>5

\* The ticks that a delay which ends at time end has left, at time now and
\* between two ticks; and while a tick at time now is under way, for the tasks
\* it has still to visit.
Left(end, now) ==
    IF now = TickModulus - 1 THEN end + 1
    ELSE IF end > now THEN end - now ELSE 1

LeftInTick(end, now) == IF end > now THEN end - now ELSE 0

\* toGo agrees with tickDelay, which the code goes by.
TimesAgree ==
    \A t \in Task : parent[t] = DelayedTasks =>
        toGo[t] = IF Contains(scan, t) THEN LeftInTick(tickDelay[t], systicks)
                                       ELSE Left(tickDelay[t], systicks)

Timed == toGo \in [Task -> Int] /\ TimesAgree

\* DelayLength is what is left of the delay when it begins.
LEMMA LengthIsLeft ==
    ASSUME NEW now \in 0 .. TickModulus - 1, NEW n \in 0 .. TickModulus - 1
    PROVE  DelayLength(now, n) = Left((now + n) % TickModulus, now)
<1>1. TickModulus \in Nat \ {0}
  BY TimeAssumption
<1>2. (now + n) % TickModulus =
        IF now + n < TickModulus THEN now + n ELSE now + n - TickModulus
  BY WrappedSum
<1>3. CASE now + n < TickModulus
  BY <1>1, <1>2, <1>3 DEF DelayLength, Left
<1>4. CASE ~ (now + n < TickModulus)
  BY <1>1, <1>2, <1>4 DEF DelayLength, Left
<1> QED
  BY <1>3, <1>4

\* A tick takes one from what is left.
LEMMA TickTakesOne ==
    ASSUME NEW now \in 0 .. TickModulus - 1, NEW end \in 0 .. TickModulus - 1
    PROVE  LeftInTick(end, (now + 1) % TickModulus) = Left(end, now) - 1
<1>1. TickModulus \in Nat \ {0}
  BY TimeAssumption
<1>2. CASE now = TickModulus - 1
  <2>1. (now + 1) % TickModulus = 0
    BY <1>1, <1>2
  <2> QED
    BY <1>1, <1>2, <2>1 DEF LeftInTick, Left
<1>3. CASE now # TickModulus - 1
  <2>1. now + 1 \in 0 .. TickModulus - 1
    BY <1>1, <1>3
  <2>2. (now + 1) % TickModulus = now + 1
    BY <1>1, <2>1, SmallRemainder
  <2> QED
    BY <1>1, <1>3, <2>2 DEF LeftInTick, Left
<1> QED
  BY <1>2, <1>3

\* A task that was visited and has not expired waits on.
LEMMA NotExpiredIsLeft ==
    ASSUME NEW now \in 0 .. TickModulus - 1, NEW end \in 0 .. TickModulus - 1,
           ~ (end <= now)
    PROVE  LeftInTick(end, now) = Left(end, now)
  BY TimeAssumption DEF LeftInTick, Left

-----------------------------------------------------------------------------
\* Counting the ticks of the delays changes nothing the scheduler does.
LEMMA TimingStepIsSchedulerStep ==
    ASSUME [TimingNext]_timingVars PROVE [Next]_vars
<1>1. ASSUME NEW t \in Task, NEW d \in Durations, DelayFor(t, d)
      PROVE  [Next]_vars
  BY <1>1, DurationsAssumption DEF DelayFor, Next
<1>2. ASSUME NEW caller \in Task, NEW t \in Task, NEW n \in Delays,
             DelayOtherFor(caller, t, n)
      PROVE  [Next]_vars
  BY <1>2 DEF DelayOtherFor, Next
<1>3. ASSUME TimedTick PROVE [Next]_vars
  BY <1>3 DEF TimedTick, Next
<1>4. ASSUME Untimed PROVE [Next]_vars
  BY <1>4 DEF Untimed, Next
<1>5. ASSUME UNCHANGED timingVars PROVE [Next]_vars
  BY <1>5 DEF timingVars
<1> QED
  BY <1>1, <1>2, <1>3, <1>4, <1>5 DEF TimingNext

\* A delay that begins is timed.
LEMMA BeginsTimed ==
    ASSUME Lists, Timed, NEW t \in Task, NEW n \in Delays, scan = <<>>,
           PushDelayed(t, n), Begins(t, n), systicks' = systicks, scan' = scan
    PROVE  Timed'
<1> USE TaskIsLinkable, ListNames
<1>1. /\ systicks \in 0 .. TickModulus - 1 /\ n \in 0 .. TickModulus - 1
      /\ tickDelay \in [Linkable -> 0 .. TickModulus - 1]
      /\ parent \in [Linkable -> List \cup {NoList}]
      /\ toGo \in [Task -> Int]
  BY TimeAssumption DEF Lists, TypeOK, Timed
<1>2. /\ tickDelay' = [tickDelay EXCEPT ![t] = (systicks + n) % TickModulus]
      /\ parent' = [parent EXCEPT ![t] = DelayedTasks]
      /\ toGo' = [toGo EXCEPT ![t] = DelayLength(systicks, n)]
  BY DEF PushDelayed, Push, Begins
<1>3. DelayLength(systicks, n) \in Int
  BY <1>1, TimeAssumption DEF DelayLength
<1>4. ~ Contains(scan', t) /\ \A u : ~ Contains(scan, u)
  BY EmptySeq DEF Contains
<1>5. DelayLength(systicks, n) = Left(tickDelay'[t], systicks)
  BY <1>1, <1>2, LengthIsLeft
<1>6. ASSUME NEW u \in Task, parent'[u] = DelayedTasks
      PROVE  toGo'[u] = Left(tickDelay'[u], systicks)
  <2>1. CASE u = t
    BY <1>1, <1>2, <1>5, <2>1
  <2>2. CASE u # t
    BY <1>1, <1>2, <1>4, <1>6, <2>2 DEF Timed, TimesAgree
  <2> QED
    BY <2>1, <2>2
<1> QED
  BY <1>1, <1>2, <1>3, <1>4, <1>6 DEF Timed, TimesAgree

\* Every step keeps the count right.
LEMMA TimedNext ==
    ASSUME Lists, Lists', Safe, Iterating, Timed, [TimingNext]_timingVars
    PROVE  Timed'
<1> USE TaskIsLinkable, ListNames
<1>a. /\ systicks \in 0 .. TickModulus - 1
      /\ tickDelay \in [Linkable -> 0 .. TickModulus - 1]
      /\ parent \in [Linkable -> List \cup {NoList}]
      /\ toGo \in [Task -> Int]
  BY DEF Lists, TypeOK, Timed
<1>1. ASSUME NEW t \in Task, NEW d \in Durations, DelayFor(t, d) PROVE Timed'
  <2>1. /\ ToTicks(d) \in Delays /\ scan = <<>> /\ PushDelayed(t, ToTicks(d))
        /\ Begins(t, ToTicks(d)) /\ systicks' = systicks /\ scan' = scan
    BY <1>1, DurationsAssumption
       DEF DelayFor, Delay, InThread, NoException, tick
  <2> QED
    BY <2>1, BeginsTimed
<1>2. ASSUME NEW caller \in Task, NEW t \in Task, NEW n \in Delays,
             DelayOtherFor(caller, t, n)
      PROVE  Timed'
  <2>1. /\ scan = <<>> /\ PushDelayed(t, n) /\ Begins(t, n)
        /\ systicks' = systicks /\ scan' = scan
    BY <1>2 DEF DelayOtherFor, DelayOther, InThread, NoException, tick
  <2> QED
    BY <2>1, BeginsTimed
<1>3. ASSUME TimedTick PROVE Timed'
  <2>1. /\ systicks' = (systicks + 1) % TickModulus /\ scan = <<>>
        /\ tickDelay' = tickDelay /\ parent' = parent /\ queue' = queue
        /\ scan' = queue[DelayedTasks]
        /\ toGo' = [t \in Task |-> IF parent[t] = DelayedTasks THEN toGo[t] - 1
                                                              ELSE toGo[t]]
    BY <1>3 DEF TimedTick, Tick, NoException, lists
  <2>2. toGo' \in [Task -> Int]
    BY <1>a, <2>1
  <2>3. ASSUME NEW t \in Task, parent[t] = DelayedTasks
        PROVE  /\ Contains(scan', t)
               /\ toGo'[t] = LeftInTick(tickDelay[t], (systicks + 1) % TickModulus)
    <3>1. Contains(scan', t)
      BY <2>1, <2>3 DEF Lists, TypeOK, ListsConsistent, Consistent
    <3>2. ~ Contains(scan, t)
      BY <2>1, EmptySeq DEF Contains
    <3>3. toGo[t] = Left(tickDelay[t], systicks)
      BY <2>3, <3>2 DEF Timed, TimesAgree
    <3>4. LeftInTick(tickDelay[t], (systicks + 1) % TickModulus)
            = Left(tickDelay[t], systicks) - 1
      BY <1>a, TickTakesOne
    <3> QED
      BY <2>1, <2>3, <3>1, <3>3, <3>4
  <2> QED
    BY <2>1, <2>2, <2>3 DEF Timed, TimesAgree
<1>4. ASSUME Untimed PROVE Timed'
  <2>1. toGo' = [t \in Task |-> IF parent'[t] = DelayedTasks THEN toGo[t] ELSE 0]
    BY <1>4 DEF Untimed
  <2>2. toGo' \in [Task -> Int]
    BY <1>a, <2>1
  <2>3. CASE TickVisit
    <3> DEFINE h == Head(scan)
    <3>1. /\ h \in Task /\ systicks' = systicks
          /\ \/ Expired(h) /\ Push(ReadyTasks, h)
             \/ ~ Expired(h) /\ UNCHANGED <<lists, tickDelay>>
          /\ \A u \in Linkable :
               u # h => tickDelay'[u] = tickDelay[u] /\ parent'[u] = parent[u]
          /\ \A u : Contains(scan', u) <=> Contains(scan, u) /\ u # h
          /\ parent[h] = DelayedTasks
      BY <2>3, VisitMoves DEF Iterating, TickVisit
    <3>2. Contains(scan, h)
      <4>1. scan \in Seq(Linkable) /\ scan # <<>>
        BY <2>3 DEF TickVisit, Lists, TypeOK
      <4>2. h = scan[1] /\ 1 \in 1 .. Len(scan)
        BY <4>1, EmptySeq, HeadTailProperties, LenProperties
      <4> QED
        BY <4>2 DEF Contains
    <3> HIDE DEF h
    <3>3. ASSUME NEW u \in Task, parent'[u] = DelayedTasks
          PROVE  toGo[u] = IF Contains(scan', u)
                           THEN LeftInTick(tickDelay'[u], systicks')
                           ELSE Left(tickDelay'[u], systicks')
      <4>1. CASE u # h
        BY <3>1, <3>3, <4>1 DEF Timed, TimesAgree
      <4>2. CASE u = h
        <5>1. ~ Expired(h) /\ tickDelay' = tickDelay
          BY <1>a, <3>1, <3>3, <4>2, ListsAssumption DEF Push
        <5>2. LeftInTick(tickDelay[h], systicks) = Left(tickDelay[h], systicks)
          BY <1>a, <3>1, <5>1, NotExpiredIsLeft DEF Expired
        <5> QED
          BY <3>1, <3>2, <4>2, <5>1, <5>2 DEF Timed, TimesAgree
      <4> QED
        BY <4>1, <4>2
    <3> QED
      BY <2>1, <2>2, <3>3 DEF Timed, TimesAgree
  <2>4. CASE ~ TickVisit
    <3>1. /\ systicks' = systicks /\ scan' = scan /\ tickDelay' = tickDelay
          /\ \A u \in Linkable :
               parent'[u] = DelayedTasks => parent[u] = DelayedTasks
      <4>1. \/ lists' = lists
            \/ \E l \in List \ {DelayedTasks}, t \in Linkable : Push(l, t)
        <5>1. ASSUME NEW t \in Task, \/ Start(t)
                                     \/ \E caller \in Task : Yield(caller, t)
                                     \/ \E l \in BlockList : Block(t, l)
              PROVE  \E l \in List \ {DelayedTasks} : Push(l, t)
          BY <5>1, ListsAssumption DEF Start, Yield, Block
        <5>2. ASSUME NEW l \in BlockList, Unblock(l)
              PROVE  \E t \in Linkable : Push(ReadyTasks, t)
          BY <5>2, HeadOfList DEF Unblock, UnblockTask
        <5> QED
          BY <1>4, <2>4, <5>1, <5>2, ListsAssumption
             DEF Untimed, SetPriority, BlockReturn, SwitchContext
      <4>2. \A u \in Linkable :
              parent'[u] = DelayedTasks => parent[u] = DelayedTasks
        BY <1>a, <4>1 DEF Push, lists
      <4>3. systicks' = systicks /\ scan' = scan /\ tickDelay' = tickDelay
        BY <1>4, <2>4
           DEF Untimed, SetPriority, Start, BlockReturn, Yield, Block, Unblock,
               SwitchContext, tick
      <4> QED
        BY <4>2, <4>3
    <3> QED
      BY <2>1, <2>2, <3>1 DEF Timed, TimesAgree
  <2> QED
    BY <2>3, <2>4
<1>5. ASSUME UNCHANGED timingVars PROVE Timed'
  BY <1>5 DEF timingVars, vars, Timed, TimesAgree
<1> QED
  BY <1>1, <1>2, <1>3, <1>4, <1>5 DEF TimingNext

\* The count is right when the program starts, and every step keeps it so.
LEMMA TimedAlways == TimingSpec => [](Lists /\ Safe /\ Iterating /\ Timed)
<1>1. TimingInit => Timed
  <2> SUFFICES ASSUME TimingInit PROVE Timed
    OBVIOUS
  <2>1. \A t \in Task : parent[t] # DelayedTasks
    BY TaskIsLinkable, TasksAssumption, ListsAssumption, ListNames
       DEF TimingInit, Init
  <2>2. toGo \in [Task -> Int]
    BY DEF TimingInit
  <2> QED
    BY <2>1, <2>2 DEF Timed, TimesAgree
<1>2. Lists /\ Lists' /\ Safe /\ Iterating /\ Timed /\ [TimingNext]_timingVars
        => Timed'
  BY TimedNext
<1>3. TimingSpec => Spec
  <2>1. TimingInit => Init
    BY DEF TimingInit
  <2>2. [TimingNext]_timingVars => [Next]_vars
    BY TimingStepIsSchedulerStep
  <2> QED
    BY <2>1, <2>2, PTL DEF TimingSpec, Spec
<1> QED
  BY <1>1, <1>2, <1>3, IteratingAlways, PTL DEF TimingSpec

\* Every delay lasts exactly as long as DelayLength says: for every delay,
\* every width of the clock, every interleaving with other tasks' delays, and
\* across the wrap-around of the clock.
THEOREM DelaysLastAsLongAsTheySay == TimingSpec => DelaysAreExact
<1>1. ASSUME Lists, Lists', Safe, Iterating, Timed, NEW t \in Task,
             parent[t] = DelayedTasks
      PROVE  /\ toGo[t] >= 0
             /\ TickVisit /\ parent'[t] # DelayedTasks => toGo[t] = 0
  <2>1. /\ systicks \in 0 .. TickModulus - 1
        /\ tickDelay[t] \in 0 .. TickModulus - 1
        /\ TickModulus \in Nat \ {0}
    BY <1>1, TaskIsLinkable, TimeAssumption DEF Lists, TypeOK
  <2>2. toGo[t] >= 0
    BY <1>1, <2>1 DEF Timed, TimesAgree, Left, LeftInTick
  <2>3. ASSUME TickVisit, parent'[t] # DelayedTasks PROVE toGo[t] = 0
    <3>1. t = Head(scan) /\ Expired(t)
      BY <1>1, <2>3, VisitMoves, TaskIsLinkable DEF Iterating, lists
    <3>2. Contains(scan, t)
      BY <1>1, <2>3, <3>1, EmptySeq, HeadTailProperties, LenProperties
         DEF Contains, TickVisit, Lists, TypeOK
    <3> QED
      BY <1>1, <2>1, <3>1, <3>2 DEF Timed, TimesAgree, LeftInTick, Expired
  <2> QED
    BY <2>2, <2>3
<1>2. Lists /\ Lists' /\ Safe /\ Iterating /\ Timed /\ [TimingNext]_timingVars
        => [\A t \in Task :
              parent[t] = DelayedTasks =>
                 /\ toGo[t] >= 0
                 /\ TickVisit /\ parent'[t] # DelayedTasks
                      => toGo[t] = 0]_timingVars
  BY <1>1
<1> QED
  BY <1>2, TimedAlways, PTL DEF TimingSpec, DelaysAreExact

-----------------------------------------------------------------------------
(***************************************************************************)
(* The two scripts, step by step.                                          *)
(***************************************************************************)
CallSteps == {"enterLoad", "enterStore", "exitTest", "exitLoad", "exitStore",
              "setTickDelay", "find", "erase", "insert", "setParent", "trigger"}

\* The script of a call that pushes to list l.
Script(l) == IF l = DelayedTasks THEN DelayScript ELSE YieldScript

\* s is what is left of a script.
IsRest(s, script) ==
    /\ s \in Seq(CallSteps)
    /\ Len(s) <= Len(script)
    /\ \A n \in 1 .. Len(s) : s[n] = script[Len(script) - Len(s) + n]

\* The step of the script for list l with which its last k steps begin.
StepAt(l, k) == Script(l)[Len(Script(l)) + 1 - k]

\* Both scripts end alike, but DelayScript leaves its inner section between the
\* push and the switch, which takes three steps.
BeforeSwitch(l, k) == IF l = DelayedTasks THEN k + 3 ELSE k

\* How far from the end of a script each step is.
LEMMA ScriptSteps ==
    ASSUME NEW l \in {ReadyTasks, DelayedTasks}
    PROVE  /\ Script(l) \in Seq(CallSteps)
           /\ Len(Script(l)) = IF l = DelayedTasks THEN 16 ELSE 10
           /\ \A k \in 1 .. Len(Script(l)) :
                /\ StepAt(l, k) = "enterLoad" <=>
                     k \in IF l = DelayedTasks THEN {16, 14} ELSE {10}
                /\ StepAt(l, k) = "exitTest" <=>
                     k \in IF l = DelayedTasks THEN {7, 3} ELSE {3}
                /\ StepAt(l, k) = "exitLoad" <=>
                     k \in IF l = DelayedTasks THEN {6, 2} ELSE {2}
                /\ StepAt(l, k) = "enterStore" <=>
                     k \in IF l = DelayedTasks THEN {15, 13} ELSE {9}
                /\ StepAt(l, k) = "exitStore" <=>
                     k \in IF l = DelayedTasks THEN {5, 1} ELSE {1}
                /\ StepAt(l, k) = "setTickDelay" <=> l = DelayedTasks /\ k = 12
                /\ StepAt(l, k) = "find" <=> k = BeforeSwitch(l, 8)
                /\ StepAt(l, k) = "erase" <=> k = BeforeSwitch(l, 7)
                /\ StepAt(l, k) = "insert" <=> k = BeforeSwitch(l, 6)
                /\ StepAt(l, k) = "setParent" <=> k = BeforeSwitch(l, 5)
                /\ StepAt(l, k) = "trigger" <=> k = 4
<1>1. CASE l = DelayedTasks
  <2>1. Script(l) \in Seq(CallSteps) /\ Len(Script(l)) = 16
    BY <1>1 DEF Script, DelayScript, CallSteps
  <2>2. ASSUME NEW k \in 1 .. 16
        PROVE  LET step == Script(l)[17 - k]
                IN /\ step = "enterLoad" <=> k \in {16, 14}
                   /\ step = "exitTest" <=> k \in {7, 3}
                   /\ step = "exitLoad" <=> k \in {6, 2}
                   /\ step = "enterStore" <=> k \in {15, 13}
                   /\ step = "exitStore" <=> k \in {5, 1}
                   /\ step = "setTickDelay" <=> k = 12
                   /\ step = "find" <=> k = 11
                   /\ step = "erase" <=> k = 10
                   /\ step = "insert" <=> k = 9
                   /\ step = "setParent" <=> k = 8
                   /\ step = "trigger" <=> k = 4
    BY <1>1 DEF Script, DelayScript
  <2> QED
    BY <1>1, <2>1, <2>2 DEF StepAt, BeforeSwitch
<1>2. CASE l # DelayedTasks
  <2>1. Script(l) \in Seq(CallSteps) /\ Len(Script(l)) = 10
    BY <1>2 DEF Script, YieldScript, CallSteps
  <2>2. ASSUME NEW k \in 1 .. 10
        PROVE  LET step == Script(l)[11 - k]
                IN /\ step = "enterLoad" <=> k \in {10}
                   /\ step = "exitTest" <=> k \in {3}
                   /\ step = "exitLoad" <=> k \in {2}
                   /\ step = "enterStore" <=> k \in {9}
                   /\ step = "exitStore" <=> k \in {1}
                   /\ step # "setTickDelay"
                   /\ step = "find" <=> k = 8
                   /\ step = "erase" <=> k = 7
                   /\ step = "insert" <=> k = 6
                   /\ step = "setParent" <=> k = 5
                   /\ step = "trigger" <=> k = 4
    BY <1>2 DEF Script, YieldScript
  <2> QED
    BY <1>2, <2>1, <2>2 DEF StepAt, BeforeSwitch
<1> QED
  BY <1>1, <1>2

\* The elements of what is left of a script, from its end.
LEMMA RestIsEnd ==
    ASSUME NEW l \in {ReadyTasks, DelayedTasks}, NEW s, IsRest(s, Script(l))
    PROVE  /\ s \in Seq(CallSteps)
           /\ Len(s) \in Nat /\ Len(Script(l)) \in Nat
           /\ Len(s) <= Len(Script(l))
           /\ \A k \in 1 .. Len(s) : s[Len(s) + 1 - k] = StepAt(l, k)
<1> DEFINE script == Script(l)
<1>1. /\ s \in Seq(CallSteps) /\ Len(s) \in Nat /\ Len(s) <= Len(script)
      /\ Len(script) \in Nat
      /\ \A n \in 1 .. Len(s) : s[n] = script[Len(script) - Len(s) + n]
  BY ScriptSteps, LenProperties DEF IsRest
<1>2. ASSUME NEW k \in 1 .. Len(s)
      PROVE  s[Len(s) + 1 - k] = script[Len(script) + 1 - k]
  <2>1. /\ Len(s) + 1 - k \in 1 .. Len(s)
        /\ Len(script) - Len(s) + (Len(s) + 1 - k) = Len(script) + 1 - k
    BY <1>1
  <2> QED
    BY <1>1, <2>1
<1> QED
  BY <1>1, <1>2 DEF StepAt

\* The next step of what is left of a script, and what is left after it.
LEMMA RestGoesOn ==
    ASSUME NEW l \in {ReadyTasks, DelayedTasks}, NEW s, IsRest(s, Script(l)),
           s # <<>>
    PROVE  /\ Len(s) \in 1 .. Len(Script(l))
           /\ Head(s) = StepAt(l, Len(s))
           /\ IsRest(Tail(s), Script(l))
           /\ Len(Tail(s)) = Len(s) - 1
<1> DEFINE script == Script(l)
<1>1. /\ s \in Seq(CallSteps) /\ Len(s) <= Len(script)
      /\ \A n \in 1 .. Len(s) : s[n] = script[Len(script) - Len(s) + n]
      /\ script \in Seq(CallSteps)
  BY ScriptSteps DEF IsRest
<1>2. /\ Len(s) \in Nat \ {0} /\ Len(script) \in Nat
      /\ Head(s) = s[1]
      /\ Tail(s) \in Seq(CallSteps) /\ Len(Tail(s)) = Len(s) - 1
      /\ \A n \in 1 .. Len(Tail(s)) : Tail(s)[n] = s[n + 1]
  BY <1>1, HeadTailProperties, LenProperties, EmptySeq
<1>3. ASSUME NEW n \in 1 .. Len(Tail(s))
      PROVE  Tail(s)[n] = script[Len(script) - Len(Tail(s)) + n]
  <2>1. n + 1 \in 1 .. Len(s)
        /\ Len(script) - Len(s) + (n + 1) = Len(script) - Len(Tail(s)) + n
    BY <1>2
  <2> QED
    BY <1>1, <1>2, <2>1
<1>4. s[1] = script[Len(script) + 1 - Len(s)]
  <2>1. 1 \in 1 .. Len(s) /\ Len(script) - Len(s) + 1 = Len(script) + 1 - Len(s)
    BY <1>2
  <2> QED
    BY <1>1, <2>1
<1> QED
  BY <1>1, <1>2, <1>3, <1>4 DEF IsRest, StepAt

\* A step that a script has once is still to come as long as so many are left.
LEMMA StepIsLeft ==
    ASSUME NEW l \in {ReadyTasks, DelayedTasks}, NEW s, IsRest(s, Script(l)),
           NEW step, NEW i \in 1 .. Len(Script(l)),
           \A k \in 1 .. Len(Script(l)) : StepAt(l, k) = step <=> k = i
    PROVE  Contains(s, step) <=> Len(s) >= i
<1>1. /\ s \in Seq(CallSteps) /\ Len(s) \in Nat /\ Len(s) <= Len(Script(l))
      /\ Len(Script(l)) \in Nat
      /\ \A k \in 1 .. Len(s) : s[Len(s) + 1 - k] = StepAt(l, k)
  BY RestIsEnd
<1>2. CASE Len(s) >= i
  <2>1. i \in 1 .. Len(s) /\ Len(s) + 1 - i \in 1 .. Len(s)
    BY <1>1, <1>2
  <2> QED
    BY <1>1, <1>2, <2>1 DEF Contains
<1>3. ASSUME NEW n \in 1 .. Len(s), s[n] = step PROVE Len(s) >= i
  <2>1. /\ Len(s) + 1 - n \in 1 .. Len(s)
        /\ Len(s) + 1 - n \in 1 .. Len(Script(l))
        /\ Len(s) + 1 - (Len(s) + 1 - n) = n
    BY <1>1
  <2>2. Len(s) + 1 - n = i
    BY <1>1, <1>3, <2>1
  <2> QED
    BY <1>1, <2>2
<1> QED
  BY <1>2, <1>3 DEF Contains

\* The first step of a push, which computes something from the time or the
\* lists: the assignment to tickDelay, or find_if when there is none.
PushBegins(l) == IF l = DelayedTasks THEN 12 ELSE 8

\* When a task is in the middle of a push depends on how many steps are left.
LEMMA PushIsLeft ==
    ASSUME NEW l \in {ReadyTasks, DelayedTasks}, NEW s, IsRest(s, Script(l))
    PROVE  /\ Contains(s, "trigger")
           /\ ~ Contains(s, IF l = DelayedTasks THEN "setTickDelay" ELSE "find")
           <=> Len(s) >= 4 /\ Len(s) < PushBegins(l)
<1> DEFINE first == IF l = DelayedTasks THEN "setTickDelay" ELSE "find"
<1>a. Len(Script(l)) = IF l = DelayedTasks THEN 16 ELSE 10
  BY ScriptSteps
<1>1. Len(s) \in Nat
  BY RestIsEnd
<1>2. Contains(s, "trigger") <=> Len(s) >= 4
  <2>1. \A k \in 1 .. Len(Script(l)) : StepAt(l, k) = "trigger" <=> k = 4
    BY ScriptSteps
  <2>2. 4 \in 1 .. Len(Script(l))
    BY <1>a
  <2> QED
    BY <2>1, <2>2, StepIsLeft
<1>3. Contains(s, first) <=> Len(s) >= PushBegins(l)
  <2>1. \A k \in 1 .. Len(Script(l)) :
          /\ StepAt(l, k) = "setTickDelay" <=> l = DelayedTasks /\ k = 12
          /\ StepAt(l, k) = "find" <=> k = BeforeSwitch(l, 8)
    BY ScriptSteps
  <2>2. \A k \in 1 .. Len(Script(l)) : StepAt(l, k) = first <=> k = PushBegins(l)
    BY <2>1 DEF PushBegins, BeforeSwitch
  <2>3. PushBegins(l) \in 1 .. Len(Script(l))
    BY <1>a DEF PushBegins
  <2> HIDE DEF first
  <2> QED
    BY <2>2, <2>3, StepIsLeft
<1>4. PushBegins(l) \in Nat
  BY DEF PushBegins
<1> QED
  BY <1>1, <1>2, <1>3, <1>4

-----------------------------------------------------------------------------
(***************************************************************************)
(* The four steps of push come to what Pushed does at once.                *)
(***************************************************************************)
\* There is only one place for find_if to stop.
LEMMA StopsOnce ==
    ASSUME NEW S, NEW s \in Seq(S), NEW e \in S, NEW key \in [S -> Nat],
           NEW i \in 1 .. Len(s) + 1, StopsAt(s, key, e, i)
    PROVE  FirstGreater(s, key, e) = i
<1> DEFINE f == FirstGreater(s, key, e)
<1>1. f \in 1 .. Len(s) + 1 /\ StopsAt(s, key, e, f)
  BY FirstGreaterStops
<1>2. Len(s) \in Nat /\ key[e] \in Nat /\ \A j \in 1 .. Len(s) : key[s[j]] \in Nat
  BY LenProperties
<1> HIDE DEF f
<1>3. ~ (f < i) /\ ~ (i < f)
  BY <1>1, <1>2 DEF StopsAt
<1> QED
  BY <1>1, <1>2, <1>3 DEF f

\* The element find_if found stays where the new one belongs when the new one
\* is erased from that list.
LEMMA PlaceSurvivesErase ==
    ASSUME NEW S, NEW s \in Seq(S), NEW e \in S, NEW key \in [S -> Nat],
           Distinct(s)
    PROVE  LET i == FirstGreater(s, key, e)
               r == Unlink(s, e)
           IN IF i <= Len(s)
              THEN /\ Contains(s, s[i]) /\ s[i] # e
                   /\ Position(r, s[i]) = FirstGreater(r, key, e)
              ELSE Len(r) + 1 = FirstGreater(r, key, e)
<1> DEFINE i == FirstGreater(s, key, e)
           r == Unlink(s, e)
<1>1. i \in 1 .. Len(s) + 1 /\ StopsAt(s, key, e, i)
  BY FirstGreaterStops
<1>2. /\ Len(s) \in Nat /\ key[e] \in Nat
      /\ \A j \in 1 .. Len(s) : s[j] \in S /\ key[s[j]] \in Nat
  BY LenProperties
<1>3. r \in Seq(S) /\ Distinct(r) /\ Len(r) \in Nat
  BY UnlinkElements, LenProperties
<1>4. i <= Len(s) => Contains(s, s[i]) /\ s[i] # e
  BY <1>1, <1>2 DEF StopsAt, Contains
<1> HIDE DEF i
<1>5. \E n \in 1 .. Len(r) + 1 :
        /\ StopsAt(r, key, e, n)
        /\ IF i <= Len(s) THEN n <= Len(r) /\ r[n] = s[i] ELSE n = Len(r) + 1
  <2>1. CASE ~ Contains(s, e)
    <3>1. r = s
      BY <2>1 DEF Unlink
    <3> QED
      BY <1>1, <1>2, <3>1
  <2>2. CASE Contains(s, e)
    <3> DEFINE d == Position(s, e)
    <3>1. d \in 1 .. Len(s) /\ s[d] = e
      BY <2>2 DEF Contains, Position
    <3>2. r = RemoveAt(s, d)
      BY <2>2 DEF Unlink
    <3> HIDE DEF d, r
    <3>3. /\ Len(r) = Len(s) - 1
          /\ \A j \in 1 .. Len(s) - 1 : r[j] = IF j < d THEN s[j] ELSE s[j + 1]
      BY <3>1, <3>2, RemoveAtElements DEF Removed
    <3>4. CASE d < i
      <4>1. ASSUME NEW j \in 1 .. Len(r), j < i - 1 PROVE key[r[j]] <= key[e]
        <5>1. \A m \in 1 .. Len(s) : m < i => key[s[m]] <= key[e]
          BY <1>1 DEF StopsAt
        <5>2. /\ j \in 1 .. Len(s) /\ j + 1 \in 1 .. Len(s)
              /\ j < i /\ j + 1 < i /\ j \in 1 .. Len(s) - 1
          BY <1>1, <1>2, <3>3, <4>1
        <5> QED
          BY <3>3, <5>1, <5>2
      <4>2. i <= Len(s) => i - 1 \in 1 .. Len(r) /\ r[i - 1] = s[i]
        BY <1>1, <1>2, <3>1, <3>3, <3>4
      <4>3. i - 1 \in 1 .. Len(r) + 1 /\ (i - 1 <= Len(r) <=> i <= Len(s))
            /\ (~ (i <= Len(s)) => i - 1 = Len(r) + 1)
        BY <1>1, <1>2, <3>1, <3>3, <3>4
      <4>4. StopsAt(r, key, e, i - 1)
        BY <1>1, <4>1, <4>2, <4>3 DEF StopsAt
      <4> QED
        BY <4>2, <4>3, <4>4
    <3>5. CASE ~ (d < i)
      <4>1. i # d
        BY <1>1, <1>2, <3>1, <3>5 DEF StopsAt
      <4>2. /\ i \in 1 .. Len(r) /\ i <= Len(s) /\ r[i] = s[i]
            /\ \A j \in 1 .. Len(r) : j < i => r[j] = s[j] /\ j \in 1 .. Len(s)
        BY <1>1, <1>2, <3>1, <3>3, <3>5, <4>1, SMTT(30)
      <4>3. StopsAt(r, key, e, i)
        BY <1>1, <4>2 DEF StopsAt
      <4> QED
        BY <1>3, <4>2, <4>3
    <3> QED
      BY <3>4, <3>5
  <2> QED
    BY <2>1, <2>2
<1> HIDE DEF r
<1>6. PICK n \in 1 .. Len(r) + 1 :
        /\ StopsAt(r, key, e, n)
        /\ IF i <= Len(s) THEN n <= Len(r) /\ r[n] = s[i] ELSE n = Len(r) + 1
  BY <1>5
<1>7. FirstGreater(r, key, e) = n
  BY <1>3, <1>6, StopsOnce
<1>8. i <= Len(s) => Position(r, s[i]) = n
  BY <1>3, <1>6 DEF Position, Distinct
<1> QED
  BY <1>4, <1>6, <1>7, <1>8 DEF i, r

\* The iterator find_if returns.
Found(s, key, e) ==
    LET i == FirstGreater(s, key, e)
    IN IF i <= Len(s) THEN s[i] ELSE NoList

\* Linking e in front of what find_if found, wherever that is linked now.
LinkedBefore(q, x, l, e) ==
    LET linked == {k \in List : Contains(q[k], x)}
        m == IF linked = {} THEN l ELSE CHOOSE k \in linked : TRUE
        i == IF linked = {} THEN Len(q[m]) + 1 ELSE Position(q[m], x)
    IN [q EXCEPT ![m] = InsertAt(@, i, e)]

\* find_if, erase and insert make a push, if nothing comes between them.
LEMMA StepsMakePush ==
    ASSUME NEW q \in [List -> Seq(Linkable)],
           NEW p \in [Linkable -> List \cup {NoList}],
           NEW key \in [Linkable -> Nat], NEW l \in List, NEW e \in Linkable,
           Consistent(q, p)
    PROVE  LinkedBefore(Erased(q, p, e), Found(q[l], key, e), l, e)
             = Pushed(q, p, key, l, e)
<1> DEFINE q1 == Erased(q, p, e)
           x == Found(q[l], key, e)
           i == FirstGreater(q[l], key, e)
           linked == {k \in List : Contains(q1[k], x)}
<1>1. /\ DOMAIN q = List /\ DOMAIN p = Linkable
      /\ \A k \in List : q[k] \in Seq(Linkable) /\ Distinct(q[k])
      /\ \A k \in List, t \in Linkable : p[t] = k <=> Contains(q[k], t)
      /\ NoList \notin List /\ NoList \notin Linkable
  BY ListsAssumption, EndAssumption DEF Consistent
<1>2. \A k \in List : q1[k] = Unlink(q[k], e)
  BY <1>1 DEF Erased, Unlink
<1>3. \A k \in List : \A t : Contains(q1[k], t) <=> Contains(q[k], t) /\ t # e
  BY <1>1, <1>2, UnlinkElements
<1>4. IF i <= Len(q[l])
      THEN /\ Contains(q[l], q[l][i]) /\ q[l][i] # e
           /\ Position(q1[l], q[l][i]) = FirstGreater(q1[l], key, e)
      ELSE Len(q1[l]) + 1 = FirstGreater(q1[l], key, e)
  <2>1. q[l] \in Seq(Linkable) /\ Distinct(q[l]) /\ q1[l] = Unlink(q[l], e)
    BY <1>1, <1>2
  <2> HIDE DEF q1
  <2> QED
    BY <2>1, PlaceSurvivesErase
<1>5. Pushed(q, p, key, l, e)
        = [q1 EXCEPT ![l] = InsertAt(q1[l], FirstGreater(q1[l], key, e), e)]
  BY DEF Pushed, Link
<1>6. x = IF i <= Len(q[l]) THEN q[l][i] ELSE NoList
  BY DEF Found
<1> HIDE DEF q1, x, i
<1>7. CASE i <= Len(q[l])
  <2>1. x = q[l][i] /\ Contains(q1[l], x) /\ x \in Linkable
    <3>1. \A n \in 1 .. Len(q[l]) : q[l][n] \in Linkable
      BY <1>1, LenProperties
    <3> QED
      BY <1>3, <1>4, <1>6, <1>7, <3>1 DEF Contains
  <2>2. linked = {l}
    BY <1>1, <1>3, <2>1
  <2>3. (CHOOSE k \in linked : TRUE) = l /\ linked # {}
    BY <2>2
  <2> QED
    BY <1>4, <1>5, <1>7, <2>1, <2>3 DEF LinkedBefore, q1, x
<1>8. CASE ~ (i <= Len(q[l]))
  <2>1. x = NoList
    BY <1>6, <1>8
  <2>2. \A k \in List : ~ Contains(q[k], NoList)
    BY <1>1, LenProperties DEF Contains
  <2>3. linked = {}
    BY <1>3, <2>1, <2>2
  <2> QED
    BY <1>4, <1>5, <1>8, <2>3 DEF LinkedBefore, q1, x
<1> QED
  BY <1>7, <1>8

-----------------------------------------------------------------------------
(***************************************************************************)
(* The inductive invariant of a run whose pushes no tick disturbs.  What   *)
(* is left of a call is the rest of a script; a task in the middle of a    *)
(* push is running; and then the lists are those its push found, changed   *)
(* by the steps it has taken.                                              *)
(***************************************************************************)
OtherTypes ==
    /\ priority \in [Linkable -> Nat]
    /\ current \in TCB
    /\ pendSV \in BOOLEAN
    /\ held \in BOOLEAN
    /\ systicks \in 0 .. TickModulus - 1
    /\ scan \in Seq(Linkable)
    /\ mustSwitch \in BOOLEAN
    /\ frame \in [Linkable -> Frame]
    /\ hook \in [Linkable -> BOOLEAN]
    /\ reason \in [Linkable -> Reason]

\* q, p and d are consistent lists with the delays of their elements.
ListsAre(q, p, d) ==
    /\ q \in [List -> Seq(Linkable)]
    /\ p \in [Linkable -> List \cup {NoList}]
    /\ d \in [Linkable -> 0 .. TickModulus - 1]
    /\ Consistent(q, p)

CallTypes ==
    /\ todo \in [Task -> Seq(CallSteps)]
    /\ target \in [Task -> {ReadyTasks, DelayedTasks}]
    /\ ticks \in [Task -> Nat]
    /\ \A t \in Task : target[t] = DelayedTasks => ticks[t] \in Delays
    /\ DOMAIN place = Task
    /\ \A t \in Task : IsRest(todo[t], Script(target[t]))

\* Task t is in the middle of a push: see Pushing and PushIsLeft.
InPush(t) == Len(todo[t]) >= 4 /\ Len(todo[t]) < PushBegins(target[t])

Uninterrupted == \A t \in Task : InPush(t) => InThread(t)

\* The running task is in the middle of a push.
Calling == current \in Task /\ InPush(current)

\* What the call of task t has done to the lists since its push began.
Progress(t) ==
    LET q == before.queue
        p == before.parent
        d == before.tickDelay
        l == target[t]
        done(k) == Len(todo[t]) < BeforeSwitch(l, k)
    IN /\ tickDelay = IF l = DelayedTasks /\ done(9)
                      THEN [d EXCEPT ![t] = (systicks + ticks[t]) % TickModulus]
                      ELSE d
       /\ queue = IF done(6) THEN Pushed(q, p, priority, l, t)
                  ELSE IF done(7) THEN Erased(q, p, t)
                  ELSE q
       /\ parent = IF done(5) THEN [p EXCEPT ![t] = l]
                   ELSE IF done(7) THEN [p EXCEPT ![t] = NoList]
                   ELSE p
       /\ done(8) /\ ~ done(6) => place[t] = Found(q[l], priority, t)

Sound ==
    IF Calling
    THEN ListsAre(before.queue, before.parent, before.tickDelay)
         /\ Progress(current)
    ELSE ListsAre(queue, parent, tickDelay)

SectionInv == OtherTypes /\ CallTypes /\ Uninterrupted /\ Sound

\* Outside of a call the lists are as Scheduler has them.
LEMMA SoundIsLists ==
    ASSUME OtherTypes, ListsAre(queue, parent, tickDelay)
    PROVE  Lists
  BY DEF OtherTypes, ListsAre, Lists, TypeOK, ListsConsistent

\* And the other way round.
LEMMA ListsAreSound ==
    ASSUME Lists
    PROVE  OtherTypes /\ ListsAre(queue, parent, tickDelay)
  BY DEF OtherTypes, ListsAre, Lists, TypeOK, ListsConsistent

\* Pushing is what InPush says of the steps left.
LEMMA PushingIs ==
    ASSUME CallTypes, NEW t \in Task
    PROVE  Pushing(t) <=> InPush(t)
  BY PushIsLeft DEF CallTypes, Pushing, InPush

\* The same of the next state.
LEMMA PushingIsNext ==
    ASSUME CallTypes', NEW t \in Task
    PROVE  Pushing(t)' <=> InPush(t)'
<1>1. target'[t] \in {ReadyTasks, DelayedTasks}
      /\ IsRest(todo'[t], Script(target'[t]))
  BY DEF CallTypes
<1> QED
  BY <1>1, PushIsLeft DEF Pushing, InPush

\* A step of a call is the one its script has next.
LEMMA StepTaken ==
    ASSUME CallTypes, NEW t \in Task, NEW step, Step(t, step)
    PROVE  /\ t = current /\ InThread(t)
           /\ target[t] \in {ReadyTasks, DelayedTasks}
           /\ Len(todo[t]) \in 1 .. Len(Script(target[t]))
           /\ StepAt(target[t], Len(todo[t])) = step
           /\ CallTypes' <=> DOMAIN place' = Task
           /\ Len(todo'[t]) = Len(todo[t]) - 1
           /\ \A u \in Task : u # t => todo'[u] = todo[u]
           /\ target' = target /\ ticks' = ticks /\ disturbed' = disturbed
<1>1. /\ t = current /\ InThread(t)
      /\ todo[t] # <<>> /\ Head(todo[t]) = step
      /\ todo' = [todo EXCEPT ![t] = Tail(todo[t])]
      /\ target' = target /\ ticks' = ticks /\ disturbed' = disturbed
  BY DEF Step, InThread, NextIs
<1>2. /\ target[t] \in {ReadyTasks, DelayedTasks}
      /\ IsRest(todo[t], Script(target[t]))
      /\ todo \in [Task -> Seq(CallSteps)]
  BY DEF CallTypes
<1>3. /\ Len(todo[t]) \in 1 .. Len(Script(target[t]))
      /\ Head(todo[t]) = StepAt(target[t], Len(todo[t]))
      /\ IsRest(Tail(todo[t]), Script(target[t]))
      /\ Len(Tail(todo[t])) = Len(todo[t]) - 1
  BY <1>1, <1>2, RestGoesOn
<1>4. /\ todo'[t] = Tail(todo[t])
      /\ \A u \in Task : u # t => todo'[u] = todo[u]
  BY <1>1, <1>2
<1>5. todo' \in [Task -> Seq(CallSteps)]
  BY <1>1, <1>2, <1>3 DEF IsRest
<1>6. CallTypes' <=> DOMAIN place' = Task
  BY <1>1, <1>3, <1>4, <1>5 DEF CallTypes
<1> QED
  BY <1>1, <1>2, <1>3, <1>4, <1>6

\* What is remembered of the lists: how they were before the first step of the
\* push.
LEMMA Remembered ==
    ASSUME CallTypes, CallTypes', NEW t \in Task, NEW step, Step(t, step),
           InPush(t)'
    PROVE  before' = IF InPush(t) THEN before ELSE ListState
<1>1. Pushing(t)' /\ (Pushing(t) <=> InPush(t))
  BY PushingIs, PushingIsNext
<1> QED
  BY <1>1 DEF Step

\* The invariant holds when the program starts.
LEMMA SectionInit1 == SectionInit => SectionInv
<1> SUFFICES ASSUME SectionInit PROVE SectionInv
  OBVIOUS
<1>1. Init /\ Lists
  BY ListsInit DEF SectionInit
<1>2. /\ todo = [t \in Task |-> <<>>] /\ target = [t \in Task |-> ReadyTasks]
      /\ ticks = [t \in Task |-> 0] /\ DOMAIN place = Task
  BY DEF SectionInit
<1>3. \A t \in Task : todo[t] = <<>> /\ Len(todo[t]) = 0
  BY <1>2, EmptySeq
<1>4. \A l \in {ReadyTasks, DelayedTasks} : IsRest(<<>>, Script(l))
  BY ScriptSteps, EmptySeq DEF IsRest
<1>5. CallTypes
  BY <1>2, <1>3, <1>4, EmptySeq, ListsAssumption DEF CallTypes
<1>6. Uninterrupted /\ ~ Calling
  BY <1>3 DEF Uninterrupted, InPush, Calling
<1> QED
  BY <1>1, <1>5, <1>6, ListsAreSound DEF SectionInv, Sound

-----------------------------------------------------------------------------
\* The steps of the scheduler that go on while tasks are in calls.
SchedulerStep ==
    \/ /\ \/ \E t \in Task, n \in PriorityRange : SetPriority(t, n)
          \/ \E t \in Task : Start(t)
       /\ current = Main
       /\ UNCHANGED callVars
    \/ BlockCall \/ Interrupt
    \/ /\ TickVisit \/ SwitchContext
       /\ UNCHANGED callVars

\* All of them are steps of Scheduler.
LEMMA SchedulerStepIsNext ==
    ASSUME SchedulerStep
    PROVE  /\ Next
           /\ UNCHANGED <<todo, target, ticks, place, loaded, nesting, trapped,
                          before, raced>>
           /\ disturbed => disturbed'
<1>1. ASSUME NEW t \in Task, \/ \E n \in PriorityRange : SetPriority(t, n)
                             \/ Start(t) \/ BlockReturn(t)
                             \/ \E l \in BlockList : Block(t, l)
      PROVE  Next
  BY <1>1 DEF Next
<1>2. ASSUME \/ Tick \/ TickVisit \/ SwitchContext
             \/ \E l \in BlockList : Unblock(l)
      PROVE  Next
  BY <1>2 DEF Next
<1>3. CASE BlockCall
  BY <1>1, <1>3 DEF BlockCall, callVars
<1>4. CASE Interrupt
  BY <1>2, <1>4 DEF Interrupt
<1> QED
  BY <1>1, <1>2, <1>3, <1>4 DEF SchedulerStep, callVars

\* None that a push is not disturbed by comes in the middle of one.
LEMMA SchedulerStepsWait ==
    ASSUME CallTypes, Uninterrupted, SchedulerStep, ~ disturbed'
    PROVE  \A t \in Task : ~ InPush(t) /\ ~ InPush(t)'
<1>1. ASSUME NEW t \in Task, InPush(t) PROVE FALSE
  <2>1. InThread(t) /\ Pushing(t)
    BY <1>1, PushingIs DEF Uninterrupted
  <2>2. current = t /\ current # Main /\ frame[t] = "running"
        /\ ~ TickVisit /\ ~ SwitchContext
    BY <2>1, TasksAssumption
       DEF InThread, NoException, TickVisit, SwitchContext, Linkable
  <2>3. CASE BlockCall
    <3>1. PICK u \in Task : BlockReturn(u) \/ AtLarge(u)
      BY <2>3 DEF BlockCall
    <3>2. u = t /\ todo[t] = <<>>
      BY <2>2, <3>1 DEF BlockReturn, AtLarge, InThread
    <3> QED
      BY <1>1, <3>2, EmptySeq DEF InPush
  <2>4. CASE Interrupt
    BY <2>1, <2>2, <2>4 DEF Interrupt
  <2> QED
    BY <2>2, <2>3, <2>4 DEF SchedulerStep
<1>2. todo' = todo /\ target' = target
  BY SchedulerStepIsNext
<1> QED
  BY <1>1, <1>2 DEF InPush

\* What they do to the lists is what Scheduler's steps do.
LEMMA SchedulerStepKeepsSections ==
    ASSUME SectionInv, SchedulerStep, ~ disturbed'
    PROVE  SectionInv' /\ ~ Calling /\ ~ Calling'
<1>1. \A t \in Task : ~ InPush(t) /\ ~ InPush(t)'
  BY SchedulerStepsWait DEF SectionInv
<1>2. todo' = todo /\ target' = target /\ ticks' = ticks /\ place' = place
      /\ [Next]_vars
  BY SchedulerStepIsNext
<1>3. ~ Calling /\ ~ Calling'
  BY <1>1 DEF Calling, InPush
<1>4. Lists'
  BY <1>2, <1>3, SoundIsLists, ListsNext DEF SectionInv, Sound
<1>5. OtherTypes' /\ ListsAre(queue', parent', tickDelay')
  BY <1>4 DEF OtherTypes, ListsAre, Lists, TypeOK, ListsConsistent
<1>6. CallTypes'
  BY <1>2 DEF SectionInv, CallTypes
<1>7. Uninterrupted'
  BY <1>1 DEF Uninterrupted
<1> QED
  BY <1>3, <1>5, <1>6, <1>7 DEF SectionInv, Sound

-----------------------------------------------------------------------------
\* A call that begins has every step of its script left.
LEMMA BeginTypes ==
    ASSUME CallTypes, NEW t \in Task, NEW l \in {ReadyTasks, DelayedTasks},
           NEW n \in Nat, l = DelayedTasks => n \in Delays,
           Begin(t, Script(l), l, n)
    PROVE  /\ CallTypes' /\ vars' = vars /\ place' = place
           /\ ~ InPush(t) /\ ~ InPush(t)'
           /\ \A u \in Task : u # t => todo'[u] = todo[u] /\ target'[u] = target[u]
<1>1. /\ t = current /\ todo[t] = <<>>
      /\ todo' = [todo EXCEPT ![t] = Script(l)]
      /\ target' = [target EXCEPT ![t] = l]
      /\ ticks' = [ticks EXCEPT ![t] = n]
      /\ place' = place /\ vars' = vars
  BY DEF Begin, AtLarge, InThread
<1>2. /\ todo'[t] = Script(l) /\ target'[t] = l /\ ticks'[t] = n
      /\ \A u \in Task : u # t => /\ todo'[u] = todo[u]
                                  /\ target'[u] = target[u]
                                  /\ ticks'[u] = ticks[u]
  BY <1>1 DEF CallTypes
<1>3. /\ Script(l) \in Seq(CallSteps) /\ IsRest(Script(l), Script(l))
      /\ Len(Script(l)) = IF l = DelayedTasks THEN 16 ELSE 10
  BY ScriptSteps DEF IsRest
<1>4. CallTypes'
  BY <1>1, <1>2, <1>3 DEF CallTypes
<1>5. ~ InPush(t)
  BY <1>1, EmptySeq DEF InPush
<1>6. ~ InPush(t)'
  <2>1. ~ (Len(Script(l)) < PushBegins(l))
    BY <1>3 DEF PushBegins
  <2> QED
    BY <1>2, <2>1 DEF InPush
<1> QED
  BY <1>1, <1>2, <1>4, <1>5, <1>6

\* It has not touched the lists yet.
LEMMA BeginKeepsSections ==
    ASSUME SectionInv, NEW t \in Task, NEW l \in {ReadyTasks, DelayedTasks},
           NEW n \in Nat, l = DelayedTasks => n \in Delays,
           Begin(t, Script(l), l, n)
    PROVE  SectionInv' /\ ~ Calling /\ ~ Calling' /\ vars' = vars
<1>1. /\ CallTypes' /\ vars' = vars
      /\ ~ InPush(t) /\ ~ InPush(t)'
      /\ \A u \in Task : u # t => todo'[u] = todo[u] /\ target'[u] = target[u]
  BY BeginTypes DEF SectionInv
<1>2. t = current
  BY DEF Begin, AtLarge, InThread
<1>3. vars' = vars => /\ OtherTypes' = OtherTypes /\ current' = current
                      /\ queue' = queue /\ parent' = parent
                      /\ tickDelay' = tickDelay
                      /\ \A u : InThread(u)' = InThread(u)
  BY DEF vars, OtherTypes, InThread, NoException
<1>4. ~ Calling /\ ~ Calling'
  BY <1>1, <1>2, <1>3 DEF Calling, InPush
<1>5. Uninterrupted'
  BY <1>1, <1>3 DEF SectionInv, Uninterrupted, InPush
<1> QED
  BY <1>1, <1>3, <1>4, <1>5 DEF SectionInv, Sound

-----------------------------------------------------------------------------
\* One number less is below the bounds it was below, and the one it was.
LEMMA OneStepOn ==
    ASSUME NEW l, NEW k \in Nat, NEW n \in 5 .. 9
    PROVE  k - 1 < BeforeSwitch(l, n)
             <=> k < BeforeSwitch(l, n) \/ k = BeforeSwitch(l, n)
  BY DEF BeforeSwitch

\* Which steps of a push have been taken when it is at a given one.
LEMMA PushGoesOn ==
    ASSUME NEW l, NEW n \in 5 .. 9
    PROVE  /\ \A m \in 5 .. 9 :
                BeforeSwitch(l, n) < BeforeSwitch(l, m) <=> n < m
           /\ \A m \in 5 .. 9 :
                BeforeSwitch(l, n) - 1 < BeforeSwitch(l, m) <=> n <= m
           /\ BeforeSwitch(l, n) >= 5
  BY DEF BeforeSwitch

\* What a step that moves nothing but the lists has to show.
LEMMA MovingStepKeepsSections ==
    ASSUME SectionInv, NEW t \in Task, NEW step, Step(t, step),
           InPush(t)', Progress(t)', DOMAIN place' = Task,
           UNCHANGED <<priority, current, held, pendSV, tick, frame, block>>
    PROVE  SectionInv' /\ Calling' /\ before' = IF Calling THEN before ELSE ListState
<1>1. /\ t = current /\ InThread(t) /\ CallTypes' /\ target' = target
      /\ \A u \in Task : u # t => todo'[u] = todo[u]
  BY StepTaken DEF SectionInv
<1>2. /\ OtherTypes' /\ current' = current
      /\ \A u : InThread(u)' = InThread(u)
  BY DEF SectionInv, OtherTypes, InThread, NoException, tick, block
<1>3. Calling' /\ (Calling <=> InPush(t))
  BY <1>1, <1>2 DEF Calling, InPush
<1>4. before' = IF Calling THEN before ELSE ListState
  BY <1>1, <1>3, Remembered DEF SectionInv
<1>5. Uninterrupted'
  BY <1>1, <1>2 DEF SectionInv, Uninterrupted, InPush
<1>6. ListsAre(before.queue, before.parent, before.tickDelay)'
  <2>1. CASE Calling
    BY <1>4, <2>1 DEF SectionInv, Sound
  <2>2. CASE ~ Calling
    <3>1. /\ before'.queue = queue /\ before'.parent = parent
          /\ before'.tickDelay = tickDelay
      BY <1>4, <2>2 DEF ListState
    <3> QED
      BY <2>2, <3>1 DEF SectionInv, Sound
  <2> QED
    BY <2>1, <2>2
<1>7. Sound'
  BY <1>1, <1>2, <1>3, <1>6 DEF Sound
<1> QED
  BY <1>1, <1>2, <1>3, <1>4, <1>5, <1>7 DEF SectionInv

\* A step on the counter changes nothing for the lists.
LEMMA QuietStepKeepsSections ==
    ASSUME SectionInv, NEW t \in Task, NEW step \in CallSteps, Step(t, step),
           step \notin {"setTickDelay", "find", "erase", "insert",
                        "setParent", "trigger"},
           vars' = vars, place' = place
    PROVE  SectionInv' /\ (Calling' <=> Calling) /\ (Calling => before' = before)
<1> DEFINE k == Len(todo[t])
           l == target[t]
<1>1. /\ t = current /\ InThread(t) /\ l \in {ReadyTasks, DelayedTasks}
      /\ k \in 1 .. Len(Script(l)) /\ StepAt(l, k) = step
      /\ CallTypes' <=> DOMAIN place' = Task
      /\ Len(todo'[t]) = k - 1
      /\ \A u \in Task : u # t => todo'[u] = todo[u]
      /\ target' = target /\ ticks' = ticks
  BY StepTaken DEF SectionInv
<1>2. /\ OtherTypes' /\ current' = current
      /\ queue' = queue /\ parent' = parent /\ tickDelay' = tickDelay
      /\ priority' = priority /\ systicks' = systicks
      /\ \A u : InThread(u)' = InThread(u)
  BY <1>1 DEF vars, OtherTypes, NoException, SectionInv, InThread
<1> HIDE DEF k, l
<1>3. k \in Nat /\ k # 4 /\ (l = DelayedTasks => k # BeforeSwitch(l, 9))
      /\ \A n \in 5 .. 8 : k # BeforeSwitch(l, n)
  <2>1. /\ k # 4 /\ ~ (l = DelayedTasks /\ k = 12)
        /\ k # BeforeSwitch(l, 8) /\ k # BeforeSwitch(l, 7)
        /\ k # BeforeSwitch(l, 6) /\ k # BeforeSwitch(l, 5)
    BY <1>1, ScriptSteps
  <2>2. k \in Nat
    BY <1>1, ScriptSteps
  <2>3. ASSUME NEW n \in 5 .. 8 PROVE k # BeforeSwitch(l, n)
    <3>1. n = 5 \/ n = 6 \/ n = 7 \/ n = 8
      OBVIOUS
    <3> QED
      BY <2>1, <3>1
  <2>4. l = DelayedTasks => BeforeSwitch(l, 9) = 12
    BY DEF BeforeSwitch
  <2> QED
    BY <2>1, <2>2, <2>3, <2>4
<1>4. CallTypes'
  BY <1>1 DEF SectionInv, CallTypes
<1>5. k # PushBegins(l)
  <2>1. PushBegins(l) = IF l = DelayedTasks THEN BeforeSwitch(l, 9)
                                            ELSE BeforeSwitch(l, 8)
    BY DEF PushBegins, BeforeSwitch
  <2> QED
    BY <1>3, <2>1
<1>6. InPush(t)' <=> InPush(t)
  <2>1. (k - 1 >= 4 <=> k >= 4) /\ (k - 1 < PushBegins(l) <=> k < PushBegins(l))
    <3>1. PushBegins(l) \in Nat
      BY DEF PushBegins
    <3> QED
      BY <1>3, <1>5, <3>1
  <2> QED
    BY <1>1, <2>1 DEF InPush, k, l
<1>7. Calling' <=> Calling
  BY <1>1, <1>2, <1>6 DEF Calling, InPush
<1>8. Calling => before' = before
  BY <1>1, <1>4, <1>6, Remembered DEF SectionInv, Calling
<1>9. Uninterrupted'
  BY <1>1, <1>2, <1>6 DEF SectionInv, Uninterrupted, InPush
<1>10. Calling => (Progress(t) => Progress(t)')
  <2>1. \A n \in 5 .. 8 : k - 1 < BeforeSwitch(l, n) <=> k < BeforeSwitch(l, n)
    BY <1>3, OneStepOn
  <2>2. l = DelayedTasks =>
          (k - 1 < BeforeSwitch(l, 9) <=> k < BeforeSwitch(l, 9))
    BY <1>3, OneStepOn
  <2>3. /\ k - 1 < BeforeSwitch(l, 5) <=> k < BeforeSwitch(l, 5)
        /\ k - 1 < BeforeSwitch(l, 6) <=> k < BeforeSwitch(l, 6)
        /\ k - 1 < BeforeSwitch(l, 7) <=> k < BeforeSwitch(l, 7)
        /\ k - 1 < BeforeSwitch(l, 8) <=> k < BeforeSwitch(l, 8)
    BY <2>1
  <2>4. Len(todo[t]) = k
    BY DEF k
  <2> QED
    BY <1>1, <1>2, <1>8, <2>2, <2>3, <2>4 DEF Progress, l
<1>11. Sound'
  BY <1>1, <1>2, <1>7, <1>8, <1>10 DEF SectionInv, Sound
<1> QED
  BY <1>2, <1>4, <1>7, <1>8, <1>9, <1>11 DEF SectionInv

-----------------------------------------------------------------------------
\* The lists when the push of task t's call has its last n - 4 steps to come,
\* and for n = 9 the assignment to tickDelay.
ListsAt(t, n) ==
    LET q == before.queue
        p == before.parent
        d == before.tickDelay
        l == target[t]
    IN /\ tickDelay = IF l = DelayedTasks /\ n < 9
                      THEN [d EXCEPT ![t] = (systicks + ticks[t]) % TickModulus]
                      ELSE d
       /\ queue = IF n < 6 THEN Pushed(q, p, priority, l, t)
                  ELSE IF n < 7 THEN Erased(q, p, t)
                  ELSE q
       /\ parent = IF n < 5 THEN [p EXCEPT ![t] = l]
                   ELSE IF n < 7 THEN [p EXCEPT ![t] = NoList]
                   ELSE p
       /\ n < 8 /\ ~ (n < 6) => place[t] = Found(q[l], priority, t)

\* Before each step of push but the first the lists are what the steps before
\* it made of them.
LEMMA BeforeStep ==
    ASSUME SectionInv, NEW t \in Task, NEW step, Step(t, step),
           NEW n \in 5 .. 9, Len(todo[t]) = BeforeSwitch(target[t], n),
           BeforeSwitch(target[t], n) < PushBegins(target[t])
    PROVE  /\ Calling
           /\ ListsAre(before.queue, before.parent, before.tickDelay)
           /\ target[t] \in {ReadyTasks, DelayedTasks}
           /\ ListsAt(t, n)
<1> DEFINE l == target[t]
<1>1. t = current /\ l \in {ReadyTasks, DelayedTasks}
  BY StepTaken DEF SectionInv
<1>2. \A m \in 5 .. 9 : BeforeSwitch(l, n) < BeforeSwitch(l, m) <=> n < m
  BY PushGoesOn
<1>3. Calling
  <2>1. \A k \in {BeforeSwitch(l, n)} : k >= 4
    BY DEF BeforeSwitch
  <2> QED
    BY <1>1, <2>1 DEF Calling, InPush
<1>4. Progress(t) /\ ListsAre(before.queue, before.parent, before.tickDelay)
  BY <1>1, <1>3 DEF SectionInv, Sound
<1>5. \A m \in 5 .. 9 : Len(todo[t]) < BeforeSwitch(l, m) <=> n < m
  BY <1>2
<1>6. /\ Len(todo[t]) < BeforeSwitch(l, 5) <=> n < 5
      /\ Len(todo[t]) < BeforeSwitch(l, 6) <=> n < 6
      /\ Len(todo[t]) < BeforeSwitch(l, 7) <=> n < 7
      /\ Len(todo[t]) < BeforeSwitch(l, 8) <=> n < 8
      /\ Len(todo[t]) < BeforeSwitch(l, 9) <=> n < 9
  BY <1>5
<1>7. ListsAt(t, n)
  BY <1>4, <1>6 DEF Progress, ListsAt
<1> QED
  BY <1>1, <1>3, <1>4, <1>7

\* And after it, what is to be shown of them.
LEMMA AfterStep ==
    ASSUME SectionInv, NEW t \in Task, NEW step, Step(t, step),
           NEW n \in 5 .. 9, Len(todo[t]) = BeforeSwitch(target[t], n),
           BeforeSwitch(target[t], n) <= PushBegins(target[t]),
           NEW m, m = n - 1, ListsAt(t, m)'
    PROVE  Progress(t)' /\ InPush(t)'
<1> DEFINE l == target[t]
           k == BeforeSwitch(l, n)
<1>1. Len(todo'[t]) = k - 1 /\ target' = target
  BY StepTaken DEF SectionInv
<1>2. \A i \in 5 .. 9 : k - 1 < BeforeSwitch(l, i) <=> m < i
  <2>1. \A i \in 5 .. 9 : k - 1 < BeforeSwitch(l, i) <=> n <= i
    BY PushGoesOn
  <2> QED
    BY <2>1
<1>3. /\ Len(todo'[t]) < BeforeSwitch(l, 5) <=> m < 5
      /\ Len(todo'[t]) < BeforeSwitch(l, 6) <=> m < 6
      /\ Len(todo'[t]) < BeforeSwitch(l, 7) <=> m < 7
      /\ Len(todo'[t]) < BeforeSwitch(l, 8) <=> m < 8
      /\ Len(todo'[t]) < BeforeSwitch(l, 9) <=> m < 9
  BY <1>1, <1>2
<1>4. k - 1 >= 4 /\ k - 1 < PushBegins(l)
  BY DEF BeforeSwitch, PushBegins
<1> HIDE DEF k
<1> QED
  BY <1>1, <1>3, <1>4 DEF Progress, ListsAt, InPush

-----------------------------------------------------------------------------
\* The assignment to tickDelay begins a push to the delayed tasks.
LEMMA SetTickDelayKeepsSections ==
    ASSUME SectionInv, NEW t \in Task, SetTickDelay(t)
    PROVE  SectionInv' /\ Calling' /\ before' = IF Calling THEN before ELSE ListState
<1>1. /\ Step(t, "setTickDelay") /\ t = current
      /\ tickDelay' = [tickDelay EXCEPT ![t] = (systicks + ticks[t]) % TickModulus]
      /\ queue' = queue /\ parent' = parent /\ place' = place
      /\ UNCHANGED <<priority, current, held, pendSV, tick, frame, block>>
      /\ priority' = priority /\ systicks' = systicks
      /\ target' = target /\ ticks' = ticks
  BY StepTaken DEF SetTickDelay, lists, SectionInv, tick
<1>2. target[t] = DelayedTasks /\ Len(todo[t]) = 12 /\ Len(todo'[t]) = 11
  <2>1. /\ target[t] \in {ReadyTasks, DelayedTasks}
        /\ Len(todo[t]) \in 1 .. Len(Script(target[t]))
        /\ StepAt(target[t], Len(todo[t])) = "setTickDelay"
        /\ Len(todo'[t]) = Len(todo[t]) - 1
    BY <1>1, StepTaken DEF SectionInv
  <2>2. target[t] = DelayedTasks /\ Len(todo[t]) = 12
    BY <2>1, ScriptSteps
  <2> QED
    BY <2>1, <2>2
<1>3. /\ Len(todo[t]) = BeforeSwitch(target[t], 9)
      /\ BeforeSwitch(target[t], 9) <= PushBegins(target[t])
  BY <1>2 DEF BeforeSwitch, PushBegins
<1>4. ~ Calling
  BY <1>1, <1>2 DEF Calling, InPush, PushBegins
<1>5. DOMAIN place' = Task
  BY <1>1 DEF SectionInv, CallTypes
<1>6. /\ before'.queue = queue /\ before'.parent = parent
      /\ before'.tickDelay = tickDelay
  <2>1. CallTypes'
    BY <1>1, <1>5, StepTaken DEF SectionInv
  <2>2. InPush(t)' /\ ~ InPush(t)
    BY <1>1, <1>2 DEF InPush, PushBegins
  <2>3. before' = ListState
    BY <1>1, <2>1, <2>2, Remembered DEF SectionInv
  <2> QED
    BY <2>3 DEF ListState
<1>7. ListsAt(t, 8)'
  BY <1>1, <1>2, <1>6 DEF ListsAt
<1>8. Progress(t)' /\ InPush(t)'
  BY <1>1, <1>3, <1>7, AfterStep
<1> QED
  BY <1>1, <1>5, <1>8, MovingStepKeepsSections

\* find_if returns what Found says of the lists the push found.  In a push to
\* the ready tasks it is the first step.
LEMMA FindKeepsSections ==
    ASSUME SectionInv, NEW t \in Task, Find(t)
    PROVE  SectionInv' /\ Calling' /\ before' = IF Calling THEN before ELSE ListState
<1>1. /\ Step(t, "find") /\ t = current
      /\ place' = [place EXCEPT ![t] = Found(queue[target[t]], priority, t)]
      /\ queue' = queue /\ parent' = parent /\ tickDelay' = tickDelay
      /\ UNCHANGED <<priority, current, held, pendSV, tick, frame, block>>
      /\ priority' = priority /\ systicks' = systicks
      /\ target' = target /\ ticks' = ticks
  BY StepTaken DEF Find, Found, vars, block, SectionInv, tick
<1>2. /\ Len(todo[t]) = BeforeSwitch(target[t], 8)
      /\ target[t] \in {ReadyTasks, DelayedTasks}
      /\ Len(todo'[t]) = Len(todo[t]) - 1
  BY <1>1, StepTaken, ScriptSteps DEF SectionInv
<1>3. DOMAIN place' = Task /\ place'[t] = Found(queue[target[t]], priority, t)
  BY <1>1 DEF SectionInv, CallTypes
<1>4. CallTypes'
  BY <1>1, <1>3, StepTaken DEF SectionInv
<1>5. InPush(t)' /\ (Calling <=> target[t] = DelayedTasks)
  BY <1>1, <1>2 DEF InPush, Calling, PushBegins, BeforeSwitch
<1>6. before' = IF Calling THEN before ELSE ListState
  BY <1>1, <1>4, <1>5, Remembered DEF SectionInv, Calling
<1>7. ListsAt(t, 7)'
  <2>1. CASE target[t] = DelayedTasks
    <3>1. BeforeSwitch(target[t], 8) < PushBegins(target[t])
      BY <2>1 DEF BeforeSwitch, PushBegins
    <3>2. ListsAt(t, 8) /\ before' = before
      BY <1>1, <1>2, <1>5, <1>6, <2>1, <3>1, BeforeStep
    <3> QED
      BY <1>1, <1>3, <3>2 DEF ListsAt
  <2>2. CASE target[t] # DelayedTasks
    <3>1. /\ before'.queue = queue /\ before'.parent = parent
          /\ before'.tickDelay = tickDelay
      BY <1>5, <1>6, <2>2 DEF ListState
    <3> QED
      BY <1>1, <1>3, <2>2, <3>1 DEF ListsAt
  <2> QED
    BY <2>1, <2>2
<1>8. Progress(t)'
  <2>1. BeforeSwitch(target[t], 8) <= PushBegins(target[t])
    BY DEF BeforeSwitch, PushBegins
  <2> QED
    BY <1>1, <1>2, <1>7, <2>1, AfterStep
<1> QED
  BY <1>1, <1>3, <1>5, <1>8, MovingStepKeepsSections

\* The steps after the first remember the same lists.
LEMMA StaysInPush ==
    ASSUME SectionInv, NEW t \in Task, NEW step, Step(t, step),
           NEW n \in 5 .. 9, Len(todo[t]) = BeforeSwitch(target[t], n),
           BeforeSwitch(target[t], n) < PushBegins(target[t]),
           Calling, DOMAIN place' = Task
    PROVE  before' = before
<1>1. /\ t = current /\ CallTypes' /\ target' = target
      /\ Len(todo'[t]) = Len(todo[t]) - 1
  BY StepTaken DEF SectionInv
<1>2. InPush(t)'
  BY <1>1 DEF InPush, BeforeSwitch, PushBegins
<1> QED
  BY <1>1, <1>2, Remembered DEF SectionInv, Calling

\* erase makes them what Erased makes of them.
LEMMA EraseKeepsSections ==
    ASSUME SectionInv, NEW t \in Task, Erase(t)
    PROVE  SectionInv' /\ Calling' /\ before' = IF Calling THEN before ELSE ListState
<1>1. /\ Step(t, "erase")
      /\ queue' = Erased(queue, parent, t)
      /\ parent' = [parent EXCEPT ![t] = NoList]
      /\ place' = place /\ tickDelay' = tickDelay
      /\ UNCHANGED <<priority, current, held, pendSV, tick, frame, block>>
      /\ priority' = priority /\ systicks' = systicks
      /\ target' = target /\ ticks' = ticks
  BY StepTaken DEF Erase, ListsOnly, SectionInv, tick
<1>2. /\ Len(todo[t]) = BeforeSwitch(target[t], 7)
      /\ BeforeSwitch(target[t], 7) < PushBegins(target[t])
      /\ BeforeSwitch(target[t], 7) <= PushBegins(target[t])
  BY <1>1, StepTaken, ScriptSteps DEF SectionInv, BeforeSwitch, PushBegins
<1>3. /\ ListsAt(t, 7) /\ Calling
      /\ ListsAre(before.queue, before.parent, before.tickDelay)
      /\ target[t] \in {ReadyTasks, DelayedTasks}
  BY <1>1, <1>2, BeforeStep
<1>4. DOMAIN place' = Task
  BY <1>1 DEF SectionInv, CallTypes
<1>5. before' = before
  BY <1>1, <1>2, <1>3, <1>4, StaysInPush
<1>7. ListsAt(t, 6)'
  BY <1>1, <1>3, <1>5 DEF ListsAt
<1>8. Progress(t)' /\ InPush(t)'
  BY <1>1, <1>2, <1>7, AfterStep
<1> QED
  BY <1>1, <1>4, <1>8, MovingStepKeepsSections

\* insert links the task where Pushed does, though it goes by the iterator.
LEMMA InsertKeepsSections ==
    ASSUME SectionInv, NEW t \in Task, Insert(t)
    PROVE  SectionInv' /\ Calling' /\ before' = IF Calling THEN before ELSE ListState
<1>1. /\ Step(t, "insert")
      /\ queue' = LinkedBefore(queue, place[t], target[t], t)
      /\ parent' = parent /\ tickDelay' = tickDelay
      /\ place' = [place EXCEPT ![t] = NoList]
      /\ UNCHANGED <<priority, current, held, pendSV, tick, frame, block>>
      /\ priority' = priority /\ systicks' = systicks
      /\ target' = target /\ ticks' = ticks
  BY StepTaken DEF Insert, LinkedBefore, ListsOnly, SectionInv, tick
<1>2. /\ Len(todo[t]) = BeforeSwitch(target[t], 6)
      /\ BeforeSwitch(target[t], 6) < PushBegins(target[t])
      /\ BeforeSwitch(target[t], 6) <= PushBegins(target[t])
  BY <1>1, StepTaken, ScriptSteps DEF SectionInv, BeforeSwitch, PushBegins
<1>3. /\ ListsAt(t, 6) /\ Calling
      /\ ListsAre(before.queue, before.parent, before.tickDelay)
      /\ target[t] \in {ReadyTasks, DelayedTasks}
  BY <1>1, <1>2, BeforeStep
<1>4. DOMAIN place' = Task
  BY <1>1 DEF SectionInv, CallTypes
<1>5. before' = before
  BY <1>1, <1>2, <1>3, <1>4, StaysInPush
<1>6. queue' = Pushed(before.queue, before.parent, priority, target[t], t)
  <2> DEFINE q == before.queue
             p == before.parent
  <2>1. /\ queue = Erased(q, p, t)
        /\ place[t] = Found(q[target[t]], priority, t)
    BY <1>3 DEF ListsAt
  <2>2. /\ q \in [List -> Seq(Linkable)]
        /\ p \in [Linkable -> List \cup {NoList}]
        /\ Consistent(q, p) /\ priority \in [Linkable -> Nat]
        /\ target[t] \in List /\ t \in Linkable
    BY <1>3, ListNames, TaskIsLinkable DEF ListsAre, SectionInv, OtherTypes
  <2>3. queue' = LinkedBefore(queue, place[t], target[t], t)
    BY <1>1
  <2> HIDE DEF q, p
  <2>4. queue' = Pushed(q, p, priority, target[t], t)
    BY <2>1, <2>2, <2>3, StepsMakePush
  <2> QED
    BY <2>4 DEF q, p
<1>7. ListsAt(t, 5)'
  BY <1>1, <1>3, <1>5, <1>6 DEF ListsAt
<1>8. Progress(t)' /\ InPush(t)'
  BY <1>1, <1>2, <1>7, AfterStep
<1> QED
  BY <1>1, <1>4, <1>8, MovingStepKeepsSections

\* ParentList completes the push.
LEMMA SetParentKeepsSections ==
    ASSUME SectionInv, NEW t \in Task, SetParent(t)
    PROVE  SectionInv' /\ Calling' /\ before' = IF Calling THEN before ELSE ListState
<1>1. /\ Step(t, "setParent")
      /\ parent' = [parent EXCEPT ![t] = target[t]]
      /\ queue' = queue /\ place' = place /\ tickDelay' = tickDelay
      /\ UNCHANGED <<priority, current, held, pendSV, tick, frame, block>>
      /\ priority' = priority /\ systicks' = systicks
      /\ target' = target /\ ticks' = ticks
  BY StepTaken DEF SetParent, ListsOnly, SectionInv, tick
<1>2. /\ Len(todo[t]) = BeforeSwitch(target[t], 5)
      /\ BeforeSwitch(target[t], 5) < PushBegins(target[t])
      /\ BeforeSwitch(target[t], 5) <= PushBegins(target[t])
  BY <1>1, StepTaken, ScriptSteps DEF SectionInv, BeforeSwitch, PushBegins
<1>3. /\ ListsAt(t, 5) /\ Calling
      /\ ListsAre(before.queue, before.parent, before.tickDelay)
      /\ target[t] \in {ReadyTasks, DelayedTasks}
  BY <1>1, <1>2, BeforeStep
<1>4. DOMAIN place' = Task
  BY <1>1 DEF SectionInv, CallTypes
<1>5. before' = before
  BY <1>1, <1>2, <1>3, <1>4, StaysInPush
<1>7. ListsAt(t, 4)'
  BY <1>1, <1>3, <1>5 DEF ListsAt
<1>8. Progress(t)' /\ InPush(t)'
  BY <1>1, <1>2, <1>7, AfterStep
<1> QED
  BY <1>1, <1>4, <1>8, MovingStepKeepsSections

-----------------------------------------------------------------------------
\* When the switch is requested the lists are those of the operation at once.
LEMMA TriggerKeepsSections ==
    ASSUME SectionInv, NEW t \in Task, Trigger(t)
    PROVE  LET q == before.queue
               p == before.parent
               l == target[t]
           IN /\ SectionInv' /\ Calling /\ ~ Calling'
              /\ InThread(t) /\ l \in {ReadyTasks, DelayedTasks}
              /\ queue' = Pushed(q, p, priority, l, t)
              /\ parent' = [p EXCEPT ![t] = l]
              /\ tickDelay' = IF l = DelayedTasks
                              THEN [before.tickDelay EXCEPT ![t] =
                                      (systicks + ticks[t]) % TickModulus]
                              ELSE before.tickDelay
<1> DEFINE l == target[t]
           q == before.queue
           p == before.parent
<1>1. /\ Step(t, "trigger") /\ pendSV' = TRUE
      /\ queue' = queue /\ parent' = parent /\ place' = place
      /\ tickDelay' = tickDelay /\ priority' = priority /\ current' = current
      /\ systicks' = systicks /\ scan' = scan /\ mustSwitch' = mustSwitch
      /\ held' = held /\ frame' = frame /\ hook' = hook /\ reason' = reason
  BY DEF Trigger, lists, tick, block
<1>2. /\ t = current /\ InThread(t) /\ l \in {ReadyTasks, DelayedTasks}
      /\ CallTypes' /\ Len(todo[t]) = 4 /\ Len(todo'[t]) = 3
      /\ \A u \in Task : u # t => todo'[u] = todo[u]
  <2>1. /\ t = current /\ InThread(t) /\ l \in {ReadyTasks, DelayedTasks}
        /\ Len(todo[t]) \in 1 .. Len(Script(l))
        /\ StepAt(l, Len(todo[t])) = "trigger"
        /\ CallTypes' <=> DOMAIN place' = Task
        /\ Len(todo'[t]) = Len(todo[t]) - 1
        /\ \A u \in Task : u # t => todo'[u] = todo[u]
    BY <1>1, StepTaken DEF SectionInv
  <2>2. Len(todo[t]) = 4
    BY <2>1, ScriptSteps
  <2>3. DOMAIN place' = Task
    BY <1>1 DEF SectionInv, CallTypes
  <2> QED
    BY <2>1, <2>2, <2>3
<1>3. Calling /\ ~ Calling'
  <2>1. 4 < PushBegins(l) /\ target' = target
    BY <1>1, StepTaken DEF PushBegins, SectionInv
  <2> QED
    BY <1>1, <1>2, <2>1 DEF Calling, InPush
<1>4. ListsAre(q, p, before.tickDelay) /\ Progress(t)
  BY <1>2, <1>3 DEF SectionInv, Sound
<1>5. /\ queue' = Pushed(q, p, priority, l, t)
      /\ parent' = [p EXCEPT ![t] = l]
      /\ tickDelay' = IF l = DelayedTasks
                      THEN [before.tickDelay EXCEPT ![t] =
                              (systicks + ticks[t]) % TickModulus]
                      ELSE before.tickDelay
  <2>1. \A n \in 5 .. 9 : 4 < BeforeSwitch(l, n)
    BY DEF BeforeSwitch
  <2>2. /\ 4 < BeforeSwitch(l, 5) /\ 4 < BeforeSwitch(l, 6)
        /\ 4 < BeforeSwitch(l, 9)
    BY <2>1
  <2> QED
    BY <1>1, <1>2, <1>4, <2>2 DEF Progress
<1>6. ListsAre(queue', parent', tickDelay')
  <2>1. /\ q \in [List -> Seq(Linkable)]
        /\ p \in [Linkable -> List \cup {NoList}] /\ NoList \notin List
        /\ before.tickDelay \in [Linkable -> 0 .. TickModulus - 1]
        /\ Consistent(q, p) /\ priority \in [Linkable -> Nat]
        /\ l \in List /\ t \in Linkable
    BY <1>2, <1>4, ListNames, TaskIsLinkable, ListsAssumption
       DEF ListsAre, SectionInv, OtherTypes
  <2> HIDE DEF q, p, l
  <2>2. /\ Pushed(q, p, priority, l, t) \in [List -> Seq(Linkable)]
        /\ Consistent(Pushed(q, p, priority, l, t), [p EXCEPT ![t] = l])
    BY <2>1, PushedConsistent
  <2>3. (systicks + ticks[t]) % TickModulus \in 0 .. TickModulus - 1
    BY TicksWrap DEF SectionInv, OtherTypes, CallTypes
  <2>4. [p EXCEPT ![t] = l] \in [Linkable -> List \cup {NoList}]
    BY <2>1
  <2> QED
    BY <1>5, <2>1, <2>2, <2>3, <2>4 DEF ListsAre
<1>7. OtherTypes'
  BY <1>1 DEF SectionInv, OtherTypes
<1>8. Uninterrupted'
  <2>1. target' = target
    BY <1>1, StepTaken DEF SectionInv
  <2>2. \A u \in Task : InPush(u) => u = t
    BY <1>2 DEF SectionInv, Uninterrupted, InThread
  <2>3. ASSUME NEW u \in Task PROVE ~ InPush(u)'
    <3>1. CASE u = t
      BY <1>2, <3>1 DEF InPush
    <3>2. CASE u # t
      BY <1>2, <2>1, <2>2, <3>2 DEF InPush
    <3> QED
      BY <3>1, <3>2
  <2> QED
    BY <2>3 DEF Uninterrupted
<1>9. SectionInv'
  BY <1>2, <1>3, <1>6, <1>7, <1>8 DEF SectionInv, Sound
<1> QED
  BY <1>2, <1>3, <1>5, <1>9

-----------------------------------------------------------------------------
\* The steps of a call, apart from the one that requests the switch.
CallStep(t) ==
    \/ EnterLoad(t) \/ EnterStore(t)
    \/ ExitTest(t) \/ ExitLoad(t) \/ ExitStore(t)
    \/ SetTickDelay(t) \/ Find(t) \/ Erase(t) \/ Insert(t) \/ SetParent(t)

\* The lists as whoever sees no push half done sees them.
Seen == IF Calling THEN before ELSE ListState

\* No step of a call but the switch changes what is seen.
LEMMA CallStepKeepsSections ==
    ASSUME SectionInv, NEW t \in Task, CallStep(t)
    PROVE  /\ SectionInv' /\ Seen' = Seen
           /\ UNCHANGED <<priority, current, held, pendSV, tick, frame, block>>
<1>1. CASE \/ EnterLoad(t) \/ EnterStore(t)
           \/ ExitTest(t) \/ ExitLoad(t) \/ ExitStore(t)
  <2>1. PICK step \in {"enterLoad", "enterStore", "exitTest", "exitLoad",
                       "exitStore"} :
          Step(t, step) /\ vars' = vars /\ place' = place
    BY <1>1 DEF EnterLoad, EnterStore, ExitTest, ExitLoad, ExitStore, Store
  <2>2. step \in CallSteps /\ step \notin {"setTickDelay", "find", "erase",
                                           "insert", "setParent", "trigger"}
    BY DEF CallSteps
  <2>3. SectionInv' /\ (Calling' <=> Calling) /\ (Calling => before' = before)
    BY <2>1, <2>2, QuietStepKeepsSections
  <2>4. /\ UNCHANGED <<priority, current, held, pendSV, tick, frame, block>>
        /\ ListState' = ListState
    BY <2>1 DEF vars, tick, block, ListState
  <2> QED
    BY <2>3, <2>4 DEF Seen
<1>2. CASE SetTickDelay(t) \/ Find(t) \/ Erase(t) \/ Insert(t) \/ SetParent(t)
  <2>1. /\ SectionInv' /\ Calling'
        /\ before' = IF Calling THEN before ELSE ListState
    BY <1>2, SetTickDelayKeepsSections, FindKeepsSections, EraseKeepsSections,
       InsertKeepsSections, SetParentKeepsSections
  <2>2. UNCHANGED <<priority, current, held, pendSV, tick, frame, block>>
    BY <1>2 DEF SetTickDelay, Find, Erase, Insert, SetParent, ListsOnly,
                vars, tick, block
  <2> QED
    BY <2>1, <2>2 DEF Seen
<1> QED
  BY <1>1, <1>2 DEF CallStep

\* Every step is one of four kinds.
LEMMA SectionSteps ==
    ASSUME [SectionNext]_allVars
    PROVE  \/ SchedulerStep
           \/ \E t \in Task : \E l \in {ReadyTasks, DelayedTasks}, n \in Nat :
                (l = DelayedTasks => n \in Delays) /\ Begin(t, Script(l), l, n)
           \/ \E t \in Task : CallStep(t)
           \/ \E t \in Task : Trigger(t)
           \/ UNCHANGED allVars
<1>1. ASSUME NEW t \in Task, NEW n \in Delays,
             Begin(t, DelayScript, DelayedTasks, n)
      PROVE  \E l \in {ReadyTasks, DelayedTasks}, m \in Nat :
               (l = DelayedTasks => m \in Delays) /\ Begin(t, Script(l), l, m)
  <2>1. Script(DelayedTasks) = DelayScript /\ n \in Nat
    BY TimeAssumption DEF Script
  <2> QED
    BY <1>1, <2>1
<1>2. ASSUME NEW t \in Task, Begin(t, YieldScript, ReadyTasks, 0)
      PROVE  \E l \in {ReadyTasks, DelayedTasks}, m \in Nat :
               (l = DelayedTasks => m \in Delays) /\ Begin(t, Script(l), l, m)
  <2>1. Script(ReadyTasks) = YieldScript /\ ReadyTasks # DelayedTasks
    BY ListsAssumption DEF Script
  <2> QED
    BY <1>2, <2>1
<1> QED
  BY <1>1, <1>2 DEF SectionNext, SchedulerStep, CallStep

\* Once a push has been disturbed, it has been.
LEMMA DisturbedStays ==
    ASSUME [SectionNext]_allVars, disturbed
    PROVE  disturbed'
<1>1. ASSUME NEW t, NEW script, NEW l, NEW n, Begin(t, script, l, n)
      PROVE  disturbed'
  BY <1>1 DEF Begin
<1>2. ASSUME NEW t \in Task, CallStep(t) \/ Trigger(t) PROVE disturbed'
  BY <1>2 DEF CallStep, EnterLoad, EnterStore, ExitTest, ExitLoad, ExitStore,
              SetTickDelay, Find, Erase, Insert, SetParent, Trigger, Step
<1>3. CASE SchedulerStep
  BY <1>3, SchedulerStepIsNext
<1>4. CASE UNCHANGED allVars
  BY <1>4 DEF allVars, callVars
<1> QED
  BY <1>1, <1>2, <1>3, <1>4, SectionSteps

\* Every step that disturbs no push keeps the invariant.
LEMMA SectionInvNext ==
    ASSUME SectionInv, [SectionNext]_allVars, ~ disturbed'
    PROVE  SectionInv'
<1>1. ASSUME NEW t \in Task, NEW l \in {ReadyTasks, DelayedTasks},
             NEW n \in Nat, l = DelayedTasks => n \in Delays,
             Begin(t, Script(l), l, n)
      PROVE  SectionInv'
  BY <1>1, BeginKeepsSections
<1>2. CASE SchedulerStep
  BY <1>2, SchedulerStepKeepsSections
<1>3. ASSUME NEW t \in Task, CallStep(t) PROVE SectionInv'
  BY <1>3, CallStepKeepsSections
<1>4. ASSUME NEW t \in Task, Trigger(t) PROVE SectionInv'
  BY <1>4, TriggerKeepsSections
<1>5. CASE UNCHANGED allVars
  BY <1>5 DEF allVars, vars, callVars, SectionInv, OtherTypes, CallTypes,
              Uninterrupted, InPush, InThread, NoException, Sound, Calling,
              ListsAre, Progress
<1> QED
  BY <1>1, <1>2, <1>3, <1>4, <1>5, SectionSteps

\* No tick in the middle of a push, no surprise in the lists.
LEMMA SectionsAlways == SectionSpec => [](disturbed \/ SectionInv)
<1>1. SectionInit => SectionInv
  BY SectionInit1
<1>2. (disturbed \/ SectionInv) /\ [SectionNext]_allVars
        => (disturbed \/ SectionInv)'
  BY SectionInvNext, DisturbedStays
<1> QED
  BY <1>1, <1>2, PTL DEF SectionSpec

-----------------------------------------------------------------------------
(***************************************************************************)
(* The calls implement the operations of Scheduler.                        *)
(***************************************************************************)
\* What the lists look like from outside of a push.
LEMMA WhatIsSeen ==
    ASSUME SectionInv, ~ disturbed
    PROVE  Unseen = Seen
  BY PushingIs DEF Unseen, Seen, Calling, SectionInv, InPush

\* The same of the next state.
LEMMA WhatIsSeenNext ==
    ASSUME SectionInv', ~ disturbed'
    PROVE  Unseen' = Seen'
<1>1. (\E t \in Task : current' = t /\ Pushing(t)') <=> Calling'
  BY PushingIsNext DEF Calling, SectionInv, InPush
<1> QED
  BY <1>1 DEF Unseen, Seen

\* An instance of Scheduler's push is Scheduler's push.
LEMMA AtomicPushed ==
    ASSUME NEW q, NEW p, NEW key, NEW l, NEW e
    PROVE  Atomic!Pushed(q, p, key, l, e) = Pushed(q, p, key, l, e)
  BY DEF Atomic!Pushed, Atomic!Erased, Atomic!Link, Atomic!Unlink,
         Atomic!Position, Atomic!FirstGreater, Atomic!StopsAt,
         Atomic!InsertAt, Atomic!RemoveAt, Atomic!Contains,
         Pushed, Erased, Link, Unlink, Position, FirstGreater, StopsAt,
         InsertAt, RemoveAt, Contains

\* The program starts as Scheduler says.
LEMMA InitIsAtomic == SectionInit => Atomic!Init
<1> SUFFICES ASSUME SectionInit PROVE Atomic!Init
  OBVIOUS
<1>1. SectionInv /\ Init
  BY SectionInit1 DEF SectionInit
<1>2. current = Main
  BY <1>1 DEF Init
<1>3. Unseen = ListState
  BY <1>2, TasksAssumption DEF Unseen, Linkable
<1> QED
  BY <1>1, <1>3 DEF Init, Atomic!Init, ListState, List, Atomic!List, Linkable,
     Atomic!Linkable, InitialPriority, Atomic!InitialPriority

\* Nothing happens to the variables of Scheduler.
LEMMA StutterIsAtomic ==
    ASSUME Unseen' = Unseen,
           UNCHANGED <<priority, current, held, pendSV, tick, frame, block>>
    PROVE  UNCHANGED Atomic!vars
  BY DEF Atomic!vars, tick, block

\* A step that is one of Scheduler's is one for who sees the lists as they are.
LEMMA SchedulerStepIsAtomic ==
    ASSUME Unseen = ListState, Unseen' = ListState', SchedulerStep
    PROVE  [Atomic!Next]_(Atomic!vars)
<1>1. /\ Unseen.queue = queue /\ Unseen.parent = parent
      /\ Unseen.tickDelay = tickDelay
      /\ (Unseen.queue)' = queue' /\ (Unseen.parent)' = parent'
      /\ (Unseen.tickDelay)' = tickDelay'
  BY DEF ListState
<1>2. ASSUME NEW t \in Task, NEW n \in PriorityRange, SetPriority(t, n)
      PROVE  Atomic!SetPriority(t, n)
  BY <1>1, <1>2
     DEF SetPriority, Atomic!SetPriority, InMainOrThread, Atomic!InMainOrThread,
         InThread, Atomic!InThread, NoException, Atomic!NoException,
         lists, Atomic!lists, tick, Atomic!tick, block, Atomic!block
<1>3. ASSUME NEW t \in Task, Start(t)
      PROVE  Atomic!Start(t)
  <2>1. Push(ReadyTasks, t) => Atomic!Push(ReadyTasks, t)
    BY <1>1, AtomicPushed DEF Push, Atomic!Push
  <2> QED
    BY <1>1, <1>3, <2>1
       DEF Start, Atomic!Start, InMainOrThread, Atomic!InMainOrThread,
           InThread, Atomic!InThread, NoException, Atomic!NoException,
           lists, Atomic!lists, tick, Atomic!tick, block, Atomic!block
<1>4. ASSUME Tick PROVE Atomic!Tick
  BY <1>1, <1>4
     DEF Tick, Atomic!Tick, NoException, Atomic!NoException,
         lists, Atomic!lists, block, Atomic!block
<1>5. ASSUME TickVisit PROVE Atomic!TickVisit
  <2>1. \A t : Push(ReadyTasks, t) => Atomic!Push(ReadyTasks, t)
    BY <1>1, AtomicPushed DEF Push, Atomic!Push
  <2> QED
    BY <1>1, <1>5, <2>1
       DEF TickVisit, Atomic!TickVisit, Expired, Atomic!Expired,
           lists, Atomic!lists, block, Atomic!block
<1>6. ASSUME SwitchContext PROVE Atomic!SwitchContext
  BY <1>1, <1>6
     DEF SwitchContext, Atomic!SwitchContext,
         lists, Atomic!lists, tick, Atomic!tick, block, Atomic!block
<1>7. ASSUME NEW t \in Task, NEW l \in BlockList, Block(t, l)
      PROVE  Atomic!Block(t, l)
  <2>1. Push(l, t) => Atomic!Push(l, t)
    BY <1>1, AtomicPushed DEF Push, Atomic!Push
  <2> QED
    BY <1>1, <1>7, <2>1
       DEF Block, Atomic!Block, InThread, Atomic!InThread,
           NoException, Atomic!NoException, tick, Atomic!tick
<1>8. ASSUME NEW t \in Task, BlockReturn(t)
      PROVE  Atomic!BlockReturn(t)
  BY <1>1, <1>8
     DEF BlockReturn, Atomic!BlockReturn, NoException, Atomic!NoException,
         lists, Atomic!lists, tick, Atomic!tick, block, Atomic!block
<1>9. ASSUME NEW l \in BlockList, Unblock(l)
      PROVE  Atomic!Unblock(l)
  <2>1. \A t : Push(ReadyTasks, t) => Atomic!Push(ReadyTasks, t)
    BY <1>1, AtomicPushed DEF Push, Atomic!Push
  <2> QED
    BY <1>1, <1>9, <2>1
       DEF Unblock, Atomic!Unblock, UnblockTask, Atomic!UnblockTask,
           NoException, Atomic!NoException, tick, Atomic!tick
<1>10. ASSUME NEW t \in Task, \/ \E n \in PriorityRange : SetPriority(t, n)
                              \/ Start(t) \/ BlockReturn(t)
                              \/ \E l \in BlockList : Block(t, l)
       PROVE  Atomic!Next
  BY <1>2, <1>3, <1>7, <1>8, <1>10 DEF Atomic!Next
<1>11. ASSUME \/ Tick \/ TickVisit \/ SwitchContext
              \/ \E l \in BlockList : Unblock(l)
       PROVE  Atomic!Next
  BY <1>4, <1>5, <1>6, <1>9, <1>11 DEF Atomic!Next
<1> QED
  BY <1>10, <1>11 DEF SchedulerStep, BlockCall, Interrupt

\* Seen from outside, a call pushes when it requests the switch.
LEMMA TriggerIsAtomic ==
    ASSUME SectionInv, ~ disturbed, NEW t \in Task, Trigger(t)
    PROVE  Atomic!Next
<1> DEFINE l == target[t]
<1>1. /\ SectionInv' /\ Calling /\ ~ Calling'
      /\ InThread(t) /\ l \in {ReadyTasks, DelayedTasks}
      /\ queue' = Pushed(before.queue, before.parent, priority, l, t)
      /\ parent' = [before.parent EXCEPT ![t] = l]
      /\ tickDelay' = IF l = DelayedTasks
                      THEN [before.tickDelay EXCEPT ![t] =
                              (systicks + ticks[t]) % TickModulus]
                      ELSE before.tickDelay
  BY TriggerKeepsSections
<1>2. /\ Unseen.queue = before.queue /\ Unseen.parent = before.parent
      /\ Unseen.tickDelay = before.tickDelay
      /\ (Unseen.queue)' = queue' /\ (Unseen.parent)' = parent'
      /\ (Unseen.tickDelay)' = tickDelay'
  <2>1. ~ disturbed'
    BY DEF Trigger, Step
  <2>2. Unseen = before /\ Unseen' = ListState'
    BY <1>1, <2>1, WhatIsSeen, WhatIsSeenNext DEF Seen
  <2> QED
    BY <2>2 DEF ListState
<1>3. /\ pendSV' = TRUE
      /\ UNCHANGED <<priority, current, held, systicks, scan, mustSwitch, frame,
                     hook, reason>>
  BY DEF Trigger, tick, block
<1>4. Atomic!InThread(t)
  BY <1>1 DEF InThread, Atomic!InThread, NoException, Atomic!NoException
<1>5. Atomic!Push(l, t)
  BY <1>1, <1>2, AtomicPushed DEF Atomic!Push
<1>6. CASE l = DelayedTasks
  <2>1. ticks[t] \in Delays
    BY <1>6 DEF SectionInv, CallTypes
  <2>2. Atomic!Delay(t, ticks[t])
    BY <1>1, <1>2, <1>3, <1>4, <1>5, <1>6
       DEF Atomic!Delay, Atomic!PushDelayed, Atomic!tick, Atomic!block
  <2> QED
    BY <2>1, <2>2 DEF Atomic!Next
<1>7. CASE l # DelayedTasks
  <2>1. Atomic!Yield(t, t)
    BY <1>1, <1>2, <1>3, <1>4, <1>5, <1>7
       DEF Atomic!Yield, Atomic!Started, InThread, Atomic!tick, Atomic!block
  <2> QED
    BY <2>1 DEF Atomic!Next
<1> QED
  BY <1>6, <1>7

\* Every step that disturbs no push is a step of the atomic operations or none.
LEMMA SectionStepIsAtomic ==
    ASSUME SectionInv, ~ disturbed, [SectionNext]_allVars, ~ disturbed'
    PROVE  [Atomic!Next]_(Atomic!vars)
<1>a. SectionInv'
  BY SectionInvNext
<1>b. Unseen = Seen /\ Unseen' = Seen'
  BY <1>a, WhatIsSeen, WhatIsSeenNext
<1>1. CASE SchedulerStep
  <2>1. Seen = ListState /\ Seen' = ListState'
    BY <1>1, SchedulerStepKeepsSections DEF Seen
  <2> QED
    BY <1>1, <1>b, <2>1, SchedulerStepIsAtomic
<1>2. ASSUME NEW t \in Task, NEW l \in {ReadyTasks, DelayedTasks},
             NEW n \in Nat, l = DelayedTasks => n \in Delays,
             Begin(t, Script(l), l, n)
      PROVE  [Atomic!Next]_(Atomic!vars)
  <2>1. ~ Calling /\ ~ Calling' /\ vars' = vars
    BY <1>2, BeginKeepsSections
  <2>2. /\ ListState' = ListState
        /\ UNCHANGED <<priority, current, held, pendSV, tick, frame, block>>
    BY <2>1 DEF vars, ListState, tick, block
  <2> QED
    BY <1>b, <2>1, <2>2, StutterIsAtomic DEF Seen
<1>3. ASSUME NEW t \in Task, CallStep(t)
      PROVE  [Atomic!Next]_(Atomic!vars)
  BY <1>3, <1>b, CallStepKeepsSections, StutterIsAtomic
<1>4. ASSUME NEW t \in Task, Trigger(t)
      PROVE  [Atomic!Next]_(Atomic!vars)
  BY <1>4, TriggerIsAtomic
<1>5. CASE UNCHANGED allVars
  <2>1. Unseen' = Unseen
    BY <1>5 DEF allVars, callVars, vars, Unseen, ListState, Pushing
  <2>2. UNCHANGED <<priority, current, held, pendSV, tick, frame, block>>
    BY <1>5 DEF allVars, vars, tick, block
  <2> QED
    BY <2>1, <2>2, StutterIsAtomic
<1> QED
  BY <1>1, <1>2, <1>3, <1>4, <1>5, SectionSteps

\* DelayTask and Yield are the atomic operations that module Scheduler takes
\* them for, until a tick or an interrupt that unblocks a task comes in the
\* middle of a push: whatever their steps do to the lists, and wherever else in
\* their sections they are interrupted, nobody sees them half done.
THEOREM SectionsActAtOnce == SectionSpec => SectionsAreAtomic
<1>1. SectionInit => Atomic!Init
  BY InitIsAtomic
<1>2. (disturbed \/ SectionInv) /\ [SectionNext]_allVars
        => [disturbed' \/ Atomic!Next]_(Atomic!vars)
  BY SectionStepIsAtomic, DisturbedStays
<1> QED
  BY <1>1, <1>2, SectionsAlways, PTL DEF SectionSpec, SectionsAreAtomic

-----------------------------------------------------------------------------
(***************************************************************************)
(* criticalNestingCounter counts the sections entered and not left.        *)
(***************************************************************************)
\* What is left of a script, read from its end.
LEMMA RestReversed ==
    ASSUME NEW l \in {ReadyTasks, DelayedTasks}, NEW s, IsRest(s, Script(l))
    PROVE  /\ DOMAIN Reverse(s) = 1 .. Len(s)
           /\ \A n \in 1 .. Len(s) : Reverse(s)[n] = StepAt(l, n)
<1>1. Len(s) \in Nat /\ \A k \in 1 .. Len(s) : s[Len(s) + 1 - k] = StepAt(l, k)
  BY RestIsEnd
<1>2. Reverse(s) = [k \in 1 .. Len(s) |-> s[(Len(s) - k) + 1]]
  BY DEF Reverse
<1>3. DOMAIN Reverse(s) = 1 .. Len(s)
  BY <1>2
<1>4. ASSUME NEW n \in 1 .. Len(s) PROVE Reverse(s)[n] = StepAt(l, n)
  <2>1. (Len(s) - n) + 1 = Len(s) + 1 - n
    BY <1>1
  <2> QED
    BY <1>1, <1>2, <1>4, <2>1
<1> QED
  BY <1>3, <1>4

\* Which steps are left of a call depends on how many are left.
LEMMA LeftIs ==
    ASSUME CallTypes, NEW step
    PROVE  StepsLeft(step) =
             {u \in Task \X (1 .. 16) :
                u[2] \in 1 .. Len(todo[u[1]])
                /\ StepAt(target[u[1]], u[2]) = step}
<1>1. Len(DelayScript) = 16
  BY DEF DelayScript
<1>2. ASSUME NEW u \in Task \X (1 .. 16)
      PROVE  u[2] \in DOMAIN Reverse(todo[u[1]])
             /\ Reverse(todo[u[1]])[u[2]] = step
                <=> u[2] \in 1 .. Len(todo[u[1]])
                    /\ StepAt(target[u[1]], u[2]) = step
  <2>1. /\ target[u[1]] \in {ReadyTasks, DelayedTasks}
        /\ IsRest(todo[u[1]], Script(target[u[1]]))
    BY DEF CallTypes
  <2>2. /\ DOMAIN Reverse(todo[u[1]]) = 1 .. Len(todo[u[1]])
        /\ \A n \in 1 .. Len(todo[u[1]]) :
             Reverse(todo[u[1]])[n] = StepAt(target[u[1]], n)
    BY <2>1, RestReversed
  <2> QED
    BY <2>2
<1> QED
  BY <1>1, <1>2 DEF StepsLeft

\* The same of the next state.
LEMMA LeftIsNext ==
    ASSUME CallTypes', NEW step
    PROVE  StepsLeft(step)' =
             {u \in Task \X (1 .. 16) :
                u[2] \in 1 .. Len(todo'[u[1]])
                /\ StepAt(target'[u[1]], u[2]) = step}
<1>1. Len(DelayScript) = 16
  BY DEF DelayScript
<1>2. ASSUME NEW u \in Task \X (1 .. 16)
      PROVE  u[2] \in DOMAIN Reverse(todo'[u[1]])
             /\ Reverse(todo'[u[1]])[u[2]] = step
                <=> u[2] \in 1 .. Len(todo'[u[1]])
                    /\ StepAt(target'[u[1]], u[2]) = step
  <2>1. /\ target'[u[1]] \in {ReadyTasks, DelayedTasks}
        /\ IsRest(todo'[u[1]], Script(target'[u[1]]))
    BY DEF CallTypes
  <2>2. /\ DOMAIN Reverse(todo'[u[1]]) = 1 .. Len(todo'[u[1]])
        /\ \A n \in 1 .. Len(todo'[u[1]]) :
             Reverse(todo'[u[1]])[n] = StepAt(target'[u[1]], n)
    BY <2>1, RestReversed
  <2> QED
    BY <2>2
<1> QED
  BY <1>1, <1>2 DEF StepsLeft

\* The steps that are left are finitely many.
LEMMA LeftIsFinite ==
    ASSUME CallTypes, NEW step
    PROVE  /\ IsFiniteSet(StepsLeft(step))
           /\ Cardinality(StepsLeft(step)) \in Nat
<1>1. IsFiniteSet(1 .. 16)
  <2>1. 1 \in Int /\ 16 \in Int
    OBVIOUS
  <2> QED
    BY <2>1, FS_Interval, Zenon
<1>2. IsFiniteSet(Task \X (1 .. 16))
  BY <1>1, CounterAssumption, FS_Product
<1>3. StepsLeft(step) \in SUBSET (Task \X (1 .. 16))
  BY LeftIs
<1> HIDE DEF StepsLeft
<1>4. IsFiniteSet(StepsLeft(step))
  BY <1>2, <1>3, FS_Subset
<1> QED
  BY <1>4, FS_CardinalityType

\* A step of a call is no longer left, and every other one is.
LEMMA StepLeaves ==
    ASSUME CallTypes, CallTypes', NEW t \in Task, NEW step, Step(t, step),
           NEW other
    PROVE  /\ StepsLeft(other)' = StepsLeft(other) \ {<<t, Len(todo[t])>>}
           /\ <<t, Len(todo[t])>> \in StepsLeft(other) <=> other = step
<1> DEFINE k == Len(todo[t])
<1>1. /\ target[t] \in {ReadyTasks, DelayedTasks}
      /\ k \in 1 .. Len(Script(target[t]))
      /\ StepAt(target[t], k) = step
      /\ Len(todo'[t]) = k - 1
      /\ \A u \in Task : u # t => todo'[u] = todo[u]
      /\ target' = target
  BY StepTaken
<1>2. k \in 1 .. 16
  <2> DEFINE m == Len(Script(target[t]))
  <2>1. m = 16 \/ m = 10
    BY <1>1, ScriptSteps
  <2>2. k \in 1 .. m
    BY <1>1
  <2> HIDE DEF k, m
  <2> QED
    BY <2>1, <2>2
<1>3. StepsLeft(other) =
        {u \in Task \X (1 .. 16) :
           u[2] \in 1 .. Len(todo[u[1]]) /\ StepAt(target[u[1]], u[2]) = other}
  BY LeftIs
<1>4. StepsLeft(other)' =
        {u \in Task \X (1 .. 16) :
           u[2] \in 1 .. Len(todo'[u[1]]) /\ StepAt(target'[u[1]], u[2]) = other}
  BY LeftIsNext
<1>5. ASSUME NEW u \in Task, NEW n \in 1 .. 16
      PROVE  n \in 1 .. Len(todo'[u])
               <=> n \in 1 .. Len(todo[u]) /\ <<u, n>> # <<t, k>>
  <2>1. CASE u = t
    <3> HIDE DEF k
    <3>1. n \in 1 .. k - 1 <=> n \in 1 .. k /\ n # k
      BY <1>2
    <3>2. Len(todo[t]) = k
      BY DEF k
    <3> QED
      BY <1>1, <2>1, <3>1, <3>2
  <2>2. CASE u # t
    BY <1>1, <2>2
  <2> QED
    BY <2>1, <2>2
<1>6. ASSUME NEW v
      PROVE  v \in StepsLeft(other)' <=> v \in StepsLeft(other) /\ v # <<t, k>>
  <2>1. CASE v \in Task \X (1 .. 16)
    <3>1. PICK u \in Task, n \in 1 .. 16 : v = <<u, n>>
      BY <2>1
    <3>2. v[1] = u /\ v[2] = n
      BY <3>1
    <3>3. v \in StepsLeft(other) <=> n \in 1 .. Len(todo[u])
                                     /\ StepAt(target[u], n) = other
      BY <1>3, <2>1, <3>2
    <3>4. v \in StepsLeft(other)' <=> n \in 1 .. Len(todo'[u])
                                      /\ StepAt(target[u], n) = other
      BY <1>1, <1>4, <2>1, <3>2
    <3> QED
      BY <1>5, <3>1, <3>3, <3>4
  <2>2. CASE v \notin Task \X (1 .. 16)
    BY <1>3, <1>4, <2>2
  <2> QED
    BY <2>1, <2>2
<1>7. <<t, k>> \in StepsLeft(other) <=> other = step
  <2>1. <<t, k>> \in Task \X (1 .. 16) /\ <<t, k>>[1] = t /\ <<t, k>>[2] = k
    BY <1>2
  <2>2. k \in 1 .. k
    <3> HIDE DEF k
    <3> QED
      BY <1>2
  <2> QED
    BY <1>1, <1>3, <2>1, <2>2
<1> HIDE DEF k
<1>8. StepsLeft(other)' = StepsLeft(other) \ {<<t, k>>}
  BY <1>6
<1> QED
  BY <1>7, <1>8 DEF k

\* K says where in the script for list l a step is, counted from its end.
IsAt(step, l, K) ==
    /\ K \in SUBSET (1 .. 16)
    /\ \A k \in 1 .. 16 : k \in K <=> k \in 1 .. Len(Script(l))
                                      /\ StepAt(l, k) = step

\* A call that begins has every step of its script left.
LEMMA BeginAdds ==
    ASSUME CallTypes, CallTypes', NEW t \in Task,
           NEW l \in {ReadyTasks, DelayedTasks}, NEW n,
           Begin(t, Script(l), l, n),
           NEW step, NEW K, IsAt(step, l, K)
    PROVE  /\ StepsLeft(step)' = StepsLeft(step) \cup {<<t, k>> : k \in K}
           /\ \A k \in K : <<t, k>> \notin StepsLeft(step)
<1>a. K \in SUBSET (1 .. 16)
      /\ \A k \in 1 .. 16 : k \in K <=> k \in 1 .. Len(Script(l))
                                        /\ StepAt(l, k) = step
  BY DEF IsAt
<1>1. /\ todo[t] = <<>> /\ todo'[t] = Script(l) /\ target'[t] = l
      /\ \A u \in Task : u # t => todo'[u] = todo[u] /\ target'[u] = target[u]
  BY DEF CallTypes, Begin, AtLarge
<1>2. \A k \in 1 .. 16 : k \notin 1 .. Len(todo[t])
  <2>1. Len(todo[t]) = 0
    BY <1>1, EmptySeq
  <2>2. \A k \in 1 .. 16 : ~ (k \in 1 .. 0)
    OBVIOUS
  <2> QED
    BY <2>1, <2>2
<1>3. StepsLeft(step) =
        {u \in Task \X (1 .. 16) :
           u[2] \in 1 .. Len(todo[u[1]]) /\ StepAt(target[u[1]], u[2]) = step}
  BY LeftIs
<1>4. StepsLeft(step)' =
        {u \in Task \X (1 .. 16) :
           u[2] \in 1 .. Len(todo'[u[1]]) /\ StepAt(target'[u[1]], u[2]) = step}
  BY LeftIsNext
<1>5. \A k \in K : <<t, k>> \notin StepsLeft(step)
  BY <1>a, <1>2, <1>3
<1>6. ASSUME NEW v
      PROVE  v \in StepsLeft(step)' <=> v \in StepsLeft(step)
                                        \/ v \in {<<t, k>> : k \in K}
  <2>1. CASE v \in Task \X (1 .. 16)
    <3>1. PICK u \in Task, k \in 1 .. 16 : v = <<u, k>>
      BY <2>1
    <3>2. v[1] = u /\ v[2] = k
      BY <3>1
    <3>3. v \in StepsLeft(step) <=> k \in 1 .. Len(todo[u])
                                     /\ StepAt(target[u], k) = step
      BY <1>3, <2>1, <3>2
    <3>4. v \in StepsLeft(step)' <=> k \in 1 .. Len(todo'[u])
                                      /\ StepAt(target'[u], k) = step
      BY <1>4, <2>1, <3>2
    <3>5. v \in {<<t, i>> : i \in K} <=> u = t /\ k \in K
      BY <1>a, <3>1
    <3>6. CASE u = t
      <4>1. k \in K <=> k \in 1 .. Len(Script(l)) /\ StepAt(l, k) = step
        BY <1>a
      <4> QED
        BY <1>1, <1>2, <3>3, <3>4, <3>5, <3>6, <4>1
    <3>7. CASE u # t
      BY <1>1, <3>3, <3>4, <3>5, <3>7
    <3> QED
      BY <3>6, <3>7
  <2>2. CASE v \notin Task \X (1 .. 16)
    <3>1. v \notin StepsLeft(step)' /\ v \notin StepsLeft(step)
      BY <1>3, <1>4, <2>2
    <3>a. K \subseteq 1 .. 16
      BY <1>a
    <3>2. ASSUME v \in {<<t, k>> : k \in K}
          PROVE  FALSE
      <4>1. PICK k \in K : v = <<t, k>>
        BY <3>2
      <4> QED
        BY <2>2, <3>a, <4>1
    <3> QED
      BY <3>1, <3>2
  <2> QED
    BY <2>1, <2>2
<1>7. StepsLeft(step)' = StepsLeft(step) \cup {<<t, k>> : k \in K}
  BY <1>6
<1> QED
  BY <1>5, <1>7

\* A call enters as many sections as it leaves.
LEMMA ScriptsAreBalanced ==
    ASSUME CallTypes, CallTypes', NEW t \in Task,
           NEW l \in {ReadyTasks, DelayedTasks}, NEW n,
           Begin(t, Script(l), l, n)
    PROVE  Cardinality(StepsLeft("exitStore")')
             - Cardinality(StepsLeft("enterStore")')
           = Cardinality(StepsLeft("exitStore"))
             - Cardinality(StepsLeft("enterStore"))
<1> DEFINE A == StepsLeft("enterStore")
           B == StepsLeft("exitStore")
<1>1. /\ IsFiniteSet(A) /\ Cardinality(A) \in Nat
      /\ IsFiniteSet(B) /\ Cardinality(B) \in Nat
  BY LeftIsFinite
<1>2. /\ Len(Script(l)) = IF l = DelayedTasks THEN 16 ELSE 10
      /\ \A k \in 1 .. Len(Script(l)) :
           /\ StepAt(l, k) = "enterStore" <=>
                k \in IF l = DelayedTasks THEN {15, 13} ELSE {9}
           /\ StepAt(l, k) = "exitStore" <=>
                k \in IF l = DelayedTasks THEN {5, 1} ELSE {1}
  BY ScriptSteps
<1> DEFINE enters == IF l = DelayedTasks THEN {15, 13} ELSE {9}
           leaves == IF l = DelayedTasks THEN {5, 1} ELSE {1}
<1>3. IsAt("enterStore", l, enters) /\ IsAt("exitStore", l, leaves)
  <2>1. CASE l = DelayedTasks
    BY <1>2, <2>1 DEF IsAt
  <2>2. CASE l # DelayedTasks
    BY <1>2, <2>2 DEF IsAt
  <2> QED
    BY <2>1, <2>2
<1>4. /\ A' = A \cup {<<t, k>> : k \in enters}
      /\ \A k \in enters : <<t, k>> \notin A
  <2> HIDE DEF enters
  <2> QED
    BY <1>3, BeginAdds
<1>5. /\ B' = B \cup {<<t, k>> : k \in leaves}
      /\ \A k \in leaves : <<t, k>> \notin B
  <2> HIDE DEF leaves
  <2> QED
    BY <1>3, BeginAdds
<1>6. CASE l = DelayedTasks
  <2>1. /\ A' = A \cup {<<t, k>> : k \in {15, 13}}
        /\ \A k \in {15, 13} : <<t, k>> \notin A
    BY <1>6, <1>4
  <2>2. /\ B' = B \cup {<<t, k>> : k \in {5, 1}}
        /\ \A k \in {5, 1} : <<t, k>> \notin B
    BY <1>6, <1>5
  <2> HIDE DEF A, B
  <2>3. /\ A' = (A \cup {<<t, 15>>}) \cup {<<t, 13>>}
        /\ <<t, 15>> \notin A /\ <<t, 13>> \notin A \cup {<<t, 15>>}
    BY <2>1
  <2>4. /\ B' = (B \cup {<<t, 5>>}) \cup {<<t, 1>>}
        /\ <<t, 5>> \notin B /\ <<t, 1>> \notin B \cup {<<t, 5>>}
    BY <2>2
  <2>5. /\ IsFiniteSet(A \cup {<<t, 15>>})
        /\ Cardinality(A \cup {<<t, 15>>}) = Cardinality(A) + 1
        /\ IsFiniteSet(B \cup {<<t, 5>>})
        /\ Cardinality(B \cup {<<t, 5>>}) = Cardinality(B) + 1
    BY <1>1, <2>3, <2>4, FS_AddElement
  <2>6. /\ Cardinality(A') = (Cardinality(A) + 1) + 1
        /\ Cardinality(B') = (Cardinality(B) + 1) + 1
    BY <2>3, <2>4, <2>5, FS_AddElement
  <2>7. Cardinality(B') - Cardinality(A') = Cardinality(B) - Cardinality(A)
    BY <1>1, <2>6
  <2> QED
    BY <2>7 DEF A, B
<1>7. CASE l # DelayedTasks
  <2>1. /\ A' = A \cup {<<t, k>> : k \in {9}}
        /\ \A k \in {9} : <<t, k>> \notin A
    BY <1>7, <1>4
  <2>2. /\ B' = B \cup {<<t, k>> : k \in {1}}
        /\ \A k \in {1} : <<t, k>> \notin B
    BY <1>7, <1>5
  <2> HIDE DEF A, B
  <2>3. A' = A \cup {<<t, 9>>} /\ <<t, 9>> \notin A
    BY <2>1
  <2>4. B' = B \cup {<<t, 1>>} /\ <<t, 1>> \notin B
    BY <2>2
  <2>5. /\ Cardinality(A') = Cardinality(A) + 1
        /\ Cardinality(B') = Cardinality(B) + 1
    BY <1>1, <2>3, <2>4, FS_AddElement
  <2>6. Cardinality(B') - Cardinality(A') = Cardinality(B) - Cardinality(A)
    BY <1>1, <2>5
  <2> QED
    BY <2>6 DEF A, B
<1> QED
  BY <1>6, <1>7

-----------------------------------------------------------------------------
\* What is left of the calls stays the rest of their scripts, whatever ticks
\* do to the lists.
LEMMA CallTypesNext ==
    ASSUME CallTypes, [SectionNext]_allVars
    PROVE  CallTypes'
<1>1. CASE SchedulerStep
  BY <1>1, SchedulerStepIsNext DEF CallTypes
<1>2. ASSUME NEW t \in Task, NEW l \in {ReadyTasks, DelayedTasks},
             NEW n \in Nat, l = DelayedTasks => n \in Delays,
             Begin(t, Script(l), l, n)
      PROVE  CallTypes'
  BY <1>2, BeginTypes
<1>3. ASSUME NEW t \in Task, CallStep(t) \/ Trigger(t)
      PROVE  CallTypes'
  <2>1. \E step : Step(t, step)
    BY <1>3 DEF CallStep, EnterLoad, EnterStore, ExitTest, ExitLoad, ExitStore,
                SetTickDelay, Find, Erase, Insert, SetParent, Trigger
  <2>2. DOMAIN place' = Task
    BY <1>3 DEF CallStep, EnterLoad, EnterStore, Store, ExitTest, ExitLoad,
                ExitStore, SetTickDelay, Find, Erase, Insert, SetParent,
                Trigger, CallTypes
  <2> QED
    BY <2>1, <2>2, StepTaken
<1>4. CASE UNCHANGED allVars
  BY <1>4 DEF allVars, callVars, CallTypes
<1> QED
  BY <1>1, <1>2, <1>3, <1>4, SectionSteps

\* No call is under way when the program starts.
LEMMA CallTypesInit == SectionInit => CallTypes
  BY SectionInit1 DEF SectionInv

-----------------------------------------------------------------------------
\* Where in its script the section that the step k from the end enters is left.
Match(k) == IF k = 13 THEN 5 ELSE 1

\* Where in the calls the stores are.
LEMMA StoresAre ==
    ASSUME CallTypes, NEW t \in Task, NEW k \in 1 .. 16
    PROVE  /\ <<t, k>> \in StepsLeft("enterStore") <=>
                /\ k <= Len(todo[t])
                /\ k \in IF target[t] = DelayedTasks THEN {15, 13} ELSE {9}
           /\ <<t, k>> \in StepsLeft("exitStore") <=>
                /\ k <= Len(todo[t])
                /\ k \in IF target[t] = DelayedTasks THEN {5, 1} ELSE {1}
<1> DEFINE l == target[t]
           n == Len(todo[t])
           m == Len(Script(l))
<1>1. l \in {ReadyTasks, DelayedTasks} /\ IsRest(todo[t], Script(l))
  BY DEF CallTypes
<1>2. /\ m = IF l = DelayedTasks THEN 16 ELSE 10
      /\ \A i \in 1 .. m :
           /\ StepAt(l, i) = "enterStore" <=>
                i \in IF l = DelayedTasks THEN {15, 13} ELSE {9}
           /\ StepAt(l, i) = "exitStore" <=>
                i \in IF l = DelayedTasks THEN {5, 1} ELSE {1}
  BY <1>1, ScriptSteps
<1>3. n \in Nat /\ n <= m
  BY <1>1, RestIsEnd
<1>4. ASSUME NEW step
      PROVE  <<t, k>> \in StepsLeft(step) <=> k \in 1 .. n /\ StepAt(l, k) = step
  BY LeftIs
<1> HIDE DEF l, n, m
<1>5. k <= n => k \in 1 .. n /\ k \in 1 .. m
  BY <1>2, <1>3
<1>6. k \in 1 .. n => k <= n
  OBVIOUS
<1>7. /\ <<t, k>> \in StepsLeft("enterStore") <=>
           k <= n /\ k \in IF l = DelayedTasks THEN {15, 13} ELSE {9}
      /\ <<t, k>> \in StepsLeft("exitStore") <=>
           k <= n /\ k \in IF l = DelayedTasks THEN {5, 1} ELSE {1}
  BY <1>2, <1>4, <1>5, <1>6
<1> QED
  BY <1>7 DEF l, n

\* Every one of them is of a task and among the last 16 of its call.
LEMMA LeftOfWhom ==
    ASSUME CallTypes, NEW step, NEW u \in StepsLeft(step)
    PROVE  \E t \in Task, k \in 1 .. 16 : u = <<t, k>>
  BY LeftIs

\* If C has the exit of every section still to be entered, and nothing but
\* exits, it is no smaller than what is still to be entered.
LEMMA EntersHaveExits ==
    ASSUME CallTypes, NEW C, C \subseteq StepsLeft("exitStore"),
           \A t \in Task, k \in 1 .. 16 :
             <<t, k>> \in StepsLeft("enterStore") => <<t, Match(k)>> \in C
    PROVE  Cardinality(StepsLeft("enterStore")) <= Cardinality(C)
<1> DEFINE A == StepsLeft("enterStore")
           f == [u \in A |-> <<u[1], Match(u[2])>>]
<1>1. \A u \in A : \E t \in Task, k \in 1 .. 16 : u = <<t, k>>
  BY LeftOfWhom
<1>2. \A t \in Task, k \in 1 .. 16 :
        <<t, k>> \in A => k \in IF target[t] = DelayedTasks THEN {15, 13} ELSE {9}
  BY StoresAre
<1>3. IsFiniteSet(C)
  BY LeftIsFinite, FS_Subset
<1> HIDE DEF A
<1>4. f \in [A -> C]
  <2>1. ASSUME NEW u \in A PROVE <<u[1], Match(u[2])>> \in C
    <3>1. PICK t \in Task, k \in 1 .. 16 : u = <<t, k>>
      BY <1>1
    <3>2. <<t, Match(k)>> \in C
      BY <3>1 DEF A
    <3> QED
      BY <3>1, <3>2
  <2> QED
    BY <2>1
<1>5. ASSUME NEW u \in A, NEW v \in A, f[u] = f[v]
      PROVE  u = v
  <2>1. PICK t \in Task, k \in 1 .. 16 : u = <<t, k>>
    BY <1>1
  <2>2. PICK s \in Task, n \in 1 .. 16 : v = <<s, n>>
    BY <1>1
  <2>3. t = s /\ Match(k) = Match(n)
    BY <1>5, <2>1, <2>2
  <2>4. k = n
    <3>1. /\ k \in IF target[t] = DelayedTasks THEN {15, 13} ELSE {9}
          /\ n \in IF target[t] = DelayedTasks THEN {15, 13} ELSE {9}
      BY <1>2, <2>1, <2>2, <2>3
    <3>2. CASE target[t] = DelayedTasks
      BY <2>3, <3>1, <3>2 DEF Match
    <3>3. CASE target[t] # DelayedTasks
      BY <3>1, <3>3
    <3> QED
      BY <3>2, <3>3
  <2> QED
    BY <2>1, <2>2, <2>3, <2>4
<1>6. f \in Injection(A, C)
  BY <1>4, <1>5 DEF Injection, IsInjective
<1>7. Cardinality(A) <= Cardinality(C)
  BY <1>3, <1>6, FS_Injection
<1> QED
  BY <1>7 DEF A

\* A call leaves two sections at most.
LEMMA ExitsAreFew ==
    ASSUME CallTypes
    PROVE  Cardinality(StepsLeft("exitStore")) <= 2 * Cardinality(Task)
<1> DEFINE B == StepsLeft("exitStore")
<1>1. IsFiniteSet(Task) /\ Cardinality(Task) \in Nat
  BY CounterAssumption, FS_CardinalityType
<1>2. IsFiniteSet({1, 5}) /\ Cardinality({1, 5}) = 2
  <2>1. {1, 5} = {1} \cup {5} /\ 5 \notin {1}
    OBVIOUS
  <2>2. IsFiniteSet({1}) /\ Cardinality({1}) = 1
    BY FS_Singleton, Zenon
  <2>3. IsFiniteSet({1} \cup {5}) /\ Cardinality({1} \cup {5}) = 1 + 1
    BY <2>1, <2>2, FS_AddElement
  <2> QED
    BY <2>1, <2>3
<1>3. IsFiniteSet(Task \X {1, 5})
      /\ Cardinality(Task \X {1, 5}) = Cardinality(Task) * 2
  BY <1>1, <1>2, FS_Product
<1>4. B \subseteq Task \X {1, 5}
  <2>1. ASSUME NEW u \in B PROVE u \in Task \X {1, 5}
    <3>1. PICK t \in Task, k \in 1 .. 16 : u = <<t, k>>
      BY LeftOfWhom
    <3>2. k \in {1, 5}
      BY <3>1, StoresAre
    <3> QED
      BY <3>1, <3>2
  <2> QED
    BY <2>1
<1> HIDE DEF B
<1>5. Cardinality(B) <= Cardinality(Task \X {1, 5})
  BY <1>3, <1>4, FS_Subset
<1>6. Cardinality(B) <= Cardinality(Task) * 2
  BY <1>3, <1>5
<1>7. Cardinality(Task) * 2 = 2 * Cardinality(Task)
  BY <1>1
<1> QED
  BY <1>6, <1>7 DEF B

\* The sections entered and not left are never so many that the counter wraps.
LEMMA CountIsSmall ==
    ASSUME CallTypes
    PROVE  /\ Cardinality(StepsLeft("enterStore")) \in Nat
           /\ Cardinality(StepsLeft("exitStore")) \in Nat
           /\ Cardinality(StepsLeft("exitStore"))
                - Cardinality(StepsLeft("enterStore"))
              \in 0 .. CounterModulus - 1
<1>1. /\ Cardinality(StepsLeft("enterStore")) \in Nat
      /\ Cardinality(StepsLeft("exitStore")) \in Nat
      /\ Cardinality(Task) \in Nat
      /\ CounterModulus \in Nat /\ 2 * Cardinality(Task) < CounterModulus
  BY LeftIsFinite, CounterAssumption, FS_CardinalityType
<1>2. \A t \in Task, k \in 1 .. 16 :
        <<t, k>> \in StepsLeft("enterStore") =>
          <<t, Match(k)>> \in StepsLeft("exitStore")
  <2>1. ASSUME NEW t \in Task, NEW k \in 1 .. 16,
               <<t, k>> \in StepsLeft("enterStore")
        PROVE  <<t, Match(k)>> \in StepsLeft("exitStore")
    <3>1. /\ k <= Len(todo[t])
          /\ k \in IF target[t] = DelayedTasks THEN {15, 13} ELSE {9}
      BY <2>1, StoresAre
    <3>2. Len(todo[t]) \in Nat
      BY RestIsEnd DEF CallTypes
    <3>3. /\ Match(k) \in 1 .. 16 /\ Match(k) <= Len(todo[t])
          /\ Match(k) \in IF target[t] = DelayedTasks THEN {5, 1} ELSE {1}
      BY <3>1, <3>2 DEF Match
    <3> QED
      BY <3>3, StoresAre
  <2> QED
    BY <2>1
<1>3. Cardinality(StepsLeft("enterStore")) <= Cardinality(StepsLeft("exitStore"))
  BY <1>2, EntersHaveExits
<1>4. Cardinality(StepsLeft("exitStore")) <= 2 * Cardinality(Task)
  BY ExitsAreFew
<1> QED
  BY <1>1, <1>3, <1>4

\* The same of the next state.
LEMMA CountIsSmallNext ==
    CallTypes' => (Cardinality(StepsLeft("exitStore"))
                     - Cardinality(StepsLeft("enterStore"))
                   \in 0 .. CounterModulus - 1)'
<1>1. CallTypes => Cardinality(StepsLeft("exitStore"))
                     - Cardinality(StepsLeft("enterStore"))
                   \in 0 .. CounterModulus - 1
  BY CountIsSmall
<1> QED
  BY <1>1, PTL

\* Whoever is about to leave a section is counted.
LEMMA ExitIsCounted ==
    ASSUME CallTypes, NEW t \in Task, Step(t, "exitTest")
    PROVE  Cardinality(StepsLeft("exitStore"))
             - Cardinality(StepsLeft("enterStore")) # 0
<1> DEFINE A == StepsLeft("enterStore")
           B == StepsLeft("exitStore")
           C == B \ {<<t, 1>>}
<1>1. /\ target[t] \in {ReadyTasks, DelayedTasks}
      /\ Len(todo[t]) \in 1 .. Len(Script(target[t]))
      /\ StepAt(target[t], Len(todo[t])) = "exitTest"
  BY StepTaken
<1>2. Len(todo[t]) \in {7, 3}
  BY <1>1, ScriptSteps
<1>a. ASSUME NEW n, n \in {7, 3} PROVE 1 <= n /\ ~ (9 <= n)
  BY <1>a
<1>3. <<t, 1>> \in B
  <2>1. 1 <= Len(todo[t])
    BY <1>2, <1>a
  <2>2. 1 \in 1 .. 16 /\ 1 \in IF target[t] = DelayedTasks THEN {5, 1} ELSE {1}
    OBVIOUS
  <2> QED
    BY <2>1, <2>2, StoresAre
<1>4. ASSUME NEW u \in Task, NEW k \in 1 .. 16, <<u, k>> \in A
      PROVE  <<u, Match(k)>> \in C
  <2>1. /\ k <= Len(todo[u])
        /\ k \in IF target[u] = DelayedTasks THEN {15, 13} ELSE {9}
    BY <1>4, StoresAre
  <2>2. u # t
    <3>1. ASSUME NEW n \in Nat, k <= n,
                 k \in IF target[u] = DelayedTasks THEN {15, 13} ELSE {9}
          PROVE  9 <= n
      BY <3>1
    <3>2. Len(todo[u]) \in Nat
      BY RestIsEnd DEF CallTypes
    <3>3. 9 <= Len(todo[u])
      BY <2>1, <3>1, <3>2
    <3> QED
      BY <1>2, <1>a, <3>3
  <2>3. Len(todo[u]) \in Nat
    BY RestIsEnd DEF CallTypes
  <2>4. /\ Match(k) \in 1 .. 16 /\ Match(k) <= Len(todo[u])
        /\ Match(k) \in IF target[u] = DelayedTasks THEN {5, 1} ELSE {1}
    BY <2>1, <2>3 DEF Match
  <2>5. <<u, Match(k)>> \in B
    BY <2>4, StoresAre
  <2> QED
    BY <2>2, <2>5
<1>5. Cardinality(A) <= Cardinality(C)
  BY <1>4, EntersHaveExits
<1>6. /\ IsFiniteSet(B) /\ Cardinality(B) \in Nat /\ Cardinality(A) \in Nat
  BY LeftIsFinite
<1> HIDE DEF A, B
<1>7. Cardinality(C) = Cardinality(B) - 1
  BY <1>3, <1>6, FS_RemoveElement
<1>8. Cardinality(B) - Cardinality(A) # 0
  BY <1>5, <1>6, <1>7
<1> QED
  BY <1>8 DEF A, B

-----------------------------------------------------------------------------
\* The counter and the registers are unsigned ints; the rest is the claim.
Counted ==
    /\ nesting \in 0 .. CounterModulus - 1
    /\ loaded \in [Task -> 0 .. CounterModulus - 1]
    /\ raced \in BOOLEAN /\ trapped \in BOOLEAN
    /\ SectionsAreCounted
    /\ OnlyARaceTraps

\* A store is right if the counter is still what was loaded.
LEMMA StoreKeepsCount ==
    ASSUME CallTypes, CallTypes', Counted, NEW t \in Task, NEW step, NEW n,
           \/ step = "enterStore" /\ n = 1
           \/ step = "exitStore" /\ n = -1,
           Step(t, step), Store(t, n)
    PROVE  Counted'
<1> DEFINE k == Len(todo[t])
           A == StepsLeft("enterStore")
           B == StepsLeft("exitStore")
<1>1. /\ nesting' = (loaded[t] + n) % CounterModulus
      /\ raced' = (raced \/ loaded[t] # nesting)
      /\ loaded' = [loaded EXCEPT ![t] = 0]
      /\ trapped' = trapped
  BY DEF Store
<1>2. /\ CounterModulus \in Nat \ {0} /\ n \in Int
      /\ loaded[t] \in 0 .. CounterModulus - 1
  BY CounterAssumption, FS_CardinalityType DEF Counted
<1>3. /\ nesting' \in 0 .. CounterModulus - 1
      /\ loaded' \in [Task -> 0 .. CounterModulus - 1]
      /\ raced' \in BOOLEAN /\ trapped' \in BOOLEAN
  BY <1>1, <1>2 DEF Counted
<1>4. OnlyARaceTraps'
  BY <1>1 DEF Counted, OnlyARaceTraps
<1>5. /\ A' = A \ {<<t, k>>} /\ (<<t, k>> \in A <=> "enterStore" = step)
      /\ B' = B \ {<<t, k>>} /\ (<<t, k>> \in B <=> "exitStore" = step)
  BY StepLeaves
<1>6. /\ IsFiniteSet(A) /\ Cardinality(A) \in Nat
      /\ IsFiniteSet(B) /\ Cardinality(B) \in Nat
  BY LeftIsFinite
<1>7. Cardinality(B') - Cardinality(A') \in 0 .. CounterModulus - 1
  BY CountIsSmallNext
<1>8. SectionsAreCounted'
  <2>1. SUFFICES ASSUME ~ raced'
                 PROVE  nesting' = Cardinality(B') - Cardinality(A')
    BY DEF SectionsAreCounted
  <2>2. loaded[t] = nesting /\ nesting = Cardinality(B) - Cardinality(A)
    BY <1>1, <2>1 DEF Counted, SectionsAreCounted
  <2> HIDE DEF A, B, k
  <2>3. /\ Cardinality(A') = IF step = "enterStore" THEN Cardinality(A) - 1
                             ELSE Cardinality(A)
        /\ Cardinality(B') = IF step = "exitStore" THEN Cardinality(B) - 1
                             ELSE Cardinality(B)
    BY <1>5, <1>6, FS_RemoveElement
  <2>4. nesting + n = Cardinality(B') - Cardinality(A')
    BY <1>6, <2>2, <2>3
  <2> QED
    BY <1>1, <1>2, <1>7, <2>2, <2>4, SmallRemainder
<1> QED
  BY <1>3, <1>4, <1>8 DEF Counted

\* Any other step of a call leaves the counter and what it counts alone.
LEMMA OtherStepKeepsCount ==
    ASSUME CallTypes, CallTypes', Counted, NEW t \in Task, NEW step,
           Step(t, step), step \notin {"enterStore", "exitStore"},
           nesting' = nesting, raced' = raced,
           loaded' \in [Task -> 0 .. CounterModulus - 1],
           trapped' = IF step = "exitTest" THEN nesting = 0 ELSE trapped
    PROVE  Counted'
<1> DEFINE A == StepsLeft("enterStore")
           B == StepsLeft("exitStore")
<1>1. A' = A /\ B' = B
  <2>1. ASSUME NEW other \in {"enterStore", "exitStore"}
        PROVE  StepsLeft(other)' = StepsLeft(other)
    <3>1. /\ StepsLeft(other)' = StepsLeft(other) \ {<<t, Len(todo[t])>>}
          /\ <<t, Len(todo[t])>> \notin StepsLeft(other)
      BY <2>1, StepLeaves
    <3> QED
      BY <3>1
  <2> QED
    BY <2>1
<1>2. SectionsAreCounted'
  BY <1>1 DEF Counted, SectionsAreCounted
<1>3. OnlyARaceTraps'
  <2>1. CASE step = "exitTest"
    BY <2>1, ExitIsCounted DEF Counted, SectionsAreCounted, OnlyARaceTraps
  <2>2. CASE step # "exitTest"
    BY <2>2 DEF Counted, OnlyARaceTraps
  <2> QED
    BY <2>1, <2>2
<1>4. trapped' \in BOOLEAN
  BY DEF Counted
<1> QED
  BY <1>2, <1>3, <1>4 DEF Counted

\* Each step of a call keeps the counter right.
LEMMA CallStepKeepsCount ==
    ASSUME CallTypes, CallTypes', Counted, NEW t \in Task,
           CallStep(t) \/ Trigger(t)
    PROVE  Counted'
<1>1. CASE EnterLoad(t) \/ ExitLoad(t)
  <2>1. PICK step \in {"enterLoad", "exitLoad"} :
          /\ Step(t, step)
          /\ loaded' = [loaded EXCEPT ![t] = nesting]
          /\ nesting' = nesting /\ trapped' = trapped /\ raced' = raced
    BY <1>1 DEF EnterLoad, ExitLoad
  <2>2. loaded' \in [Task -> 0 .. CounterModulus - 1]
    BY <2>1 DEF Counted
  <2> QED
    BY <2>1, <2>2, OtherStepKeepsCount
<1>2. CASE EnterStore(t)
  BY <1>2, StoreKeepsCount DEF EnterStore
<1>3. CASE ExitStore(t)
  BY <1>3, StoreKeepsCount DEF ExitStore
<1>4. CASE ExitTest(t)
  BY <1>4, OtherStepKeepsCount DEF ExitTest, Counted
<1>5. CASE \/ SetTickDelay(t) \/ Find(t) \/ Erase(t) \/ Insert(t)
           \/ SetParent(t) \/ Trigger(t)
  <2>1. PICK step \in {"setTickDelay", "find", "erase", "insert", "setParent",
                       "trigger"} :
          /\ Step(t, step)
          /\ loaded' = loaded /\ nesting' = nesting /\ trapped' = trapped
          /\ raced' = raced
    BY <1>5 DEF SetTickDelay, Find, Erase, Insert, SetParent, Trigger
  <2> QED
    BY <2>1, OtherStepKeepsCount DEF Counted
<1> QED
  BY <1>1, <1>2, <1>3, <1>4, <1>5 DEF CallStep

\* Every step keeps the counter right until a stale value of it is stored.
LEMMA CountedNext ==
    ASSUME CallTypes, Counted, [SectionNext]_allVars
    PROVE  Counted'
<1>0. CallTypes'
  BY CallTypesNext
<1>1. CASE SchedulerStep \/ UNCHANGED allVars
  <2>1. UNCHANGED <<todo, target, loaded, nesting, trapped, raced>>
    BY <1>1, SchedulerStepIsNext DEF allVars, callVars
  <2> QED
    BY <2>1 DEF Counted, SectionsAreCounted, StepsLeft, OnlyARaceTraps
<1>2. ASSUME NEW t \in Task, NEW l \in {ReadyTasks, DelayedTasks},
             NEW n \in Nat, l = DelayedTasks => n \in Delays,
             Begin(t, Script(l), l, n)
      PROVE  Counted'
  <2>1. UNCHANGED <<loaded, nesting, trapped, raced>>
    BY <1>2 DEF Begin
  <2>2. Cardinality(StepsLeft("exitStore")')
          - Cardinality(StepsLeft("enterStore")')
        = Cardinality(StepsLeft("exitStore"))
          - Cardinality(StepsLeft("enterStore"))
    BY <1>0, <1>2, ScriptsAreBalanced
  <2> QED
    BY <2>1, <2>2 DEF Counted, SectionsAreCounted, OnlyARaceTraps
<1>3. ASSUME NEW t \in Task, CallStep(t) \/ Trigger(t) PROVE Counted'
  BY <1>0, <1>3, CallStepKeepsCount
<1> QED
  BY <1>1, <1>2, <1>3, SectionSteps

\* The counter is right when the program starts.
LEMMA CountedInit == SectionInit => Counted
<1> SUFFICES ASSUME SectionInit PROVE Counted
  OBVIOUS
<1>1. CallTypes
  BY CallTypesInit
<1>2. \A t \in Task : Len(todo[t]) = 0
  BY EmptySeq DEF SectionInit
<1>3. \A n \in 1 .. 16 : ~ (n \in 1 .. 0)
  OBVIOUS
<1>4. StepsLeft("enterStore") = {} /\ StepsLeft("exitStore") = {}
  <2>1. ASSUME NEW step PROVE StepsLeft(step) = {}
    <3>1. StepsLeft(step) =
            {u \in Task \X (1 .. 16) :
               u[2] \in 1 .. Len(todo[u[1]])
               /\ StepAt(target[u[1]], u[2]) = step}
      BY <1>1, LeftIs
    <3> QED
      BY <1>2, <1>3, <3>1
  <2> QED
    BY <2>1
<1>5. nesting = 0 /\ loaded = [t \in Task |-> 0] /\ ~ trapped /\ ~ raced
      /\ raced \in BOOLEAN /\ trapped \in BOOLEAN
  BY DEF SectionInit
<1>6. SectionsAreCounted
  <2>1. Cardinality({}) = 0
    BY FS_EmptySet
  <2> QED
    BY <1>4, <1>5, <2>1 DEF SectionsAreCounted
<1>7. 0 \in 0 .. CounterModulus - 1
  BY CounterAssumption, FS_CardinalityType
<1> QED
  BY <1>5, <1>6, <1>7 DEF Counted, OnlyARaceTraps

\* What is counted always is.
LEMMA CountedAlways == SectionSpec => []Counted
<1>1. SectionInit => CallTypes /\ Counted
  BY CallTypesInit, CountedInit
<1>2. CallTypes /\ Counted /\ [SectionNext]_allVars => (CallTypes /\ Counted)'
  BY CallTypesNext, CountedNext
<1> QED
  BY <1>1, <1>2, PTL DEF SectionSpec

\* criticalNestingCounter counts the sections entered and not left, those of
\* the tasks that were switched away from inside their sections included,
\* wherever ticks come, until a task stores a stale value of it; then it is
\* wrong for good, as the violated run shows.
THEOREM CounterCountsSections == SectionSpec => []SectionsAreCounted
<1>1. Counted => SectionsAreCounted
  BY DEF Counted
<1> QED
  BY <1>1, CountedAlways, PTL

\* ExitCriticalSection reaches its breakpoint() only after such a store: not
\* for any other order of switches, ticks, broken pushes and nested sections.
THEOREM OnlyRacesTrap == SectionSpec => []OnlyARaceTraps
<1>1. Counted => OnlyARaceTraps
  BY DEF Counted
<1> QED
  BY <1>1, CountedAlways, PTL

-----------------------------------------------------------------------------
(***************************************************************************)
(* Which tasks a broken push can lose.  Here nothing is known of the lists *)
(* but their types: an element may be linked twice, or not be on the list  *)
(* its parentList names.                                                   *)
(***************************************************************************)
\* Unlinking e drops nothing else.
LEMMA UnlinkDropsOne ==
    ASSUME NEW S, NEW s \in Seq(S), NEW e
    PROVE  /\ Unlink(s, e) \in Seq(S)
           /\ \A x : Contains(s, x) /\ x # e => Contains(Unlink(s, e), x)
<1> DEFINE r == Unlink(s, e)
<1>1. CASE ~ Contains(s, e)
  BY <1>1 DEF Unlink
<1>2. CASE Contains(s, e)
  <2> DEFINE i == Position(s, e)
  <2>1. i \in 1 .. Len(s) /\ s[i] = e
    BY <1>2 DEF Contains, Position
  <2>2. r = RemoveAt(s, i)
    BY <1>2 DEF Unlink
  <2> HIDE DEF i, r
  <2>3. /\ r \in Seq(S) /\ Len(s) \in Nat /\ Len(r) = Len(s) - 1
        /\ \A j \in 1 .. Len(s) - 1 : r[j] = IF j < i THEN s[j] ELSE s[j + 1]
    BY <2>1, <2>2, RemoveAtElements, LenProperties DEF Removed
  <2>4. ASSUME NEW x, Contains(s, x), x # e PROVE Contains(r, x)
    <3>1. PICK j \in 1 .. Len(s) : s[j] = x
      BY <2>4 DEF Contains
    <3>2. CASE j < i
      BY <2>1, <2>3, <3>1, <3>2 DEF Contains
    <3>3. CASE j > i
      <4>1. j - 1 \in 1 .. Len(s) - 1 /\ ~ (j - 1 < i) /\ (j - 1) + 1 = j
        BY <2>1, <2>3, <3>1, <3>3
      <4>2. r[j - 1] = x
        BY <2>3, <3>1, <4>1
      <4> QED
        BY <2>3, <4>1, <4>2 DEF Contains
    <3>4. j # i
      BY <2>1, <2>4, <3>1
    <3> QED
      BY <2>1, <3>2, <3>3, <3>4
  <2> QED
    BY <2>3, <2>4 DEF r
<1> QED
  BY <1>1, <1>2

\* Linking e, wherever, drops nothing.
LEMMA InsertDropsNone ==
    ASSUME NEW S, NEW s \in Seq(S), NEW i \in 1 .. Len(s) + 1, NEW e \in S
    PROVE  /\ InsertAt(s, i, e) \in Seq(S)
           /\ Contains(InsertAt(s, i, e), e)
           /\ \A x : Contains(s, x) => Contains(InsertAt(s, i, e), x)
<1> DEFINE r == InsertAt(s, i, e)
<1>1. /\ r \in Seq(S) /\ Len(s) \in Nat /\ Len(r) = Len(s) + 1
      /\ \A j \in 1 .. Len(s) + 1 :
           r[j] = IF j < i THEN s[j] ELSE IF j = i THEN e ELSE s[j - 1]
  BY InsertAtElements, LenProperties DEF Inserted
<1> HIDE DEF r
<1>2. Contains(r, e)
  BY <1>1 DEF Contains
<1>3. ASSUME NEW x, Contains(s, x) PROVE Contains(r, x)
  <2>1. PICK j \in 1 .. Len(s) : s[j] = x
    BY <1>3 DEF Contains
  <2>2. CASE j < i
    BY <1>1, <2>1, <2>2 DEF Contains
  <2>3. CASE ~ (j < i)
    <3>1. /\ j + 1 \in 1 .. Len(s) + 1 /\ ~ (j + 1 < i) /\ j + 1 # i
          /\ (j + 1) - 1 = j
      BY <1>1, <2>1, <2>3
    <3>2. r[j + 1] = x
      BY <1>1, <2>1, <3>1
    <3> QED
      BY <1>1, <3>1, <3>2 DEF Contains
  <2> QED
    BY <2>2, <2>3
<1> QED
  BY <1>1, <1>2, <1>3 DEF r

\* x is on some list.
OnList(q, x) == \E l \in List : Contains(q[l], x)

\* An erase drops its element at most.
LEMMA EraseDropsOne ==
    ASSUME NEW q \in [List -> Seq(Linkable)], NEW p, NEW e
    PROVE  /\ Erased(q, p, e) \in [List -> Seq(Linkable)]
           /\ \A x : OnList(q, x) /\ x # e => OnList(Erased(q, p, e), x)
<1> DEFINE r == Erased(q, p, e)
<1>1. r = [l \in List |-> IF p[e] = l THEN Unlink(q[l], e) ELSE q[l]]
  BY DEF Erased
<1>2. ASSUME NEW l \in List
      PROVE  /\ r[l] \in Seq(Linkable)
             /\ \A x : Contains(q[l], x) /\ x # e => Contains(r[l], x)
  <2>1. r[l] = IF p[e] = l THEN Unlink(q[l], e) ELSE q[l]
    BY <1>1
  <2> HIDE DEF r
  <2> QED
    BY <2>1, UnlinkDropsOne
<1>3. r \in [List -> Seq(Linkable)]
  BY <1>1, <1>2
<1> HIDE DEF r
<1>4. \A x : OnList(q, x) /\ x # e => OnList(r, x)
  BY <1>2 DEF OnList
<1> QED
  BY <1>3, <1>4 DEF r

\* A push drops nothing, and links its element.
LEMMA PushDropsNone ==
    ASSUME NEW q \in [List -> Seq(Linkable)], NEW p,
           NEW key \in [Linkable -> Nat], NEW l \in List, NEW e \in Linkable
    PROVE  /\ Pushed(q, p, key, l, e) \in [List -> Seq(Linkable)]
           /\ OnList(Pushed(q, p, key, l, e), e)
           /\ \A x : OnList(q, x) => OnList(Pushed(q, p, key, l, e), x)
<1> DEFINE r == Erased(q, p, e)
           u == Pushed(q, p, key, l, e)
           s == Link(r[l], key, e)
<1>1. r \in [List -> Seq(Linkable)]
      /\ \A x : OnList(q, x) /\ x # e => OnList(r, x)
  BY EraseDropsOne
<1>2. u = [r EXCEPT ![l] = s]
  BY DEF Pushed
<1> HIDE DEF r, u
<1>3. /\ s \in Seq(Linkable)
      /\ \A x : Contains(s, x) <=> Contains(r[l], x) \/ x = e
  BY <1>1, LinkElements
<1> HIDE DEF s
<1>4. u \in [List -> Seq(Linkable)]
      /\ u[l] = s /\ \A k \in List \ {l} : u[k] = r[k]
  BY <1>1, <1>2, <1>3
<1>5. OnList(u, e)
  BY <1>3, <1>4 DEF OnList
<1>6. ASSUME NEW x, OnList(r, x) PROVE OnList(u, x)
  <2>1. PICK k \in List : Contains(r[k], x)
    BY <1>6 DEF OnList
  <2>2. Contains(u[k], x)
    BY <1>3, <1>4, <2>1
  <2> QED
    BY <2>2 DEF OnList
<1> QED
  BY <1>1, <1>4, <1>5, <1>6 DEF u

-----------------------------------------------------------------------------
\* All that is needed of the scheduler's state is that it is one.
LinkTypes ==
    /\ queue \in [List -> Seq(Linkable)]
    /\ parent \in [Linkable -> List \cup {NoList}]
    /\ priority \in [Linkable -> Nat]
    /\ scan \in Seq(Linkable)
    /\ frame \in [Linkable -> Frame]

\* A step that keeps every task that is on a list on one, and puts those it
\* starts on one.
DropsNone ==
    /\ LinkTypes'
    /\ \A t \in Task : OnList(queue, t) => OnList(queue', t)
    /\ \A t \in Task : Started(t)' => Started(t) \/ OnList(queue', t)

\* What a step has to show that pushes one element and starts no other.
LEMMA PushIsKept ==
    ASSUME LinkTypes, NEW l \in List, NEW e \in Linkable, Push(l, e),
           priority' = priority, scan' \in Seq(Linkable),
           frame' \in [Linkable -> Frame],
           \A t \in Task : Started(t)' => Started(t) \/ t = e
    PROVE  DropsNone
<1>1. /\ queue' \in [List -> Seq(Linkable)]
      /\ OnList(queue', e)
      /\ \A x : OnList(queue, x) => OnList(queue', x)
  BY PushDropsNone DEF Push, LinkTypes
<1>2. parent' \in [Linkable -> List \cup {NoList}]
  BY DEF Push, LinkTypes
<1> QED
  BY <1>1, <1>2 DEF DropsNone, LinkTypes

\* What one has to show that leaves the lists and the tasks as they are.
LEMMA NothingIsDropped ==
    ASSUME LinkTypes, UNCHANGED lists,
           priority' \in [Linkable -> Nat], scan' \in Seq(Linkable),
           frame' \in [Linkable -> Frame],
           \A t \in Task : Started(t)' => Started(t)
    PROVE  DropsNone
  BY DEF DropsNone, LinkTypes, lists

\* No operation of the scheduler drops a task, whatever state the lists are
\* in that it finds.
LEMMA SchedulerStepDropsNone ==
    ASSUME LinkTypes, SchedulerStep
    PROVE  DropsNone
<1> USE TaskIsLinkable
<1>1. ASSUME NEW t \in Task, NEW n \in PriorityRange, SetPriority(t, n)
      PROVE  DropsNone
  <2>1. /\ lists' = lists /\ scan' = scan /\ frame' = frame
        /\ priority' = [priority EXCEPT ![t] = n]
    BY <1>1 DEF SetPriority, tick
  <2>2. priority' \in [Linkable -> Nat]
    BY <2>1, PriorityAssumption DEF LinkTypes
  <2> QED
    BY <2>1, <2>2, NothingIsDropped DEF LinkTypes, Started
<1>2. ASSUME NEW t \in Task, Start(t)
      PROVE  DropsNone
  <2>1. /\ Push(ReadyTasks, t) /\ priority' = priority /\ scan' = scan
        /\ frame' = [frame EXCEPT ![t] = "fresh"]
    BY <1>2 DEF Start, tick
  <2>2. frame' \in [Linkable -> Frame]
        /\ \A u \in Task : Started(u)' => Started(u) \/ u = t
    BY <2>1 DEF LinkTypes, Frame, Started
  <2> QED
    BY <2>1, <2>2, ListNames, PushIsKept DEF LinkTypes
<1>3. ASSUME NEW t \in Task, BlockReturn(t)
      PROVE  DropsNone
  <2>1. /\ lists' = lists /\ priority' = priority /\ scan' = scan
        /\ frame[t] = "blocked" /\ frame' = [frame EXCEPT ![t] = "running"]
    BY <1>3 DEF BlockReturn, tick
  <2>2. frame' \in [Linkable -> Frame]
        /\ \A u \in Task : Started(u)' => Started(u)
    BY <2>1 DEF LinkTypes, Frame, Started
  <2> QED
    BY <2>1, <2>2, NothingIsDropped DEF LinkTypes
<1>4. ASSUME NEW t \in Task, NEW l \in BlockList, Block(t, l)
      PROVE  DropsNone
  <2>1. /\ Push(l, t) /\ priority' = priority /\ scan' = scan
        /\ frame[t] = "running" /\ frame' = [frame EXCEPT ![t] = "blocked"]
    BY <1>4 DEF Block, InThread, tick
  <2>2. frame' \in [Linkable -> Frame]
        /\ \A u \in Task : Started(u)' => Started(u)
    BY <2>1 DEF LinkTypes, Frame, Started
  <2> QED
    BY <2>1, <2>2, ListNames, PushIsKept DEF LinkTypes
<1>5. ASSUME NEW l \in BlockList, Unblock(l)
      PROVE  DropsNone
  <2>1. /\ Push(ReadyTasks, Head(queue[l])) /\ queue[l] # <<>>
        /\ priority' = priority /\ scan' = scan /\ frame' = frame
    BY <1>5 DEF Unblock, UnblockTask, tick
  <2>2. Head(queue[l]) \in Linkable
    BY <2>1, ListNames, HeadTailProperties DEF LinkTypes
  <2> QED
    BY <2>1, <2>2, ListNames, PushIsKept DEF LinkTypes, Started
<1>6. CASE Tick
  <2>1. /\ lists' = lists /\ priority' = priority /\ frame' = frame
        /\ scan' = queue[DelayedTasks]
    BY <1>6 DEF Tick
  <2> QED
    BY <2>1, ListNames, NothingIsDropped DEF LinkTypes, Started
<1>7. CASE TickVisit
  <2>1. /\ scan # <<>> /\ scan' = Tail(scan)
        /\ priority' = priority /\ frame' = frame
        /\ Push(ReadyTasks, Head(scan)) \/ lists' = lists
    BY <1>7 DEF TickVisit
  <2>2. Head(scan) \in Linkable /\ scan' \in Seq(Linkable)
    BY <2>1, HeadTailProperties DEF LinkTypes
  <2>3. CASE Push(ReadyTasks, Head(scan))
    BY <2>1, <2>2, <2>3, ListNames, PushIsKept DEF LinkTypes, Started
  <2>4. CASE lists' = lists
    BY <2>1, <2>2, <2>4, NothingIsDropped DEF LinkTypes, Started
  <2> QED
    BY <2>1, <2>3, <2>4
<1>8. CASE SwitchContext
  <2>1. /\ lists' = lists /\ priority' = priority /\ scan' = scan
        /\ frame' = [frame EXCEPT ![current'] =
                       IF @ = "fresh" THEN "running" ELSE @]
    BY <1>8 DEF SwitchContext, tick
  <2>2. frame' \in [Linkable -> Frame]
        /\ \A u \in Task : Started(u)' => Started(u)
    BY <2>1 DEF LinkTypes, Frame, Started
  <2> QED
    BY <2>1, <2>2, NothingIsDropped DEF LinkTypes
<1>9. CASE BlockCall
  BY <1>3, <1>4, <1>9 DEF BlockCall
<1>10. CASE Interrupt
  BY <1>5, <1>6, <1>10 DEF Interrupt
<1> QED
  BY <1>1, <1>2, <1>7, <1>8, <1>9, <1>10 DEF SchedulerStep

-----------------------------------------------------------------------------
\* The inductive invariant: see OnlyAPushLosesTasks.
Kept ==
    /\ LinkTypes
    /\ \A t \in Task : Started(t) => OnList(queue, t) \/ NextIs(t, "insert")

\* What a step of a call has to show.
LEMMA StepKeepsTasks ==
    ASSUME CallTypes, Kept, NEW t \in Task, NEW step \in CallSteps,
           Step(t, step), LinkTypes', frame' = frame,
           \A u \in Task \ {t} : OnList(queue, u) => OnList(queue', u),
           (OnList(queue, t) /\ step # "erase") \/ step = "insert"
             => OnList(queue', t),
           step = "erase" => NextIs(t, "insert")'
    PROVE  Kept'
<1>1. \A u \in Task : u # t => todo'[u] = todo[u]
  BY StepTaken
<1>2. NextIs(t, "insert") => step = "insert"
  BY DEF Step, NextIs
<1>3. ASSUME NEW u \in Task, Started(u)'
      PROVE  OnList(queue', u) \/ NextIs(u, "insert")'
  <2>1. OnList(queue, u) \/ NextIs(u, "insert")
    BY <1>3 DEF Kept, Started
  <2>2. CASE u = t
    BY <1>2, <2>1, <2>2
  <2>3. CASE u # t
    BY <1>1, <2>1, <2>3 DEF NextIs
  <2> QED
    BY <2>2, <2>3
<1> QED
  BY <1>3 DEF Kept

\* A step that leaves the lists alone loses nobody.
LEMMA QuietStepKeepsTasks ==
    ASSUME CallTypes, Kept, NEW t \in Task,
           \/ EnterLoad(t) \/ EnterStore(t)
           \/ ExitTest(t) \/ ExitLoad(t) \/ ExitStore(t)
           \/ SetTickDelay(t) \/ Find(t) \/ SetParent(t) \/ Trigger(t)
    PROVE  Kept'
<1>1. PICK step \in CallSteps \ {"erase", "insert"} : Step(t, step)
  BY DEF EnterLoad, EnterStore, ExitTest, ExitLoad, ExitStore, SetTickDelay,
         Find, SetParent, Trigger, CallSteps
<1>2. UNCHANGED <<queue, priority, scan, frame>>
  BY DEF EnterLoad, EnterStore, Store, ExitTest, ExitLoad, ExitStore,
         SetTickDelay, Find, SetParent, Trigger, ListsOnly, vars, lists, tick
<1>3. parent' = parent \/ parent' = [parent EXCEPT ![t] = target[t]]
  BY DEF EnterLoad, EnterStore, Store, ExitTest, ExitLoad, ExitStore,
         SetTickDelay, Find, SetParent, Trigger, vars, lists
<1>4. target[t] \in List
  BY ListNames DEF CallTypes
<1>5. LinkTypes'
  BY <1>2, <1>3, <1>4 DEF Kept, LinkTypes
<1> QED
  BY <1>1, <1>2, <1>5, StepKeepsTasks

\* An erase leaves its own task to the insert that comes next.
LEMMA EraseKeepsTasks ==
    ASSUME CallTypes, CallTypes', Kept, NEW t \in Task, Erase(t)
    PROVE  Kept'
<1> DEFINE l == target[t]
<1>1. /\ Step(t, "erase") /\ queue' = Erased(queue, parent, t)
      /\ parent' = [parent EXCEPT ![t] = NoList]
      /\ UNCHANGED <<priority, scan, frame>>
  BY DEF Erase, ListsOnly, tick
<1>2. /\ queue' \in [List -> Seq(Linkable)]
      /\ \A x : OnList(queue, x) /\ x # t => OnList(queue', x)
  BY <1>1, EraseDropsOne DEF Kept, LinkTypes
<1>3. LinkTypes'
  BY <1>1, <1>2 DEF Kept, LinkTypes
<1>4. NextIs(t, "insert")'
  <2>1. /\ l \in {ReadyTasks, DelayedTasks} /\ target' = target
        /\ Len(todo[t]) \in 1 .. Len(Script(l))
        /\ StepAt(l, Len(todo[t])) = "erase"
        /\ Len(todo'[t]) = Len(todo[t]) - 1
    BY <1>1, StepTaken
  <2>2. Len(todo[t]) = BeforeSwitch(l, 7)
    BY <2>1, ScriptSteps
  <2>3. Len(todo'[t]) = BeforeSwitch(l, 6)
    BY <2>1, <2>2 DEF BeforeSwitch
  <2>4. BeforeSwitch(l, 6) \in {9, 6}
    BY DEF BeforeSwitch
  <2>5. IsRest(todo'[t], Script(l)) /\ todo'[t] # <<>>
    <3>1. IsRest(todo'[t], Script(target'[t]))
      BY DEF CallTypes
    <3>2. Len(<<>>) = 0 /\ Len(todo'[t]) # 0
      BY <2>3, <2>4, EmptySeq
    <3> QED
      BY <2>1, <3>1, <3>2
  <2>6. /\ Len(todo'[t]) \in 1 .. Len(Script(l))
        /\ Head(todo'[t]) = StepAt(l, Len(todo'[t]))
    BY <2>1, <2>5, RestGoesOn
  <2>7. Head(todo'[t]) = "insert"
    BY <2>1, <2>3, <2>6, ScriptSteps
  <2> QED
    BY <2>5, <2>7 DEF NextIs
<1>5. "erase" \in CallSteps
  BY DEF CallSteps
<1> QED
  BY <1>1, <1>2, <1>3, <1>4, <1>5, StepKeepsTasks

\* An insert links its task, whatever has become of the element its iterator
\* refers to.
LEMMA InsertKeepsTasks ==
    ASSUME CallTypes, Kept, NEW t \in Task, Insert(t)
    PROVE  Kept'
<1> DEFINE linked == {k \in List : Contains(queue[k], place[t])}
           l == IF linked = {} THEN target[t] ELSE CHOOSE k \in linked : TRUE
           i == IF linked = {} THEN Len(queue[l]) + 1
                               ELSE Position(queue[l], place[t])
           s == InsertAt(queue[l], i, t)
<1>1. /\ Step(t, "insert") /\ queue' = [queue EXCEPT ![l] = s]
      /\ UNCHANGED <<parent, priority, scan, frame>>
  BY DEF Insert, ListsOnly, tick
<1>2. queue \in [List -> Seq(Linkable)] /\ t \in Linkable
  BY TaskIsLinkable DEF Kept, LinkTypes
<1>3. l \in List /\ i \in 1 .. Len(queue[l]) + 1
  <2>1. CASE linked = {}
    <3>1. l = target[t] /\ target[t] \in List /\ i = Len(queue[l]) + 1
      BY <2>1, ListNames DEF CallTypes
    <3> HIDE DEF l
    <3>2. Len(queue[l]) \in Nat
      BY <1>2, <3>1, LenProperties
    <3> QED
      BY <3>1, <3>2
  <2>2. CASE linked # {}
    <3>1. l \in linked /\ i = Position(queue[l], place[t])
      BY <2>2
    <3>2. l \in List /\ Contains(queue[l], place[t])
      BY <3>1
    <3> HIDE DEF l
    <3>3. Position(queue[l], place[t]) \in 1 .. Len(queue[l])
      BY <3>2 DEF Contains, Position
    <3>4. Len(queue[l]) \in Nat
      BY <1>2, <3>2, LenProperties
    <3> QED
      BY <3>1, <3>2, <3>3, <3>4
  <2> QED
    BY <2>1, <2>2
<1> HIDE DEF l, i
<1>4. /\ s \in Seq(Linkable) /\ Contains(s, t)
      /\ \A x : Contains(queue[l], x) => Contains(s, x)
  BY <1>2, <1>3, InsertDropsNone
<1> HIDE DEF s
<1>5. /\ queue' \in [List -> Seq(Linkable)]
      /\ queue'[l] = s /\ \A k \in List \ {l} : queue'[k] = queue[k]
  BY <1>1, <1>2, <1>3, <1>4
<1>6. /\ OnList(queue', t)
      /\ \A x : OnList(queue, x) => OnList(queue', x)
  BY <1>3, <1>4, <1>5 DEF OnList
<1>7. LinkTypes'
  BY <1>1, <1>5 DEF Kept, LinkTypes
<1>8. "insert" \in CallSteps
  BY DEF CallSteps
<1> QED
  BY <1>1, <1>6, <1>7, <1>8, StepKeepsTasks

\* No step loses any other task.
LEMMA KeptNext ==
    ASSUME CallTypes, Kept, [SectionNext]_allVars
    PROVE  Kept'
<1>0. CallTypes'
  BY CallTypesNext
<1>1. CASE SchedulerStep
  <2>1. DropsNone /\ todo' = todo
    BY <1>1, SchedulerStepDropsNone, SchedulerStepIsNext DEF Kept
  <2> QED
    BY <2>1 DEF Kept, DropsNone, NextIs
<1>2. ASSUME NEW t \in Task, NEW l \in {ReadyTasks, DelayedTasks},
             NEW n \in Nat, l = DelayedTasks => n \in Delays,
             Begin(t, Script(l), l, n)
      PROVE  Kept'
  <2>1. /\ vars' = vars /\ todo[t] = <<>>
        /\ \A u \in Task : u # t => todo'[u] = todo[u]
    BY <1>2 DEF Begin, AtLarge, CallTypes
  <2>2. ~ NextIs(t, "insert")
    BY <2>1 DEF NextIs
  <2>3. \A u \in Task : NextIs(u, "insert") => NextIs(u, "insert")'
    BY <2>1, <2>2 DEF NextIs
  <2> QED
    BY <2>1, <2>3 DEF Kept, LinkTypes, vars, Started
<1>3. ASSUME NEW t \in Task, CallStep(t) \/ Trigger(t)
      PROVE  Kept'
  BY <1>0, <1>3, QuietStepKeepsTasks, EraseKeepsTasks, InsertKeepsTasks
     DEF CallStep
<1>4. CASE UNCHANGED allVars
  BY <1>4 DEF allVars, vars, callVars, Kept, LinkTypes, Started, NextIs
<1> QED
  BY <1>1, <1>2, <1>3, <1>4, SectionSteps

\* No application task is started when the program starts.
LEMMA KeptInit == SectionInit => Kept
<1> SUFFICES ASSUME SectionInit PROVE Kept
  OBVIOUS
<1>1. Init /\ Lists
  BY ListsInit DEF SectionInit
<1>2. LinkTypes
  BY <1>1 DEF Lists, TypeOK, LinkTypes
<1>3. \A t \in Task : ~ Started(t)
  BY <1>1, TasksAssumption, TaskIsLinkable DEF Init, Started
<1> QED
  BY <1>2, <1>3 DEF Kept

\* The one task that a push broken by a tick can lose is the one that was
\* cut off in it, between its erase and its insert.  No other push and no tick
\* loses a task, in whatever state they find the lists and with whatever their
\* iterators refer to by then.
THEOREM OnlyBrokenPushesLose == SectionSpec => []OnlyAPushLosesTasks
<1>1. SectionInit => CallTypes /\ Kept
  BY CallTypesInit, KeptInit
<1>2. CallTypes /\ Kept /\ [SectionNext]_allVars => (CallTypes /\ Kept)'
  BY CallTypesNext, KeptNext
<1>3. Kept => OnlyAPushLosesTasks
  BY DEF Kept, OnList, OnlyAPushLosesTasks
<1> QED
  BY <1>1, <1>2, <1>3, PTL DEF SectionSpec
==============================================================================
