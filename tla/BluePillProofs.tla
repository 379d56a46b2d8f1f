---------------------------- MODULE BluePillProofs ----------------------------
(***************************************************************************)
(* Theorems about BluePill, for any delays, number of columns, counter and *)
(* width of the clock: RealMain is left at the first tick and not before.  *)
(***************************************************************************)
EXTENDS BluePill, SynchronisationProofs

\* Whatever the application does to the kernel is a step of the semaphore or
\* of the scheduler below it.
LEMMA BluePillStepIsSemaphoreStep ==
    ASSUME [BluePillNext]_allBluePillVars PROVE [SemaphoreNext]_allVars
<1>a. /\ task1 \in Task /\ task2 \in Task
      /\ temperatureValueSemaphore \in BlockList
      /\ BlinkDelay \in Delays /\ ColumnDelay \in Delays
      /\ 0 \in PriorityRange /\ 1 \in PriorityRange /\ 1 \in ReleaseCounts
  BY BluePillAssumption
<1>1. CASE RealMain
  <2>1. SchedulerStep
    BY <1>a, <1>1 DEF RealMain, SchedulerStep
  <2> QED
    BY <2>1 DEF SemaphoreNext
<1>2. CASE Task1
  <2>1. SchedulerStep
    BY <1>a, <1>2 DEF Task1, SchedulerStep
  <2> QED
    BY <2>1 DEF SemaphoreNext
<1>3. CASE Task2
  <2>1. CASE Task2Start
    BY <2>1 DEF Task2Start
  <2>2. CASE Task2Acquire
    BY <1>a, <2>2 DEF Task2Acquire, SemaphoreNext
  <2>3. CASE Task2Acquired
    BY <1>a, <2>3 DEF Task2Acquired, SemaphoreNext
  <2>4. CASE Task2Column
    <3>1. SchedulerStep
      BY <1>a, <2>4 DEF Task2Column, SchedulerStep
    <3> QED
      BY <3>1 DEF SemaphoreNext
  <2> QED
    BY <1>3, <2>1, <2>2, <2>3, <2>4 DEF Task2
<1>4. CASE ConvCpltCallback
  BY <1>a, <1>4 DEF ConvCpltCallback, SemaphoreNext
<1>5. CASE Releasing
  BY <1>a, <1>5 DEF Releasing, SemaphoreNext
<1>6. CASE Handler
  <2>1. SchedulerStep
    BY <1>6 DEF Handler, SchedulerStep
  <2> QED
    BY <2>1 DEF SemaphoreNext
<1>7. CASE UNCHANGED allBluePillVars
  BY <1>7 DEF allBluePillVars
<1> QED
  BY <1>1, <1>2, <1>3, <1>4, <1>5, <1>6, <1>7 DEF BluePillNext

\* The application uses the kernel as Semaphore says it is used, so every
\* theorem about the semaphore and the scheduler holds of it.
LEMMA BluePillRefinesSemaphore == BluePillSpec => SemaphoreSpec
<1>1. BluePillInit => SemaphoreInit
  BY DEF BluePillInit
<1> QED
  BY <1>1, BluePillStepIsSemaphoreStep, PTL
     DEF BluePillSpec, SemaphoreSpec

-----------------------------------------------------------------------------
\* As long as RealMain runs, no task has run, nothing is delayed or released,
\* and a switch is pending only after the first tick.
MainIsUndisturbed ==
    current = Main =>
        /\ ~ sampling /\ NotReleasing
        /\ scan = <<>> /\ queue[DelayedTasks] = <<>>
        /\ systicks = IF pendSV THEN 1 ELSE 0

\* Only a switch takes the core from RealMain, and none gives it back.
LEMMA OnlyASwitchLeavesMain ==
    ASSUME Lists, [BluePillNext]_allBluePillVars, current' # current
    PROVE  SwitchContext /\ current' # Main
<1>1. SwitchContext
  BY DEF BluePillNext, RealMain, SetPriority, Start, Task1, Task2, Task2Start,
         Task2Acquire, Task2Acquired, Task2Column, ConvCpltCallback, Releasing,
         Handler, Delay, Acquire, TakeToken, Block, AcquireReturn, BlockReturn,
         Release, InternalRelease, Unblock, UnblockTask, Tick, TickVisit,
         allBluePillVars, allVars, vars
<1>2. current' \in Linkable
  BY <1>1, HeadOfList, ListNames DEF SwitchContext, Linkable
<1> QED
  BY <1>1, <1>2, TasksAssumption

\* Every step leaves RealMain undisturbed, or leaves it.
LEMMA MainIsUndisturbedNext ==
    ASSUME Lists, Safe, MainIsUndisturbed, [BluePillNext]_allBluePillVars
    PROVE  MainIsUndisturbed'
<1> SUFFICES ASSUME current' = Main
             PROVE  /\ ~ sampling' /\ NotReleasing'
                    /\ scan' = <<>> /\ queue'[DelayedTasks] = <<>>
                    /\ systicks' = IF pendSV' THEN 1 ELSE 0
  BY DEF MainIsUndisturbed
<1>1. /\ current = Main
      /\ ~ sampling /\ NotReleasing
      /\ scan = <<>> /\ queue[DelayedTasks] = <<>>
      /\ systicks = IF pendSV THEN 1 ELSE 0
  BY OnlyASwitchLeavesMain DEF MainIsUndisturbed
<1>2. task1 # Main /\ task2 # Main /\ task1 \in Linkable /\ task2 \in Linkable
  BY BluePillAssumption, TasksAssumption, TaskIsLinkable
<1>3. CASE RealMain
  <2>1. /\ UNCHANGED <<scan, systicks, pendSV, left, sampling>>
        /\ \/ queue' = queue
           \/ \E t \in Linkable : Push(ReadyTasks, t)
    BY <1>2, <1>3 DEF RealMain, SetPriority, Start, lists, tick, semaphoreVars
  <2>3. \A t \in Linkable : Push(ReadyTasks, t) => queue'[DelayedTasks] = <<>>
    BY <1>1, PushKeepsEmpty, ListNames, ListsAssumption
  <2> QED
    BY <1>1, <2>1, <2>3 DEF NotReleasing
<1>4. ~ Task1 /\ ~ Task2 /\ ~ ConvCpltCallback
  BY <1>1, <1>2 DEF Task1, Task2, Task2Start, Task2Acquire, Task2Acquired,
                    Task2Column, ConvCpltCallback, Delay, InThread, Acquire,
                    AcquireReturn, BlockReturn
<1>5. ~ Releasing
  BY <1>1, BluePillAssumption DEF Releasing, InternalRelease, NotReleasing
<1>6. CASE Handler
  <2>1. Tick /\ UNCHANGED <<left, sampling>>
    <3>1. ~ TickVisit
      BY <1>1 DEF TickVisit
    <3>2. ~ SwitchContext
      BY HeadOfList, ListNames, TasksAssumption DEF SwitchContext, Linkable
    <3> QED
      BY <1>6, <3>1, <3>2 DEF Handler, semaphoreVars, appVars
  <2>2. queue[ReadyTasks] # <<>>
    BY SomeoneIsReady DEF Safe
  <2>3. systicks = 0 /\ systicks' = (0 + 1) % TickModulus
    BY <1>1, <2>1 DEF Tick, NoException
  <2>4. systicks' = 1
    BY <2>3, BluePillAssumption, TimeAssumption
  <2> QED
    BY <1>1, <2>1, <2>2, <2>4 DEF Tick, NotReleasing, lists
<1>7. CASE UNCHANGED allBluePillVars
  BY <1>1, <1>7 DEF allBluePillVars, allVars, vars, lists, tick, semaphoreVars,
                    appVars, NotReleasing
<1> QED
  BY <1>3, <1>4, <1>5, <1>6, <1>7 DEF BluePillNext

\* RealMain is left at the first tick and not before: nothing it does gives
\* the core away.
THEOREM RealMainRunsUntilATick == BluePillSpec => RealMainIsLeftByATick
<1>1. BluePillInit => MainIsUndisturbed
  BY ListNames, ListsAssumption
     DEF BluePillInit, SemaphoreInit, Init, MainIsUndisturbed, NotReleasing
<1>2. Lists /\ MainIsUndisturbed /\ [BluePillNext]_allBluePillVars
        => [current = Main /\ current' # Main => systicks = 1]_allBluePillVars
  BY OnlyASwitchLeavesMain DEF MainIsUndisturbed, SwitchContext
<1> QED
  BY <1>1, <1>2, MainIsUndisturbedNext, BluePillRefinesSemaphore, CountersAlways,
     PTL DEF BluePillSpec, RealMainIsLeftByATick
=============================================================================
