------------------------------ MODULE Scheduler ------------------------------
(***************************************************************************)
(* kernel::Scheduler (lib/kernel): task start, yield, delay, block and     *)
(* unblock, the system tick and the context switch, on one core whose      *)
(* exception handlers all have priority 0.                                 *)
(*                                                                         *)
(* Atomicity.  Handlers of equal priority do not preempt each other, and a *)
(* PendSV that is pending runs before a pending SysTick or device          *)
(* interrupt and before the interrupted thread; so every other step waits  *)
(* for ~pendSV, and between two steps PRIMASK is 0.  A thread operation is *)
(* one step: what InterruptMasking protects is one by construction, what   *)
(* ScopedCriticalSection brackets (Add excepted, which brackets nothing)   *)
(* is one only if no interrupt cuts it short, which the code does not see  *)
(* to: module CriticalSection has it interrupted anywhere.  The tick       *)
(* handler visits the delayed tasks one step at a time, and nothing runs   *)
(* in between.                                                             *)
(***************************************************************************)
EXTENDS SortedIntrusiveList

CONSTANTS
    Task,           \* the application's StaticTasks
    Idle,           \* Scheduler::idleTask
    Main,           \* the MainThread that runs RealMain
    BlockList,      \* the lists handed to Block
    ReadyTasks,     \* Scheduler::readyTasksV2
    DelayedTasks,   \* Scheduler::delayedTasksV2
    NoList,         \* a null parentList
    PriorityRange,  \* the numbers application tasks are given as priority
    IdlePriority,   \* UINT32_MAX - 1 in the code
    TickModulus,    \* 2^32 in the code: systicks and tickDelay are uint32_t
    Delays,         \* the arguments of DelayTask
    Interval,       \* RunnableTask::interval of each task
    LatePriority    \* the application sets priorities of started tasks, too

List == BlockList \cup {ReadyTasks, DelayedTasks}

\* The TCBs that can be linked; MainThread's never is, it has no Start.
Linkable == Task \cup {Idle}
TCB == Linkable \cup {Main}

ASSUME TasksAssumption == Idle \notin Task /\ Main \notin Linkable

ASSUME ListsAssumption ==
    /\ ReadyTasks # DelayedTasks
    /\ {ReadyTasks, DelayedTasks} \cap BlockList = {}
    /\ NoList \notin List

\* Application tasks are more urgent than the idle task; TaskBase starts
\* every TCB with priority 0.
ASSUME PriorityAssumption ==
    /\ IdlePriority \in Nat
    /\ 0 \in PriorityRange
    /\ \A n \in PriorityRange : n \in Nat /\ n < IdlePriority

ASSUME TimeAssumption ==
    /\ TickModulus \in Nat \ {0}
    /\ Delays \subseteq 0 .. TickModulus - 1
    /\ Interval \in [Linkable -> 0 .. TickModulus - 1]

ASSUME LatePriorityAssumption == LatePriority \in BOOLEAN

VARIABLES
    queue,       \* what each list links
    parent,      \* TaskControlBlock::parentList
    priority,    \* TaskControlBlock::minimumPriority
    current,     \* Scheduler::currentTaskControlBlock
    pendSV,      \* PENDSVSET: a context switch has been requested
    held,        \* the handler or masked section that requested it still runs
    systicks,    \* Scheduler::systicks
    tickDelay,   \* RunnableTask::tickDelay
    scan,        \* Tick: the delayed tasks its iterator has still to visit
    mustSwitch,  \* Tick: the local of that name
    frame,       \* what the task's stack holds: see Frame
    hook,        \* TaskControlBlock::unblockHook is set
    reason       \* Block: the local unblockReason the hook writes to

\* Not initialised yet; the initial frame, never switched to; the task's own
\* code; a call of Scheduler::Block.
Frame == {"created", "fresh", "running", "blocked"}

Reason == {"Undefined", "Request"}

lists == <<queue, parent>>
tick == <<systicks, scan, mustSwitch>>
block == <<hook, reason>>
vars == <<queue, parent, priority, current, pendSV, held, systicks, tickDelay,
          scan, mustSwitch, frame, hook, reason>>

Started(t) == frame[t] # "created"

\* Mutant: the ctor does not set the idle task's priority.
NoInitialPriority == [t \in Linkable |-> 0]

\* The ctor's Priority(UINT32_MAX - 1) for the idle task; TaskBase gives 0.
InitialPriority == [t \in Linkable |-> IF t = Idle THEN IdlePriority ELSE 0]

\* Scheduler::Scheduler has run: the idle task is started, MainThread is the
\* current task and is on no list.
Init ==
    /\ queue = [l \in List |-> IF l = ReadyTasks THEN <<Idle>> ELSE <<>>]
    /\ parent = [t \in Linkable |-> IF t = Idle THEN ReadyTasks ELSE NoList]
    /\ priority = InitialPriority
    /\ current = Main
    /\ pendSV = FALSE
    /\ held = FALSE
    /\ systicks = 0
    /\ tickDelay = [t \in Linkable |-> 0]
    /\ scan = <<>>
    /\ mustSwitch = FALSE
    /\ frame = [t \in Linkable |-> IF t = Idle THEN "fresh" ELSE "created"]
    /\ hook = [t \in Linkable |-> FALSE]
    /\ reason = [t \in Linkable |-> "Undefined"]

-----------------------------------------------------------------------------
\* Mutant: push does not set parentList after its erase cleared it.
PushForgetsParent(l, t) ==
    /\ queue' = Pushed(queue, parent, priority, l, t)
    /\ parent' = [parent EXCEPT ![t] = NoList]

\* SortedIntrusiveList::push and ::transfer on list l: see Pushed.
Push(l, t) ==
    /\ queue' = Pushed(queue, parent, priority, l, t)
    /\ parent' = [parent EXCEPT ![t] = l]

\* No handler is running and none is about to: interrupted code goes on.
NoException == ~pendSV /\ scan = <<>>

\* The current task executes its own code.  The idle task only waits, and a
\* task inside Block finishes that call first.
InThread(t) == NoException /\ t \in Task /\ current = t /\ frame[t] = "running"

\* Code that may start tasks: RealMain's, or a task's.
InMainOrThread == NoException /\ (current = Main \/ \E t \in Task : InThread(t))

-----------------------------------------------------------------------------
\* Mutant: the priority of a task that is linked is changed.
SetPriorityAnyTime(t, n) ==
    /\ InMainOrThread
    /\ priority' = [priority EXCEPT ![t] = n]
    /\ UNCHANGED <<lists, current, held, pendSV, tick, tickDelay, frame, block>>

\* TaskControlBlock::Priority(n).  The list of a linked task is not sorted
\* again; RealMain sets the priorities before it calls Start (~LatePriority).
SetPriority(t, n) ==
    /\ InMainOrThread
    /\ LatePriority \/ frame[t] = "created"
    /\ priority' = [priority EXCEPT ![t] = n]
    /\ UNCHANGED <<lists, current, held, pendSV, tick, tickDelay, frame, block>>

\* Mutant: starting a task requests a switch.
StartWithSwitch(t) ==
    /\ InMainOrThread
    /\ frame[t] = "created"
    /\ frame' = [frame EXCEPT ![t] = "fresh"]
    /\ Push(ReadyTasks, t)
    /\ pendSV' = TRUE
    /\ UNCHANGED <<priority, current, held, tick, tickDelay, block>>

\* TaskBase::Start, Scheduler::Add: no switch is requested, however urgent the
\* new task is.
Start(t) ==
    /\ InMainOrThread
    /\ frame[t] = "created"
    /\ frame' = [frame EXCEPT ![t] = "fresh"]
    /\ Push(ReadyTasks, t)
    /\ UNCHANGED <<priority, current, held, pendSV, tick, tickDelay, block>>

\* Scheduler::Yield() when t is the current task, Yield(TaskControlBlock&)
\* when it is another started one, on whatever list that is.
Yield(caller, t) ==
    /\ InThread(caller)
    /\ Started(t)
    /\ Push(ReadyTasks, t)
    /\ pendSV' = TRUE
    /\ UNCHANGED <<priority, current, held, tick, tickDelay, frame, block>>

\* Mutant: the sum is not cut to uint32_t.
PushDelayedWide(t, n) ==
    /\ tickDelay' = [tickDelay EXCEPT ![t] = systicks + n]
    /\ Push(DelayedTasks, t)

\* What both DelayTask(ticks) and DelayTask(TaskControlBlock&, ticks) do.
PushDelayed(t, n) ==
    /\ tickDelay' = [tickDelay EXCEPT ![t] = (systicks + n) % TickModulus]
    /\ Push(DelayedTasks, t)

\* Mutant: DelayTask(ticks) without its TriggerTaskSwitch.
DelayWithoutSwitch(t, n) ==
    /\ InThread(t)
    /\ PushDelayed(t, n)
    /\ UNCHANGED <<priority, current, held, pendSV, tick, frame, block>>

\* DelayTask(ticks).
Delay(t, n) ==
    /\ InThread(t)
    /\ PushDelayed(t, n)
    /\ pendSV' = TRUE
    /\ UNCHANGED <<priority, current, held, tick, frame, block>>

\* DelayTask(TaskControlBlock&, ticks) on a task that is not running: no
\* switch is needed, and none is requested.
DelayOther(caller, t, n) ==
    /\ InThread(caller)
    /\ t # caller /\ Started(t)
    /\ PushDelayed(t, n)
    /\ UNCHANGED <<priority, current, held, pendSV, tick, frame, block>>

\* Scheduler::Block up to the switch ForceContextSwitch lets happen.
Block(t, l) ==
    /\ InThread(t)
    /\ Push(l, t)
    /\ hook' = [hook EXCEPT ![t] = TRUE]
    /\ reason' = [reason EXCEPT ![t] = "Undefined"]
    /\ frame' = [frame EXCEPT ![t] = "blocked"]
    /\ pendSV' = TRUE
    /\ UNCHANGED <<priority, current, held, tick, tickDelay>>

\* Scheduler::Block after that switch, up to its return: nothing but the
\* frame changes, and BlockStatus says what it returns.
BlockReturn(t) ==
    /\ NoException
    /\ current = t /\ frame[t] = "blocked"
    /\ frame' = [frame EXCEPT ![t] = "running"]
    /\ UNCHANGED <<lists, priority, current, held, pendSV, tick, tickDelay, block>>

\* The status Block returns.  Nobody unblocks with the reason Timeout.
BlockStatus(t) == IF reason[t] = "Request" THEN "Ok" ELSE "Interrupted"

\* Mutants: UnblockHook does not clear the hook; Unblock without the
\* TriggerTaskSwitch the source marks with "?? maybe".
UnblockTaskKeepsHook(t) ==
    /\ Push(ReadyTasks, t)
    /\ hook' = hook
    /\ reason' = IF hook[t] THEN [reason EXCEPT ![t] = "Request"] ELSE reason
    /\ pendSV' = TRUE

UnblockTaskWithoutSwitch(t) ==
    /\ Push(ReadyTasks, t)
    /\ hook' = [hook EXCEPT ![t] = FALSE]
    /\ reason' = IF hook[t] THEN [reason EXCEPT ![t] = "Request"] ELSE reason
    /\ pendSV' = pendSV

\* InternalUnblock and TaskControlBlock::UnblockHook: the hook is cleared,
\* then called if it was set.
UnblockTask(t) ==
    /\ Push(ReadyTasks, t)
    /\ hook' = [hook EXCEPT ![t] = FALSE]
    /\ reason' = IF hook[t] THEN [reason EXCEPT ![t] = "Request"] ELSE reason
    /\ pendSV' = TRUE

\* Scheduler::Unblock, which its callers call with the front of a block list;
\* from a thread or, like main.cpp's HAL_ADC_ConvCpltCallback, from an
\* interrupt, whatever task that interrupts.  The caller may call it again
\* before the switch is taken: it has interrupts masked, or is a handler.
Unblock(l) ==
    /\ NoException \/ held
    /\ queue[l] # <<>>
    /\ UnblockTask(Head(queue[l]))
    /\ held' = TRUE
    /\ UNCHANGED <<priority, current, tick, tickDelay, frame>>

-----------------------------------------------------------------------------
\* Mutant: Tick asks for no switch when nothing is delayed.
TickWithoutSwitch ==
    /\ NoException
    /\ systicks' = (systicks + 1) % TickModulus
    /\ scan' = queue[DelayedTasks]
    /\ mustSwitch' = FALSE
    /\ pendSV' = FALSE
    /\ UNCHANGED <<lists, priority, current, held, tickDelay, frame, block>>

\* SysTick_Handler and Scheduler::Tick up to the loop: with nothing delayed
\* it asks for a switch whenever a task is ready.
Tick ==
    /\ NoException
    /\ systicks' = (systicks + 1) % TickModulus
    /\ scan' = queue[DelayedTasks]
    /\ mustSwitch' = FALSE
    /\ pendSV' = (queue[DelayedTasks] = <<>> /\ queue[ReadyTasks] # <<>>)
    /\ UNCHANGED <<lists, priority, current, held, tickDelay, frame, block>>

\* Mutant: < for <=.
ExpiredLate(t) == tickDelay[t] < systicks

\* The test of the loop's if.
Expired(t) == tickDelay[t] <= systicks

\* Mutants of the loop: the iterator is advanced after the task was moved, and
\* goes on in the list the task is on now; the loop stops at the first task
\* that has not expired, as if the list were ordered by time.
TickVisitStaleIterator ==
    /\ scan # <<>>
    /\ LET t == Head(scan)
           ready == queue'[ReadyTasks]
       IN /\ \/ /\ Expired(t)
                 /\ Push(ReadyTasks, t)
                 /\ tickDelay' = [tickDelay EXCEPT ![t] = 0]
                 /\ mustSwitch' = TRUE
                 /\ scan' = SubSeq(ready, Position(ready, t) + 1, Len(ready))
              \/ /\ ~Expired(t)
                 /\ UNCHANGED <<lists, tickDelay, mustSwitch>>
                 /\ scan' = Tail(scan)
    /\ pendSV' = (scan' = <<>> /\ mustSwitch')
    /\ UNCHANGED <<priority, current, held, systicks, frame, block>>

TickVisitStopsEarly ==
    /\ scan # <<>>
    /\ LET t == Head(scan) IN
         \/ /\ Expired(t)
            /\ Push(ReadyTasks, t)
            /\ tickDelay' = [tickDelay EXCEPT ![t] = 0]
            /\ mustSwitch' = TRUE
            /\ scan' = Tail(scan)
         \/ /\ ~Expired(t)
            /\ UNCHANGED <<lists, tickDelay, mustSwitch>>
            /\ scan' = <<>>
    /\ pendSV' = (scan' = <<>> /\ mustSwitch')
    /\ UNCHANGED <<priority, current, held, systicks, frame, block>>

\* One turn of the loop; the last one ends the handler.
TickVisit ==
    /\ scan # <<>>
    /\ LET t == Head(scan) IN
         /\ \/ /\ Expired(t)
               /\ Push(ReadyTasks, t)
               /\ tickDelay' = [tickDelay EXCEPT ![t] =
                                  IF Interval[t] # 0
                                  THEN (systicks + Interval[t]) % TickModulus
                                  ELSE 0]
               /\ mustSwitch' = TRUE
            \/ /\ ~Expired(t)
               /\ UNCHANGED <<lists, tickDelay, mustSwitch>>
    /\ scan' = Tail(scan)
    /\ pendSV' = (scan' = <<>> /\ mustSwitch')
    /\ UNCHANGED <<priority, current, held, systicks, frame, block>>

\* Mutant: SwitchContext leaves a task the core as long as it is ready.
SwitchContextKeepsReady ==
    /\ pendSV
    /\ pendSV' = FALSE
    /\ held' = FALSE
    /\ current' = IF current # Main /\ parent[current] = ReadyTasks
                  THEN current ELSE Head(queue[ReadyTasks])
    /\ frame' = [frame EXCEPT ![current'] = IF @ = "fresh" THEN "running" ELSE @]
    /\ UNCHANGED <<lists, priority, tick, tickDelay, block>>

\* PendSV_Handler and Scheduler::SwitchContext.  MainThread's stack pointer is
\* saved as well, but its TCB is not linked.
SwitchContext ==
    /\ pendSV
    /\ pendSV' = FALSE
    /\ held' = FALSE
    /\ current' = IF queue[ReadyTasks] # <<>> THEN Head(queue[ReadyTasks])
                                              ELSE Idle
    /\ frame' = [frame EXCEPT ![current'] = IF @ = "fresh" THEN "running" ELSE @]
    /\ UNCHANGED <<lists, priority, tick, tickDelay, block>>

-----------------------------------------------------------------------------
Next ==
    \/ \E t \in Task, n \in PriorityRange : SetPriority(t, n)
    \/ \E t \in Task : Start(t) \/ BlockReturn(t)
    \/ \E caller, t \in Task : Yield(caller, t)
    \/ \E t \in Task, n \in Delays : Delay(t, n)
    \/ \E caller, t \in Task, n \in Delays : DelayOther(caller, t, n)
    \/ \E t \in Task, l \in BlockList : Block(t, l)
    \/ \E l \in BlockList : Unblock(l)
    \/ Tick
    \/ TickVisit
    \/ SwitchContext

\* The operations other than block and unblock, which belong to whatever
\* component owns the block lists.
PlainStep ==
    \/ \E t \in Task, n \in PriorityRange : SetPriority(t, n)
    \/ \E t \in Task : Start(t)
    \/ \E caller, t \in Task : Yield(caller, t)
    \/ \E t \in Task, n \in Delays : Delay(t, n)
    \/ \E caller, t \in Task, n \in Delays : DelayOther(caller, t, n)
    \/ Tick
    \/ TickVisit
    \/ SwitchContext

Spec == Init /\ [][Next]_vars

\* A handler that has begun runs to its end, and a pending PendSV is taken.
\* The SysTick exception stays pending in the NVIC while another handler runs
\* and is taken before any thread goes on, so however often PendSV gets in
\* between, it is taken in the end: strong fairness.  Threads promise nothing.
Fairness ==
    /\ WF_vars(TickVisit)
    /\ WF_vars(SwitchContext)
    /\ SF_vars(Tick)

FairSpec == Spec /\ Fairness

-----------------------------------------------------------------------------
\* The type invariant.
TypeOK ==
    /\ queue \in [List -> Seq(Linkable)]
    /\ parent \in [Linkable -> List \cup {NoList}]
    /\ priority \in [Linkable -> Nat]
    /\ current \in TCB
    /\ pendSV \in BOOLEAN
    /\ held \in BOOLEAN
    /\ systicks \in 0 .. TickModulus - 1
    /\ tickDelay \in [Linkable -> 0 .. TickModulus - 1]
    /\ scan \in Seq(Linkable)
    /\ mustSwitch \in BOOLEAN
    /\ frame \in [Linkable -> Frame]
    /\ hook \in [Linkable -> BOOLEAN]
    /\ reason \in [Linkable -> Reason]

\* A TCB is linked exactly once on the list its parentList names and on no
\* other, although five operations and an interrupt handler move it around
\* (SortedIntrusiveList::push, erase, transfer).
ListsConsistent == Consistent(queue, parent)

\* Every list stays ordered by priority, if priorities are set before Start:
\* top relies on it to find the most urgent task (SortedIntrusiveList::push).
ListsOrdered ==
    ~LatePriority => \A l \in List : Ordered(queue[l], priority)

\* No sequence of operations drops a started task: it is on some list, so
\* something can make it run again.  A task that was not started is on none
\* (Scheduler::Add, Yield, Block, Unblock, Tick, DelayTask).
NoTaskLost == \A t \in Linkable : Started(t) <=> parent[t] # NoList

\* The idle task is always the last ready task, so SwitchContext finds a task
\* at the top, its else branch is dead, and idling means nobody else is ready.
IdleIsLastReady ==
    /\ queue[ReadyTasks] # <<>>
    /\ Last(queue[ReadyTasks]) = Idle

\* The task whose code runs is a ready task: nothing blocks, delays or forgets
\* the current task without requesting the switch that takes it off the core
\* (the TriggerTaskSwitch calls of scheduler.cpp).
RunningTaskIsReady ==
    ~pendSV /\ current # Main => parent[current] = ReadyTasks

\* Preemption by priority: while a task's code runs, only tasks that were
\* started and never yet ran are ahead of it.  Add requests no switch, every
\* other operation that can put a task ahead of the running one does.
OnlyFreshTasksWait ==
    NoException /\ current # Main =>
        \A t \in Linkable : Precedes(queue[ReadyTasks], t, current)
                               => frame[t] = "fresh"

\* Unblock calls a hook that writes to a local variable of the Block call that
\* set it.  Whoever waits on a block list is inside that call, its hook is set,
\* and it has not been told a reason; and inside Block the reason is known
\* exactly when the hook is spent, so Block returns Ok if and only if Unblock
\* chose the task (Scheduler::Block, TaskControlBlock::UnblockHook).
HookPointsToLiveFrame ==
    \A t \in Linkable :
        /\ parent[t] \in BlockList => frame[t] = "blocked" /\ hook[t]
        /\ frame[t] = "blocked" => (hook[t] <=> BlockStatus(t) # "Ok")

\* The tasks Tick's iterator has still to visit are on the list it iterates
\* over, in that order and to its end: erasing the visited task does not
\* divert it (Scheduler::Tick).
IteratorStaysValid ==
    scan # <<>> => IsSuffix(scan, queue[DelayedTasks])

\* When the tick handler is done, no delayed task is left whose time has come,
\* whatever the order of the list, which is by priority and not by time.
TickLeavesNoneExpired ==
    [][scan # <<>> /\ scan' = <<>> =>
         \A t \in Linkable : parent'[t] = DelayedTasks => ~Expired(t)']_vars

\* Equal priorities are served first come first served: no task overtakes a
\* ready task of its own or a higher priority, but the one that is yielded
\* falls behind; if priorities are set before Start.
FifoAmongEquals ==
    [][~LatePriority =>
         \A s, t \in Linkable :
            /\ Precedes(queue[ReadyTasks], s, t)
            /\ Precedes(queue[ReadyTasks], t, s)'
            => pendSV' /\ \E caller \in Task : Yield(caller, s)]_vars

\* A delay ends, also when systicks wraps around while the task waits and when
\* other tasks delay it again and again: when systicks is at its greatest value
\* every tickDelay has expired (Scheduler::Tick).
DelayEnds ==
    \A t \in Task : parent[t] = DelayedTasks ~> parent[t] # DelayedTasks

\* The most urgent ready task gets the core, or stops being the most urgent:
\* even when it was only started, and when each tick finds delayed tasks but
\* none of them expired and so requests no switch (Scheduler::Add, Tick).
TopTaskRuns ==
    \A t \in Task :
        Head(queue[ReadyTasks]) = t ~>
            (current = t \/ Head(queue[ReadyTasks]) # t)
=============================================================================
