# A TLA+ model of dtos

dtos is a small preemptive kernel for Cortex-M3 boards (`lib/kernel`), with one
application on it, a Blue Pill that samples a temperature sensor
(`target/bluepill`).  This directory holds TLA+ modules translated from that
code, TLC configurations that check them on small instances, and theorems about
them that TLAPS checks for every size.

There is no document beside the code that says what the kernel promises.  The
properties here are read off the code, its few comments, its assertions
(`breakpoint()`) and its callers.

## 1. Inventory

Paths are relative to the repository; `kernel/` is `lib/kernel/src/kernel/`,
`port/` is `lib/kernel/port/stm32f103/src/kernel/port/impl/`.

| Component | State | Operations | What makes it correct |
|---|---|---|---|
| Sorted intrusive list (`SortedIntrusiveList.hpp`, `kernel/taskList.*`) | the nodes inside the TCBs, `parentList` of each TCB | push, transfer, erase, front/top | a TCB is on one list, once, and `parentList` names it; a list is ordered by priority, equals in order of arrival |
| Scheduler (`kernel/scheduler.*`, `taskControlBlock.*`, `task.*`) | ready and delayed lists, current task, `systicks`; per task priority, `tickDelay`, `interval`, unblock hook, stack | Start/Add, Yield, DelayTask, Block, Unblock, Tick, SwitchContext, Priority | no task is lost; the running task is ready and none more urgent waits; delays end; a hook is called only into a live frame |
| Critical section (`kernel/criticalsection.*`) | `criticalNestingCounter` | Enter, Exit | the counter counts open sections; what a section brackets is atomic |
| Interrupt masking (`kernel/interruptMasking.hpp`, `kernel/basepri.hpp`, `port/interruptMasking.cpp`, `kernel/port/triggerTaskSwitch.cpp`) | PRIMASK (or BASEPRI) and the saved values on the stacks | InterruptMasking, InterruptUnmasking, ForceContextSwitch | nested sections restore what they found; a task comes back from a switch masked as it left |
| Semaphore (`kernel/synchronisation/semaphore.*`) | `counter`, `maxCounter`, `blockedList` | Acquire, TryAcquire, Release(count) | no lost wake-up, tokens conserved, most urgent waiter first |
| Mutex (`kernel/synchronisation/mutex.*`) | `owner`, `blockedList` | Lock, Unlock | one owner; Unlock hands over to the most urgent waiter; Lock tells its caller so |
| Heap (`kernel/container/heap.hpp`) | slots with a free list threaded through them, `nextFree`, `blockList` | Claim, TryClaim, Release | a slot has one owner; no slot leaks; a waiter gets the released slot |
| Fifo (`kernel/synchronisation/fifo.hpp`) | four pointers, two semaphores | Push, Pop | what is popped is what was pushed, in order (it is not, see section 4; no caller yet) |
| Boot and main thread (`target/bluepill/src/main.cpp` RealMain, `startup.cpp`, `kernel/mainthread.*`) | `kernelInstance`, the main thread's TCB | RealMain | every task is started before the main thread is left for good |
| Blue Pill application (`target/bluepill/src/main.cpp`, with `HAL_ADC_Start_DMA` and the DMA handlers of the HAL) | `ping`, `readIndex`, `data`, one semaphore; the DMA handle's state and lock | task1, task2, `HAL_ADC_ConvCpltCallback` | task2 averages one complete transfer; acquisition does not stall |
| Data model (`lib/hal/src/hal/datamodel.hpp`) | values, lists of listeners | assignment, Notify, Attach, Detach | no listener misses the last change |
| Stacks (`kernel/stack.*`, `port/stackframe*`, `port/svcHandler.cpp`) | saved stack pointer, initial frame | Initialize | see *Not modelled* |
| SpinLock, Windows port, port services, vendored code | | | see *Not modelled* |

How they interact.  Threads call the kernel directly; there are no messages.
Everything shared lives in the lists of the scheduler and of the semaphores,
and in the flags of the core: `TriggerTaskSwitch` sets PENDSVSET, and
`PendSV_Handler` calls `SwitchContext` once no handler runs and PRIMASK is 0.
`SysTick_Handler` calls `Scheduler::Tick` and requests a switch if that returns
true.  `HAL_ADC_ConvCpltCallback` releases a semaphore from the DMA interrupt.
`Scheduler::Block` leaves a callback in the TCB that refers to its own locals,
which `Unblock` calls, in another thread or an interrupt.

What is hard here: interrupts and switches between any two instructions that
are not masked; a thread suspended in the middle of a kernel call (Block, and
every call that triggers a switch in a critical section); a handler that edits
the list it iterates over; callbacks into another thread's stack; a clock that
wraps around.  `PROJECT.json` lists these hazards one by one, with the line
where each bites and the properties that cover it.

## 2. Plan

The order is that of importance: first what every other component relies on.

| Module | Models | Composes | State |
|---|---|---|---|
| `SortedIntrusiveList` | the list, as pure operators | | checked, proved |
| `Scheduler` | the scheduler, its handlers | `SortedIntrusiveList` | checked, proved |
| `CriticalSection` | DelayTask and Yield at the grain of interrupts; refines `Scheduler` until one breaks a push | `Scheduler` | checked, proved |
| `Semaphore` | Semaphore, by the scheduler's actions | `Scheduler` | checked, proved |
| `Mutex` | Mutex, likewise | `Scheduler` | checked, proved |
| `Heap` | the free list, the claim inside the hook | `Scheduler` | checked, proved |
| `InterruptMasking` | PRIMASK, nested scopes, ForceContextSwitch: the atomicity the modules above assume | | checked, proved |
| `DelayTiming` | how long a delay lasts, to the tick, for `systicks + ticks` in w bits | `Scheduler` | checked, proved |
| `Acquisition` | the ADC's DMA, its interrupts, the callback, the double buffer | | checked, proved |
| `BluePill` | RealMain, task1, task2, the callback, by the semaphore's actions | `Semaphore` | checked, proved |
| `Fifo` | FifoBase over two semaphores | `Semaphore` | checked, proved |
| `DataModel` | assignment, notification, listeners | | checked, proved |

The proofs are in modules of their own, which extend the modules they are about:

| Module | Proves about |
|---|---|
| `SchedulerProofs` | `SortedIntrusiveList`, `Scheduler` |
| `DelayTaskProofs` | `DelayTiming`, `CriticalSection` |
| `SynchronisationProofs` | `Semaphore`, `Mutex` |
| `FifoProofs`, `BluePillProofs` | `Fifo`, `BluePill`, on top of `SynchronisationProofs` |
| `HeapProofs` | `Heap` |
| `InterruptProofs` | `InterruptMasking`, `Acquisition` |
| `DataModelProofs` | `DataModel` |

Every safety invariant that a passing run checks is a theorem, and so is every
action property and the refinement.  What is left to TLC is liveness; what a theorem
could still add is listed at the end of section 5.

## 3. The modules

**`SortedIntrusiveList`** has operators on two functions: `q`, what each list
links, and `p`, each element's `parentList`.  `Pushed` is `push` (and
`transfer`, whose first erase makes the one in `push` a no-op): the place is
the first element with a strictly greater number (`StopsAt`, found before the
erase, as `find_if` is), `Erased` unlinks the element from the list its
`parentList` names.  A list that erases an element it does not hold, or links
one twice, corrupts memory in the code; here it shows as a violation of
`Consistent`.  `infra::IntrusiveList` is not in the repository (a git
submodule) and is taken as the sequence its use implies.

**`Scheduler`** is the core.  Variables carry the source's names: `queue` and
`parent` are the lists, `priority` is `minimumPriority`, `current` is
`currentTaskControlBlock`, `systicks`, `tickDelay`, `mustSwitch`, `hook`
(`unblockHook` is set), `reason` (Block's local `unblockReason`).  `pendSV` is
PENDSVSET, `held` says that the masked code or handler that set it still runs,
`scan` is what `Tick`'s iterator has still to visit, and `frame` is what a
task's stack holds: nothing, the initial frame, its own code, or a call of
Block.

| Action | Code |
|---|---|
| `SetPriority` | `TaskControlBlock::Priority(n)` |
| `Start` | `TaskBase::Start`, `Scheduler::Add`, `Stack::Initialize` |
| `Yield` | both `Scheduler::Yield` |
| `Delay`, `DelayOther` | `DelayTask(ticks)`, `DelayTask(TaskControlBlock&, ticks)` |
| `Block`, `BlockReturn` | `Scheduler::Block` before and after its `ForceContextSwitch` |
| `Unblock` | `Scheduler::Unblock` of the front of a block list, by a thread or an interrupt |
| `Tick`, `TickVisit` | `SysTick_Handler` and `Scheduler::Tick`: the entry, and one turn of its loop |
| `SwitchContext` | `PendSV_Handler` and `Scheduler::SwitchContext` |

Atomicity.  All exceptions have priority 0 (`TICK_INT_PRIORITY`, the CubeMX
project and `adc.c`/`dma.c` say so, PendSV has its reset value), so handlers do
not preempt each other, and of two that are pending the one with the lower
exception number goes first: PendSV before SysTick before any device.  Hence
every step but `TickVisit`, `SwitchContext` and further `Unblock`s of the code
that has requested a switch waits for `~pendSV`.  Block and Unblock mask
interrupts.  DelayTask and Yield only believe they do: see `CriticalSection`.

**`CriticalSection`** takes DelayTask and Yield apart into the steps between
which an interrupt can come: the load and the store of
`criticalNestingCounter`, and the four steps of `push`.  `EnterCriticalSection`
calls `port::DisableInterruptMasking`, which *enables* interrupts; so a tick, or
an interrupt that unblocks a task, can come between any two steps, and
`TriggerTaskSwitch` switches at once, inside the section.  `DelayScript` and
`YieldScript` spell the two calls out, DelayTask with the section of the overload
it calls inside its own; `todo` holds what is left of a task's script, and
`StepsLeft(step)` where a step is still to come: a section is open while more
exits than entries are left.  `raced` says that a task has stored a counter it
had loaded before others changed it, `disturbed` that something came in the
middle of a push.  `SectionsAreAtomic` is the refinement
`INSTANCE Scheduler WITH queue <- ...`: until its trigger a call shows the lists
as they were (`before`), then as they are; it holds until `disturbed`.  The other
properties go on after that: pushes then work with each other's half linked
elements and stale iterators, as in the code.  Two cases have no counterpart in
sequences and end the model there: an insert in front of an element that is on no list,
and an element linked twice (`Expressible`).

**`Semaphore`** extends `Scheduler`; every block list is the `blockedList` of
one semaphore.  `Acquire`/`AcquireReturn` are the two halves of `Acquire`
around Block, `Release` and `InternalRelease` the turns of the loop in
`Release(count)`.  `acquiring` and `owed` are history: who is in Acquire, and
tokens put in but not yet taken out.

**`Mutex`** extends `Scheduler` likewise.  A turn of Lock's loop takes a free
mutex or blocks (`LockTurn`); after Block, `LockReturn` ends Lock when Unlock
chose the task, though Lock then returns `Undefined` where the fast path returns
`Ok`, and `LockRetry` goes round again when something else made it ready.
`DoUnlock` makes the first waiter the owner before it runs.  `holds` is who
believes to own a mutex.  `OwnersUnlock` says that tasks unlock what they hold,
and only that; `NobodyWaitsForAFreeMutex` holds without it.

**`Heap`** has the slots of the buffer, each with an element or the index of the
next free slot.  When a task waits, `Release` frees the slot and the waiter's
unblock hook claims it at once, in the releasing task: `FreeSlot` leaves the
free list as it was and writes the waiter's local `tptr`.  `uses` says who works
with which element, `misused` that somebody released one it did not use.

**`InterruptMasking`** shows what the modules above take for granted: that
masked code, up to the switch inside Block, is one step.  A kernel call is a
script of steps (open a scope, restore, trigger, access shared state), taken
from the callers; `scopes` holds the PRIMASK value each scope saved on its
context's stack.  An interrupt or PendSV can come between any two steps while
PRIMASK is 0, and PendSV picks any thread.

**`DelayTiming`** adds to `Scheduler` the conversion of a duration to ticks and
`toGo`, a countdown that starts at `DelayLength`: what the sum in w bits and the
`<=` in `Tick` come to.

**`BluePill`** is the whole application on `Semaphore`: RealMain statement by
statement with ticks between any two, both task functions by their kernel calls,
and the ADC's callback, which releases the semaphore in an interrupt.
**`Acquisition`** is the other half of it, below the semaphore: the DMA channel
(`left` is CNDTR, `target` CMAR), the HAL's handle with its lock, the interrupt
flags one by one, the callback, and task2's two separate reads of `readIndex`.
`whole` are the buffers with the samples of one transfer.

**`Fifo`** is `PushPop` on two semaphores, with its one pointer as an offset.
**`DataModel`** has a stack of frames per thread, since a listener's function
may assign again, and another thread may assign between any two steps: nothing
in `datamodel.hpp` is locked.

`MC*.tla` define the finite constants, `*Proofs.tla` hold theorems.  Operators
marked *Mutant* are plausible bugs (a lost erase, `<` for `<=`, a missing
`TriggerTaskSwitch`); nothing uses them.  Each property is violated when one of
them takes the place of the operator it is a variant of.

## 4. Runs

| Run | Instance | Shows |
|---|---|---|
| `scheduler` (`MCDelayTiming.cfg`) | 2 tasks, 1 block list, clock of 4, every delay, an interval task, priorities changed at any time; 386 000 states | `TypeOK`, `ListsConsistent`, `NoTaskLost`, `IdleIsLastReady`, `RunningTaskIsReady`, `HookPointsToLiveFrame`, `DelaysAreExact` |
| `scheduler_three` | 3 interchangeable tasks, clock of 3, priorities set before Start; 1.5 million states | `ListsOrdered`, `OnlyFreshTasksWait`, `IteratorStaysValid`, `TickLeavesNoneExpired`, `FifoAmongEquals` |
| `critical_section` | 2 interchangeable tasks, 1 block list, clock of 2, a tick or an unblocking interrupt between any two steps; 1.4 million states | `SectionsAreCounted`, `OnlyARaceTraps`, `OnlyAPushLosesTasks`, `SectionsAreAtomic` |
| `critical_section_interrupted` | the same | **violates** `ExitFindsCounter` |
| `semaphore` | 2 tasks, 1 semaphore of 1 to 2 tokens, Release(1) and Release(2) from tasks and interrupts, fair; 54 000 states | `NobodyWaitsForAToken`, `TokensAreConserved`, `MostUrgentIsServed`, `GrantedTaskReturns`, `DelayEnds`, `TopTaskRuns` |
| `mutex` | 3 tasks, 1 mutex, fair; 48 000 states | `OneOwner`, `NobodyWaitsForAFreeMutex`, `UnhinderedOwnerUnlocks` |
| `heap` | 3 interchangeable tasks, 2 slots, any task releases any slot; 1.2 million states | `ElementsAreExclusive`, `NobodyWaitsForAFreeSlot`, `FreeListIsSound` |
| `interrupt_masking` | 3 threads and a handler, fair; 5 500 states | `PrimaskFollowsScopes`, `AccessIsExclusive`, `ReasonIsReadAfterSwitch`, `RequestedSwitchHappens` |
| `acquisition` | transfers of 10 samples, semaphore of 10, as in the code, fair; 22 700 states | `AverageIsOfOneTransfer`, `AcquisitionGoesOn`, `DisplayIsUpdated` |
| `blue_pill` | both tasks, delays of 3 and 2, 3 columns, clock of 5, fair; 11 500 states | `RealMainIsLeftByATick`, `StartedTasksRun` |
| `fifo` | 3 interchangeable tasks, 2 places, 4 Pushes and 4 Pops; 28 800 states | `PlacesAreConserved` |
| `data_model` | 2 threads, 3 listeners, 2 values, assignments nested twice | `NobodyIsLeftBehind` |

Bounds and why they are enough.  Two tasks and the idle task give every pair of
a running, a ready, a delayed and a blocked task, and an interrupt between any
two operations; what needs two tasks on one list beside a third (the order of a
list, FIFO, an iterator with something before and behind it, two waiters and an
owner) has three.  Priorities are two numbers below the idle task's: smaller,
equal and greater all occur.  `IdlePriority = 2` stands for `UINT32_MAX - 1`;
only the order counts, and that application priorities are below it is an
assumption (`PriorityAssumption`).  The clock has 2 to 5 values instead of 2^32
so that it wraps around many times while tasks wait; where the length of a delay
matters it has at least 3, the smallest on which a delay can start before and
end after the wrap.  `mutex`, `heap` and `fifo` have no delays at all; in the
first two a waiter is taken off its list by `Yield` of another task.  Two slots
are the fewest for which the order of the free list matters.  `acquisition` has
the code's own numbers.  `blue_pill` scales 1000 and 5 ticks down to 3 and 2 and
the six columns to three; what counts is that task2 goes on sooner than task1
and waits more than once per sample.  The three threads of `interrupt_masking`
let one be switched away from inside Block while a second is as well and a third
runs.  Two quantities are unbounded in the code and bounded by a guard: how
often Push and Pop are called (`MaxAccesses`, twice around the buffer) and how
deep assignments nest (`MaxDepth`).  No run has a state constraint.  Symmetry is
used in `scheduler_three`, `critical_section`, `heap`, `fifo` and `data_model`,
where the tasks, threads or listeners are interchangeable and no liveness is
checked.

`critical_section` has a clock of 2, since no property there is about how long a
delay lasts, and counts sections modulo 5, the fewest for two tasks in two
sections each.  It allows a deadlock because the model ends at the breakpoint and
where `Expressible` says.

The one violation.  `ExitCriticalSection` has a branch that runs into a
breakpoint when the counter is zero.  With a tick in a section, one task loads
the counter, another one goes through a whole section, the first stores its stale
value; a later exit finds zero (`criticalsection.cpp:12` and `28-31`).
`OnlyARaceTraps` says that nothing else leads there.  The worse consequence of
the same line is not an assertion in the code: a task that is taken off the core
between the erase and the insert of its own push is on no list, and no switch
comes back to it.  `OnlyAPushLosesTasks` says that no task is lost in any other
way, short of the two cases in which the links are no sequences any more, where
the model ends.

Fairness.

- `Scheduler!Fairness`: a loop that has begun goes on (`TickVisit`) and a
  pending PendSV is taken (`SwitchContext`), which is what the core does; and
  SysTick is taken again and again (`Tick`), strongly fair because PendSV, which
  can be pending every time a tick could come, only delays it: it stays pending
  in the NVIC.  Threads promise nothing: a task may compute for ever.
- `SemaphoreFairness` adds that masked loops end, that a requested switch is
  taken after however many releases, and that interrupts leave the running task
  time to come back from Block.
- `MutexFairness` is the same, and the application's part: a task that holds a
  mutex and runs again and again unlocks it at some time.
- `InterruptMasking!Fairness`: a context that can run again and again finishes
  the call it is in, a handler returns, a pending PendSV is taken.
- `Acquisition!Fairness`: the timer triggers conversions, a pending interrupt is
  taken, and task2, the most urgent task, runs when it has something to do.  A
  bus error is never forced.  The run allows a deadlock because the system does
  stop there: after a bus error nothing starts the channel again.
- `BluePillFairness`: SysTick and the DMA interrupt come again and again and
  leave the threads time; strong for the threads because each can be interrupted
  any number of times.  Neither task computes without end, unlike tasks in
  general.

Facts worth knowing, which the properties and their counterexamples brought out.

- `DelayEnds` holds although the comparison in `Tick` is not wrap-safe: when
  `systicks` is at its maximum, every `tickDelay` is `<=` it, so then at the
  latest every delayed task is woken.  `DelayLength` says when: a sum that
  wrapped is due at the very next tick, and otherwise a delay of n takes exactly
  n ticks (0 counts as 1).  Just before the clock wraps around it is the other
  way: a sum that wraps lasts n, and 0 waits for the whole 2^32 ticks.
- `OnlyFreshTasksWait` is as strong as it can be: `Add` requests no switch.
- `SysTick` runs since `HAL_Init`.  A tick before RealMain has built the
  scheduler dereferences a null pointer (`scheduler.cpp:46`,
  `systickHandler.cpp`); this is before the initial state of `BluePill`.  A tick
  later in RealMain leaves it for good, since the main thread is on no list, and
  what was not started by then never is.  `StartedTasksRun` promises no more
  than that.
- The samples come every 277.8 us, a transfer takes 2.78 ms, and task2 shows for
  about 30 ms: the semaphore stands at its maximum of 10, and task2 averages at
  an arbitrary phase of the transfers, so one may well complete while it does.
  It reads `readIndex` once for `begin()` and once for `end()`; in between the
  iterators can come to be in different arrays.  `AverageIsOfOneTransfer` holds
  except then (`swapped`).
- `HAL_ADC_Start_DMA` ignores the `HAL_BUSY` of `HAL_DMA_Start_IT`, which it
  would get if the handle were still locked; `AcquisitionGoesOn` shows it never
  is.
- `FifoBase` does not work as a buffer: it passes `storageStart` by reference for
  reading and for writing (`fifo.hpp:30`, `36`), so Push and Pop advance the same
  pointer, and at the end of the buffer `PushPop` sets it to itself (`57-60`), so
  the next access is past the end; `readPointer` and `writePointer` are never
  used.  `Advanced` has it so, and no property is about what is read; the counting
  around it is right (`PlacesAreConserved`).
- A `Mutex::Lock` that had to wait returns `Undefined` although it has the
  mutex.

## 5. Theorems

For every value of the constants that satisfies the assumptions named below:
any tasks and block lists, priorities, delays, intervals, width of the clock,
counters, sizes, transfers, threads and listeners.

| Theorem | States |
|---|---|
| `ListsAreConsistent` | `Spec => [](TypeOK /\ ListsConsistent)` |
| `SchedulerIsTyped` | `Spec => []TypeOK` |
| `TasksAreNeverLost` | `Spec => []NoTaskLost` |
| `RunningTasksAreReady` | `Spec => []RunningTaskIsReady` |
| `HooksPointToLiveFrames` | `Spec => []HookPointsToLiveFrame` |
| `ListsAreOrdered` | `Spec => []ListsOrdered` |
| `IdleIsAlwaysLastReady` | `Spec => []IdleIsLastReady` |
| `IteratorIsAlwaysValid` | `Spec => []IteratorStaysValid` |
| `TicksWakeWhoExpired` | `Spec => TickLeavesNoneExpired` |
| `OnlyFreshTasksEverWait` | `Spec => []OnlyFreshTasksWait` |
| `EqualsAreServedInOrder` | `Spec => FifoAmongEquals` |
| `DelaysLastAsLongAsTheySay` | `TimingSpec => DelaysAreExact` |
| `SectionsActAtOnce` | `SectionSpec => SectionsAreAtomic` |
| `CounterCountsSections` | `SectionSpec => []SectionsAreCounted` |
| `OnlyRacesTrap` | `SectionSpec => []OnlyARaceTraps` |
| `OnlyBrokenPushesLose` | `SectionSpec => []OnlyAPushLosesTasks` |
| `CountersStayInRange` | `SemaphoreSpec => []SemaphoreTypeOK` |
| `NoWakeUpIsLost` | `SemaphoreSpec => []NobodyWaitsForAToken` |
| `TokensAreNeverLost` | `SemaphoreSpec => []TokensAreConserved` |
| `MostUrgentIsServedFirst` | `SemaphoreSpec => MostUrgentIsServed` |
| `PlacesAreNeverLost` | `FifoSpec => []PlacesAreConserved` |
| `RealMainRunsUntilATick` | `BluePillSpec => RealMainIsLeftByATick` |
| `MutexesAreTyped` | `MutexSpec => []MutexTypeOK` |
| `NoHandOverIsLost` | `MutexSpec => []NobodyWaitsForAFreeMutex` |
| `MostUrgentIsNext` | `MutexSpec => MostUrgentTakesOver` |
| `OneOwnerEach` | `MutexSpec => []OneOwner` |
| `HeapIsTyped` | `HeapSpec => []HeapTypeOK` |
| `FreeListStaysSound` | `HeapSpec => []FreeListIsSound` |
| `NoReleaseIsLost` | `HeapSpec => []NobodyWaitsForAFreeSlot` |
| `ElementsStayExclusive` | `HeapSpec => []ElementsAreExclusive` |
| `AcquisitionIsTyped` | `AcquisitionSpec => []TypeOK` |
| `AveragesAreOfOneTransfer` | `AcquisitionSpec => []AverageIsOfOneTransfer` |
| `AcquisitionDoesNotStall` | `AcquisitionSpec => []AcquisitionGoesOn` |
| `ScopesDecidePrimask` | `Spec => []PrimaskFollowsScopes` (of `InterruptMasking`) |
| `MaskedCodeIsExclusive` | `Spec => []AccessIsExclusive` |
| `BlockReadsItsReasonLater` | `Spec => []ReasonIsReadAfterSwitch` |
| `NoListenerIsLeftBehind` | `Spec => []NobodyIsLeftBehind` (of `DataModel`) |

Assumptions.  `Scheduler` assumes what section 4 says of priorities, that the
names of lists and tasks are different and that delays fit the clock.
`Semaphore` assumes that no semaphore starts above its maximum, that `Release`
is asked for at least one token, and (for counting only) that there are finitely
many tasks.  `Mutex` and `Heap` assume only that their special values are none of
the ordinary ones and that a heap has at least one slot and one block list;
`Fifo`, what its constructor does: two semaphores with a maximum of `Count`, one
full and one empty; `BluePill`, the two tasks, the semaphore and the priorities
`main.cpp` has, and that the clock has more than one value; `Acquisition`, that a
transfer has at least two samples (a half transfer that is also the whole would
raise both flags).  `DelayTiming` assumes that durations come to delays that fit
the clock; `CriticalSection`, that `end()` is no element and that there are fewer
tasks than the nesting counter can count twice over; `InterruptMasking`,
that the handler is no task; `DataModel`, that there is a value.

Some theorems have a condition in their statement, which the run sets too.
`FifoAmongEquals`, `OnlyFreshTasksWait`, `ListsOrdered`, `MostUrgentIsServed` and
`MostUrgentTakesOver` want priorities set before Start, as RealMain does
(`~LatePriority`), for nothing sorts a list again; conservation of tokens and
places wants that no blocked task is yielded or delayed by another one.  The
theorems about `CriticalSection` have none: ticks and interrupts come anywhere,
and the statements say up to where the code copes with that.

The argument.

*Lists.*  The first part of `SchedulerProofs` says what removal and insertion do
to a sequence's elements, and from that `PushedConsistent` and `PushedOrdered`: a
push keeps the lists consistent from whatever list the element comes, and
ordered if the keys do not change.  `ListsNext` carries the first through every
action.  The other properties are not inductive by themselves.  `Safe` adds:
what the tick handler has still to visit is linked (else visiting it could link
a task that was never started); no switch is pending while the handler runs,
and `held` implies one is (else `Tick` could withdraw a requested switch, and
the running task would not be ready); the idle task is on the ready list (else
`SwitchContext` could pick a task that is not ready).  `SafeNext` has a step per
action and, under it, one per conjunct the action can disturb.  The idle task
stays last, even with `LatePriority`, because no application task's number
reaches its own (`TasksPrecedeIdle`), so every push goes in before it, and
because the tick handler never visits it.

*The tick handler.*  `Iterating` says that what is left to visit is the end of
the delayed list (`EndOf`) and that whatever stands in front of it has not
expired (`VisitedHaveNotExpired`).  A visit moves at most the task the iterator
has just passed, and erasing the first element of an end leaves the rest of it
the end of what remains; so the iterator is valid and, once it is at the end,
nothing expired is left.

*Order.*  `OnlyFreshTasksWait` is not inductive: within the tick handler a woken
task does stand before the current one, though no switch is pending yet.
`OnlyFreshAhead` weakens it to hold while the handler has not decided to request
a switch, and then a switch either comes or nothing was woken.  `PushKeepsPlaces`
does the rest here and for `FifoAmongEquals`: a push leaves the other tasks in
the order they had and overtakes less urgent ones only.

*Delays.*  The code goes by `tickDelay`, the property by `toGo`; `TimesAgree`
relates them: `Left` is the number of ticks a delay has left between two ticks,
`LeftInTick` during one, for the tasks still to be visited.  At the last value of
the clock everything that is not later is due, which is where the wrap shows.

*Critical sections.*  Three invariants, for the three things that can go wrong.
`SectionInv` holds until something comes in the middle of a push: what is left of
a call is the rest of its script (`CallTypes`), so each step has one successor;
only the running task is in the middle of a push (`Uninterrupted`), wherever else
in its section it was taken off the core; and the lists are those the push found,
`before`, changed by exactly the steps taken (`Progress`).  The four steps of push
then come to one `Pushed` (`StepsMakePush`), and a call's trigger is the step of
`Scheduler` that all of it stands for.  `Counted` needs nothing of the lists: a
store that finds the counter as it was loaded closes or opens one of the sections
`StepsLeft` counts, a script has as many exits as entries (`ScriptsAreBalanced`),
and a task that is about to exit is in one of the sections, so the counter is not
zero (`EntersHaveExits`) and, there being few tasks, has not wrapped around
(`CountIsSmall`).  `Kept` needs nothing of them but their types: no removal drops
another element, however wrong `parentList` is, and no insertion drops any
(`UnlinkDropsOne`, `InsertDropsNone`), so every step but a push's own erase keeps
whoever is on a list on one.

For `Semaphore`, every step is a step of the scheduler or leaves it alone
(`SemaphoreStepIsSchedulerStep`), so that `Lists` and `Safe` hold there too.
A wake-up cannot be lost because a block list grows only in `Acquire`, which
saw no token, and a token is counted only when the list is empty; a push
elsewhere leaves an empty list empty (`PushedKeepsEmpty`).  Conservation needs
`AcquirersWait`: whoever is inside Acquire is on that semaphore's list or was
handed a token.  Then what `Unblock` finds at the front is a task whose Acquire
has no token yet (`UnblockConserves`), and a task that comes back from Block has
one, since the running task is ready and so not on the list
(`AcquireReturnConserves`).  A release goes to the head of the list, and the head
of an ordered list is most urgent.

For `Fifo` and `BluePill`, every step is one of `Semaphore` or leaves it alone, so
all of the above holds of them.  The places of a `Fifo` are then arithmetic: by
conservation, what is owed of a semaphore is what is counted or granted, so its
tokens are what is owed, what is about to be released and what is in the hands
of the one task that is past its wait (`PlacesInv`, `FifoTypes`).  No token is
dropped because that sum is never above `Count` (`NoTokenTooMany`).  RealMain is
left by the first tick because until then nothing has run, so nothing is delayed
and no switch requested, and because the tick finds nothing delayed and the idle
task ready (`MainIsUndisturbed`).

For `Mutex`, a free mutex has no waiters because a waiter joins only where there
is an owner, and Unlock leaves no mutex free while its list has a head.
`OneOwner` needs that whoever waits for a mutex is inside its Lock
(`WaitersLock`); then a hand-over moves the owner from `holds` to `HandedOver`,
and the end of Lock moves it back.

For `Heap`, `Chain(n, f)` says that the sequence f names every free slot once
and that `nextFree` n and the slots link it.  A claim takes the first of f, a
release puts a slot in front that is not in f, since `Release` finds it only
while it holds an element; that is why even a wrong release leaves the list
sound.  `OneUserEach` gives each claimed slot to one task, in its hands or in
transit; it needs that a task in Block is inside Claim and one that tries again
was handed nothing (`Calls`), so that the task the hook serves had no slot in
transit.

For `Acquisition`, the invariant says how the handle, the channel and the flags
go together: ready and unlocked before task2 starts it or after an error, busy
and locked during a transfer and until its interrupt has been served
(`BeforeStart`, `Transferring`); the channel fills `data[ping]` (`OnTarget`);
the buffer `readIndex` names is whole once the semaphore was released
(`ReadIndexIsFull`); and unless a transfer completed meanwhile, task2's
iterators are in it (`IteratorsAgree`).

For `InterruptMasking`, `Masking` says that every context is at some step of a
script with exactly the scopes open that go with that step (`Depth` and `Scope`
tabulate them), that a context that does not run is outside of every masked
scope (a task gives up the core only where its `InterruptUnmasking` is
innermost), and that the handler, when it does not run, has nothing left to do.
PRIMASK is then what the running context's table says.

For `DataModel`, a listener that has not read the value as it is is awaited by
some frame of some thread (`UpToDate`): an assignment that has still to notify,
or a notification whose loop stands before it.  That survives Attach and Detach
because listeners are distinct, Attach appends, and Detach removes no listener
whose function is running.

Model-checked only: all liveness (`GrantedTaskReturns`, `DelayEnds`,
`TopTaskRuns`, `UnhinderedOwnerUnlocks`, `RequestedSwitchHappens`,
`DisplayIsUpdated`, `StartedTasksRun`), under the fairness of section 4.
Liveness, ENABLED, induction over data and RECURSIVE operators are out of the
prover's reach.  What a theorem could still add: that the masked scripts of
`InterruptMasking` implement the one-step operations of `Semaphore`, as those of
`CriticalSection` implement the scheduler's; and that the callback and task2 of
`Acquisition` use the counter as `Semaphore` does.

## 6. Not modelled

Of the 157 835 lines of C and C++ in the repository, nearly all are vendored:
the STM32 HAL, CMSIS headers, googletest, SEGGER RTT and SystemView, type_safe
and notstd.  The kernel, its ports, the data model and the application, tests
and interrupt vectors included, are about 4 000; the definitions here stand for
some 1 000 of those and 230 lines of the HAL.  Every file of them that keeps
state is modelled; what is left is declarations, constructors of constant
objects, register accesses and the vector table, so the share of the whole
repository cannot grow much.  In detail:

- register contents, stack sizes and guards: `Stack::IsSafe` always returns
  true, so the code has no behaviour there to model; `SVC_Handler` is never
  triggered;
- the start-up code before the scheduler's ctor, except for what section 4 says
  of a tick in it;
- `Scheduler::Block` of another task's TCB and `~Scheduler`: no caller;
- `Mutex::TryLock` and `TryLockFor`: they return false and do nothing;
- `TaskState`: set at construction and read by nobody;
- `SpinLock`: no object of the type exists; `lockable.hpp` is commented out;
- BASEPRI masking: `CMAKE_RTOS_KERNEL_BASEPRI` is 0 unless a build defines it;
- a listener that detaches itself while it is notified: what the loop does then
  is up to `infra::IntrusiveList`, which is not in the repository;
- values without listeners (`VALUE_NN`) and `memory.hpp`, which keep no state
  beyond a variable;
- the Windows port (empty functions), interrupt vectors and register accesses,
  CubeMX code, and of the HAL everything but `HAL_ADC_Start_DMA`,
  `HAL_DMA_Start_IT`, `HAL_DMA_IRQHandler` and what these call.
