------------------------------ MODULE Semaphore ------------------------------
(***************************************************************************)
(* kernel::Semaphore on top of Scheduler.  Every block list is the         *)
(* blockedList of one semaphore and names it.                              *)
(*                                                                         *)
(* Acquire, TryAcquire and Release run with interrupts masked.  Acquire    *)
(* gives up the core only inside Block; Release(count) is a loop, modelled *)
(* turn by turn, because each turn may request a switch that is held off   *)
(* until the loop is over.  Any task, or an interrupt, may release.        *)
(***************************************************************************)
EXTENDS Scheduler, Integers

CONSTANTS
    InitialCounter,     \* of each semaphore, the ctor's initialCounter
    MaxCounter,         \* of each semaphore, the ctor's maxCounter
    ReleaseCounts,      \* the arguments of Release
    MovesBlockedTasks   \* the application yields or delays tasks inside Block

ASSUME SemaphoreAssumption ==
    /\ MaxCounter \in [BlockList -> Nat]
    /\ InitialCounter \in [BlockList -> Nat]
    /\ \A s \in BlockList : InitialCounter[s] <= MaxCounter[s]
    /\ ReleaseCounts \subseteq Nat \ {0}
    /\ MovesBlockedTasks \in BOOLEAN

ASSUME TasksAreFinite == IsFiniteSet(Task)

VARIABLES
    counter,    \* Semaphore::counter
    left,       \* Release: turns its loop has left
    acquiring,  \* the semaphore whose Acquire is in Block, for each task
    owed        \* tokens put in and not yet taken out by an Acquire that
                \* returned (no code reads it)

semaphoreVars == <<counter, left, acquiring, owed>>
allVars == <<vars, semaphoreVars>>

SemaphoreInit ==
    /\ Init
    /\ counter = InitialCounter
    /\ left = [s \in BlockList |-> 0]
    /\ acquiring = [t \in Task |-> NoList]
    /\ owed = InitialCounter

\* No Release is in the middle of its loop: interrupts are not masked by one.
NotReleasing == \A s \in BlockList : left[s] = 0

-----------------------------------------------------------------------------
\* InternalTryAcquire when there is a token.
TakeToken(s) ==
    /\ counter[s] # 0
    /\ counter' = [counter EXCEPT ![s] = @ - 1]
    /\ owed' = [owed EXCEPT ![s] = @ - 1]
    /\ UNCHANGED <<vars, left, acquiring>>

\* Semaphore::TryAcquire; it returns Busy, and changes nothing, without one.
TryAcquire(t, s) ==
    /\ NotReleasing
    /\ InThread(t)
    /\ TakeToken(s)

\* Mutant: Acquire tests the counter before it masks interrupts, so that a
\* release may come between the test and Block.
AcquireTestsTooEarly(t, s) ==
    /\ NotReleasing
    /\ InThread(t)
    /\ \/ TakeToken(s)
       \/ /\ Block(t, s)
          /\ acquiring' = [acquiring EXCEPT ![t] = s]
          /\ UNCHANGED <<counter, left, owed>>

\* Semaphore::Acquire, as far as it gets without giving up the core.
Acquire(t, s) ==
    /\ NotReleasing
    /\ InThread(t)
    /\ \/ TakeToken(s)
       \/ /\ counter[s] = 0
          /\ Block(t, s)
          /\ acquiring' = [acquiring EXCEPT ![t] = s]
          /\ UNCHANGED <<counter, left, owed>>

\* Semaphore::InternalBlock: Block returns, and Acquire returns Ok, whatever
\* BlockStatus(t) is.
AcquireReturn(t) ==
    /\ NotReleasing
    /\ BlockReturn(t)
    /\ acquiring' = [acquiring EXCEPT ![t] = NoList]
    /\ owed' = [owed EXCEPT ![acquiring[t]] = @ - 1]
    /\ UNCHANGED <<counter, left>>

\* Semaphore::Release(count) up to its loop.
Release(s, count) ==
    /\ NotReleasing
    /\ NoException \/ held
    /\ left' = [left EXCEPT ![s] = count]
    /\ UNCHANGED <<vars, counter, acquiring, owed>>

\* Mutants: a token that a waiter is handed is counted as well; the waiter at
\* the end of the list is served.
InternalReleaseCountsTwice(s) ==
    /\ left[s] > 0
    /\ left' = [left EXCEPT ![s] = @ - 1]
    /\ \/ /\ counter[s] = MaxCounter[s]
          /\ UNCHANGED <<vars, counter, owed>>
       \/ /\ counter[s] # MaxCounter[s]
          /\ counter' = [counter EXCEPT ![s] = @ + 1]
          /\ owed' = [owed EXCEPT ![s] = @ + 1]
          /\ IF queue[s] # <<>> THEN Unblock(s) ELSE UNCHANGED vars
    /\ UNCHANGED acquiring

InternalReleaseServesLast(s) ==
    /\ left[s] > 0
    /\ left' = [left EXCEPT ![s] = @ - 1]
    /\ \/ /\ counter[s] = MaxCounter[s]
          /\ UNCHANGED <<vars, counter, owed>>
       \/ /\ counter[s] # MaxCounter[s]
          /\ queue[s] # <<>>
          /\ UnblockTask(Last(queue[s]))
          /\ held' = TRUE
          /\ owed' = [owed EXCEPT ![s] = @ + 1]
          /\ UNCHANGED <<priority, current, tick, tickDelay, frame, counter>>
       \/ /\ counter[s] # MaxCounter[s]
          /\ queue[s] = <<>>
          /\ counter' = [counter EXCEPT ![s] = @ + 1]
          /\ owed' = [owed EXCEPT ![s] = @ + 1]
          /\ UNCHANGED vars
    /\ UNCHANGED acquiring

\* One turn of Release's loop, Semaphore::InternalRelease: a token too many is
\* dropped, a waiter is handed the token, or the token is counted.
InternalRelease(s) ==
    /\ left[s] > 0
    /\ left' = [left EXCEPT ![s] = @ - 1]
    /\ \/ /\ counter[s] = MaxCounter[s]
          /\ UNCHANGED <<vars, counter, owed>>
       \/ /\ counter[s] # MaxCounter[s]
          /\ Unblock(s)
          /\ owed' = [owed EXCEPT ![s] = @ + 1]
          /\ UNCHANGED counter
       \/ /\ counter[s] # MaxCounter[s]
          /\ queue[s] = <<>>
          /\ counter' = [counter EXCEPT ![s] = @ + 1]
          /\ owed' = [owed EXCEPT ![s] = @ + 1]
          /\ UNCHANGED vars
    /\ UNCHANGED acquiring

\* Whether the application hands task t to Yield(TaskControlBlock&) or
\* DelayTask(TaskControlBlock&, ticks).
MayMove(t) == MovesBlockedTasks \/ frame[t] # "blocked"

\* The scheduler's other operations; block and unblock belong to semaphores.
SchedulerStep ==
    /\ NotReleasing
    /\ \/ \E t \in Task, n \in PriorityRange : SetPriority(t, n)
       \/ \E t \in Task : Start(t)
       \/ \E caller, t \in Task : MayMove(t) /\ Yield(caller, t)
       \/ \E t \in Task, n \in Delays : Delay(t, n)
       \/ \E caller, t \in Task, n \in Delays :
            MayMove(t) /\ DelayOther(caller, t, n)
       \/ Tick
       \/ TickVisit
       \/ SwitchContext
    /\ UNCHANGED semaphoreVars

SemaphoreNext ==
    \/ \E t \in Task, s \in BlockList : TryAcquire(t, s) \/ Acquire(t, s)
    \/ \E t \in Task : AcquireReturn(t)
    \/ \E s \in BlockList, count \in ReleaseCounts : Release(s, count)
    \/ \E s \in BlockList : InternalRelease(s)
    \/ SchedulerStep

SemaphoreSpec == SemaphoreInit /\ [][SemaphoreNext]_allVars

\* Masked code and handlers run to their end, after however many releases, and
\* then a requested switch is taken; interrupts leave the running task time to
\* go on, however often they come: Acquire does return once Block's switch has
\* brought its task back.
SemaphoreFairness ==
    /\ \A s \in BlockList : WF_allVars(InternalRelease(s))
    /\ WF_allVars(SchedulerStep /\ TickVisit)
    /\ SF_allVars(SchedulerStep /\ SwitchContext)
    /\ SF_allVars(SchedulerStep /\ Tick)
    /\ \A t \in Task : SF_allVars(AcquireReturn(t))

FairSemaphoreSpec == SemaphoreSpec /\ SemaphoreFairness

-----------------------------------------------------------------------------
\* The type invariant; the counter never exceeds maxCounter.
SemaphoreTypeOK ==
    /\ TypeOK
    /\ counter \in [BlockList -> Nat]
    /\ \A s \in BlockList : counter[s] <= MaxCounter[s]
    /\ left \in [BlockList -> Nat]
    /\ acquiring \in [Task -> BlockList \cup {NoList}]
    /\ owed \in [BlockList -> Int]

\* No wake-up is lost: nobody waits while the semaphore has a token
\* (Semaphore::Acquire, InternalRelease).
NobodyWaitsForAToken ==
    \A s \in BlockList : queue[s] # <<>> => counter[s] = 0

\* The tasks that were handed a token of s and have not returned from Acquire.
Granted(s) ==
    {t \in Task : acquiring[t] = s /\ frame[t] = "blocked" /\ reason[t] = "Request"}

\* Every Acquire that returns Ok took one token, every token goes to one
\* Acquire, if no blocked task is yielded or delayed by another one: Acquire
\* ignores what Block returns (Semaphore::InternalBlock).
TokensAreConserved ==
    ~MovesBlockedTasks =>
        \A s \in BlockList : owed[s] = counter[s] + Cardinality(Granted(s))

\* A release serves the most urgent waiter, if priorities are set before Start.
MostUrgentIsServed ==
    [][~LatePriority =>
         \A s \in BlockList, t, u \in Task :
            /\ parent[t] = s /\ reason'[t] = "Request"
            /\ parent[u] = s
            => priority[t] <= priority[u]]_allVars

\* A task that is for good the most urgent one and was handed a token returns
\* from Acquire, whatever the other tasks and interrupts do.
Urgent(t) == \A u \in Task \ {t} : priority[t] < priority[u]

GrantedTaskReturns ==
    \A t \in Task :
        <>[]Urgent(t) =>
            ((\E s \in BlockList : t \in Granted(s)) ~> frame[t] = "running")
=============================================================================
