-------------------------------- MODULE Mutex --------------------------------
(***************************************************************************)
(* kernel::Mutex on top of Scheduler; every block list is the blockedList  *)
(* of one mutex and names it.  Lock masks interrupts and gives up the core *)
(* only inside Block; TryLock and TryLockFor return false and do nothing.  *)
(***************************************************************************)
EXTENDS Scheduler

CONSTANTS
    NoTask,         \* a null owner
    OwnersUnlock    \* the application unlocks what it holds, and only that,
                    \* and locks no mutex it holds already

ASSUME MutexAssumption == NoTask \notin Task /\ OwnersUnlock \in BOOLEAN

VARIABLES
    owner,      \* MutexControlBlock::owner
    locking,    \* the mutex whose Lock has been in Block, for each task
    holds       \* the tasks whose Lock has returned, whatever status it gave,
                \* and who have not called Unlock (no code reads it)

mutexVars == <<owner, locking, holds>>
allMutexVars == <<vars, mutexVars>>

MutexInit ==
    /\ Init
    /\ owner = [m \in BlockList |-> NoTask]
    /\ locking = [t \in Task |-> NoList]
    /\ holds = [m \in BlockList |-> {}]

\* Lock is between its Block and its next turn, with interrupts masked.
Retries(t) == InThread(t) /\ locking[t] # NoList
NotRetrying == \A t \in Task : ~Retries(t)

\* InternalTryLock, DoLock, and the return from Lock.
TakeMutex(t, m) ==
    /\ owner[m] = NoTask
    /\ owner' = [owner EXCEPT ![m] = t]
    /\ holds' = [holds EXCEPT ![m] = @ \cup {t}]
    /\ locking' = [locking EXCEPT ![t] = NoList]
    /\ UNCHANGED vars

\* One turn of Lock's loop.
LockTurn(t, m) ==
    \/ TakeMutex(t, m)
    \/ /\ owner[m] # NoTask
       /\ Block(t, m)
       /\ locking' = [locking EXCEPT ![t] = m]
       /\ UNCHANGED <<owner, holds>>

\* Mutex::Lock, its first turn.
Lock(t, m) ==
    /\ InThread(t) /\ locking[t] = NoList
    /\ OwnersUnlock => t \notin holds[m]
    /\ LockTurn(t, m)

\* Mutants of what follows Block: an interrupted Lock does not try again;
\* Lock goes on trying although it was handed the mutex.
LockReturnsEarly(t) ==
    /\ BlockReturn(t)
    /\ locking' = [locking EXCEPT ![t] = NoList]
    /\ holds' = [holds EXCEPT ![locking[t]] = @ \cup {t}]
    /\ UNCHANGED owner

LockAlwaysRetries(t) == BlockReturn(t) /\ UNCHANGED mutexVars

\* Block returns Ok, and Lock Undefined although Unlock has made t the owner;
\* or Block returns Interrupted and Lock tries again.
LockReturn(t) ==
    /\ BlockReturn(t)
    /\ \/ /\ BlockStatus(t) = "Ok"
          /\ locking' = [locking EXCEPT ![t] = NoList]
          /\ holds' = [holds EXCEPT ![locking[t]] = @ \cup {t}]
       \/ /\ BlockStatus(t) = "Interrupted"
          /\ UNCHANGED <<locking, holds>>
    /\ UNCHANGED owner

LockRetry(t) == Retries(t) /\ LockTurn(t, locking[t])

\* Mutant: DoUnlock frees a mutex somebody waits for.
DoUnlockFrees(m) ==
    /\ owner' = [owner EXCEPT ![m] = NoTask]
    /\ IF queue[m] = <<>> THEN UNCHANGED vars ELSE Unblock(m)

\* MutexControlBlock::DoUnlock: the mutex is free, or the first waiter's.
DoUnlock(m) ==
    \/ /\ queue[m] = <<>>
       /\ owner' = [owner EXCEPT ![m] = NoTask]
       /\ UNCHANGED vars
    \/ /\ Unblock(m)
       /\ owner' = [owner EXCEPT ![m] = Head(queue[m])]

\* Mutex::Unlock; it does not ask who calls.
Unlock(t, m) ==
    /\ InThread(t) /\ locking[t] = NoList
    /\ OwnersUnlock => t \in holds[m]
    /\ DoUnlock(m)
    /\ holds' = [holds EXCEPT ![m] = @ \ {t}]
    /\ UNCHANGED locking

OtherStep == NotRetrying /\ PlainStep /\ UNCHANGED mutexVars

MutexNext ==
    \/ \E t \in Task, m \in BlockList : Lock(t, m) \/ Unlock(t, m)
    \/ \E t \in Task : LockReturn(t) \/ LockRetry(t)
    \/ OtherStep

MutexSpec == MutexInit /\ [][MutexNext]_allMutexVars

\* As in Semaphore; and a task that holds a mutex unlocks it if it runs again
\* and again, which is the application's part.
MutexFairness ==
    /\ WF_allMutexVars(OtherStep /\ TickVisit)
    /\ SF_allMutexVars(OtherStep /\ SwitchContext)
    /\ SF_allMutexVars(OtherStep /\ Tick)
    /\ \A t \in Task : SF_allMutexVars(LockReturn(t)) /\ WF_allMutexVars(LockRetry(t))
    /\ \A t \in Task, m \in BlockList :
         SF_allMutexVars(Unlock(t, m) /\ t \in holds[m])

FairMutexSpec == MutexSpec /\ MutexFairness

-----------------------------------------------------------------------------
\* The type invariant.
MutexTypeOK ==
    /\ TypeOK
    /\ owner \in [BlockList -> Task \cup {NoTask}]
    /\ locking \in [Task -> BlockList \cup {NoList}]
    /\ holds \in [BlockList -> SUBSET Task]

\* The tasks Unlock made owners and that have not returned from Lock yet.
HandedOver(m) ==
    {t \in Task : locking[t] = m /\ frame[t] = "blocked" /\ reason[t] = "Request"}

\* Mutual exclusion, and no mutex is owned by a task that does not know: the
\* owner is the one task whose Lock returned, with Ok or with Undefined, or is
\* about to, however the waiting tasks are yielded or delayed by others; if
\* the application's part is kept, for Unlock does not check the owner
\* (Mutex::Lock, MutexControlBlock::DoUnlock).
OneOwner ==
    OwnersUnlock =>
        \A m \in BlockList :
            holds[m] \cup HandedOver(m) = {owner[m]} \ {NoTask}

\* No hand-over is lost: nobody is left waiting for a mutex that is free,
\* whoever unlocks it (Mutex::Lock, MutexControlBlock::DoUnlock).
NobodyWaitsForAFreeMutex ==
    \A m \in BlockList : owner[m] = NoTask => queue[m] = <<>>

\* Unlock hands the mutex to the most urgent waiter, if priorities are set
\* before Start (MutexControlBlock::DoUnlock, SortedIntrusiveList::front).
MostUrgentTakesOver ==
    [][~LatePriority =>
         \A m \in BlockList, t, u \in Task :
            /\ owner[m] # t /\ owner'[m] = t
            /\ parent[u] = m
            => parent[t] = m /\ priority[t] <= priority[u]]_allMutexVars

\* There is no priority inheritance: an owner can be kept from its Unlock by
\* any task as urgent as itself, but it is not when every such task waits for
\* the mutex: then it does not keep it for ever (Mutex::Lock, Mutex::Unlock).
Unhindered(u, m) ==
    /\ owner[m] = u
    /\ \A v \in Task \ {u} : parent[v] = m \/ priority[u] < priority[v]

UnhinderedOwnerUnlocks ==
    \A u \in Task, m \in BlockList : ~<>[]Unhindered(u, m)
=============================================================================
