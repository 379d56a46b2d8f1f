-------------------------------- MODULE Fifo --------------------------------
(***************************************************************************)
(* kernel::FifoBase on top of Semaphore.  Nothing in the repository uses   *)
(* it yet; its callers are taken to wait with Acquire or TryAcquire and to *)
(* write or read one element at the pointer they are given.                *)
(*                                                                         *)
(* Push and Pop mask interrupts, except while Acquire is in Block.  What   *)
(* comes after the wait has a step for the access and those of Release.    *)
(***************************************************************************)
EXTENDS Semaphore

CONSTANTS
    pushSemaphore, popSemaphore,
    Count,          \* elements of one byte in the buffer
    MaxAccesses     \* bounds how often each of Push and Pop begins its wait

ASSUME FifoAssumption ==
    /\ Count \in Nat \ {0} /\ MaxAccesses \in Nat
    /\ pushSemaphore # popSemaphore
    /\ BlockList = {pushSemaphore, popSemaphore}
    /\ InitialCounter = [s \in BlockList |-> IF s = pushSemaphore THEN Count ELSE 0]
    /\ MaxCounter = [s \in BlockList |-> Count]
    /\ 1 \in ReleaseCounts

VARIABLES
    waited,         \* the semaphore whose token a task in PushPop has got
    storageStart,   \* as an offset into the buffer, whose end is Count
    accesses        \* how often Push and Pop were done (no code reads it)

fifoVars == <<waited, storageStart, accesses>>
allFifoVars == <<allVars, fifoVars>>

FifoInit ==
    /\ SemaphoreInit
    /\ waited = [t \in Task |-> NoList]
    /\ storageStart = 0
    /\ accesses = [s \in BlockList |-> 0]

\* No task is past its wait with interrupts masked.
NotAccessing == \A t \in Task : waited[t] = NoList

\* PushPop up to the return of waitOnSemaphoreFunction, which may block, and,
\* if it tries only, may give up, which changes nothing.
Wait(t, s) ==
    /\ NotAccessing
    /\ accesses[s] < MaxAccesses
    /\ Acquire(t, s) \/ TryAcquire(t, s)
    /\ waited' = [waited EXCEPT ![t] =
                    IF frame'[t] = "blocked" THEN NoList ELSE s]
    /\ UNCHANGED <<storageStart, accesses>>

WaitReturn(t) ==
    /\ NotAccessing
    /\ AcquireReturn(t)
    /\ waited' = [waited EXCEPT ![t] = acquiring[t]]
    /\ UNCHANGED <<storageStart, accesses>>

\* storage is a reference to storageStart, for Push and for Pop, so setting it
\* back to storageStart at the end leaves it there.
Advanced == storageStart + 1

\* Mutant: the semaphore that was waited for is released.
AccessReleasesSame(t) ==
    /\ waited[t] # NoList
    /\ waited' = [waited EXCEPT ![t] = NoList]
    /\ storageStart' = Advanced
    /\ accesses' = [accesses EXCEPT ![waited[t]] = @ + 1]
    /\ Release(waited[t], 1)

\* The rest of PushPop: access the buffer, advance, release the other side.
Access(t) ==
    /\ waited[t] # NoList
    /\ waited' = [waited EXCEPT ![t] = NoList]
    /\ storageStart' = Advanced
    /\ accesses' = [accesses EXCEPT ![waited[t]] = @ + 1]
    /\ \E other \in BlockList \ {waited[t]} : Release(other, 1)

Releasing ==
    /\ \E s \in BlockList : InternalRelease(s)
    /\ UNCHANGED fifoVars

FifoOtherStep == NotAccessing /\ SchedulerStep /\ UNCHANGED fifoVars

FifoNext ==
    \/ \E t \in Task, s \in BlockList : Wait(t, s)
    \/ \E t \in Task : WaitReturn(t) \/ Access(t)
    \/ Releasing
    \/ FifoOtherStep

FifoSpec == FifoInit /\ [][FifoNext]_allFifoVars

-----------------------------------------------------------------------------
\* The tokens of s: counted, taken for a task that has not accessed the buffer
\* yet, or about to be released.
Tokens(s) ==
    counter[s] + left[s]
      + Cardinality({t \in Task : waited[t] = s} \cup Granted(s))

\* There is a token of popSemaphore for each element pushed and not popped and
\* one of pushSemaphore for each other place, so neither semaphore ever drops
\* one, if no blocked task is moved by another one (FifoBase::PushPop,
\* Semaphore::InternalRelease).
PlacesAreConserved ==
    ~MovesBlockedTasks =>
        LET inside == accesses[pushSemaphore] - accesses[popSemaphore] IN
            /\ Tokens(popSemaphore) = inside
            /\ Tokens(pushSemaphore) = Count - inside
=============================================================================
