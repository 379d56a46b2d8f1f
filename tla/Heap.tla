-------------------------------- MODULE Heap --------------------------------
(***************************************************************************)
(* kernel::Heap, a pool of Size elements, on top of Scheduler.  A slot of  *)
(* its buffer is a Variant: a claimed element, or the index of the next    *)
(* free slot.  The slot Release frees is claimed for the first waiter by   *)
(* the waiter's unblock hook, which runs in the releasing task; everything *)
(* but the inside of Block runs with interrupts masked.                    *)
(***************************************************************************)
EXTENDS Scheduler

CONSTANTS
    Size,           \* of the buffer
    blockList,      \* HeapControlBlock::blockList
    Claimed,        \* what a slot that holds a T holds
    NoSlot          \* a null pointer

Slot == 0 .. Size - 1

ASSUME HeapAssumption ==
    /\ Size \in Nat \ {0}
    /\ BlockList = {blockList}
    /\ Claimed \notin 0 .. Size /\ NoSlot \notin Slot

VARIABLES
    buffer,     \* what each slot holds
    nextFree,   \* Heap::nextFree; Size when no slot is free
    claiming,   \* the tasks whose Claim has been in Block
    tptr,       \* Claim: the local the hook writes to
    uses,       \* the slots each task got and has not released
    misused     \* a task has released what it did not use, through a stale
                \* reference or somebody else's (no code reads these two)

heapVars == <<buffer, nextFree, claiming, tptr, uses, misused>>
allVars == <<vars, heapVars>>

\* std::iota(begin, end, 1).
HeapInit ==
    /\ Init
    /\ buffer = [s \in Slot |-> s + 1]
    /\ nextFree = 0
    /\ claiming = {}
    /\ tptr = [t \in Task |-> NoSlot]
    /\ uses = [t \in Task |-> {}]
    /\ misused = FALSE

\* Claim is between its Block and its next turn, with interrupts masked.
Retries(t) == InThread(t) /\ t \in claiming
NotRetrying == \A t \in Task : ~Retries(t)

\* InternalTryClaim of slot s, which must be nextFree when that is not Size.
TakeSlot(s) ==
    /\ s \in Slot /\ s = nextFree
    /\ nextFree' = buffer[s]
    /\ buffer' = [buffer EXCEPT ![s] = Claimed]

\* The task gets slot s from Claim or TryClaim.
GetSlot(t) ==
    \E s \in Slot :
        /\ TakeSlot(s)
        /\ uses' = [uses EXCEPT ![t] = @ \cup {s}]
        /\ UNCHANGED <<vars, tptr, misused>>

\* Heap::TryClaim; it returns Busy, and changes nothing, without a slot.
TryClaim(t) ==
    /\ InThread(t) /\ t \notin claiming
    /\ GetSlot(t)
    /\ UNCHANGED claiming

\* One turn of Claim's loop; tptr is declared inside it.
ClaimTurn(t) ==
    \/ /\ GetSlot(t)
       /\ claiming' = claiming \ {t}
    \/ /\ nextFree = Size
       /\ Block(t, blockList)
       /\ claiming' = claiming \cup {t}
       /\ tptr' = [tptr EXCEPT ![t] = NoSlot]
       /\ UNCHANGED <<buffer, nextFree, uses, misused>>

\* Heap::Claim, its first turn.
Claim(t) == InThread(t) /\ t \notin claiming /\ ClaimTurn(t)

\* Mutant: an interrupted Claim returns the element tptr points to as well.
ClaimReturnsEarly(t) ==
    /\ BlockReturn(t)
    /\ uses' = [uses EXCEPT ![t] = @ \cup {tptr[t]}]
    /\ claiming' = claiming \ {t}
    /\ UNCHANGED <<buffer, nextFree, tptr, misused>>

\* Block returns: Claim returns *tptr, or tries again.
ClaimReturn(t) ==
    /\ BlockReturn(t)
    /\ \/ /\ BlockStatus(t) = "Ok"
          /\ uses' = [uses EXCEPT ![t] = @ \cup {tptr[t]}]
          /\ claiming' = claiming \ {t}
       \/ /\ BlockStatus(t) = "Interrupted"
          /\ UNCHANGED <<uses, claiming>>
    /\ UNCHANGED <<buffer, nextFree, tptr, misused>>

ClaimRetry(t) == Retries(t) /\ ClaimTurn(t)

\* Mutants of FreeSlot: a slot that is free already is freed again; the waiter
\* is made ready without its hook claiming the slot, and takes it when it runs.
FreeSlotUnchecked(s) ==
    IF queue[blockList] = <<>>
    THEN /\ buffer' = [buffer EXCEPT ![s] = nextFree]
         /\ nextFree' = s
         /\ UNCHANGED <<vars, tptr>>
    ELSE /\ Unblock(blockList)
         /\ tptr' = [tptr EXCEPT ![Head(queue[blockList])] = s]
         /\ UNCHANGED <<buffer, nextFree>>

FreeSlotForLater(s) ==
    /\ buffer[s] = Claimed
    /\ buffer' = [buffer EXCEPT ![s] = nextFree]
    /\ nextFree' = s
    /\ IF queue[blockList] = <<>> THEN UNCHANGED vars ELSE Unblock(blockList)
    /\ UNCHANGED tptr

\* Release's find_if finds s only while it holds an element.  The slot becomes
\* the first free one; InternalUnblock's hook claims it at once for the first
\* waiter, which leaves buffer and nextFree as they were.
FreeSlot(s) ==
    /\ buffer[s] = Claimed
    /\ \/ /\ queue[blockList] = <<>>
          /\ buffer' = [buffer EXCEPT ![s] = nextFree]
          /\ nextFree' = s
          /\ UNCHANGED <<vars, tptr>>
       \/ /\ Unblock(blockList)
          /\ tptr' = [tptr EXCEPT ![Head(queue[blockList])] = s]
          /\ UNCHANGED <<buffer, nextFree>>

\* Heap::Release, with a reference to an element of slot s, stale or not.
Release(t, s) ==
    /\ InThread(t) /\ t \notin claiming
    /\ FreeSlot(s)
    /\ misused' = (misused \/ s \notin uses[t])
    /\ uses' = [uses EXCEPT ![t] = @ \ {s}]
    /\ UNCHANGED claiming

OtherStep == NotRetrying /\ PlainStep /\ UNCHANGED heapVars

HeapNext ==
    \/ \E t \in Task :
         TryClaim(t) \/ Claim(t) \/ ClaimReturn(t) \/ ClaimRetry(t)
    \/ \E t \in Task, s \in Slot : Release(t, s)
    \/ OtherStep

HeapSpec == HeapInit /\ [][HeapNext]_allVars

-----------------------------------------------------------------------------
\* The type invariant.
HeapTypeOK ==
    /\ TypeOK
    /\ buffer \in [Slot -> 0 .. Size \cup {Claimed}]
    /\ nextFree \in 0 .. Size
    /\ claiming \subseteq Task
    /\ tptr \in [Task -> Slot \cup {NoSlot}]
    /\ uses \in [Task -> SUBSET Slot]
    /\ misused \in BOOLEAN

\* f lists free slots in the order nextFree and the slots link them.
Threads(f) ==
    /\ nextFree = (f \o <<Size>>)[1]
    /\ \A i \in 1 .. Len(f) : buffer[f[i]] = (f \o <<Size>>)[i + 1]

\* The free list visits every slot that holds no element, once, and ends,
\* also when elements are released twice or by somebody else: a slot is freed
\* only while it holds an element (Heap::Release, Heap::InternalTryClaim).
FreeListIsSound ==
    \E f \in SetToSeqs({s \in Slot : buffer[s] # Claimed}) : Threads(f)

\* The slots a hook claimed for t and that t has not been given yet.
InTransit(t) ==
    {s \in Slot : t \in claiming /\ reason[t] = "Request" /\ tptr[t] = s}

\* No element is given to two tasks, none is lost on its way to a waiter, and
\* Claim never dereferences a null tptr: each claimed slot is one task's, in
\* its hands or in transit, if tasks release only what they claimed, for a
\* stale reference frees the element of whoever claimed that slot since
\* (Heap::Claim and its hook, Heap::Release).
ElementsAreExclusive ==
    /\ \A t \in Task :
        /\ frame[t] = "blocked" /\ BlockStatus(t) = "Ok" => tptr[t] \in Slot
        /\ uses[t] \subseteq Slot
    /\ ~misused =>
        \A s \in Slot :
            IF buffer[s] = Claimed
            THEN \E t \in Task :
                    \A u \in Task : s \in uses[u] \cup InTransit(u) <=> u = t
            ELSE \A t \in Task : s \notin uses[t] \cup InTransit(t)

\* No release is lost on a waiter: nobody waits while a slot is free, although
\* tasks are moved out of the list and come back (Heap::Claim, Heap::Release).
NobodyWaitsForAFreeSlot == nextFree # Size => queue[blockList] = <<>>
=============================================================================
