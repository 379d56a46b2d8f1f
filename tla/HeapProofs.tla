----------------------------- MODULE HeapProofs -----------------------------
(***************************************************************************)
(* Theorems about Heap, for any number of tasks and slots: its free list   *)
(* stays sound whatever is released, nobody waits while a slot is free,    *)
(* and elements are exclusive.                                             *)
(***************************************************************************)
EXTENDS Heap, SchedulerProofs, FiniteSetTheorems

LEMMA TheList == blockList \in BlockList /\ blockList \in List
  BY HeapAssumption, ListNames

\* Whatever a heap does to the scheduler is a step of the scheduler.
LEMMA HeapStepIsSchedulerStep == [HeapNext]_allVars => [Next]_vars
<1> SUFFICES ASSUME [HeapNext]_allVars PROVE [Next]_vars
  OBVIOUS
<1>1. ASSUME NEW t \in Task, ClaimTurn(t) PROVE [Next]_vars
  BY <1>1, TheList DEF ClaimTurn, GetSlot, Next
<1>2. ASSUME NEW t \in Task, TryClaim(t) PROVE [Next]_vars
  BY <1>2 DEF TryClaim, GetSlot
<1>3. ASSUME NEW t \in Task, ClaimReturn(t) PROVE [Next]_vars
  BY <1>3 DEF ClaimReturn, Next
<1>4. ASSUME NEW t \in Task, NEW s \in Slot, Release(t, s) PROVE [Next]_vars
  BY <1>4, TheList DEF Release, FreeSlot, Next
<1>5. ASSUME OtherStep PROVE [Next]_vars
  BY <1>5 DEF OtherStep, PlainStep, Next
<1> QED
  BY <1>1, <1>2, <1>3, <1>4, <1>5 DEF HeapNext, Claim, ClaimRetry, allVars

\* The heap uses the scheduler as its specification says it is used, so every
\* theorem about the scheduler holds of a program with a heap.
LEMMA HeapRefinesScheduler == HeapSpec => Spec
<1>1. HeapInit => Init
  BY DEF HeapInit
<1> QED
  BY <1>1, HeapStepIsSchedulerStep, PTL DEF HeapSpec, Spec

\* The scheduler's invariant holds of a program with a heap.
LEMMA HeapSafe == HeapSpec => [](Lists /\ Safe)
<1>1. HeapSpec => Spec
  BY HeapRefinesScheduler
<1> QED
  BY <1>1, SafeAlways, PTL

-----------------------------------------------------------------------------
(***************************************************************************)
(* The free list.  f names the n free slots in the order nextFree and the  *)
(* slots link them.                                                        *)
(***************************************************************************)
Chain(n, f) ==
    /\ \A i, j \in 1 .. n : f[i] = f[j] => i = j
    /\ \A s \in Slot : buffer[s] # Claimed <=> \E i \in 1 .. n : f[i] = s
    /\ nextFree = IF n = 0 THEN Size ELSE f[1]
    /\ \A i \in 1 .. n : buffer[f[i]] = IF i = n THEN Size ELSE f[i + 1]

Chained == \E n \in Nat : \E f \in [1 .. n -> Slot] : Chain(n, f)

\* The part of the state the free list is made of.
BufferTyped ==
    /\ buffer \in [Slot -> 0 .. Size \cup {Claimed}]
    /\ nextFree \in 0 .. Size

FreeList == BufferTyped /\ Chained

\* std::iota links all slots.
LEMMA FreeListInit == HeapInit => FreeList
<1> SUFFICES ASSUME HeapInit PROVE FreeList
  OBVIOUS
<1>a. /\ Size \in Nat \ {0} /\ Slot = 0 .. Size - 1 /\ Claimed \notin 0 .. Size
      /\ buffer = [s \in Slot |-> s + 1] /\ nextFree = 0
  BY HeapAssumption DEF HeapInit, Slot
<1>1. BufferTyped
  BY <1>a DEF BufferTyped
<1> DEFINE f == [i \in 1 .. Size |-> i - 1]
<1>2. f \in [1 .. Size -> Slot]
  BY <1>a
<1>3. \A s \in Slot : buffer[s] # Claimed /\ s + 1 \in 1 .. Size /\ f[s + 1] = s
  BY <1>a
<1>4. \A i \in 1 .. Size : buffer[f[i]] = IF i = Size THEN Size ELSE f[i + 1]
  BY <1>a
<1>5. Chain(Size, f)
  BY <1>a, <1>3, <1>4 DEF Chain
<1> QED
  BY <1>a, <1>1, <1>2, <1>5 DEF FreeList, Chained

\* Claiming takes the first element off the list.
LEMMA TakeKeepsList ==
    ASSUME FreeList, NEW s, TakeSlot(s)
    PROVE  FreeList' /\ buffer[s] # Claimed
<1>a. /\ Size \in Nat \ {0} /\ Slot = 0 .. Size - 1 /\ Claimed \notin 0 .. Size
      /\ buffer \in [Slot -> 0 .. Size \cup {Claimed}]
      /\ s \in Slot /\ s = nextFree /\ nextFree' = buffer[s]
      /\ buffer' = [buffer EXCEPT ![s] = Claimed]
  BY HeapAssumption DEF FreeList, BufferTyped, TakeSlot, Slot
<1>1. PICK n \in Nat : \E f \in [1 .. n -> Slot] : Chain(n, f)
  BY DEF FreeList, Chained
<1>2. PICK f \in [1 .. n -> Slot] : Chain(n, f)
  BY <1>1
<1>3. n # 0 /\ f[1] = s /\ n - 1 \in Nat /\ 1 \in 1 .. n
  BY <1>a, <1>2 DEF Chain
<1> DEFINE g == [i \in 1 .. n - 1 |-> f[i + 1]]
<1>4. g \in [1 .. n - 1 -> Slot]
  BY <1>3
<1>5. \A i \in 1 .. n - 1 : g[i] = f[i + 1] /\ i + 1 \in 1 .. n /\ g[i] # s
  BY <1>2, <1>3 DEF Chain
<1>6. \A i, j \in 1 .. n - 1 : g[i] = g[j] => i = j
  <2> SUFFICES ASSUME NEW i \in 1 .. n - 1, NEW j \in 1 .. n - 1, g[i] = g[j]
               PROVE  i = j
    OBVIOUS
  <2>1. i + 1 = j + 1
    BY <1>2, <1>5 DEF Chain
  <2> QED
    BY <2>1
<1>7. \A r \in Slot : buffer'[r] # Claimed <=> \E i \in 1 .. n - 1 : g[i] = r
  <2> SUFFICES ASSUME NEW r \in Slot
               PROVE  buffer'[r] # Claimed <=> \E i \in 1 .. n - 1 : g[i] = r
    OBVIOUS
  <2>1. CASE r = s
    BY <1>a, <1>5, <2>1
  <2>2. CASE r # s
    <3>1. buffer'[r] = buffer[r]
      BY <1>a, <2>2
    <3>2. ASSUME NEW i \in 1 .. n, f[i] = r
          PROVE  i - 1 \in 1 .. n - 1 /\ g[i - 1] = r
      BY <1>3, <2>2, <3>2
    <3>3. buffer[r] # Claimed <=> \E i \in 1 .. n : f[i] = r
      BY <1>2 DEF Chain
    <3> HIDE DEF g
    <3> QED
      BY <1>5, <3>1, <3>2, <3>3
  <2> QED
    BY <2>1, <2>2
<1>8. nextFree' = IF n - 1 = 0 THEN Size ELSE g[1]
  <2>1. nextFree' = IF n = 1 THEN Size ELSE f[2]
    <3>1. buffer[f[1]] = IF 1 = n THEN Size ELSE f[1 + 1]
      BY <1>2, <1>3 DEF Chain
    <3> QED
      BY <1>a, <1>3, <3>1
  <2>2. n # 1 => 1 \in 1 .. n - 1 /\ g[1] = f[1 + 1]
    <3> HIDE DEF g
    <3> QED
      BY <1>3, <1>5
  <2> QED
    BY <1>3, <2>1, <2>2
<1>9. \A i \in 1 .. n - 1 : buffer'[g[i]] = IF i = n - 1 THEN Size ELSE g[i + 1]
  <2> SUFFICES ASSUME NEW i \in 1 .. n - 1
               PROVE  buffer'[g[i]] = IF i = n - 1 THEN Size ELSE g[i + 1]
    OBVIOUS
  <2> HIDE DEF g
  <2>1. g[i] \in Slot /\ g[i] # s /\ g[i] = f[i + 1]
    BY <1>4, <1>5
  <2>3. buffer'[g[i]] = buffer[f[i + 1]]
    BY <1>a, <2>1
  <2>2. buffer[f[i + 1]] = IF i + 1 = n THEN Size ELSE f[i + 2]
    BY <1>2, <1>5 DEF Chain
  <2>4. i # n - 1 => g[i + 1] = f[i + 2]
    BY <1>5
  <2> QED
    BY <2>2, <2>3, <2>4
<1> HIDE DEF g
<1>10. Chained'
  BY <1>3, <1>4, <1>6, <1>7, <1>8, <1>9 DEF Chained, Chain, Slot
<1>11. buffer[s] # Claimed
  BY <1>a, <1>2, <1>3 DEF Chain
<1> QED
  BY <1>a, <1>10, <1>11 DEF FreeList, BufferTyped

\* Releasing puts the slot in front, or leaves the list alone.
LEMMA FreeKeepsList ==
    ASSUME FreeList, NEW s \in Slot, buffer[s] = Claimed,
           buffer' = [buffer EXCEPT ![s] = nextFree], nextFree' = s
    PROVE  FreeList'
<1>a. /\ Size \in Nat \ {0} /\ Slot = 0 .. Size - 1 /\ Claimed \notin 0 .. Size
      /\ buffer \in [Slot -> 0 .. Size \cup {Claimed}] /\ nextFree \in 0 .. Size
  BY HeapAssumption DEF FreeList, BufferTyped, Slot
<1>1. PICK n \in Nat : \E f \in [1 .. n -> Slot] : Chain(n, f)
  BY DEF FreeList, Chained
<1>2. PICK f \in [1 .. n -> Slot] : Chain(n, f)
  BY <1>1
<1>3. \A i \in 1 .. n : f[i] # s
  BY <1>2 DEF Chain
<1> DEFINE g == [i \in 1 .. n + 1 |-> IF i = 1 THEN s ELSE f[i - 1]]
<1>4. g \in [1 .. n + 1 -> Slot]
  BY <1>2
<1>5. g[1] = s /\ \A i \in 1 .. n : g[i + 1] = f[i]
  OBVIOUS
<1>6. \A i, j \in 1 .. n + 1 : g[i] = g[j] => i = j
  <2> SUFFICES ASSUME NEW i \in 1 .. n + 1, NEW j \in 1 .. n + 1, g[i] = g[j]
               PROVE  i = j
    OBVIOUS
  <2>1. CASE i = 1 \/ j = 1
    BY <1>3, <2>1
  <2>2. CASE i # 1 /\ j # 1
    <3>1. i - 1 \in 1 .. n /\ j - 1 \in 1 .. n /\ f[i - 1] = f[j - 1]
      BY <2>2
    <3>2. i - 1 = j - 1
      BY <1>2, <3>1 DEF Chain
    <3> QED
      BY <3>2
  <2> QED
    BY <2>1, <2>2
<1>7. \A r \in Slot : buffer'[r] # Claimed <=> \E i \in 1 .. n + 1 : g[i] = r
  <2> SUFFICES ASSUME NEW r \in Slot
               PROVE  buffer'[r] # Claimed <=> \E i \in 1 .. n + 1 : g[i] = r
    OBVIOUS
  <2>1. CASE r = s
    <3>1. buffer'[r] # Claimed
      BY <1>a, <2>1
    <3>2. 1 \in 1 .. n + 1
      OBVIOUS
    <3> QED
      BY <1>5, <2>1, <3>1, <3>2
  <2>2. CASE r # s
    <3>1. buffer'[r] = buffer[r]
      BY <1>a, <2>2
    <3>2. ASSUME NEW i \in 1 .. n + 1, g[i] = r
          PROVE  i - 1 \in 1 .. n /\ f[i - 1] = r
      BY <2>2, <3>2
    <3>3. ASSUME NEW i \in 1 .. n, f[i] = r
          PROVE  i + 1 \in 1 .. n + 1 /\ g[i + 1] = r
      BY <3>3
    <3>4. buffer[r] # Claimed <=> \E i \in 1 .. n : f[i] = r
      BY <1>2 DEF Chain
    <3> HIDE DEF g
    <3> QED
      BY <3>1, <3>2, <3>3, <3>4
  <2> QED
    BY <2>1, <2>2
<1>8. \A i \in 1 .. n + 1 : buffer'[g[i]] = IF i = n + 1 THEN Size ELSE g[i + 1]
  <2> SUFFICES ASSUME NEW i \in 1 .. n + 1
               PROVE  buffer'[g[i]] = IF i = n + 1 THEN Size ELSE g[i + 1]
    OBVIOUS
  <2>1. CASE i = 1
    <3>1. buffer'[g[1]] = nextFree
      BY <1>a
    <3>2. nextFree = IF n = 0 THEN Size ELSE f[1]
      BY <1>2 DEF Chain
    <3> QED
      BY <2>1, <3>1, <3>2
  <2>2. CASE i # 1
    <3>1. /\ i - 1 \in 1 .. n /\ g[i] = f[i - 1] /\ f[i - 1] \in Slot
          /\ i # n + 1 => g[i + 1] = f[i]
      BY <2>2
    <3> HIDE DEF g
    <3>2. buffer'[g[i]] = buffer[f[i - 1]]
      BY <1>a, <1>3, <3>1
    <3>3. buffer[f[i - 1]] = IF i - 1 = n THEN Size ELSE f[i]
      BY <1>2, <3>1 DEF Chain
    <3>4. i - 1 = n <=> i = n + 1
      OBVIOUS
    <3> QED
      BY <3>1, <3>2, <3>3, <3>4
  <2> QED
    BY <2>1, <2>2
<1> HIDE DEF g
<1>9. Chained'
  <2>1. n + 1 \in Nat /\ n + 1 # 0 /\ nextFree' = g[1]
    BY <1>5
  <2>2. Chain(n + 1, g)'
    BY <1>6, <1>7, <1>8, <2>1 DEF Chain, Slot
  <2> QED
    BY <1>4, <2>1, <2>2 DEF Chained, Slot
<1>10. BufferTyped'
  BY <1>a DEF BufferTyped
<1> QED
  BY <1>9, <1>10 DEF FreeList

\* Every step keeps the free list, also those that release an element twice or
\* somebody else's.
LEMMA FreeListNext == FreeList /\ [HeapNext]_allVars => FreeList'
<1> SUFFICES ASSUME FreeList, [HeapNext]_allVars PROVE FreeList'
  OBVIOUS
<1>1. ASSUME NEW t \in Task, GetSlot(t) PROVE FreeList'
  BY <1>1, TakeKeepsList DEF GetSlot
<1>2. ASSUME UNCHANGED <<buffer, nextFree>> PROVE FreeList'
  BY <1>2 DEF FreeList, BufferTyped, Chained, Chain
<1>3. ASSUME NEW t \in Task, NEW s \in Slot, Release(t, s) PROVE FreeList'
  BY <1>2, <1>3, FreeKeepsList DEF Release, FreeSlot
<1>4. ASSUME NEW t \in Task, ClaimTurn(t) PROVE FreeList'
  BY <1>1, <1>2, <1>4 DEF ClaimTurn
<1> QED
  BY <1>1, <1>2, <1>3, <1>4
     DEF HeapNext, TryClaim, Claim, ClaimReturn, ClaimRetry, OtherStep, heapVars,
         allVars

\* A chain is a sequence of the free slots as FreeListIsSound wants it.
LEMMA ChainIsSound == FreeList => FreeListIsSound
<1> SUFFICES ASSUME FreeList PROVE FreeListIsSound
  OBVIOUS
<1> DEFINE F == {s \in Slot : buffer[s] # Claimed}
<1>1. PICK n \in Nat : \E f \in [1 .. n -> Slot] : Chain(n, f)
  BY DEF FreeList, Chained
<1>2. PICK f \in [1 .. n -> Slot] : Chain(n, f)
  BY <1>1
<1>3. /\ f \in [1 .. n -> F]
      /\ \A i, j \in 1 .. n : f[i] = f[j] => i = j
      /\ \A s \in F : \E i \in 1 .. n : f[i] = s
  BY <1>2 DEF Chain
<1> HIDE DEF F
<1>4. Cardinality(F) = n
  <2>1. f \in Bijection(1 .. n, F)
    BY <1>3 DEF Bijection, Injection, Surjection, IsInjective
  <2> QED
    BY <2>1, FS_CountingElements DEF ExistsBijection
<1>5. f \in SetToSeqs(F)
  BY <1>3, <1>4 DEF SetToSeqs
<1>6. Threads(f)
  <2>1. f \in Seq(Slot) /\ Len(f) = n
    BY <1>2
  <2>2. (f \o <<Size>>)[n + 1] = Size
    BY <2>1
  <2>3. \A i \in 1 .. n : (f \o <<Size>>)[i] = f[i]
    BY <2>1
  <2>4. nextFree = (f \o <<Size>>)[1]
    BY <1>2, <2>2, <2>3 DEF Chain
  <2>5. \A i \in 1 .. n : buffer[f[i]] = (f \o <<Size>>)[i + 1]
    BY <1>2, <2>2, <2>3 DEF Chain
  <2> QED
    BY <2>1, <2>4, <2>5 DEF Threads
<1> QED
  BY <1>5, <1>6 DEF FreeListIsSound, F

\* Whatever is released, and however often, the free list visits each free
\* slot once.
THEOREM FreeListStaysSound == HeapSpec => []FreeListIsSound
<1>1. FreeList /\ [HeapNext]_allVars => FreeList'
  BY FreeListNext
<1>2. FreeList => FreeListIsSound
  BY ChainIsSound
<1> QED
  BY <1>1, <1>2, FreeListInit, PTL DEF HeapSpec

-----------------------------------------------------------------------------

(***************************************************************************)
(* Who has which slot.  A task that was handed one stays in Block until    *)
(* Claim gets hold of it, and one that tries again was handed none.        *)
(***************************************************************************)
Calls ==
    \A t \in Task :
        /\ frame[t] = "blocked" => t \in claiming
        /\ frame[t] # "blocked" /\ t \in claiming => reason[t] # "Request"

Has(t) == uses[t] \cup InTransit(t)

\* The two parts of ElementsAreExclusive.
NoneIsNull ==
    \A t \in Task :
        /\ frame[t] = "blocked" /\ reason[t] = "Request" => tptr[t] \in Slot
        /\ uses[t] \subseteq Slot

OneUserEach ==
    \A s \in Slot :
        IF buffer[s] = Claimed
        THEN \E t \in Task : \A u \in Task : s \in Has(u) <=> u = t
        ELSE \A t \in Task : s \notin Has(t)

LEMMA ExclusiveParts ==
    ElementsAreExclusive <=> NoneIsNull /\ (~misused => OneUserEach)
  BY DEF ElementsAreExclusive, NoneIsNull, OneUserEach, BlockStatus, Has

Owned == HeapTypeOK /\ Calls /\ NoneIsNull /\ (~misused => OneUserEach)

\* A step that leaves everybody with what he has.
LEMMA SameOwners ==
    ASSUME OneUserEach, buffer' = buffer, \A u \in Task : Has(u)' = Has(u)
    PROVE  OneUserEach'
  BY DEF OneUserEach

\* A task that executes its own code gets a slot.
LEMMA GetSlotOwned ==
    ASSUME Lists', FreeList, FreeList', Owned, NEW t \in Task,
           frame[t] = "running", GetSlot(t),
           claiming' = claiming \/ claiming' = claiming \ {t}
    PROVE  Owned'
<1>1. PICK s \in Slot : TakeSlot(s) /\ uses' = [uses EXCEPT ![t] = @ \cup {s}]
  BY DEF GetSlot
<1>2. /\ uses \in [Task -> SUBSET Slot] /\ claiming \subseteq Task
      /\ buffer[s] # Claimed /\ buffer' = [buffer EXCEPT ![s] = Claimed]
      /\ buffer \in [Slot -> 0 .. Size \cup {Claimed}]
      /\ UNCHANGED <<vars, tptr, misused>>
  BY <1>1, TakeKeepsList DEF Owned, HeapTypeOK, TakeSlot, GetSlot
<1>3. HeapTypeOK'
  BY <1>1, <1>2 DEF Owned, HeapTypeOK, FreeList, BufferTyped, Lists
<1>4. Calls' /\ NoneIsNull'
  BY <1>1, <1>2 DEF Owned, Calls, NoneIsNull, vars
<1>5. \A u \in Task : InTransit(u)' = InTransit(u)
  BY <1>2 DEF Owned, Calls, InTransit, vars
<1>6. Has(t)' = Has(t) \cup {s} /\ \A u \in Task : u # t => Has(u)' = Has(u)
  BY <1>1, <1>2, <1>5 DEF Has
<1>7. ASSUME OneUserEach PROVE OneUserEach'
  <2>1. \A u \in Task : s \notin Has(u)
    BY <1>2, <1>7 DEF OneUserEach
  <2>2. \A u \in Task : s \in Has(u)' <=> u = t
    BY <1>6, <2>1
  <2>3. \A r \in Slot, u \in Task : r # s => (r \in Has(u)' <=> r \in Has(u))
    BY <1>6
  <2>4. buffer'[s] = Claimed /\ \A r \in Slot : r # s => buffer'[r] = buffer[r]
    BY <1>2
  <2> QED
    BY <1>7, <2>2, <2>3, <2>4 DEF OneUserEach
<1> QED
  BY <1>2, <1>3, <1>4, <1>7 DEF Owned

\* One turn of Claim's loop.
LEMMA ClaimTurnOwned ==
    ASSUME Lists, Lists', FreeList, FreeList', Owned, NEW t \in Task,
           frame[t] = "running", ClaimTurn(t)
    PROVE  Owned'
<1>1. CASE GetSlot(t) /\ claiming' = claiming \ {t}
  BY <1>1, GetSlotOwned
<1>2. CASE /\ Block(t, blockList)
           /\ claiming' = claiming \cup {t}
           /\ tptr' = [tptr EXCEPT ![t] = NoSlot]
           /\ UNCHANGED <<buffer, nextFree, uses, misused>>
  <2>1. /\ frame' = [frame EXCEPT ![t] = "blocked"]
        /\ reason' = [reason EXCEPT ![t] = "Undefined"]
        /\ frame \in [Linkable -> Frame] /\ reason \in [Linkable -> Reason]
        /\ tptr \in [Task -> Slot \cup {NoSlot}] /\ t \in Linkable
        /\ claiming \subseteq Task /\ Task \subseteq Linkable
    BY <1>2, TaskIsLinkable DEF Block, Owned, HeapTypeOK, TypeOK
  <2>2. HeapTypeOK'
    BY <1>2, <2>1 DEF Owned, HeapTypeOK, Lists
  <2>3. Calls' /\ NoneIsNull'
    BY <1>2, <2>1 DEF Owned, Calls, NoneIsNull
  <2>4. InTransit(t)' = {} /\ InTransit(t) = {}
    BY <2>1 DEF Owned, Calls, InTransit
  <2>5. \A u \in Task : u # t => InTransit(u)' = InTransit(u)
    BY <1>2, <2>1 DEF InTransit
  <2>6. \A u \in Task : Has(u)' = Has(u)
    BY <1>2, <2>4, <2>5 DEF Has
  <2> QED
    BY <1>2, <2>2, <2>3, <2>6, SameOwners DEF Owned
<1> QED
  BY <1>1, <1>2 DEF ClaimTurn

\* Claim returns what tptr points to, or is about to try again.
LEMMA ClaimReturnOwned ==
    ASSUME Lists, Lists', Owned, NEW t \in Task, ClaimReturn(t)
    PROVE  Owned'
<1>a. /\ frame' = [frame EXCEPT ![t] = "running"] /\ reason' = reason
      /\ frame \in [Linkable -> Frame] /\ frame[t] = "blocked"
      /\ Task \subseteq Linkable /\ t \in claiming /\ claiming \subseteq Task
      /\ uses \in [Task -> SUBSET Slot]
      /\ UNCHANGED <<buffer, nextFree, tptr, misused>>
  BY TaskIsLinkable
     DEF ClaimReturn, BlockReturn, block, Owned, Calls, HeapTypeOK, TypeOK
<1>1. CASE /\ reason[t] = "Request"
           /\ uses' = [uses EXCEPT ![t] = @ \cup {tptr[t]}]
           /\ claiming' = claiming \ {t}
  <2>1. tptr[t] \in Slot
    BY <1>a, <1>1 DEF Owned, NoneIsNull
  <2>2. HeapTypeOK'
    BY <1>a, <1>1, <2>1 DEF Owned, HeapTypeOK, Lists
  <2>3. Calls' /\ NoneIsNull'
    BY <1>a, <1>1, <2>1 DEF Owned, Calls, NoneIsNull
  <2>4. InTransit(t) = {tptr[t]} /\ InTransit(t)' = {}
    BY <1>a, <1>1, <2>1 DEF InTransit
  <2>5. \A u \in Task : u # t => InTransit(u)' = InTransit(u)
    BY <1>a, <1>1 DEF InTransit
  <2>6. \A u \in Task : Has(u)' = Has(u)
    BY <1>a, <1>1, <2>4, <2>5 DEF Has
  <2> QED
    BY <1>a, <2>2, <2>3, <2>6, SameOwners DEF Owned
<1>2. CASE reason[t] # "Request" /\ UNCHANGED <<uses, claiming>>
  <2>1. HeapTypeOK'
    BY <1>a, <1>2 DEF Owned, HeapTypeOK, Lists
  <2>2. Calls' /\ NoneIsNull'
    BY <1>a, <1>2 DEF Owned, Calls, NoneIsNull
  <2>3. \A u \in Task : Has(u)' = Has(u)
    BY <1>a, <1>2 DEF Has, InTransit
  <2> QED
    BY <1>a, <2>1, <2>2, <2>3, SameOwners DEF Owned
<1> QED
  BY <1>1, <1>2 DEF ClaimReturn, BlockStatus

\* Release takes the slot from its user, and its hook gives it to the waiter.
LEMMA ReleaseOwned ==
    ASSUME Lists, Lists', Safe, FreeList, FreeList', Owned,
           NEW t \in Task, NEW s \in Slot, Release(t, s)
    PROVE  Owned'
<1>a. /\ uses' = [uses EXCEPT ![t] = @ \ {s}] /\ uses \in [Task -> SUBSET Slot]
      /\ claiming' = claiming /\ t \notin claiming /\ claiming \subseteq Task
      /\ misused' = (misused \/ s \notin uses[t]) /\ misused \in BOOLEAN
      /\ buffer[s] = Claimed /\ buffer \in [Slot -> 0 .. Size \cup {Claimed}]
      /\ nextFree \in 0 .. Size /\ Claimed \notin 0 .. Size
      /\ tptr \in [Task -> Slot \cup {NoSlot}]
  BY HeapAssumption DEF Release, FreeSlot, Owned, HeapTypeOK
<1>b. InTransit(t) = {} /\ InTransit(t)' = {}
  BY <1>a DEF InTransit
<1>c. ASSUME ~misused', ~misused => OneUserEach
      PROVE  OneUserEach /\ \A u \in Task : s \in Has(u) <=> u = t
  <2>1. OneUserEach /\ s \in Has(t)
    BY <1>a, <1>c DEF Has
  <2> QED
    BY <1>a, <2>1 DEF OneUserEach
<1>1. CASE /\ buffer' = [buffer EXCEPT ![s] = nextFree]
           /\ UNCHANGED <<vars, tptr>>
  <2>1. HeapTypeOK'
    BY <1>a, <1>1 DEF Owned, HeapTypeOK, FreeList, BufferTyped, Lists
  <2>2. Calls' /\ NoneIsNull'
    BY <1>a, <1>1 DEF Owned, Calls, NoneIsNull, vars
  <2>3. \A u \in Task : InTransit(u)' = InTransit(u)
    BY <1>a, <1>1 DEF InTransit, vars
  <2>4. Has(t)' = Has(t) \ {s} /\ \A u \in Task : u # t => Has(u)' = Has(u)
    BY <1>a, <1>b, <2>3 DEF Has
  <2>5. ASSUME ~misused' PROVE OneUserEach'
    <3>1. OneUserEach /\ \A u \in Task : s \in Has(u) <=> u = t
      BY <1>c, <2>5 DEF Owned
    <3>2. \A u \in Task : s \notin Has(u)'
      BY <2>4, <3>1
    <3>3. \A r \in Slot, u \in Task : r # s => (r \in Has(u)' <=> r \in Has(u))
      BY <2>4
    <3>4. buffer'[s] # Claimed /\ \A r \in Slot : r # s => buffer'[r] = buffer[r]
      BY <1>a, <1>1
    <3> QED
      BY <3>1, <3>2, <3>3, <3>4 DEF OneUserEach
  <2> QED
    BY <2>1, <2>2, <2>5 DEF Owned
<1>2. CASE /\ Unblock(blockList)
           /\ tptr' = [tptr EXCEPT ![Head(queue[blockList])] = s]
           /\ buffer' = buffer
  <2>1. PICK u : u = Head(queue[blockList])
    OBVIOUS
  <2>2. u \in Task /\ frame[u] = "blocked" /\ hook[u] /\ reason[u] # "Request"
    BY <1>2, <2>1, FrontWaits, TheList DEF Unblock
  <2>3. /\ reason' = [reason EXCEPT ![u] = "Request"] /\ frame' = frame
        /\ tptr' = [tptr EXCEPT ![u] = s]
        /\ reason \in [Linkable -> Reason] /\ Task \subseteq Linkable
        /\ u \in claiming /\ u # t
    BY <1>a, <1>2, <2>1, <2>2, TaskIsLinkable
       DEF Unblock, UnblockTask, Owned, Calls, HeapTypeOK, TypeOK
  <2>4. HeapTypeOK'
    BY <1>a, <2>2, <2>3 DEF Owned, HeapTypeOK, FreeList, BufferTyped, Lists
  <2>5. Calls' /\ NoneIsNull'
    BY <1>a, <2>2, <2>3 DEF Owned, Calls, NoneIsNull
  <2>6. InTransit(u) = {} /\ InTransit(u)' = {s}
    BY <1>a, <2>2, <2>3 DEF InTransit
  <2>7. \A v \in Task : v # u => InTransit(v)' = InTransit(v)
    BY <1>a, <2>2, <2>3 DEF InTransit
  <2>8. /\ Has(t)' = Has(t) \ {s} /\ Has(u)' = Has(u) \cup {s}
        /\ \A v \in Task : v # t /\ v # u => Has(v)' = Has(v)
    BY <1>a, <1>b, <2>2, <2>3, <2>6, <2>7 DEF Has
  <2>9. ASSUME ~misused' PROVE OneUserEach'
    <3>1. OneUserEach /\ \A v \in Task : s \in Has(v) <=> v = t
      BY <1>c, <2>9 DEF Owned
    <3>2. \A v \in Task : s \in Has(v)' <=> v = u
      BY <2>3, <2>8, <3>1
    <3>3. \A r \in Slot, v \in Task : r # s => (r \in Has(v)' <=> r \in Has(v))
      BY <2>8
    <3> QED
      BY <1>a, <1>2, <2>2, <3>1, <3>2, <3>3 DEF OneUserEach
  <2> QED
    BY <2>4, <2>5, <2>9 DEF Owned
<1> QED
  BY <1>1, <1>2 DEF Release, FreeSlot

LEMMA OwnedNext ==
    ASSUME Lists, Lists', Safe, FreeList, FreeList', Owned, [HeapNext]_allVars
    PROVE  Owned'
<1>1. ASSUME NEW t \in Task, TryClaim(t) PROVE Owned'
  BY <1>1, GetSlotOwned DEF TryClaim, InThread
<1>2. ASSUME NEW t \in Task, Claim(t) \/ ClaimRetry(t) PROVE Owned'
  BY <1>2, ClaimTurnOwned DEF Claim, ClaimRetry, Retries, InThread
<1>3. ASSUME NEW t \in Task, ClaimReturn(t) PROVE Owned'
  BY <1>3, ClaimReturnOwned
<1>4. ASSUME NEW t \in Task, NEW s \in Slot, Release(t, s) PROVE Owned'
  BY <1>4, ReleaseOwned
<1>5. ASSUME /\ reason' = reason /\ UNCHANGED heapVars
             /\ \A t \in Task : frame'[t] = "blocked" <=> frame[t] = "blocked"
      PROVE  Owned'
  <2>1. HeapTypeOK'
    BY <1>5 DEF heapVars, Owned, HeapTypeOK, Lists
  <2>2. Calls' /\ NoneIsNull'
    BY <1>5 DEF heapVars, Owned, Calls, NoneIsNull
  <2>3. \A u \in Task : Has(u)' = Has(u)
    BY <1>5 DEF heapVars, Has, InTransit
  <2> QED
    BY <1>5, <2>1, <2>2, <2>3, SameOwners DEF heapVars, Owned
<1>6. ASSUME OtherStep PROVE Owned'
  BY <1>5, <1>6, PlainStepKeepsCalls, TaskIsLinkable DEF OtherStep
<1>7. ASSUME UNCHANGED allVars PROVE Owned'
  BY <1>5, <1>7 DEF allVars, vars
<1> QED
  BY <1>1, <1>2, <1>3, <1>4, <1>6, <1>7 DEF HeapNext

\* The constructor has given no slot away.
LEMMA OwnedInit == HeapInit => Owned
<1> SUFFICES ASSUME HeapInit PROVE Owned
  OBVIOUS
<1>a. /\ claiming = {} /\ uses = [t \in Task |-> {}] /\ misused = FALSE
      /\ tptr = [t \in Task |-> NoSlot]
      /\ buffer = [s \in Slot |-> s + 1]
      /\ Slot = 0 .. Size - 1 /\ Size \in Nat /\ Claimed \notin 0 .. Size
  BY HeapAssumption DEF HeapInit, Slot
<1>1. HeapTypeOK
  BY <1>a, FreeListInit, ListsInit
     DEF HeapInit, HeapTypeOK, FreeList, BufferTyped, Lists
<1>2. Calls /\ NoneIsNull
  BY <1>a, TaskIsLinkable DEF HeapInit, Init, Calls, NoneIsNull
<1>3. OneUserEach
  BY <1>a DEF OneUserEach, Has, InTransit
<1> QED
  BY <1>1, <1>2, <1>3 DEF Owned

-----------------------------------------------------------------------------
\* No waiting task misses a slot.
LEMMA NobodyWaitsNext ==
    ASSUME Lists, NobodyWaitsForAFreeSlot, [HeapNext]_allVars
    PROVE  NobodyWaitsForAFreeSlot'
<1> SUFFICES ASSUME nextFree' # Size PROVE queue'[blockList] = <<>>
  BY DEF NobodyWaitsForAFreeSlot
<1>1. ASSUME NEW t \in Task, GetSlot(t) PROVE queue'[blockList] = <<>>
  <2>1. nextFree # Size
    BY <1>1, HeapAssumption DEF GetSlot, TakeSlot, Slot
  <2> QED
    BY <1>1, <2>1 DEF NobodyWaitsForAFreeSlot, GetSlot, vars
<1>2. ASSUME UNCHANGED <<queue, nextFree>> PROVE queue'[blockList] = <<>>
  BY <1>2 DEF NobodyWaitsForAFreeSlot
<1>3. ASSUME NEW t \in Task, ClaimTurn(t) PROVE queue'[blockList] = <<>>
  BY <1>1, <1>3 DEF ClaimTurn
<1>4. ASSUME NEW t \in Task, ClaimReturn(t) PROVE queue'[blockList] = <<>>
  BY <1>2, <1>4 DEF ClaimReturn, BlockReturn, lists
<1>5. ASSUME NEW t \in Task, NEW s \in Slot, Release(t, s)
      PROVE  queue'[blockList] = <<>>
  <2>1. CASE queue[blockList] = <<>> /\ UNCHANGED vars
    BY <2>1 DEF vars
  <2>2. CASE Unblock(blockList) /\ nextFree' = nextFree
    BY <2>2 DEF NobodyWaitsForAFreeSlot, Unblock
  <2> QED
    BY <1>5, <2>1, <2>2 DEF Release, FreeSlot
<1>6. ASSUME OtherStep PROVE queue'[blockList] = <<>>
  BY <1>6, PlainStepKeepsEmpty, TheList
     DEF OtherStep, heapVars, NobodyWaitsForAFreeSlot
<1>7. ASSUME UNCHANGED allVars PROVE queue'[blockList] = <<>>
  BY <1>2, <1>7 DEF allVars, vars, heapVars
<1> QED
  BY <1>1, <1>3, <1>4, <1>5, <1>6, <1>7
     DEF HeapNext, TryClaim, Claim, ClaimRetry

\* The heap's invariant.
LEMMA HeapAlways ==
    HeapSpec => [](Lists /\ Safe /\ FreeList /\ Owned /\ NobodyWaitsForAFreeSlot)
<1>1. HeapInit => NobodyWaitsForAFreeSlot
  BY TheList, ListsAssumption DEF HeapInit, Init, NobodyWaitsForAFreeSlot
<1>2. Lists /\ Lists' /\ Safe /\ FreeList /\ Owned /\ NobodyWaitsForAFreeSlot
        /\ [HeapNext]_allVars
      => FreeList' /\ Owned' /\ NobodyWaitsForAFreeSlot'
  BY FreeListNext, OwnedNext, NobodyWaitsNext
<1> QED
  BY <1>1, <1>2, HeapSafe, FreeListInit, OwnedInit, PTL DEF HeapSpec

\* Every variable keeps its type.
THEOREM HeapIsTyped == HeapSpec => []HeapTypeOK
<1>1. Owned => HeapTypeOK
  BY DEF Owned
<1> QED
  BY <1>1, HeapAlways, PTL

\* No release is lost on a waiter, whatever is released.
THEOREM NoReleaseIsLost == HeapSpec => []NobodyWaitsForAFreeSlot
  BY HeapAlways, PTL

\* Claim never returns a null element, and until a task releases what it did
\* not use, each claimed slot is one task's.
THEOREM ElementsStayExclusive == HeapSpec => []ElementsAreExclusive
<1>1. Owned => ElementsAreExclusive
  BY ExclusiveParts DEF Owned
<1> QED
  BY <1>1, HeapAlways, PTL
=============================================================================
