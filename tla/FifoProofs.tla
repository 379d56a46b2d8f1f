------------------------------ MODULE FifoProofs ------------------------------
(***************************************************************************)
(* Theorems about Fifo, for any number of tasks, places and accesses: its  *)
(* two semaphores count elements and places exactly.                       *)
(***************************************************************************)
EXTENDS Fifo, SynchronisationProofs

\* Whatever the Fifo does to its semaphores is a step of theirs.
LEMMA FifoStepIsSemaphoreStep ==
    ASSUME [FifoNext]_allFifoVars PROVE [SemaphoreNext]_allVars
<1>1. ASSUME NEW t \in Task, NEW s \in BlockList, Wait(t, s)
      PROVE  SemaphoreNext
  BY <1>1 DEF Wait, SemaphoreNext
<1>2. ASSUME NEW t \in Task, WaitReturn(t) PROVE SemaphoreNext
  BY <1>2 DEF WaitReturn, SemaphoreNext
<1>3. ASSUME NEW t \in Task, Access(t) PROVE SemaphoreNext
  BY <1>3, FifoAssumption DEF Access, SemaphoreNext
<1>4. CASE Releasing
  BY <1>4 DEF Releasing, SemaphoreNext
<1>5. CASE FifoOtherStep
  BY <1>5 DEF FifoOtherStep, SemaphoreNext
<1>6. CASE UNCHANGED allFifoVars
  BY <1>6 DEF allFifoVars
<1> QED
  BY <1>1, <1>2, <1>3, <1>4, <1>5, <1>6 DEF FifoNext

\* A Fifo uses its semaphores as Semaphore says they are used, so every theorem
\* about semaphores, and so about the scheduler, holds of a program with one.
LEMMA FifoRefinesSemaphore == FifoSpec => SemaphoreSpec
<1>1. FifoInit => SemaphoreInit
  BY DEF FifoInit
<1> QED
  BY <1>1, FifoStepIsSemaphoreStep, PTL DEF FifoSpec, SemaphoreSpec

-----------------------------------------------------------------------------
(***************************************************************************)
(* The places.  What is granted of a semaphore is owed and not counted, so *)
(* its tokens are those owed, those about to be released and those of the  *)
(* task that has not accessed the buffer yet, of which there is one at     *)
(* most: from there on interrupts are masked.                              *)
(***************************************************************************)
\* The tasks that are past their wait for s.
PastWait(s) == {t \in Task : waited[t] = s}

FifoTypes ==
    /\ waited \in [Task -> BlockList \cup {NoList}]
    /\ accesses \in [BlockList -> Nat]
    /\ \A t \in Task : waited[t] # NoList => frame[t] = "running" /\ NotReleasing
    /\ \A t, u \in Task : waited[t] # NoList /\ waited[u] # NoList => t = u

\* How many elements were pushed and not popped.
Inside == accesses[pushSemaphore] - accesses[popSemaphore]

\* What there should be of s.
Due(s) == IF s = popSemaphore THEN Inside ELSE Count - Inside

PlacesInv ==
    \A s \in BlockList :
        owed[s] + left[s] + Cardinality(PastWait(s)) = Due(s)

\* The tasks past a wait can be counted.
LEMMA PastWaitIsFinite ==
    ASSUME NEW s
    PROVE  IsFiniteSet(PastWait(s)) /\ Cardinality(PastWait(s)) \in Nat
<1>1. PastWait(s) \in SUBSET Task
  BY DEF PastWait
<1> QED
  BY <1>1, TasksAreFinite, FS_Subset, FS_CardinalityType

\* Counting them after a step.
LEMMA PastWaitNext ==
    ASSUME NEW s
    PROVE  IsFiniteSet(PastWait(s)') /\ Cardinality(PastWait(s)') \in Nat
<1>1. PastWait(s)' \in SUBSET Task
  BY DEF PastWait
<1> QED
  BY <1>1, TasksAreFinite, FS_Subset, FS_CardinalityType

\* A task that gets past its wait for s is one more, and no other semaphore
\* has fewer or more.
LEMMA OnePastWait ==
    ASSUME FifoTypes, NotAccessing, NEW t \in Task, NEW s \in BlockList,
           waited' = [waited EXCEPT ![t] = s]
    PROVE  /\ Cardinality(PastWait(s)') = Cardinality(PastWait(s)) + 1
           /\ \A r \in BlockList : r # s =>
                Cardinality(PastWait(r)') = Cardinality(PastWait(r))
<1>1. waited \in [Task -> BlockList \cup {NoList}] /\ waited[t] = NoList
      /\ NoList \notin BlockList
  BY ListsAssumption, ListNames DEF FifoTypes, NotAccessing
<1>2. PastWait(s)' = PastWait(s) \cup {t} /\ t \notin PastWait(s)
  BY <1>1 DEF PastWait
<1>3. \A r \in BlockList : r # s => PastWait(r)' = PastWait(r)
  BY <1>1 DEF PastWait
<1>4. Cardinality(PastWait(s) \cup {t}) = Cardinality(PastWait(s)) + 1
  BY <1>2, PastWaitIsFinite, FS_AddElement
<1> QED
  BY <1>2, <1>3, <1>4

\* A task that accesses the buffer was past its wait for s and is no more.
LEMMA AccessLeaves ==
    ASSUME FifoTypes, NEW t \in Task, NEW s \in BlockList, waited[t] = s,
           waited' = [waited EXCEPT ![t] = NoList]
    PROVE  /\ Cardinality(PastWait(s)') = Cardinality(PastWait(s)) - 1
           /\ \A r \in BlockList : r # s =>
                Cardinality(PastWait(r)') = Cardinality(PastWait(r))
<1>1. waited \in [Task -> BlockList \cup {NoList}] /\ NoList \notin BlockList
  BY ListsAssumption, ListNames DEF FifoTypes
<1>2. PastWait(s)' = PastWait(s) \ {t} /\ t \in PastWait(s)
  BY <1>1 DEF PastWait
<1>3. \A r \in BlockList : r # s => PastWait(r)' = PastWait(r)
  BY <1>1 DEF PastWait
<1>4. Cardinality(PastWait(s) \ {t}) = Cardinality(PastWait(s)) - 1
  BY <1>2, PastWaitIsFinite, FS_RemoveElement
<1> QED
  BY <1>2, <1>3, <1>4

\* What an invariant about places needs to know of the numbers.
LEMMA NumbersAre ==
    ASSUME SemaphoreTypeOK, FifoTypes
    PROVE  /\ \A s \in BlockList :
                /\ owed[s] \in Int /\ left[s] \in Nat /\ counter[s] \in Nat
                /\ accesses[s] \in Nat /\ Due(s) \in Int
           /\ Count \in Nat /\ Inside \in Int
           /\ BlockList = {pushSemaphore, popSemaphore}
           /\ pushSemaphore # popSemaphore
           /\ MaxCounter = [s \in BlockList |-> Count]
  BY FifoAssumption DEF SemaphoreTypeOK, FifoTypes, Due, Inside

\* Neither semaphore has all its tokens while one is about to be released.
LEMMA NoTokenTooMany ==
    ASSUME SemaphoreTypeOK, FifoTypes, Conserved, PlacesInv,
           NEW s \in BlockList, left[s] > 0
    PROVE  counter[s] # MaxCounter[s]
<1>1. \A r \in BlockList :
         /\ owed[r] = counter[r] + Cardinality(Granted(r))
         /\ owed[r] + left[r] + Cardinality(PastWait(r)) = Due(r)
         /\ Cardinality(Granted(r)) \in Nat /\ Cardinality(PastWait(r)) \in Nat
  BY GrantedIsFinite, PastWaitIsFinite DEF Conserved, PlacesInv
<1>2. PICK r \in BlockList : r # s
  BY NumbersAre
<1>3. Due(s) + Due(r) = Count
  BY <1>2, NumbersAre DEF Due
<1>4. Due(r) >= 0 /\ Due(s) >= counter[s] + left[s]
  <2>1. owed[r] \in Nat
    BY <1>1, <1>2, NumbersAre
  <2>2. Due(r) >= 0
    BY <1>1, <1>2, <2>1, NumbersAre
  <2> QED
    BY <1>1, <2>2, NumbersAre
<1>5. MaxCounter[s] = Count
  BY NumbersAre
<1> QED
  BY <1>2, <1>3, <1>4, <1>5, NumbersAre

-----------------------------------------------------------------------------
\* Every step keeps one task at most past its wait, with interrupts masked.
LEMMA FifoTypesNext ==
    ASSUME TypeOK, SemaphoreTypeOK, FifoTypes, [FifoNext]_allFifoVars
    PROVE  FifoTypes'
<1> USE TaskIsLinkable
<1>a. /\ waited \in [Task -> BlockList \cup {NoList}]
      /\ accesses \in [BlockList -> Nat]
      /\ frame \in [Linkable -> Frame]
      /\ acquiring \in [Task -> BlockList \cup {NoList}]
  BY DEF FifoTypes, TypeOK, SemaphoreTypeOK
<1>b. ASSUME NotAccessing, UNCHANGED <<waited, accesses>> PROVE FifoTypes'
  BY <1>a, <1>b DEF NotAccessing, FifoTypes
<1>1. ASSUME NEW t \in Task, NEW s \in BlockList, Wait(t, s)
      PROVE  FifoTypes'
  <2>1. NotAccessing /\ UNCHANGED <<left, accesses>> /\ NotReleasing
        /\ frame[t] = "running"
    BY <1>1 DEF Wait, Acquire, TryAcquire, TakeToken, InThread
  <2>2. CASE waited' = [waited EXCEPT ![t] = NoList]
    <3>1. waited' = waited
      BY <1>a, <2>1, <2>2 DEF NotAccessing
    <3> QED
      BY <1>b, <2>1, <3>1
  <2>3. CASE TakeToken(s) /\ waited' = [waited EXCEPT ![t] = s]
    <3>1. frame' = frame
      BY <2>3 DEF TakeToken, vars
    <3> QED
      BY <1>a, <2>1, <2>3, <3>1 DEF NotAccessing, NotReleasing, FifoTypes
  <2>4. frame'[t] = "blocked" \/ TakeToken(s)
    BY <1>a, <1>1 DEF Wait, Acquire, TryAcquire, Block
  <2>5. CASE TakeToken(s)
    <3>1. frame'[t] # "blocked"
      BY <2>1, <2>5 DEF TakeToken, vars
    <3> QED
      BY <1>1, <2>3, <2>5, <3>1 DEF Wait
  <2>6. CASE frame'[t] = "blocked"
    BY <1>1, <2>2, <2>6 DEF Wait
  <2> QED
    BY <2>4, <2>5, <2>6
<1>2. ASSUME NEW t \in Task, WaitReturn(t) PROVE FifoTypes'
  <2>1. /\ NotAccessing /\ NotReleasing /\ UNCHANGED <<left, accesses>>
        /\ frame' = [frame EXCEPT ![t] = "running"]
        /\ waited' = [waited EXCEPT ![t] = acquiring[t]]
    BY <1>2 DEF WaitReturn, AcquireReturn, BlockReturn
  <2> QED
    BY <1>a, <2>1 DEF NotAccessing, NotReleasing, FifoTypes
<1>3. ASSUME NEW t \in Task, Access(t) PROVE FifoTypes'
  <2>1. /\ waited[t] # NoList
        /\ waited' = [waited EXCEPT ![t] = NoList]
        /\ accesses' = [accesses EXCEPT ![waited[t]] = @ + 1]
    BY <1>3 DEF Access
  <2>2. \A u \in Task : waited'[u] = NoList
    BY <1>a, <2>1 DEF FifoTypes
  <2>3. accesses' \in [BlockList -> Nat]
    BY <1>a, <2>1
  <2>4. waited' \in [Task -> BlockList \cup {NoList}]
    BY <1>a, <2>1
  <2> QED
    BY <2>2, <2>3, <2>4 DEF FifoTypes
<1>4. CASE Releasing
  <2>1. UNCHANGED <<waited, accesses>> /\ ~ NotReleasing
    BY <1>4 DEF Releasing, InternalRelease, NotReleasing, fifoVars
  <2>2. NotAccessing
    BY <2>1 DEF NotAccessing, FifoTypes
  <2> QED
    BY <1>b, <2>1, <2>2
<1>5. CASE FifoOtherStep
  BY <1>b, <1>5 DEF FifoOtherStep, fifoVars
<1>6. CASE UNCHANGED allFifoVars
  BY <1>6 DEF allFifoVars, allVars, vars, semaphoreVars, fifoVars, FifoTypes,
              NotReleasing
<1> QED
  BY <1>1, <1>2, <1>3, <1>4, <1>5, <1>6 DEF FifoNext

\* An element pushed or popped changes what is due of both semaphores.
LEMMA DueNext ==
    ASSUME SemaphoreTypeOK, FifoTypes, NEW s \in BlockList,
           accesses' = [accesses EXCEPT ![s] = @ + 1]
    PROVE  \A r \in BlockList :
             Due(r)' = Due(r) + (IF r = s THEN -1 ELSE 1)
<1>1. /\ accesses'[s] = accesses[s] + 1
      /\ \A r \in BlockList : r # s => accesses'[r] = accesses[r]
  BY DEF FifoTypes
<1>2. /\ Inside' = Inside + (IF s = pushSemaphore THEN 1 ELSE -1)
  BY <1>1, NumbersAre DEF Inside
<1> QED
  BY <1>2, NumbersAre DEF Due

\* Every step keeps the places and the elements counted, if the application
\* moves no blocked task.
LEMMA PlacesNext ==
    ASSUME Lists, Safe, SemaphoreTypeOK, Conserved, FifoTypes, FifoTypes',
           PlacesInv, [FifoNext]_allFifoVars
    PROVE  PlacesInv'
<1> USE TaskIsLinkable
<1>a. /\ owed \in [BlockList -> Int] /\ left \in [BlockList -> Nat]
      /\ counter \in [BlockList -> Nat]
      /\ acquiring \in [Task -> BlockList \cup {NoList}]
      /\ frame \in [Linkable -> Frame]
  BY DEF SemaphoreTypeOK, Lists, TypeOK
<1>b. \A r \in BlockList :
         /\ owed[r] + left[r] + Cardinality(PastWait(r)) = Due(r)
         /\ Cardinality(PastWait(r)) \in Nat /\ Cardinality(PastWait(r)') \in Nat
         /\ owed[r] \in Int /\ left[r] \in Nat /\ Due(r) \in Int
  BY PastWaitIsFinite, PastWaitNext, NumbersAre DEF PlacesInv
<1>c. ASSUME accesses' = accesses PROVE \A r \in BlockList : Due(r)' = Due(r)
  BY <1>c DEF Due, Inside
<1>d. ASSUME waited' = waited
      PROVE  \A r \in BlockList : PastWait(r)' = PastWait(r)
  BY <1>d DEF PastWait
<1>e. ASSUME UNCHANGED <<waited, accesses, owed, left>> PROVE PlacesInv'
  BY <1>b, <1>c, <1>d, <1>e DEF PlacesInv
\* A token goes from the ones owed to a task past its wait.
<1>f. ASSUME NotAccessing, NEW t \in Task, NEW s \in BlockList,
             waited' = [waited EXCEPT ![t] = s],
             owed' = [owed EXCEPT ![s] = @ - 1], UNCHANGED <<left, accesses>>
      PROVE  PlacesInv'
  <2>1. /\ Cardinality(PastWait(s)') = Cardinality(PastWait(s)) + 1
        /\ \A r \in BlockList : r # s =>
             Cardinality(PastWait(r)') = Cardinality(PastWait(r))
    BY <1>f, OnePastWait
  <2>2. /\ owed'[s] = owed[s] - 1
        /\ \A r \in BlockList : r # s => owed'[r] = owed[r]
    BY <1>a, <1>f
  <2> QED
    BY <1>b, <1>c, <1>f, <2>1, <2>2 DEF PlacesInv
<1>1. ASSUME NEW t \in Task, NEW s \in BlockList, Wait(t, s)
      PROVE  PlacesInv'
  <2>1. NotAccessing /\ UNCHANGED <<left, accesses>> /\ frame[t] = "running"
    BY <1>1 DEF Wait, Acquire, TryAcquire, TakeToken, InThread
  <2>2. CASE TakeToken(s)
    <3>1. frame'[t] # "blocked" /\ owed' = [owed EXCEPT ![s] = @ - 1]
      BY <2>1, <2>2 DEF TakeToken, vars
    <3> QED
      BY <1>1, <1>f, <2>1, <3>1 DEF Wait
  <2>3. CASE frame'[t] = "blocked" /\ owed' = owed
    <3>1. waited' = waited
      BY <1>1, <2>1, <2>3 DEF Wait, NotAccessing, FifoTypes
    <3> QED
      BY <1>e, <2>1, <2>3, <3>1
  <2>4. TakeToken(s) \/ (Block(t, s) /\ UNCHANGED <<counter, left, owed>>)
    BY <1>1 DEF Wait, Acquire, TryAcquire
  <2>5. Block(t, s) => frame'[t] = "blocked"
    BY <1>a DEF Block
  <2> QED
    BY <2>2, <2>3, <2>4, <2>5
<1>2. ASSUME NEW t \in Task, WaitReturn(t) PROVE PlacesInv'
  <2>1. frame[t] = "blocked"
    BY <1>2 DEF WaitReturn, AcquireReturn, BlockReturn
  <2>2. acquiring[t] \in BlockList
    BY <2>1 DEF Conserved, AcquirersWait
  <2> QED
    BY <1>2, <1>f, <2>2 DEF WaitReturn, AcquireReturn
<1>3. ASSUME NEW t \in Task, Access(t) PROVE PlacesInv'
  <2>1. waited[t] # NoList
    BY <1>3 DEF Access
  <2>2. PICK s \in BlockList : waited[t] = s
    BY <2>1 DEF FifoTypes
  <2>3. PICK other \in BlockList \ {s} : Release(other, 1)
    BY <1>3, <2>2 DEF Access
  <2>4. /\ Cardinality(PastWait(s)') = Cardinality(PastWait(s)) - 1
        /\ \A r \in BlockList : r # s =>
             Cardinality(PastWait(r)') = Cardinality(PastWait(r))
    BY <1>3, <2>2, AccessLeaves DEF Access
  <2>5. /\ owed' = owed /\ left[other] = 0 /\ left'[other] = 1
        /\ \A r \in BlockList : r # other => left'[r] = left[r]
    BY <1>a, <2>3 DEF Release, NotReleasing
  <2>6. \A r \in BlockList : Due(r)' = Due(r) + (IF r = s THEN -1 ELSE 1)
    BY <1>3, <2>2, DueNext DEF Access
  <2>7. \A r \in BlockList : r = s \/ r = other
    BY <2>3, NumbersAre
  <2> QED
    BY <1>b, <2>3, <2>4, <2>5, <2>6, <2>7 DEF PlacesInv
<1>4. CASE Releasing
  <2>1. PICK s \in BlockList : InternalRelease(s)
    BY <1>4 DEF Releasing
  <2>2. counter[s] # MaxCounter[s]
    BY <2>1, NoTokenTooMany DEF InternalRelease
  <2>3. owed' = [owed EXCEPT ![s] = @ + 1] /\ left' = [left EXCEPT ![s] = @ - 1]
    BY <2>1, <2>2 DEF InternalRelease
  <2>4. /\ owed'[s] = owed[s] + 1 /\ left'[s] = left[s] - 1
        /\ \A r \in BlockList : r # s => owed'[r] = owed[r] /\ left'[r] = left[r]
    BY <1>a, <2>3
  <2>5. UNCHANGED <<waited, accesses>>
    BY <1>4 DEF Releasing, fifoVars
  <2> QED
    BY <1>b, <1>c, <1>d, <2>4, <2>5 DEF PlacesInv
<1>5. CASE FifoOtherStep
  BY <1>e, <1>5 DEF FifoOtherStep, SchedulerStep, semaphoreVars, fifoVars
<1>6. CASE UNCHANGED allFifoVars
  BY <1>e, <1>6 DEF allFifoVars, allVars, semaphoreVars, fifoVars
<1> QED
  BY <1>1, <1>2, <1>3, <1>4, <1>5, <1>6 DEF FifoNext

\* The tokens of s are those owed, about to be released or past a wait.
LEMMA TokensAre ==
    ASSUME SemaphoreTypeOK, Conserved, FifoTypes, NEW s \in BlockList
    PROVE  Tokens(s) = owed[s] + left[s] + Cardinality(PastWait(s))
<1>1. PastWait(s) \cap Granted(s) = {}
  BY ListsAssumption, ListNames DEF PastWait, Granted, FifoTypes
<1>2. Cardinality(PastWait(s) \cup Granted(s))
        = Cardinality(PastWait(s)) + Cardinality(Granted(s))
  <2>1. Cardinality(PastWait(s) \cap Granted(s)) = 0
    BY <1>1, FS_EmptySet
  <2>2. IsFiniteSet(PastWait(s)) /\ IsFiniteSet(Granted(s))
    BY GrantedIsFinite, PastWaitIsFinite
  <2>3. Cardinality(PastWait(s) \cup Granted(s))
          = Cardinality(PastWait(s)) + Cardinality(Granted(s))
              - Cardinality(PastWait(s) \cap Granted(s))
    BY <2>2, FS_Union
  <2> QED
    BY <2>1, <2>3, GrantedIsFinite, PastWaitIsFinite
<1>3. owed[s] = counter[s] + Cardinality(Granted(s))
  BY DEF Conserved
<1>4. Tokens(s) = counter[s] + left[s] + Cardinality(PastWait(s) \cup Granted(s))
  BY DEF Tokens, PastWait
<1> QED
  BY <1>2, <1>3, <1>4, NumbersAre, GrantedIsFinite, PastWaitIsFinite

\* One task at most is past its wait, whatever the application does.
LEMMA FifoTypesAlways == FifoSpec => []FifoTypes
<1>1. FifoInit => FifoTypes
  BY DEF FifoInit, FifoTypes
<1>2. SemaphoreTypeOK => TypeOK
  BY DEF SemaphoreTypeOK
<1> QED
  BY <1>1, <1>2, FifoTypesNext, FifoRefinesSemaphore, CountersAlways, PTL
     DEF FifoSpec

\* There is a token for each element and each place, and neither semaphore
\* drops one, for any number of tasks, places and accesses, if no blocked task
\* is moved by another one.
THEOREM PlacesAreNeverLost == FifoSpec => []PlacesAreConserved
<1>1. FifoInit => PlacesInv
  <2> SUFFICES ASSUME FifoInit, NEW s \in BlockList
               PROVE  owed[s] + left[s] + Cardinality(PastWait(s)) = Due(s)
    BY DEF PlacesInv
  <2>1. PastWait(s) = {}
    BY ListsAssumption, ListNames DEF FifoInit, PastWait
  <2>2. Cardinality(PastWait(s)) = 0
    BY <2>1, FS_EmptySet
  <2>3. /\ left[s] = 0 /\ accesses[pushSemaphore] = 0 /\ accesses[popSemaphore] = 0
        /\ owed[s] = IF s = pushSemaphore THEN Count ELSE 0
    BY FifoAssumption DEF FifoInit, SemaphoreInit
  <2> QED
    BY <2>2, <2>3, FifoAssumption DEF Due, Inside
<1>2. Lists /\ Safe /\ SemaphoreTypeOK /\ (~ MovesBlockedTasks => Conserved)
        /\ FifoTypes /\ FifoTypes' /\ (~ MovesBlockedTasks => PlacesInv)
        /\ [FifoNext]_allFifoVars
      => (~ MovesBlockedTasks => PlacesInv)'
  BY PlacesNext
<1>3. SemaphoreTypeOK /\ (~ MovesBlockedTasks => Conserved) /\ FifoTypes
        /\ (~ MovesBlockedTasks => PlacesInv)
      => PlacesAreConserved
  <2> SUFFICES ASSUME SemaphoreTypeOK, Conserved, FifoTypes, PlacesInv
               PROVE  /\ Tokens(popSemaphore) = Inside
                      /\ Tokens(pushSemaphore) = Count - Inside
    BY DEF PlacesAreConserved, Inside
  <2>1. \A s \in BlockList : Tokens(s) = Due(s)
    BY TokensAre DEF PlacesInv
  <2> QED
    BY <2>1, FifoAssumption DEF Due
<1> QED
  BY <1>1, <1>2, <1>3, FifoTypesAlways, FifoRefinesSemaphore, CountersAlways,
     ConservedAlways, PTL DEF FifoSpec
=============================================================================
