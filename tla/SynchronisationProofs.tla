------------------------ MODULE SynchronisationProofs ------------------------
(***************************************************************************)
(* Theorems about Semaphore and Mutex, for any number of tasks, semaphores *)
(* and mutexes and any counters.  With semaphores no wake-up is lost, the  *)
(* most urgent waiter is served and tokens are conserved.  A mutex has one *)
(* owner, which knows, no hand-over is lost, and the most urgent waiter is *)
(* next.                                                                   *)
(***************************************************************************)
EXTENDS Semaphore, Mutex, SchedulerProofs, FiniteSetTheorems

\* Whatever a semaphore does to the scheduler is a step of the scheduler.
LEMMA SemaphoreStepIsSchedulerStep ==
    ASSUME [SemaphoreNext]_allVars PROVE [Next]_vars
<1>1. ASSUME NEW t \in Task, NEW s \in BlockList,
             TryAcquire(t, s) \/ Acquire(t, s)
      PROVE  [Next]_vars
  <2>1. TakeToken(s) \/ Block(t, s)
    BY <1>1 DEF TryAcquire, Acquire
  <2> QED
    BY <2>1 DEF TakeToken, Next
<1>2. ASSUME NEW t \in Task, AcquireReturn(t) PROVE [Next]_vars
  BY <1>2 DEF AcquireReturn, Next
<1>3. ASSUME NEW s \in BlockList, NEW count \in ReleaseCounts, Release(s, count)
      PROVE  [Next]_vars
  BY <1>3 DEF Release
<1>4. ASSUME NEW s \in BlockList, InternalRelease(s) PROVE [Next]_vars
  <2>1. UNCHANGED vars \/ Unblock(s)
    BY <1>4 DEF InternalRelease
  <2> QED
    BY <2>1 DEF Next
<1>5. ASSUME SchedulerStep PROVE [Next]_vars
  BY <1>5 DEF SchedulerStep, Next
<1>6. ASSUME UNCHANGED allVars PROVE [Next]_vars
  BY <1>6 DEF allVars
<1> QED
  BY <1>1, <1>2, <1>3, <1>4, <1>5, <1>6 DEF SemaphoreNext

\* Semaphores use the scheduler as its specification says it is used, so every
\* theorem about the scheduler holds of a program with semaphores.
LEMMA SemaphoreRefinesScheduler == SemaphoreSpec => Spec
<1>1. SemaphoreInit => Init
  BY DEF SemaphoreInit
<1>2. [SemaphoreNext]_allVars => [Next]_vars
  BY SemaphoreStepIsSchedulerStep
<1> QED
  BY <1>1, <1>2, PTL DEF SemaphoreSpec, Spec

-----------------------------------------------------------------------------
\* The counters start in their range.
LEMMA CountersInit == SemaphoreInit /\ TypeOK => SemaphoreTypeOK
  BY SemaphoreAssumption DEF SemaphoreInit, SemaphoreTypeOK

\* Every step keeps the counters in their range.
LEMMA CountersNext ==
    ASSUME SemaphoreTypeOK, TypeOK', [SemaphoreNext]_allVars
    PROVE  SemaphoreTypeOK'
<1>a. /\ counter \in [BlockList -> Nat] /\ left \in [BlockList -> Nat]
      /\ acquiring \in [Task -> BlockList \cup {NoList}]
      /\ owed \in [BlockList -> Int]
      /\ \A s \in BlockList : counter[s] <= MaxCounter[s]
      /\ MaxCounter \in [BlockList -> Nat]
  BY SemaphoreAssumption DEF SemaphoreTypeOK
<1>1. ASSUME NEW t \in Task, NEW s \in BlockList,
             TryAcquire(t, s) \/ Acquire(t, s)
      PROVE  SemaphoreTypeOK'
  <2>1. CASE TakeToken(s)
    BY <1>a, <2>1 DEF TakeToken, SemaphoreTypeOK
  <2>2. CASE /\ acquiring' = [acquiring EXCEPT ![t] = s]
             /\ UNCHANGED <<counter, left, owed>>
    BY <1>a, <2>2 DEF SemaphoreTypeOK
  <2> QED
    BY <1>1, <2>1, <2>2 DEF TryAcquire, Acquire
<1>2. ASSUME NEW t \in Task, AcquireReturn(t) PROVE SemaphoreTypeOK'
  <2> DEFINE s == acquiring[t]
  <2>1. /\ acquiring' = [acquiring EXCEPT ![t] = NoList]
        /\ owed' = [owed EXCEPT ![s] = owed[s] - 1]
    BY <1>2 DEF AcquireReturn
  <2> HIDE DEF s
  <2>2. owed' \in [BlockList -> Int]
    <3>1. CASE s \in BlockList
      BY <1>a, <2>1, <3>1
    <3>2. CASE s \notin BlockList
      BY <1>a, <2>1, <3>2
    <3> QED
      BY <3>1, <3>2
  <2>3. acquiring' \in [Task -> BlockList \cup {NoList}]
    BY <1>a, <2>1
  <2>4. counter' = counter /\ left' = left
    BY <1>2 DEF AcquireReturn
  <2> QED
    BY <1>a, <2>2, <2>3, <2>4 DEF SemaphoreTypeOK
<1>3. ASSUME NEW s \in BlockList, NEW count \in ReleaseCounts, Release(s, count)
      PROVE  SemaphoreTypeOK'
  BY <1>a, <1>3, SemaphoreAssumption DEF Release, SemaphoreTypeOK
<1>4. ASSUME NEW s \in BlockList, InternalRelease(s) PROVE SemaphoreTypeOK'
  <2>1. left' \in [BlockList -> Nat] /\ acquiring' = acquiring
    BY <1>a, <1>4 DEF InternalRelease
  <2>2. CASE UNCHANGED <<counter, owed>>
    BY <1>a, <2>1, <2>2 DEF SemaphoreTypeOK
  <2>3. CASE UNCHANGED counter /\ owed' = [owed EXCEPT ![s] = @ + 1]
    BY <1>a, <2>1, <2>3 DEF SemaphoreTypeOK
  <2>4. CASE /\ counter[s] # MaxCounter[s]
             /\ counter' = [counter EXCEPT ![s] = @ + 1]
             /\ owed' = [owed EXCEPT ![s] = @ + 1]
    BY <1>a, <2>1, <2>4 DEF SemaphoreTypeOK
  <2> QED
    BY <1>4, <2>2, <2>3, <2>4 DEF InternalRelease
<1>5. ASSUME UNCHANGED semaphoreVars PROVE SemaphoreTypeOK'
  BY <1>5, <1>a DEF semaphoreVars, SemaphoreTypeOK
<1> QED
  BY <1>1, <1>2, <1>3, <1>4, <1>5 DEF SemaphoreNext, SchedulerStep, allVars

-----------------------------------------------------------------------------
\* What the scheduler does besides block and unblock.
LEMMA SchedulerStepIsPlain == SchedulerStep => PlainStep
  BY DEF SchedulerStep, PlainStep

\* Every step leaves no task waiting for a token that is there.
LEMMA NobodyWaitsNext ==
    ASSUME Lists, SemaphoreTypeOK, NobodyWaitsForAToken,
           [SemaphoreNext]_allVars
    PROVE  NobodyWaitsForAToken'
<1> SUFFICES ASSUME NEW r \in BlockList, queue'[r] # <<>>
             PROVE  counter'[r] = 0
  BY DEF NobodyWaitsForAToken
<1> USE TaskIsLinkable, ListNames
<1>a. counter \in [BlockList -> Nat] /\ r \in List /\ r # ReadyTasks
  BY ListsAssumption DEF SemaphoreTypeOK
<1>b. queue[r] # <<>> => counter[r] = 0
  BY DEF NobodyWaitsForAToken
<1>1. ASSUME NEW t \in Task, NEW s \in BlockList,
             TryAcquire(t, s) \/ Acquire(t, s)
      PROVE  counter'[r] = 0
  <2>1. CASE TakeToken(s)
    BY <1>a, <1>b, <2>1 DEF TakeToken, vars
  <2>2. CASE counter[s] = 0 /\ Block(t, s) /\ counter' = counter
    <3>1. Push(s, t)
      BY <2>2 DEF Block
    <3>2. r # s => queue[r] # <<>>
      BY <1>a, <3>1, PushKeepsEmpty
    <3> QED
      BY <1>b, <2>2, <3>2
  <2> QED
    BY <1>1, <2>1, <2>2 DEF TryAcquire, Acquire
<1>2. ASSUME NEW t \in Task, AcquireReturn(t) PROVE counter'[r] = 0
  BY <1>2, <1>b DEF AcquireReturn, BlockReturn, lists
<1>3. ASSUME NEW s \in BlockList, NEW count \in ReleaseCounts, Release(s, count)
      PROVE  counter'[r] = 0
  BY <1>3, <1>b DEF Release, vars
<1>4. ASSUME NEW s \in BlockList, InternalRelease(s) PROVE counter'[r] = 0
  <2>1. CASE UNCHANGED <<vars, counter>>
    BY <1>b, <2>1 DEF vars
  <2>2. CASE Unblock(s) /\ counter' = counter
    <3> DEFINE t == Head(queue[s])
    <3>1. t \in Linkable /\ Push(ReadyTasks, t)
      BY <2>2, HeadOfList DEF Unblock, UnblockTask
    <3> HIDE DEF t
    <3>2. queue[r] # <<>>
      BY <1>a, <3>1, PushKeepsEmpty
    <3> QED
      BY <1>b, <2>2, <3>2
  <2>3. CASE /\ queue[s] = <<>> /\ queue' = queue
             /\ counter' = [counter EXCEPT ![s] = @ + 1]
    BY <1>a, <1>b, <2>3
  <2> QED
    BY <1>4, <2>1, <2>2, <2>3 DEF InternalRelease, vars
<1>5. ASSUME SchedulerStep PROVE counter'[r] = 0
  <2>1. queue[r] # <<>> /\ counter' = counter
    BY <1>5, SchedulerStepIsPlain, PlainStepKeepsEmpty DEF SchedulerStep, semaphoreVars
  <2> QED
    BY <1>b, <2>1
<1>6. ASSUME UNCHANGED allVars PROVE counter'[r] = 0
  BY <1>6, <1>b DEF allVars, vars, semaphoreVars
<1> QED
  BY <1>1, <1>2, <1>3, <1>4, <1>5, <1>6 DEF SemaphoreNext

\* Nobody waits when the semaphores are made, and no step changes that.
LEMMA CountersAlways ==
    SemaphoreSpec => [](Lists /\ Safe /\ SemaphoreTypeOK /\ NobodyWaitsForAToken)
<1>1. SemaphoreInit => Lists /\ SemaphoreTypeOK /\ NobodyWaitsForAToken
  <2> SUFFICES ASSUME SemaphoreInit
               PROVE  Lists /\ SemaphoreTypeOK /\ NobodyWaitsForAToken
    OBVIOUS
  <2>1. Lists /\ SemaphoreTypeOK
    BY ListsInit, CountersInit DEF SemaphoreInit, Lists
  <2>2. NobodyWaitsForAToken
    BY ListNames, ListsAssumption DEF SemaphoreInit, Init, NobodyWaitsForAToken
  <2> QED
    BY <2>1, <2>2
<1>2. Lists /\ Lists' /\ SemaphoreTypeOK /\ NobodyWaitsForAToken
        /\ [SemaphoreNext]_allVars
      => SemaphoreTypeOK' /\ NobodyWaitsForAToken'
  <2>1. Lists' => TypeOK'
    BY DEF Lists
  <2> QED
    BY <2>1, CountersNext, NobodyWaitsNext
<1>3. SemaphoreSpec => Spec
  BY SemaphoreRefinesScheduler
<1> QED
  BY <1>1, <1>2, <1>3, SafeAlways, PTL DEF SemaphoreSpec

\* The counter of a semaphore is a natural number and at most its maxCounter.
THEOREM CountersStayInRange == SemaphoreSpec => []SemaphoreTypeOK
  BY CountersAlways, PTL

\* No wake-up is lost: nobody waits while there is a token, whatever task or
\* interrupt releases and however the tasks are moved around.
THEOREM NoWakeUpIsLost == SemaphoreSpec => []NobodyWaitsForAToken
  BY CountersAlways, PTL

\* A release hands its token to the most urgent waiter, if priorities are set
\* before Start, also when it is one of several in a masked section.
THEOREM MostUrgentIsServedFirst == SemaphoreSpec => MostUrgentIsServed
<1>1. ASSUME Lists, Safe, [Next]_vars, ~ LatePriority,
             NEW s \in BlockList, NEW t \in Task, NEW u \in Task,
             parent[t] = s, reason'[t] = "Request", parent[u] = s
      PROVE  priority[t] <= priority[u]
  <2>1. t = Head(queue[s])
    BY <1>1, OnlyUnblockServes, TaskIsLinkable
  <2> QED
    BY <1>1, <2>1, FrontIsMostUrgent, ListNames, TaskIsLinkable DEF Safe
<1>2. Lists /\ Safe /\ [SemaphoreNext]_allVars
        => [~ LatePriority =>
              \A s \in BlockList, t, u \in Task :
                 /\ parent[t] = s /\ reason'[t] = "Request"
                 /\ parent[u] = s
                 => priority[t] <= priority[u]]_allVars
  BY <1>1, SemaphoreStepIsSchedulerStep
<1> QED
  BY <1>2, CountersAlways, PTL DEF SemaphoreSpec, MostUrgentIsServed

-----------------------------------------------------------------------------
(***************************************************************************)
(* Conservation of tokens.  A task inside Acquire is on the semaphore's    *)
(* list or was handed a token, if nobody moves it; the tick handler meets  *)
(* none that waits.                                                        *)
(***************************************************************************)
\* Task t is on its semaphore's list or has its token.
Waits(t) == parent[t] = acquiring[t] \/ reason[t] = "Request"

AcquirersWait ==
    /\ \A t \in Task :
         frame[t] = "blocked" => acquiring[t] \in BlockList /\ Waits(t)
    /\ \A i \in 1 .. Len(scan) :
         frame[scan[i]] = "blocked" => reason[scan[i]] = "Request"

\* The tasks that were handed a token can be counted.
LEMMA GrantedIsFinite ==
    ASSUME NEW s
    PROVE  IsFiniteSet(Granted(s)) /\ Cardinality(Granted(s)) \in Nat
<1>1. Granted(s) \in SUBSET Task
  BY DEF Granted
<1> QED
  BY <1>1, TasksAreFinite, FS_Subset, FS_CardinalityType

\* The scheduler's own steps take no task out of a semaphore's list, if the
\* application moves no blocked task.
LEMMA SchedulerStepKeepsWaiting ==
    ASSUME Lists, Safe, ~ MovesBlockedTasks, AcquirersWait, SchedulerStep
    PROVE  AcquirersWait'
<1> USE TaskIsLinkable, ListNames
<1>a. /\ parent \in [Linkable -> List \cup {NoList}]
      /\ scan \in Seq(Linkable) /\ acquiring' = acquiring
  BY DEF Lists, TypeOK, SchedulerStep, semaphoreVars
<1>b. /\ reason' = reason
      /\ \A t \in Linkable : frame'[t] = "blocked" <=> frame[t] = "blocked"
  BY SchedulerStepIsPlain, PlainStepKeepsCalls
<1>c. ASSUME NEW u \in Linkable, NEW l \in List, Push(l, u),
             u \in Task /\ frame[u] = "blocked" => reason[u] = "Request",
             NEW t \in Task, frame'[t] = "blocked"
      PROVE  acquiring'[t] \in BlockList /\ Waits(t)'
  BY <1>a, <1>b, <1>c DEF Push, AcquirersWait, Waits
<1>d. ASSUME lists' = lists, NEW t \in Task, frame'[t] = "blocked"
      PROVE  acquiring'[t] \in BlockList /\ Waits(t)'
  BY <1>a, <1>b, <1>d DEF lists, AcquirersWait, Waits
<1>e. ASSUME TickVisit PROVE scan # <<>> /\ Head(scan) = scan[1]
                             /\ Head(scan) \in Linkable /\ 1 \in 1 .. Len(scan)
  BY <1>a, <1>e, HeadTailProperties, EmptySeq, LenProperties DEF TickVisit
<1>1. ASSUME NEW t \in Task, frame'[t] = "blocked"
      PROVE  acquiring'[t] \in BlockList /\ Waits(t)'
  <2>1. ASSUME NEW u \in Task, Start(u)
        PROVE  acquiring'[t] \in BlockList /\ Waits(t)'
    BY <1>c, <1>1, <2>1 DEF Start
  <2>2. ASSUME NEW caller \in Task, NEW u \in Task, MayMove(u), Yield(caller, u)
        PROVE  acquiring'[t] \in BlockList /\ Waits(t)'
    BY <1>c, <1>1, <2>2 DEF Yield, MayMove
  <2>3. ASSUME NEW u \in Task, NEW n \in Delays, Delay(u, n)
        PROVE  acquiring'[t] \in BlockList /\ Waits(t)'
    BY <1>c, <1>1, <2>3 DEF Delay, PushDelayed, InThread
  <2>4. ASSUME NEW caller \in Task, NEW u \in Task, NEW n \in Delays,
               MayMove(u), DelayOther(caller, u, n)
        PROVE  acquiring'[t] \in BlockList /\ Waits(t)'
    BY <1>c, <1>1, <2>4 DEF DelayOther, PushDelayed, MayMove
  <2>5. ASSUME TickVisit PROVE acquiring'[t] \in BlockList /\ Waits(t)'
    <3>1. Push(ReadyTasks, Head(scan)) \/ lists' = lists
      BY <2>5 DEF TickVisit
    <3>2. frame[Head(scan)] = "blocked" => reason[Head(scan)] = "Request"
      BY <1>e, <2>5 DEF AcquirersWait
    <3> QED
      BY <1>c, <1>d, <1>e, <1>1, <2>5, <3>1, <3>2
  <2> QED
    BY <1>d, <1>1, <2>1, <2>2, <2>3, <2>4, <2>5
       DEF SchedulerStep, SetPriority, Tick, SwitchContext
<1>2. ASSUME NEW i \in 1 .. Len(scan'), frame'[scan'[i]] = "blocked"
      PROVE  reason'[scan'[i]] = "Request"
  <2>1. CASE Tick
    <3>1. scan' = queue[DelayedTasks] /\ frame' = frame
      BY <2>1 DEF Tick
    <3> DEFINE t == scan'[i]
    <3>2. t \in Linkable /\ parent[t] = DelayedTasks
      BY <1>2, <3>1, ElementOfList
    <3>3. t \in Task /\ frame[t] = "blocked"
      BY <1>2, <3>1, <3>2, ListsAssumption DEF Safe, IdleIsReady, Linkable
    <3> HIDE DEF t
    <3>4. reason[t] = "Request"
      BY <3>2, <3>3, ListsAssumption DEF AcquirersWait, Waits
    <3> QED
      BY <1>b, <3>4 DEF t
  <2>2. CASE TickVisit
    <3>1. scan' = Tail(scan) /\ frame' = frame
      BY <2>2 DEF TickVisit
    <3>2. /\ i + 1 \in 1 .. Len(scan) /\ scan'[i] = scan[i + 1]
          /\ scan[i + 1] \in Linkable
      BY <1>a, <1>e, <2>2, <3>1, HeadTailProperties, LenProperties
    <3> QED
      BY <1>b, <1>2, <3>1, <3>2 DEF AcquirersWait
  <2>3. CASE scan' = scan
    <3>1. scan[i] \in Linkable /\ i \in 1 .. Len(scan)
      BY <1>a, <2>3, LenProperties
    <3> QED
      BY <1>b, <1>2, <2>3, <3>1 DEF AcquirersWait
  <2> QED
    BY <2>1, <2>2, <2>3
       DEF SchedulerStep, SetPriority, Start, Yield, Delay, DelayOther,
           SwitchContext, tick
<1> QED
  BY <1>1, <1>2 DEF AcquirersWait

\* The inductive invariant: what was put in is counted or handed out.
Conserved ==
    /\ AcquirersWait
    /\ \A s \in BlockList : owed[s] = counter[s] + Cardinality(Granted(s))

\* The same tasks are handed a token when no call and no reason changes.
LEMMA GrantedUnchanged ==
    ASSUME NEW s, acquiring' = acquiring, reason' = reason,
           \A t \in Task : frame'[t] = "blocked" <=> frame[t] = "blocked"
    PROVE  Granted(s)' = Granted(s)
  BY DEF Granted

\* A task that was handed a token takes it with it when Acquire returns.
LEMMA AcquireReturnConserves ==
    ASSUME Lists, Safe, SemaphoreTypeOK, Conserved,
           NEW t \in Task, AcquireReturn(t)
    PROVE  Conserved'
<1> USE TaskIsLinkable
<1>1. PICK s : acquiring[t] = s
  OBVIOUS
<1>2. /\ frame \in [Linkable -> Frame] /\ scan = <<>> /\ ~ pendSV
      /\ current = t /\ frame[t] = "blocked"
      /\ frame' = [frame EXCEPT ![t] = "running"]
      /\ parent' = parent /\ reason' = reason /\ scan' = scan
      /\ counter' = counter
      /\ acquiring \in [Task -> BlockList \cup {NoList}]
      /\ acquiring' = [acquiring EXCEPT ![t] = NoList]
      /\ owed \in [BlockList -> Int]
      /\ owed' = [owed EXCEPT ![s] = owed[s] - 1]
  BY <1>1 DEF AcquireReturn, BlockReturn, NoException, Lists, TypeOK, lists, tick,
         block, SemaphoreTypeOK
<1>3. s \in BlockList /\ reason[t] = "Request"
  <2>1. parent[t] = ReadyTasks
    BY <1>2, TasksAssumption DEF Safe, RunningTaskIsReady
  <2> QED
    BY <1>2, <1>1, <2>1, ListsAssumption DEF Conserved, AcquirersWait, Waits
<1>4. counter' = counter /\ owed'[s] = owed[s] - 1
      /\ \A r \in BlockList : r # s => owed'[r] = owed[r]
  BY <1>2, <1>3
<1>5. AcquirersWait'
  BY <1>2, <1>1, EmptySeq DEF Conserved, AcquirersWait, Waits
<1>6. ASSUME NEW r \in BlockList
      PROVE  owed'[r] = counter'[r] + Cardinality(Granted(r)')
  <2>1. owed[r] = counter[r] + Cardinality(Granted(r))
    BY DEF Conserved
  <2>2. /\ counter[r] \in Nat /\ IsFiniteSet(Granted(r))
        /\ Cardinality(Granted(r)) \in Nat
    BY GrantedIsFinite DEF SemaphoreTypeOK
  <2>3. CASE r = s
    <3>1. Granted(s)' = Granted(s) \ {t} /\ t \in Granted(s)
      BY <1>2, <1>3, <1>1, ListsAssumption, ListNames DEF Granted
    <3>2. Cardinality(Granted(s)') = Cardinality(Granted(s)) - 1
      BY <2>2, <2>3, <3>1, FS_RemoveElement
    <3> QED
      BY <1>4, <2>1, <2>2, <2>3, <3>2
  <2>4. CASE r # s
    <3>1. Granted(r)' = Granted(r)
      BY <1>2, <1>1, <2>4, ListsAssumption, ListNames DEF Granted
    <3> QED
      BY <1>4, <2>1, <2>4, <3>1
  <2> QED
    BY <2>3, <2>4
<1> QED
  BY <1>5, <1>6 DEF Conserved

\* The task Unblock chooses becomes one that was handed a token.
LEMMA UnblockConserves ==
    ASSUME Lists, Safe, SemaphoreTypeOK, Conserved,
           NEW s \in BlockList, Unblock(s), UNCHANGED <<counter, acquiring>>,
           owed' = [owed EXCEPT ![s] = owed[s] + 1]
    PROVE  Conserved'
<1> USE TaskIsLinkable, ListNames, ListsAssumption
<1> DEFINE t == Head(queue[s])
<1>1. /\ frame \in [Linkable -> Frame] /\ parent \in [Linkable -> List \cup {NoList}]
      /\ reason \in [Linkable -> Reason] /\ scan \in Seq(Linkable)
      /\ owed \in [BlockList -> Int]
  BY DEF Lists, TypeOK, SemaphoreTypeOK
<1>2. t \in Linkable /\ parent[t] = s /\ UnblockTask(t)
  BY HeadOfList DEF Unblock
<1> HIDE DEF t
<1>3. t \in Task /\ frame[t] = "blocked" /\ hook[t] /\ reason[t] # "Request"
  BY <1>2 DEF Safe, IdleIsReady, HookPointsToLiveFrame, BlockStatus, Linkable
<1>4. acquiring[t] = s
  BY <1>2, <1>3 DEF Conserved, AcquirersWait, Waits
<1>5. /\ parent' = [parent EXCEPT ![t] = ReadyTasks]
      /\ reason' = [reason EXCEPT ![t] = "Request"]
      /\ frame' = frame /\ scan' = scan
  BY <1>2, <1>3 DEF UnblockTask, Push, Unblock, tick
<1>6. AcquirersWait'
  <2>1. \A i \in 1 .. Len(scan) : scan[i] \in Linkable
    BY <1>1, LenProperties
  <2> QED
    BY <1>1, <1>3, <1>5, <2>1 DEF Conserved, AcquirersWait, Waits
<1>7. ASSUME NEW r \in BlockList
      PROVE  owed'[r] = counter'[r] + Cardinality(Granted(r)')
  <2>1. owed[r] = counter[r] + Cardinality(Granted(r))
    BY DEF Conserved
  <2>2. /\ counter[r] \in Nat /\ IsFiniteSet(Granted(r))
        /\ Cardinality(Granted(r)) \in Nat
    BY GrantedIsFinite DEF SemaphoreTypeOK
  <2>3. CASE r = s
    <3>1. Granted(s)' = Granted(s) \cup {t} /\ t \notin Granted(s)
      BY <1>1, <1>3, <1>4, <1>5 DEF Granted
    <3>2. Cardinality(Granted(s)') = Cardinality(Granted(s)) + 1
      BY <2>2, <2>3, <3>1, FS_AddElement
    <3> QED
      BY <1>1, <2>1, <2>2, <2>3, <3>2
  <2>4. CASE r # s
    <3>1. Granted(r)' = Granted(r)
      BY <1>1, <1>4, <1>5, <2>4 DEF Granted
    <3> QED
      BY <1>1, <2>1, <2>4, <3>1
  <2> QED
    BY <2>3, <2>4
<1> QED
  BY <1>6, <1>7 DEF Conserved

\* Every step conserves tokens, if the application moves no blocked task.
LEMMA ConservedNext ==
    ASSUME ~ MovesBlockedTasks, Lists, Safe, SemaphoreTypeOK, Conserved,
           [SemaphoreNext]_allVars
    PROVE  Conserved'
<1> USE TaskIsLinkable, ListNames, ListsAssumption
<1>a. /\ counter \in [BlockList -> Nat] /\ owed \in [BlockList -> Int]
      /\ acquiring \in [Task -> BlockList \cup {NoList}]
      /\ frame \in [Linkable -> Frame] /\ reason \in [Linkable -> Reason]
      /\ parent \in [Linkable -> List \cup {NoList}]
  BY DEF Lists, TypeOK, SemaphoreTypeOK
<1>b. ASSUME UNCHANGED <<vars, acquiring>>
      PROVE  AcquirersWait' /\ \A r \in BlockList : Granted(r)' = Granted(r)
  BY <1>b, GrantedUnchanged DEF vars, Conserved, AcquirersWait, Waits
<1>c. \A r \in BlockList : owed[r] = counter[r] + Cardinality(Granted(r))
                           /\ Cardinality(Granted(r)) \in Nat
  BY GrantedIsFinite DEF Conserved
<1>1. ASSUME NEW s \in BlockList, TakeToken(s) PROVE Conserved'
  BY <1>a, <1>b, <1>c, <1>1 DEF TakeToken, Conserved
<1>2. ASSUME NEW t \in Task, NEW s \in BlockList, Block(t, s),
             acquiring' = [acquiring EXCEPT ![t] = s],
             UNCHANGED <<counter, owed>>
      PROVE  Conserved'
  <2>1. /\ frame[t] = "running" /\ frame' = [frame EXCEPT ![t] = "blocked"]
        /\ reason' = [reason EXCEPT ![t] = "Undefined"]
        /\ parent' = [parent EXCEPT ![t] = s]
        /\ scan' = <<>>
    BY <1>2 DEF Block, InThread, NoException, Push, tick
  <2>2. AcquirersWait'
    BY <1>a, <1>2, <2>1, EmptySeq DEF Conserved, AcquirersWait, Waits
  <2>3. \A r \in BlockList : Granted(r)' = Granted(r)
    BY <1>a, <1>2, <2>1 DEF Granted
  <2> QED
    BY <1>c, <1>2, <2>2, <2>3 DEF Conserved
<1>3. ASSUME NEW t \in Task, AcquireReturn(t) PROVE Conserved'
  BY <1>3, AcquireReturnConserves
<1>4. ASSUME UNCHANGED <<vars, counter, acquiring, owed>> PROVE Conserved'
  BY <1>b, <1>c, <1>4 DEF Conserved
<1>5. ASSUME NEW s \in BlockList, InternalRelease(s) PROVE Conserved'
  <2>1. CASE UNCHANGED <<vars, counter, acquiring, owed>>
    BY <1>4, <2>1
  <2>2. CASE /\ Unblock(s) /\ UNCHANGED <<counter, acquiring>>
             /\ owed' = [owed EXCEPT ![s] = @ + 1]
    BY <2>2, UnblockConserves
  <2>3. CASE /\ UNCHANGED <<vars, acquiring>>
             /\ counter' = [counter EXCEPT ![s] = @ + 1]
             /\ owed' = [owed EXCEPT ![s] = @ + 1]
    BY <1>a, <1>b, <1>c, <2>3 DEF Conserved
  <2> QED
    BY <1>5, <2>1, <2>2, <2>3 DEF InternalRelease
<1>6. ASSUME SchedulerStep PROVE Conserved'
  <2>1. AcquirersWait'
    BY <1>6, SchedulerStepKeepsWaiting DEF Conserved
  <2>2. /\ reason' = reason /\ UNCHANGED <<counter, acquiring, owed>>
        /\ \A t \in Task : frame'[t] = "blocked" <=> frame[t] = "blocked"
    BY <1>6, SchedulerStepIsPlain, PlainStepKeepsCalls DEF SchedulerStep, semaphoreVars
  <2>3. \A r \in BlockList : Granted(r)' = Granted(r)
    BY <2>2, GrantedUnchanged
  <2> QED
    BY <1>c, <2>1, <2>2, <2>3 DEF Conserved
<1> QED
  BY <1>1, <1>2, <1>3, <1>4, <1>5, <1>6
     DEF SemaphoreNext, TryAcquire, Acquire, Release, allVars, semaphoreVars

\* Tokens are conserved from the start.
LEMMA ConservedAlways == SemaphoreSpec => [](~ MovesBlockedTasks => Conserved)
<1>1. SemaphoreInit => Conserved
  <2> SUFFICES ASSUME SemaphoreInit PROVE Conserved
    OBVIOUS
  <2>1. AcquirersWait
    BY TaskIsLinkable, TasksAssumption, EmptySeq
       DEF SemaphoreInit, Init, AcquirersWait
  <2>2. ASSUME NEW s \in BlockList
        PROVE  owed[s] = counter[s] + Cardinality(Granted(s))
    <3>1. Granted(s) = {}
      BY TaskIsLinkable, TasksAssumption DEF SemaphoreInit, Init, Granted
    <3>2. owed[s] = counter[s] /\ counter[s] \in Nat
      BY SemaphoreAssumption DEF SemaphoreInit
    <3> QED
      BY <3>1, <3>2, FS_EmptySet
  <2> QED
    BY <2>1, <2>2 DEF Conserved
<1>2. Lists /\ Safe /\ SemaphoreTypeOK /\ (~ MovesBlockedTasks => Conserved)
        /\ [SemaphoreNext]_allVars
      => (~ MovesBlockedTasks => Conserved)'
  BY ConservedNext
<1> QED
  BY <1>1, <1>2, CountersAlways, PTL DEF SemaphoreSpec

\* Every Acquire that returns Ok took one token and every token goes to one
\* Acquire, if no task is yielded or delayed by another while it is blocked.
THEOREM TokensAreNeverLost == SemaphoreSpec => []TokensAreConserved
<1>1. (~ MovesBlockedTasks => Conserved) => TokensAreConserved
  BY DEF Conserved, TokensAreConserved
<1> QED
  BY <1>1, ConservedAlways, PTL

-----------------------------------------------------------------------------
\* A task inside Lock is inside the Lock of a mutex.
LocksMutex == locking \in [Task -> BlockList \cup {NoList}]

LEMMA LocksMutexNext == LocksMutex /\ [MutexNext]_allMutexVars => LocksMutex'
  BY DEF LocksMutex, MutexNext, Lock, Unlock, LockReturn, LockRetry, LockTurn,
         TakeMutex, Retries, OtherStep, mutexVars, allMutexVars

\* Whatever a mutex does to the scheduler is a step of the scheduler.
LEMMA MutexStepIsSchedulerStep ==
    ASSUME LocksMutex, [MutexNext]_allMutexVars PROVE [Next]_vars
<1>1. ASSUME NEW t \in Task, NEW m \in BlockList, LockTurn(t, m) PROVE [Next]_vars
  BY <1>1 DEF LockTurn, TakeMutex, Next
<1>2. ASSUME NEW t \in Task, LockRetry(t) PROVE [Next]_vars
  <2>1. locking[t] \in BlockList
    BY <1>2 DEF LockRetry, Retries, LocksMutex
  <2> QED
    BY <1>1, <1>2, <2>1 DEF LockRetry
<1>3. ASSUME NEW t \in Task, LockReturn(t) PROVE [Next]_vars
  BY <1>3 DEF LockReturn, Next
<1>4. ASSUME NEW t \in Task, NEW m \in BlockList, Unlock(t, m) PROVE [Next]_vars
  BY <1>4 DEF Unlock, DoUnlock, Next
<1>5. ASSUME OtherStep PROVE [Next]_vars
  BY <1>5 DEF OtherStep, PlainStep, Next
<1> QED
  BY <1>1, <1>2, <1>3, <1>4, <1>5 DEF MutexNext, Lock, allMutexVars

\* Mutexes use the scheduler as its specification says it is used, so every
\* theorem about the scheduler holds of a program with mutexes.
LEMMA MutexRefinesScheduler == MutexSpec => Spec
<1>1. MutexInit => Init /\ LocksMutex
  BY DEF MutexInit, LocksMutex
<1>2. LocksMutex /\ [MutexNext]_allMutexVars => LocksMutex' /\ [Next]_vars
  BY LocksMutexNext, MutexStepIsSchedulerStep
<1> QED
  BY <1>1, <1>2, PTL DEF MutexSpec, Spec

\* The scheduler's invariant holds of a program with mutexes.
LEMMA MutexSafe == MutexSpec => [](Lists /\ Safe)
<1>1. MutexSpec => Spec
  BY MutexRefinesScheduler
<1> QED
  BY <1>1, SafeAlways, PTL

-----------------------------------------------------------------------------
\* Every step keeps the types.
LEMMA MutexTypeNext ==
    ASSUME Lists, Lists', Safe, MutexTypeOK, [MutexNext]_allMutexVars
    PROVE  MutexTypeOK'
<1>a. /\ owner \in [BlockList -> Task \cup {NoTask}]
      /\ locking \in [Task -> BlockList \cup {NoList}]
      /\ holds \in [BlockList -> SUBSET Task]
      /\ TypeOK'
  BY DEF MutexTypeOK, Lists
<1>b. locking' \in [Task -> BlockList \cup {NoList}]
  BY <1>a, LocksMutexNext DEF LocksMutex
<1>1. ASSUME NEW t \in Task, NEW m \in BlockList, LockTurn(t, m)
      PROVE  MutexTypeOK'
  BY <1>a, <1>b, <1>1 DEF LockTurn, TakeMutex, MutexTypeOK
<1>2. ASSUME NEW t \in Task, LockRetry(t) PROVE MutexTypeOK'
  <2>1. locking[t] \in BlockList
    BY <1>a, <1>2 DEF LockRetry, Retries
  <2> QED
    BY <1>1, <1>2, <2>1 DEF LockRetry
<1>3. ASSUME NEW t \in Task, LockReturn(t) PROVE MutexTypeOK'
  <2>1. owner' = owner /\ holds' \in [BlockList -> SUBSET Task]
    <3>1. CASE holds' = holds
      BY <1>a, <1>3, <3>1 DEF LockReturn
    <3>2. CASE holds' = [holds EXCEPT ![locking[t]] = @ \cup {t}]
      BY <1>a, <1>3, <3>2 DEF LockReturn
    <3> QED
      BY <1>3, <3>1, <3>2 DEF LockReturn
  <2> QED
    BY <1>a, <1>b, <2>1 DEF MutexTypeOK
<1>4. ASSUME NEW t \in Task, NEW m \in BlockList, Unlock(t, m)
      PROVE  MutexTypeOK'
  <2>1. owner' \in [BlockList -> Task \cup {NoTask}]
    <3>1. CASE owner' = [owner EXCEPT ![m] = NoTask]
      BY <1>a, <3>1
    <3>2. CASE Unblock(m) /\ owner' = [owner EXCEPT ![m] = Head(queue[m])]
      <4>1. Head(queue[m]) \in Task
        BY <3>2, FrontWaits DEF Unblock
      <4> QED
        BY <1>a, <3>2, <4>1
    <3> QED
      BY <1>4, <3>1, <3>2 DEF Unlock, DoUnlock
  <2> QED
    BY <1>a, <1>b, <1>4, <2>1 DEF Unlock, MutexTypeOK
<1>5. ASSUME UNCHANGED mutexVars PROVE MutexTypeOK'
  BY <1>a, <1>5 DEF mutexVars, MutexTypeOK
<1> QED
  BY <1>1, <1>2, <1>3, <1>4, <1>5 DEF MutexNext, Lock, OtherStep, allMutexVars

-----------------------------------------------------------------------------
\* An empty list of a mutex stays empty unless a task blocks on it.
LEMMA UnblockKeepsEmpty ==
    ASSUME Lists, NEW m \in BlockList, Unblock(m),
           NEW r \in BlockList, queue[r] = <<>>
    PROVE  queue'[r] = <<>>
<1>1. PICK t \in Linkable : Push(ReadyTasks, t)
  BY HeadOfList, ListNames DEF Unblock, UnblockTask
<1> QED
  BY <1>1, PushKeepsEmpty, ListNames, ListsAssumption

LEMMA NobodyWaitsForMutexNext ==
    ASSUME Lists, Safe, MutexTypeOK, NobodyWaitsForAFreeMutex,
           [MutexNext]_allMutexVars
    PROVE  NobodyWaitsForAFreeMutex'
<1> SUFFICES ASSUME NEW r \in BlockList, owner'[r] = NoTask
             PROVE  queue'[r] = <<>>
  BY DEF NobodyWaitsForAFreeMutex
<1>a. /\ owner \in [BlockList -> Task \cup {NoTask}]
      /\ locking \in [Task -> BlockList \cup {NoList}]
      /\ NoTask \notin Task
      /\ owner[r] = NoTask => queue[r] = <<>>
  BY MutexAssumption DEF MutexTypeOK, NobodyWaitsForAFreeMutex
<1>1. ASSUME NEW t \in Task, NEW m \in BlockList, LockTurn(t, m)
      PROVE  queue'[r] = <<>>
  <2>1. CASE TakeMutex(t, m)
    BY <1>a, <2>1 DEF TakeMutex, vars
  <2>2. CASE owner[m] # NoTask /\ Block(t, m) /\ owner' = owner
    <3>1. r # m /\ Push(m, t) /\ queue[r] = <<>>
      BY <1>a, <2>2 DEF Block
    <3> QED
      BY <3>1, PushKeepsEmpty, ListNames, TaskIsLinkable
  <2> QED
    BY <1>1, <2>1, <2>2 DEF LockTurn
<1>2. ASSUME NEW t \in Task, LockRetry(t) PROVE queue'[r] = <<>>
  <2>1. locking[t] \in BlockList
    BY <1>a, <1>2 DEF LockRetry, Retries
  <2> QED
    BY <1>1, <1>2, <2>1 DEF LockRetry
<1>3. ASSUME NEW t \in Task, LockReturn(t) PROVE queue'[r] = <<>>
  BY <1>a, <1>3 DEF LockReturn, BlockReturn, lists
<1>4. ASSUME NEW t \in Task, NEW m \in BlockList, Unlock(t, m)
      PROVE  queue'[r] = <<>>
  <2>1. CASE /\ queue[m] = <<>> /\ UNCHANGED vars
             /\ owner' = [owner EXCEPT ![m] = NoTask]
    BY <1>a, <2>1 DEF vars
  <2>2. CASE Unblock(m) /\ owner' = [owner EXCEPT ![m] = Head(queue[m])]
    <3>1. Head(queue[m]) # NoTask
      BY <1>a, <2>2, FrontWaits DEF Unblock
    <3> QED
      BY <1>a, <2>2, <3>1, UnblockKeepsEmpty
  <2> QED
    BY <1>4, <2>1, <2>2 DEF Unlock, DoUnlock
<1>5. ASSUME OtherStep PROVE queue'[r] = <<>>
  BY <1>a, <1>5, PlainStepKeepsEmpty DEF OtherStep, mutexVars
<1>6. ASSUME UNCHANGED allMutexVars PROVE queue'[r] = <<>>
  BY <1>a, <1>6 DEF allMutexVars, vars, mutexVars
<1> QED
  BY <1>1, <1>2, <1>3, <1>4, <1>5, <1>6 DEF MutexNext, Lock

\* The types and hand-overs of a program with mutexes.
LEMMA MutexAlways ==
    MutexSpec => [](Lists /\ Safe /\ MutexTypeOK /\ NobodyWaitsForAFreeMutex)
<1>1. MutexInit => MutexTypeOK /\ NobodyWaitsForAFreeMutex
  <2> SUFFICES ASSUME MutexInit PROVE MutexTypeOK /\ NobodyWaitsForAFreeMutex
    OBVIOUS
  <2>1. TypeOK
    BY ListsInit DEF MutexInit, Lists
  <2> QED
    BY <2>1, ListNames, ListsAssumption
       DEF MutexInit, Init, MutexTypeOK, NobodyWaitsForAFreeMutex
<1>2. Lists /\ Lists' /\ Safe /\ MutexTypeOK /\ NobodyWaitsForAFreeMutex
        /\ [MutexNext]_allMutexVars
      => MutexTypeOK' /\ NobodyWaitsForAFreeMutex'
  BY MutexTypeNext, NobodyWaitsForMutexNext
<1> QED
  BY <1>1, <1>2, MutexSafe, PTL DEF MutexSpec

\* The owner of a mutex is a task or null, and its holders are tasks.
THEOREM MutexesAreTyped == MutexSpec => []MutexTypeOK
  BY MutexAlways, PTL

\* No hand-over is lost: nobody waits for a mutex that is free, whoever
\* unlocks it.
THEOREM NoHandOverIsLost == MutexSpec => []NobodyWaitsForAFreeMutex
  BY MutexAlways, PTL

\* Unlock hands a mutex to its most urgent waiter, and Lock takes none that
\* somebody waits for.
THEOREM MostUrgentIsNext == MutexSpec => MostUrgentTakesOver
<1>1. ASSUME Lists, Safe, MutexTypeOK, NobodyWaitsForAFreeMutex, ~LatePriority,
             [MutexNext]_allMutexVars,
             NEW r \in BlockList, NEW t \in Task, NEW u \in Task,
             owner[r] # t, owner'[r] = t, parent[u] = r
      PROVE  parent[t] = r /\ priority[t] <= priority[u]
  <2>a. /\ owner \in [BlockList -> Task \cup {NoTask}] /\ NoTask \notin Task
        /\ locking \in [Task -> BlockList \cup {NoList}]
        /\ r \in List /\ u \in Linkable
    BY <1>1, MutexAssumption, ListNames, TaskIsLinkable DEF MutexTypeOK
  <2>b. queue[r] # <<>> /\ priority[Head(queue[r])] <= priority[u]
    BY <1>1, <2>a, FrontIsMostUrgent DEF Safe
  <2>1. ASSUME NEW v \in Task, NEW m \in BlockList, LockTurn(v, m)
        PROVE  FALSE
    BY <1>1, <2>a, <2>b, <2>1
       DEF LockTurn, TakeMutex, NobodyWaitsForAFreeMutex
  <2>2. ASSUME NEW v \in Task, LockRetry(v) PROVE FALSE
    BY <2>a, <2>1, <2>2 DEF LockRetry, Retries
  <2>3. ASSUME NEW v \in Task, NEW m \in BlockList, Unlock(v, m)
        PROVE  parent[t] = r /\ priority[t] <= priority[u]
    <3>1. m = r /\ Unblock(r) /\ t = Head(queue[r])
      BY <1>1, <2>a, <2>3 DEF Unlock, DoUnlock
    <3> QED
      BY <1>1, <2>b, <3>1, FrontWaits DEF Unblock
  <2>4. ASSUME UNCHANGED owner PROVE FALSE
    BY <1>1, <2>4
  <2> QED
    BY <1>1, <2>1, <2>2, <2>3, <2>4
       DEF MutexNext, Lock, LockReturn, OtherStep, allMutexVars, mutexVars
<1>2. Lists /\ Safe /\ MutexTypeOK /\ NobodyWaitsForAFreeMutex
        /\ [MutexNext]_allMutexVars
      => [~LatePriority =>
            \A m \in BlockList, t, u \in Task :
               /\ owner[m] # t /\ owner'[m] = t
               /\ parent[u] = m
               => parent[t] = m /\ priority[t] <= priority[u]]_allMutexVars
  BY <1>1
<1> QED
  BY <1>2, MutexAlways, PTL DEF MutexSpec, MostUrgentTakesOver

-----------------------------------------------------------------------------
(***************************************************************************)
(* One owner.  A task inside Block is on the list of the mutex it locks or *)
(* was handed that mutex, or was moved away by another task; only the      *)
(* first kind can be found by Unlock.                                      *)
(***************************************************************************)
WaitersLock ==
    \A t \in Task :
        /\ frame[t] = "blocked" => locking[t] \in BlockList
        /\ parent[t] \in BlockList => locking[t] = parent[t]

Owned == WaitersLock /\ OneOwner

\* Unlock makes the front waiter the owner.
LEMMA UnlockOwned ==
    ASSUME OwnersUnlock, Lists, Safe, MutexTypeOK, Owned,
           NEW t \in Task, NEW m \in BlockList, Unlock(t, m)
    PROVE  Owned'
<1> USE TaskIsLinkable, ListNames, ListsAssumption
<1>a. /\ owner \in [BlockList -> Task \cup {NoTask}] /\ NoTask \notin Task
      /\ holds \in [BlockList -> SUBSET Task]
      /\ parent \in [Linkable -> List \cup {NoList}]
      /\ reason \in [Linkable -> Reason] /\ frame \in [Linkable -> Frame]
      /\ locking' = locking
  BY MutexAssumption DEF MutexTypeOK, TypeOK, Unlock
<1>b. \A n \in BlockList : holds[n] \cup HandedOver(n) = {owner[n]} \ {NoTask}
  BY DEF Owned, OneOwner
<1>c. /\ t \in holds[m] /\ frame[t] = "running"
      /\ holds' = [holds EXCEPT ![m] = holds[m] \ {t}]
  BY DEF Unlock, InThread
<1>d. owner[m] = t /\ holds[m] = {t} /\ HandedOver(m) = {}
  <2>1. t \notin HandedOver(m)
    BY <1>c DEF HandedOver
  <2> QED
    BY <1>a, <1>b, <1>c, <2>1
<1>1. CASE /\ queue[m] = <<>> /\ UNCHANGED vars
           /\ owner' = [owner EXCEPT ![m] = NoTask]
  <2>1. \A n \in BlockList : HandedOver(n)' = HandedOver(n)
    BY <1>a, <1>1 DEF HandedOver, vars
  <2>2. OneOwner'
    BY <1>a, <1>b, <1>c, <1>d, <1>1, <2>1 DEF OneOwner
  <2>3. WaitersLock'
    BY <1>a, <1>1 DEF Owned, WaitersLock, vars
  <2> QED
    BY <2>2, <2>3 DEF Owned
<1>2. CASE Unblock(m) /\ owner' = [owner EXCEPT ![m] = Head(queue[m])]
  <2>1. PICK u : u = Head(queue[m])
    OBVIOUS
  <2>2. /\ u \in Task /\ parent[u] = m /\ frame[u] = "blocked"
        /\ hook[u] /\ reason[u] # "Request"
    BY <1>2, <2>1, FrontWaits DEF Unblock
  <2>3. /\ parent' = [parent EXCEPT ![u] = ReadyTasks] /\ frame' = frame
        /\ reason' = [reason EXCEPT ![u] = "Request"]
    BY <1>2, <2>1, <2>2 DEF Unblock, UnblockTask, Push
  <2>4. locking[u] = m
    BY <2>2 DEF Owned, WaitersLock
  <2>5. WaitersLock'
    BY <1>a, <2>2, <2>3 DEF Owned, WaitersLock
  <2>6. HandedOver(m)' = HandedOver(m) \cup {u}
    BY <1>a, <2>2, <2>3, <2>4 DEF HandedOver
  <2>7. \A n \in BlockList : n # m => HandedOver(n)' = HandedOver(n)
    BY <1>a, <2>2, <2>3, <2>4 DEF HandedOver
  <2>8. OneOwner'
    BY <1>a, <1>b, <1>c, <1>d, <1>2, <2>1, <2>2, <2>6, <2>7 DEF OneOwner
  <2> QED
    BY <2>5, <2>8 DEF Owned
<1> QED
  BY <1>1, <1>2 DEF Unlock, DoUnlock

\* One turn of Lock's loop, for a task that runs its own code.
LEMMA LockTurnOwned ==
    ASSUME Lists, MutexTypeOK, Owned, OwnersUnlock,
           NEW t \in Task, NEW m \in BlockList,
           frame[t] = "running", parent[t] \notin BlockList, LockTurn(t, m)
    PROVE  Owned'
<1> USE TaskIsLinkable, ListNames, ListsAssumption
<1>a. /\ owner \in [BlockList -> Task \cup {NoTask}] /\ NoTask \notin Task
      /\ holds \in [BlockList -> SUBSET Task]
      /\ locking \in [Task -> BlockList \cup {NoList}]
      /\ parent \in [Linkable -> List \cup {NoList}]
      /\ reason \in [Linkable -> Reason] /\ frame \in [Linkable -> Frame]
  BY MutexAssumption DEF MutexTypeOK, TypeOK
<1>b. \A n \in BlockList : holds[n] \cup HandedOver(n) = {owner[n]} \ {NoTask}
  BY DEF Owned, OneOwner
<1>1. CASE TakeMutex(t, m)
  <2>1. WaitersLock'
    BY <1>a, <1>1 DEF TakeMutex, vars, Owned, WaitersLock
  <2>2. \A n \in BlockList : HandedOver(n)' = HandedOver(n)
    BY <1>a, <1>1 DEF TakeMutex, vars, HandedOver
  <2>3. /\ owner' = [owner EXCEPT ![m] = t] /\ owner[m] = NoTask
        /\ holds' = [holds EXCEPT ![m] = holds[m] \cup {t}]
    BY <1>1 DEF TakeMutex
  <2>4. OneOwner'
    BY <1>a, <1>b, <2>2, <2>3 DEF OneOwner
  <2> QED
    BY <2>1, <2>4 DEF Owned
<1>2. CASE Block(t, m) /\ locking' = [locking EXCEPT ![t] = m]
           /\ UNCHANGED <<owner, holds>>
  <2>1. /\ frame' = [frame EXCEPT ![t] = "blocked"]
        /\ reason' = [reason EXCEPT ![t] = "Undefined"]
        /\ parent' = [parent EXCEPT ![t] = m]
    BY <1>2 DEF Block, Push
  <2>2. WaitersLock'
    BY <1>a, <1>2, <2>1 DEF Owned, WaitersLock
  <2>3. \A n \in BlockList : HandedOver(n)' = HandedOver(n)
    BY <1>a, <1>2, <2>1 DEF HandedOver
  <2>4. OneOwner'
    BY <1>b, <1>2, <2>3 DEF OneOwner
  <2> QED
    BY <2>2, <2>4 DEF Owned
<1> QED
  BY <1>1, <1>2 DEF LockTurn

\* Lock returns to the task that was handed the mutex, or is about to retry.
LEMMA LockReturnOwned ==
    ASSUME Lists, MutexTypeOK, Owned, OwnersUnlock,
           NEW t \in Task, LockReturn(t), parent[t] \notin BlockList
    PROVE  Owned'
<1> USE TaskIsLinkable, ListNames, ListsAssumption
<1>a. /\ holds \in [BlockList -> SUBSET Task]
      /\ locking \in [Task -> BlockList \cup {NoList}]
      /\ parent \in [Linkable -> List \cup {NoList}]
      /\ frame \in [Linkable -> Frame] /\ frame[t] = "blocked"
      /\ frame' = [frame EXCEPT ![t] = "running"]
      /\ parent' = parent /\ reason' = reason /\ owner' = owner
  BY DEF MutexTypeOK, TypeOK, LockReturn, BlockReturn, lists, block
<1>b. \A n \in BlockList : holds[n] \cup HandedOver(n) = {owner[n]} \ {NoTask}
  BY DEF Owned, OneOwner
<1>c. PICK m \in BlockList : m = locking[t]
  BY <1>a DEF Owned, WaitersLock
<1>1. CASE /\ reason[t] = "Request"
           /\ locking' = [locking EXCEPT ![t] = NoList]
           /\ holds' = [holds EXCEPT ![m] = holds[m] \cup {t}]
  <2>1. WaitersLock'
    BY <1>a, <1>1 DEF Owned, WaitersLock
  <2>2. t \in HandedOver(m) /\ HandedOver(m)' = HandedOver(m) \ {t}
    BY <1>a, <1>c, <1>1 DEF HandedOver
  <2>3. \A n \in BlockList : n # m => HandedOver(n)' = HandedOver(n)
    BY <1>a, <1>c, <1>1 DEF HandedOver
  <2>4. OneOwner'
    BY <1>a, <1>b, <1>1, <2>2, <2>3 DEF OneOwner
  <2> QED
    BY <2>1, <2>4 DEF Owned
<1>2. CASE reason[t] # "Request" /\ UNCHANGED <<locking, holds>>
  <2>1. WaitersLock'
    BY <1>a, <1>2 DEF Owned, WaitersLock
  <2>2. \A n \in BlockList : HandedOver(n)' = HandedOver(n)
    BY <1>a, <1>2 DEF HandedOver
  <2>3. OneOwner'
    BY <1>a, <1>b, <1>2, <2>2 DEF OneOwner
  <2> QED
    BY <2>1, <2>3 DEF Owned
<1> QED
  BY <1>c, <1>1, <1>2 DEF LockReturn, BlockStatus

LEMMA OwnedNext ==
    ASSUME OwnersUnlock, Lists, Safe, MutexTypeOK, Owned, [MutexNext]_allMutexVars
    PROVE  Owned'
<1> USE TaskIsLinkable, ListNames, ListsAssumption
\* The running task is on no block list.
<1>a. ASSUME NEW t \in Task, ~pendSV, current = t
      PROVE  parent[t] \notin BlockList
  BY <1>a, TasksAssumption DEF Safe, RunningTaskIsReady
<1>1. ASSUME NEW t \in Task, NEW m \in BlockList, Lock(t, m) PROVE Owned'
  BY <1>a, <1>1, LockTurnOwned DEF Lock, InThread, NoException
<1>2. ASSUME NEW t \in Task, LockRetry(t) PROVE Owned'
  <2>1. locking[t] \in BlockList
    BY <1>2 DEF LockRetry, Retries, MutexTypeOK
  <2> QED
    BY <1>a, <1>2, <2>1, LockTurnOwned
       DEF LockRetry, Retries, InThread, NoException
<1>3. ASSUME NEW t \in Task, LockReturn(t) PROVE Owned'
  BY <1>a, <1>3, LockReturnOwned DEF LockReturn, BlockReturn, NoException
<1>4. ASSUME NEW t \in Task, NEW m \in BlockList, Unlock(t, m) PROVE Owned'
  BY <1>4, UnlockOwned
<1>5. ASSUME OtherStep PROVE Owned'
  <2>1. /\ reason' = reason /\ UNCHANGED <<owner, locking, holds>>
        /\ \A t \in Task : frame'[t] = "blocked" <=> frame[t] = "blocked"
        /\ \A t \in Task : parent'[t] \in BlockList => parent[t] = parent'[t]
    BY <1>5, PlainStepKeepsCalls, PlainStepBlocksNobody DEF OtherStep, mutexVars
  <2>2. \A n \in BlockList : HandedOver(n)' = HandedOver(n)
    BY <2>1 DEF HandedOver
  <2> QED
    BY <2>1, <2>2 DEF Owned, WaitersLock, OneOwner
<1>6. ASSUME UNCHANGED allMutexVars PROVE Owned'
  BY <1>6 DEF allMutexVars, vars, mutexVars, Owned, WaitersLock, OneOwner, HandedOver
<1> QED
  BY <1>1, <1>2, <1>3, <1>4, <1>5, <1>6 DEF MutexNext

\* A mutex has one owner, the task whose Lock returned or is about to, if
\* tasks unlock what they hold, and only that.
THEOREM OneOwnerEach == MutexSpec => []OneOwner
<1>1. CASE ~OwnersUnlock
  <2>1. OneOwner
    BY <1>1 DEF OneOwner
  <2> QED
    BY <2>1, PTL
<1>2. CASE OwnersUnlock
  <2>1. MutexInit => Owned
    BY TaskIsLinkable, TasksAssumption, ListNames, ListsAssumption
       DEF MutexInit, Init, Owned, WaitersLock, OneOwner, HandedOver
  <2>2. Lists /\ Safe /\ MutexTypeOK /\ Owned /\ [MutexNext]_allMutexVars => Owned'
    BY <1>2, OwnedNext
  <2>3. Owned => OneOwner
    BY DEF Owned
  <2> QED
    BY <2>1, <2>2, <2>3, MutexAlways, PTL DEF MutexSpec
<1> QED
  BY <1>1, <1>2
=============================================================================
