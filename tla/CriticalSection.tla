--------------------------- MODULE CriticalSection ---------------------------
(***************************************************************************)
(* DelayTask(ticks) and Scheduler::Yield() at the grain at which they can  *)
(* be interrupted.  Both are bracketed by ScopedCriticalSection, whose     *)
(* EnterCriticalSection calls port::DisableInterruptMasking: that enables  *)
(* interrupts, so the section keeps none out, and TriggerTaskSwitch inside *)
(* it switches at once, in the middle of the section.                      *)
(*                                                                         *)
(* A call is a script of steps; todo[t] is what is left of the one task t  *)
(* is in.  criticalNestingCounter is loaded and stored by separate steps,  *)
(* and push is its find_if, erase, insert and ParentList.  find_if itself  *)
(* is one step.  Scheduler::Add, which nothing brackets, is left atomic;   *)
(* Block and Unblock mask interrupts, so Scheduler has them right as they  *)
(* are.                                                                    *)
(*                                                                         *)
(* A tick or an interrupt that unblocks a task may come between any two    *)
(* steps.  One that comes in the middle of a push finds the lists half     *)
(* changed (disturbed); a task that is taken off the core between a load   *)
(* and the store of the counter may store a value that is no longer right  *)
(* (raced).                                                                *)
(***************************************************************************)
EXTENDS Scheduler, Integers

CONSTANT
    CounterModulus      \* 2^32 in the code: the counter is an unsigned int

\* Tasks are objects in memory, so there are fewer than sections can be counted.
ASSUME CounterAssumption ==
    /\ IsFiniteSet(Task)
    /\ CounterModulus \in Nat /\ 2 * Cardinality(Task) < CounterModulus

\* place tells end() from every TCB.
ASSUME EndAssumption == NoList \notin Linkable

VARIABLES
    todo,       \* the steps left of each task's call
    target,     \* the list the call pushes to
    ticks,      \* the call's argument
    place,      \* the iterator find_if returned: an element, or NoList for end()
    loaded,     \* the register the counter was loaded into
    nesting,    \* criticalNestingCounter
    trapped,    \* ExitCriticalSection has reached its breakpoint()
    before,     \* history: the lists and delays when the running push began
    raced,      \* history: a stale value of the counter has been stored
    disturbed   \* history: a tick has come in the middle of a push

callVars ==
    <<todo, target, ticks, place, loaded, nesting, trapped, before, raced, disturbed>>
allVars == <<vars, callVars>>

\* Mutant: DelayTask(TaskControlBlock&, ticks) leaves its section twice.
DelayScriptExitsTwice ==
    <<"enterLoad", "enterStore",
      "enterLoad", "enterStore",
      "setTickDelay",
      "find", "erase", "insert", "setParent",
      "exitTest", "exitLoad", "exitStore",
      "exitTest", "exitLoad", "exitStore",
      "trigger",
      "exitTest", "exitLoad", "exitStore">>

\* DelayTask(ticks) enters a section, and calls the overload for a TCB, which
\* enters one more around the assignment and the push.
DelayScript ==
    <<"enterLoad", "enterStore",
      "enterLoad", "enterStore",
      "setTickDelay",
      "find", "erase", "insert", "setParent",
      "exitTest", "exitLoad", "exitStore",
      "trigger",
      "exitTest", "exitLoad", "exitStore">>

\* Mutant: the switch is triggered before the task is pushed.
YieldScriptTriggersEarly ==
    <<"enterLoad", "enterStore",
      "trigger",
      "find", "erase", "insert", "setParent",
      "exitTest", "exitLoad", "exitStore">>

YieldScript ==
    <<"enterLoad", "enterStore",
      "find", "erase", "insert", "setParent",
      "trigger",
      "exitTest", "exitLoad", "exitStore">>

ListState == [queue |-> queue, parent |-> parent, tickDelay |-> tickDelay]

SectionInit ==
    /\ Init
    /\ todo = [t \in Task |-> <<>>]
    /\ target = [t \in Task |-> ReadyTasks]
    /\ ticks = [t \in Task |-> 0]
    /\ place = [t \in Task |-> NoList]
    /\ loaded = [t \in Task |-> 0]
    /\ nesting = 0
    /\ trapped = FALSE
    /\ before = NoList
    /\ raced = FALSE
    /\ disturbed = FALSE

\* Task t is in the middle of a push: it has computed what depends on the time
\* and the lists as they are, and has not requested its switch yet.
Pushing(t) ==
    /\ Contains(todo[t], "trigger")
    /\ ~Contains(todo[t], IF target[t] = DelayedTasks THEN "setTickDelay" ELSE "find")

\* Task t runs, outside of any call.
AtLarge(t) == InThread(t) /\ todo[t] = <<>>

Begin(t, script, l, n) ==
    /\ AtLarge(t)
    /\ todo' = [todo EXCEPT ![t] = script]
    /\ target' = [target EXCEPT ![t] = l]
    /\ ticks' = [ticks EXCEPT ![t] = n]
    /\ UNCHANGED <<vars, place, loaded, nesting, trapped, before, raced, disturbed>>

NextIs(t, step) == todo[t] # <<>> /\ Head(todo[t]) = step

\* Task t takes the next step of its call, which is the given one.
Step(t, step) ==
    /\ InThread(t) /\ NextIs(t, step)
    /\ todo' = [todo EXCEPT ![t] = Tail(@)]
    /\ UNCHANGED <<target, ticks, disturbed>>
    /\ before' = IF ~Pushing(t)' THEN NoList
                 ELSE IF Pushing(t) THEN before ELSE ListState

\* Nothing outside of the lists changes.
ListsOnly ==
    UNCHANGED <<priority, current, held, pendSV, tick, tickDelay, frame, block>>

-----------------------------------------------------------------------------
\* The register loaded into is stored, changed by n; what other tasks stored
\* since it was loaded is lost.
Store(t, n) ==
    /\ nesting' = (loaded[t] + n) % CounterModulus
    /\ raced' = (raced \/ loaded[t] # nesting)
    /\ loaded' = [loaded EXCEPT ![t] = 0]
    /\ UNCHANGED <<vars, place, trapped>>

\* EnterCriticalSection: ++criticalNestingCounter, a load and a store.
EnterLoad(t) ==
    /\ Step(t, "enterLoad")
    /\ loaded' = [loaded EXCEPT ![t] = nesting]
    /\ UNCHANGED <<vars, place, nesting, trapped, raced>>

EnterStore(t) ==
    /\ Step(t, "enterStore")
    /\ Store(t, 1)

\* ExitCriticalSection: the test, and the breakpoint() when it fails; then
\* --criticalNestingCounter.  At zero RestoreInterruptMasking has no effect:
\* nothing was masked.
ExitTest(t) ==
    /\ Step(t, "exitTest")
    /\ trapped' = (nesting = 0)
    /\ UNCHANGED <<vars, place, loaded, nesting, raced>>

ExitLoad(t) ==
    /\ Step(t, "exitLoad")
    /\ loaded' = [loaded EXCEPT ![t] = nesting]
    /\ UNCHANGED <<vars, place, nesting, trapped, raced>>

ExitStore(t) ==
    /\ Step(t, "exitStore")
    /\ Store(t, -1)

\* The assignment to tickDelay in DelayTask(TaskControlBlock&, ticks).
SetTickDelay(t) ==
    /\ Step(t, "setTickDelay")
    /\ tickDelay' = [tickDelay EXCEPT ![t] = (systicks + ticks[t]) % TickModulus]
    /\ UNCHANGED <<lists, priority, current, held, pendSV, tick, frame, block,
                   place, loaded, nesting, trapped, raced>>

\* push: find_if.
Find(t) ==
    /\ Step(t, "find")
    /\ LET s == queue[target[t]]
           i == FirstGreater(s, priority, t)
       IN place' = [place EXCEPT ![t] = IF i <= Len(s) THEN s[i] ELSE NoList]
    /\ UNCHANGED <<vars, loaded, nesting, trapped, raced>>

\* push: erase.
Erase(t) ==
    /\ Step(t, "erase")
    /\ queue' = Erased(queue, parent, t)
    /\ parent' = [parent EXCEPT ![t] = NoList]
    /\ ListsOnly
    /\ UNCHANGED <<place, loaded, nesting, trapped, raced>>

\* Mutant: insert does not link the found element behind the new one.
InsertCutsOff(t) ==
    /\ Step(t, "insert")
    /\ LET l == target[t]
       IN queue' = [queue EXCEPT ![l] =
            IF Contains(@, place[t])
            THEN Append(SubSeq(@, 1, Position(@, place[t]) - 1), t)
            ELSE Append(@, t)]
    /\ place' = [place EXCEPT ![t] = NoList]
    /\ ListsOnly
    /\ UNCHANGED <<parent, loaded, nesting, trapped, raced>>

\* push: insert.  The element the iterator refers to may meanwhile be on
\* another list; the new one is linked in front of it all the same.  In front
\* of one that is on no list at all it is not modelled.
Insert(t) ==
    /\ Step(t, "insert")
    /\ LET linked == {l \in List : Contains(queue[l], place[t])}
           l == IF linked = {} THEN target[t] ELSE CHOOSE k \in linked : TRUE
           i == IF linked = {} THEN Len(queue[l]) + 1
                               ELSE Position(queue[l], place[t])
       IN /\ place[t] # NoList => linked # {}
          /\ queue' = [queue EXCEPT ![l] = InsertAt(@, i, t)]
    /\ place' = [place EXCEPT ![t] = NoList]
    /\ ListsOnly
    /\ UNCHANGED <<parent, loaded, nesting, trapped, raced>>

\* push: ParentList(&base).
SetParent(t) ==
    /\ Step(t, "setParent")
    /\ parent' = [parent EXCEPT ![t] = target[t]]
    /\ ListsOnly
    /\ UNCHANGED <<queue, place, loaded, nesting, trapped, raced>>

\* TriggerTaskSwitch.
Trigger(t) ==
    /\ Step(t, "trigger")
    /\ pendSV' = TRUE
    /\ UNCHANGED <<lists, priority, current, held, tick, tickDelay, frame, block,
                   place, loaded, nesting, trapped, raced>>

-----------------------------------------------------------------------------
\* Block and its return, in a task outside of any call; it masks interrupts.
BlockCall ==
    /\ \E t \in Task :
         \/ BlockReturn(t)
         \/ AtLarge(t) /\ \E l \in BlockList : Block(t, l)
    /\ UNCHANGED callVars

\* A tick or an interrupt that unblocks a task.  Nothing keeps them out of a
\* section, nor out of the push in it.
Interrupt ==
    /\ Tick \/ \E l \in BlockList : Unblock(l)
    /\ disturbed' = (disturbed \/ \E t \in Task : current = t /\ Pushing(t))
    /\ UNCHANGED <<todo, target, ticks, place, loaded, nesting, trapped, before,
                   raced>>

\* Where sequences say what the links are.  A tick that wakes a task whose push
\* has not come to its ParentList yet links it twice.
Expressible ==
    \A l \in List, t \in Task :
        Contains(queue[l], t) =>
            /\ parent[t] = l \/ NextIs(t, "setParent")
            /\ \A k \in List \ {l} : ~Contains(queue[k], t)

\* The model ends at the breakpoint, and where the lists are not expressible.
SectionNext ==
    /\ ~trapped /\ Expressible
    /\ \/ /\ \/ \E t \in Task, n \in PriorityRange : SetPriority(t, n)
             \/ \E t \in Task : Start(t)
          /\ current = Main
          /\ UNCHANGED callVars
       \/ BlockCall \/ Interrupt
       \/ /\ TickVisit \/ SwitchContext
          /\ UNCHANGED callVars
       \/ \E t \in Task, n \in Delays : Begin(t, DelayScript, DelayedTasks, n)
       \/ \E t \in Task : Begin(t, YieldScript, ReadyTasks, 0)
       \/ \E t \in Task :
            \/ EnterLoad(t) \/ EnterStore(t)
            \/ ExitTest(t) \/ ExitLoad(t) \/ ExitStore(t)
            \/ SetTickDelay(t) \/ Find(t) \/ Erase(t) \/ Insert(t)
            \/ SetParent(t) \/ Trigger(t)

SectionSpec == SectionInit /\ [][SectionNext]_allVars

-----------------------------------------------------------------------------
\* The steps of one kind that are left of all calls; <<t, n>> is the nth from
\* the end of task t's call.
StepsLeft(step) ==
    {u \in Task \X (1 .. Len(DelayScript)) :
       LET left == Reverse(todo[u[1]])
       IN u[2] \in DOMAIN left /\ left[u[2]] = step}

\* The counter is that of all tasks together, and counts the sections entered
\* and not left: a task that was switched away from inside its section is
\* still counted, and a tick in a section does no harm, unless the task it
\* takes the core from stores a stale value (criticalNestingCounter).
SectionsAreCounted ==
    ~raced => nesting = Cardinality(StepsLeft("exitStore"))
                          - Cardinality(StepsLeft("enterStore"))

\* Nothing but such a race makes ExitCriticalSection run into its breakpoint:
\* not a switch inside a section, not a tick before, between or after the
\* accesses to the counter, and not a push that a tick has broken.
OnlyARaceTraps == trapped => raced

\* The assertion in ExitCriticalSection: whoever leaves a section finds the
\* counter above zero.
ExitFindsCounter == ~trapped

\* A started task that is on no list, so that nothing will ever run it again
\* once it is off the core, was cut off in its own push, between erase and
\* insert.  No other task's push and no tick drops a task, whatever they find
\* the lists and the iterators of interrupted pushes to be, as long as nothing
\* is linked twice or in front of what is not linked (see Insert, Expressible).
OnlyAPushLosesTasks ==
    \A t \in Task :
        Started(t) /\ (\A l \in List : ~Contains(queue[l], t)) =>
            NextIs(t, "insert")

\* Until its switch is triggered, a push has changed nothing yet, for anyone
\* to see; the rest of the call changes no list.
Unseen ==
    IF ~disturbed /\ \E t \in Task : current = t /\ Pushing(t)
    THEN before ELSE ListState

Atomic == INSTANCE Scheduler WITH
    queue <- Unseen.queue, parent <- Unseen.parent, tickDelay <- Unseen.tickDelay

\* DelayTask and Yield are the atomic operations module Scheduler takes them
\* for, wherever in their sections ticks come and switch tasks, until a tick
\* comes in the middle of a push.
SectionsAreAtomic ==
    Atomic!Init /\ [][disturbed' \/ Atomic!Next]_(Atomic!vars)
=============================================================================
