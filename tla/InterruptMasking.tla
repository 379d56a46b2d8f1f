--------------------------- MODULE InterruptMasking ---------------------------
(***************************************************************************)
(* PRIMASK under the kernel's InterruptMasking and InterruptUnmasking      *)
(* scopes, across exceptions and context switches: what lets Scheduler and *)
(* the components on it take masked code for one step.                     *)
(*                                                                         *)
(* The core saves no PRIMASK; each scope saves the value it finds on its   *)
(* context's own stack.  Interrupt handlers all have one priority and do   *)
(* not preempt each other or PendSV, which goes first.  A call is a script *)
(* of steps, and todo is what is left of the one each context is in.  The  *)
(* switch takes effect while PRIMASK is 0: an instruction runs between the *)
(* constructor of InterruptUnmasking and its destructor.                   *)
(***************************************************************************)
EXTENDS Naturals, SequencesExt, FiniteSets

CONSTANTS
    Thread,     \* the tasks that were started
    Isr         \* the interrupt handler, PendSV apart

ASSUME IsrAssumption == Isr \notin Thread

Context == Thread \cup {Isr}

VARIABLES
    primask,    \* PRIMASK: 1 masks interrupts
    pendSV,     \* PENDSVSET
    running,    \* the context that executes
    current,    \* the current task
    todo,       \* the steps left of each context's call
    scopes      \* each context's open scopes: its kind and the value it saved

vars == <<primask, pendSV, running, current, todo, scopes>>

Masked(body) == <<"mask">> \o body \o <<"restore">>

\* Mutant: the switch is triggered in a nested InterruptMasking.
ForceNoSwitch == <<"trigger", "mask", "restore">>

ForceContextSwitch == <<"trigger", "unmask", "restore">>

\* Scheduler::Block, and a component's call of it: Semaphore::Acquire,
\* Mutex::Lock, Heap::Claim.  "reason" is the read of unblockReason.
BlockCall == Masked(<<"access">>) \o ForceContextSwitch \o <<"reason">>
AcquireCall == Masked(<<"access">> \o BlockCall \o <<"access">>)

\* Scheduler::Unblock, and a loop of it: Semaphore::Release(2).
UnblockCall == Masked(<<"access", "trigger">>)
ReleaseCall == Masked(UnblockCall \o <<"access">> \o UnblockCall)

\* SysTick_Handler, as Tick asks for a switch or not.
TickHandlers ==
    {<<"unmask", "access", "access", "trigger", "restore">>,
     <<"unmask", "access", "access", "restore">>}

Init ==
    /\ primask = 0
    /\ pendSV = FALSE
    /\ current \in Thread
    /\ running = current
    /\ todo = [c \in Context |-> <<>>]
    /\ scopes = [c \in Context |-> <<>>]

\* An exception that is pending and not masked is taken before the thread
\* goes on.
Call(t, script) ==
    /\ running = t /\ todo[t] = <<>> /\ ~(pendSV /\ primask = 0)
    /\ todo' = [todo EXCEPT ![t] = script]
    /\ UNCHANGED <<primask, pendSV, running, current, scopes>>

Step(c, step) ==
    /\ running = c
    /\ c \in Thread => ~(pendSV /\ primask = 0)
    /\ todo[c] # <<>> /\ Head(todo[c]) = step
    /\ todo' = [todo EXCEPT ![c] = Tail(@)]
    /\ UNCHANGED <<running, current>>

\* EnableInterruptMasking and DisableInterruptMasking.
Open(c, step, mask) ==
    /\ Step(c, step)
    /\ scopes' = [scopes EXCEPT ![c] = Append(@, [kind |-> step, saved |-> primask])]
    /\ primask' = mask
    /\ UNCHANGED pendSV

\* Mutant: RestoreInterruptMasking without the saved value.
RestoreZero(c) ==
    /\ Step(c, "restore")
    /\ primask' = 0
    /\ scopes' = [scopes EXCEPT ![c] = Front(@)]
    /\ UNCHANGED pendSV

\* RestoreInterruptMasking(maskValue).
Restore(c) ==
    /\ Step(c, "restore")
    /\ primask' = Last(scopes[c]).saved
    /\ scopes' = [scopes EXCEPT ![c] = Front(@)]
    /\ UNCHANGED pendSV

\* TriggerTaskSwitch.
Trigger(c) ==
    /\ Step(c, "trigger")
    /\ pendSV' = TRUE
    /\ UNCHANGED <<primask, scopes>>

\* The lists and counters interrupts and tasks share, or a local of Block.
Access(c) ==
    /\ \E step \in {"access", "reason"} : Step(c, step)
    /\ UNCHANGED <<primask, pendSV, scopes>>

\* An interrupt comes: SysTick, or a device whose handler releases.
Interrupt ==
    /\ running \in Thread /\ primask = 0 /\ ~pendSV
    /\ running' = Isr
    /\ \E script \in TickHandlers \cup {ReleaseCall} :
         todo' = [todo EXCEPT ![Isr] = script]
    /\ UNCHANGED <<primask, pendSV, current, scopes>>

Return ==
    /\ running = Isr /\ todo[Isr] = <<>>
    /\ running' = current
    /\ UNCHANGED <<primask, pendSV, current, todo, scopes>>

\* Mutant: PendSV_Handler leaves interrupts masked.
PendSVKeepsMask ==
    /\ running \in Thread /\ pendSV /\ primask = 0
    /\ pendSV' = FALSE
    /\ current' \in Thread
    /\ running' = current'
    /\ primask' = 1
    /\ UNCHANGED <<todo, scopes>>

\* PendSV_Handler, cpsid to cpsie: nothing preempts it, and the scheduler's
\* choice is any task.
PendSV ==
    /\ running \in Thread /\ pendSV /\ primask = 0
    /\ pendSV' = FALSE
    /\ current' \in Thread
    /\ running' = current'
    /\ primask' = 0
    /\ UNCHANGED <<todo, scopes>>

ContextStep(c) ==
    Open(c, "mask", 1) \/ Open(c, "unmask", 0) \/ Restore(c) \/ Trigger(c)
        \/ Access(c)

Next ==
    \/ \E t \in Thread, script \in {AcquireCall, ReleaseCall} : Call(t, script)
    \/ \E c \in Context : ContextStep(c)
    \/ Interrupt
    \/ Return
    \/ PendSV

\* A context that has begun a call goes on when it can, however often it is
\* interrupted, and a handler ends.
Fairness ==
    /\ \A c \in Context : SF_vars(ContextStep(c))
    /\ WF_vars(Return)
    /\ WF_vars(PendSV)

Spec == Init /\ [][Next]_vars
FairSpec == Spec /\ Fairness

-----------------------------------------------------------------------------
\* The innermost scope of c masks interrupts.
Inside(c) == scopes[c] # <<>> /\ Last(scopes[c]).kind = "mask"

\* Scopes nest across contexts: PRIMASK is what the innermost scope of the
\* context that runs wants, whatever ran while that context was interrupted or
\* switched away from inside ForceContextSwitch (InterruptMaskingUnmasking).
PrimaskFollowsScopes == primask = IF Inside(running) THEN 1 ELSE 0

\* What is masked is atomic: while one context works on what they share, no
\* other is inside a masked section, not even one that was switched away from.
AccessIsExclusive ==
    \A c, d \in Context :
        /\ running = c /\ c # d
        /\ todo[c] # <<>> /\ Head(todo[c]) = "access"
        => ~Inside(d)

\* ForceContextSwitch does switch, although its caller has interrupts masked:
\* Block does not look at its unblock reason before (ForceContextSwitch).
ReasonIsReadAfterSwitch ==
    \A t \in Thread :
        running = t /\ todo[t] # <<>> /\ Head(todo[t]) = "reason" => ~pendSV

\* A switch that is requested in masked code or in a handler takes place
\* (TriggerTaskSwitch).
RequestedSwitchHappens == pendSV ~> ~pendSV
=============================================================================
