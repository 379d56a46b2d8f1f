------------------------------ MODULE DataModel ------------------------------
(***************************************************************************)
(* A value of hal's data model that notifies its listeners (VALUE_NC):     *)
(* assignment, which notifies, and listeners that are attached, detached,  *)
(* and that write the value again while they are notified.  Nothing here   *)
(* is locked, so threads, tasks or interrupts, may write at any point of   *)
(* another's assignment.                                                   *)
(*                                                                         *)
(* The list of listeners is infra::IntrusiveList, which is not in the      *)
(* repository: attach and detach are one step, and nobody detaches a       *)
(* listener whose function runs, because the loop goes on from its node.   *)
(***************************************************************************)
EXTENDS SequencesExt

CONSTANTS
    Thread,
    Callback,
    Value,
    MaxDepth    \* bounds the assignments a thread nests

ASSUME DataModelAssumption == Value # {} /\ MaxDepth \in Nat

VARIABLES
    value,      \* DataType::value
    listeners,  \* Notification::listeners
    calls,      \* the frames of each thread, the innermost one first
    seen        \* the value each listener's function last read

vars == <<value, listeners, calls, seen>>

\* An assignment that has found v to be new; one that has assigned it; a
\* notification that is in the function of listener c.
Assigning(v) == [at |-> "assign", v |-> v]
Notifying == [at |-> "notify"]
InFunc(c) == [at |-> "func", c |-> c]

Init ==
    /\ value \in Value
    /\ listeners = <<>>
    /\ calls = [th \in Thread |-> <<>>]
    /\ seen = [c \in Callback |-> value]

-----------------------------------------------------------------------------
Frames(th, f) == calls' = [calls EXCEPT ![th] = f]

\* What the thread is doing; it executes code of its own outside any
\* assignment and in a listener's function.
At(th, where) == calls[th] # <<>> /\ Head(calls[th]).at = where

OwnCode(th) == calls[th] = <<>> \/ At(th, "func")

Attached == Range(listeners)

Running(c) == \E th \in Thread : InFunc(c) \in Range(calls[th])

\* operator=, up to IsEqual; an equal value changes nothing.
Write(th, v) ==
    /\ OwnCode(th)
    /\ Cardinality({i \in DOMAIN calls[th] : calls[th][i].at = "func"}) < MaxDepth
    /\ v # value
    /\ Frames(th, <<Assigning(v)>> \o calls[th])
    /\ UNCHANGED <<value, listeners, seen>>

Assign(th) ==
    /\ At(th, "assign")
    /\ value' = Head(calls[th]).v
    /\ Frames(th, <<Notifying>> \o Tail(calls[th]))
    /\ UNCHANGED <<listeners, seen>>

\* The loop calls the i-th listener, whose function reads the value, or ends.
Visit(th, i) ==
    IF i \in DOMAIN listeners
    THEN /\ Frames(th, <<InFunc(listeners[i])>> \o Tail(calls[th]))
         /\ seen' = [seen EXCEPT ![listeners[i]] = value]
    ELSE /\ Frames(th, Tail(calls[th]))
         /\ UNCHANGED seen

\* Mutant: a notification does not start within another one.
NotifySkipsNested(th) ==
    /\ \/ /\ At(th, "notify")
          /\ IF Len(calls[th]) > 1
             THEN Frames(th, Tail(calls[th])) /\ UNCHANGED seen
             ELSE Visit(th, 1)
       \/ /\ At(th, "func")
          /\ \E i \in DOMAIN listeners :
                listeners[i] = Head(calls[th]).c /\ Visit(th, i + 1)
    /\ UNCHANGED <<value, listeners>>

\* Notification::Notify: its start, and the iterator's step to the next node.
Notify(th) ==
    /\ \/ At(th, "notify") /\ Visit(th, 1)
       \/ /\ At(th, "func")
          /\ \E i \in DOMAIN listeners :
                listeners[i] = Head(calls[th]).c /\ Visit(th, i + 1)
    /\ UNCHANGED <<value, listeners>>

\* Value::Attach, by code that reads the value then.
Attach(th, c) ==
    /\ OwnCode(th)
    /\ c \notin Attached
    /\ listeners' = Append(listeners, c)
    /\ seen' = [seen EXCEPT ![c] = value]
    /\ UNCHANGED <<value, calls>>

\* Value::Detach.
Detach(th, c) ==
    /\ OwnCode(th)
    /\ ~Running(c)
    /\ \E i \in DOMAIN listeners :
          listeners[i] = c /\ listeners' = RemoveAt(listeners, i)
    /\ UNCHANGED <<value, calls, seen>>

Next ==
    \E th \in Thread :
        \/ \E v \in Value : Write(th, v)
        \/ Assign(th)
        \/ Notify(th)
        \/ \E c \in Callback : Attach(th, c) \/ Detach(th, c)

Spec == Init /\ [][Next]_vars

-----------------------------------------------------------------------------
\* The listeners a notification in progress has still to call.
ToCome(th) ==
    UNION {IF f.at = "func"
           THEN {listeners[i] : i \in {j \in DOMAIN listeners :
                    \E k \in 1 .. j - 1 : listeners[k] = f.c}}
           ELSE Attached : f \in Range(calls[th])}

\* A listener does not miss the last change: whoever is attached and has not
\* read the value as it is will still be called, however assignments are
\* nested or interleaved, so that all are up to date once everybody returned
\* (DataType::operator=, Notification::Notify).
NobodyIsLeftBehind ==
    \A c \in Attached :
        seen[c] # value => \E th \in Thread : c \in ToCome(th)
=============================================================================
