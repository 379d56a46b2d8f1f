------------------------- MODULE SortedIntrusiveList -------------------------
(***************************************************************************)
(* infra::SortedIntrusiveList<TaskControlBlock>, the list every scheduler  *)
(* queue is made of.  The state of all lists together is                   *)
(*                                                                         *)
(*    q \in [lists -> Seq(elements)]            what each list links       *)
(*    p \in [elements -> lists \cup {NoList}]   TaskControlBlock::parentList *)
(*                                                                         *)
(* An element carries ONE set of links, so it can be on one list at a time *)
(* and its parentList says which; push finds its place before it takes the *)
(* element off the list it was on.  The operators are pure, so that their  *)
(* properties can be stated without a state machine; key[e] is the number  *)
(* EffectivePriority() returns, and a smaller number is more urgent.       *)
(***************************************************************************)
EXTENDS Naturals, SequencesExt

\* s is ordered by key, the order std::greater<TaskControlBlock> keeps.
Ordered(s, key) ==
    \A i, j \in 1 .. Len(s) : i < j => key[s[i]] <= key[s[j]]

\* No element is linked twice.
Distinct(s) == \A i, j \in 1 .. Len(s) : s[i] = s[j] => i = j

\* Where e is linked in s.
Position(s, e) == CHOOSE i \in 1 .. Len(s) : s[i] = e

\* IntrusiveList::erase: the element is unlinked, wherever it stands.
Unlink(s, e) ==
    IF Contains(s, e) THEN RemoveAt(s, Position(s, e)) ELSE s

\* Mutant: std::greater_equal for std::greater.
StopsAtEqual(s, key, e, i) ==
    /\ \A j \in 1 .. Len(s) : j < i => key[s[j]] < key[e]
    /\ i <= Len(s) => key[s[i]] >= key[e]

\* i is where find_if stops: the first element that is greater than e, or
\* end() when there is none.
StopsAt(s, key, e, i) ==
    /\ \A j \in 1 .. Len(s) : j < i => key[s[j]] <= key[e]
    /\ i <= Len(s) => key[s[i]] > key[e]

FirstGreater(s, key, e) ==
    CHOOSE i \in 1 .. Len(s) + 1 : StopsAt(s, key, e, i)

\* Linking e in front of the element find_if stopped at: behind the elements
\* of the same priority.
Link(s, key, e) == InsertAt(s, FirstGreater(s, key, e), e)

\* SortedIntrusiveList::erase: nothing happens to an element on no list.
Erased(q, p, e) ==
    [l \in DOMAIN q |-> IF p[e] = l THEN Unlink(q[l], e) ELSE q[l]]

\* Mutant: push without its erase.
PushedWithoutErase(q, p, key, l, e) ==
    [q EXCEPT ![l] = Link(@, key, e)]

\* SortedIntrusiveList::push on list l.  e is not greater than itself, so its
\* own node is never the one find_if stops at: looking for the place before or
\* after the erase gives the same place.
Pushed(q, p, key, l, e) ==
    [Erased(q, p, e) EXCEPT ![l] = Link(@, key, e)]

\* What keeps the lists usable: an element is on the list its parentList
\* names and on no other, and it is there once.
Consistent(q, p) ==
    /\ \A e \in DOMAIN p, l \in DOMAIN q :
         p[e] = l <=> Contains(q[l], e)
    /\ \A l \in DOMAIN q : Distinct(q[l])

\* e is linked somewhere in s before f.
Precedes(s, e, f) ==
    \E i, j \in 1 .. Len(s) : i < j /\ s[i] = e /\ s[j] = f
=============================================================================
