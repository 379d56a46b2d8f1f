----------------------------- MODULE MCDataModel -----------------------------
(* Finite instances of DataModel for TLC. *)
EXTENDS DataModel

CONSTANTS th1, th2, c1, c2, c3, v1, v2

TwoThreads == {th1, th2}
ThreeCallbacks == {c1, c2, c3}
TwoValues == {v1, v2}
Symmetry ==
    Permutations(Thread) \cup Permutations(Callback) \cup Permutations(Value)
=============================================================================
