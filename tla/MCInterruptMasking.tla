-------------------------- MODULE MCInterruptMasking --------------------------
(* Finite instances of InterruptMasking for TLC. *)
EXTENDS InterruptMasking

CONSTANTS t1, t2, t3

ThreeThreads == {t1, t2, t3}
=============================================================================
