---------------------------- MODULE MCAcquisition ----------------------------
(* Finite instances of Acquisition for TLC; the cfgs give all constants. *)
EXTENDS Acquisition
=============================================================================
