------------------------ MODULE MCFingerprintLockout ------------------------
(* Model-checking instance of FingerprintLockout. *)
EXTENDS FingerprintLockout, TLC

(* Timers are threads without names: nothing tells one from another. *)
TimerSymmetry == Permutations(Timers)
=============================================================================
