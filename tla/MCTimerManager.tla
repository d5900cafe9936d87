--------------------------- MODULE MCTimerManager ---------------------------
(* Small instances of TimerManager for TLC. *)
EXTENDS TimerManager, TLC

Symmetry == Permutations(Users) \cup Permutations(Pollers)
=============================================================================
