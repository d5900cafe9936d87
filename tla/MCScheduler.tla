---------------------------- MODULE MCScheduler ----------------------------
(* Small instances of Scheduler for TLC. *)
EXTENDS Scheduler, TLC

\* Workers are interchangeable, and so are fibers.
Symmetry == Permutations(Workers) \cup Permutations(Fibers)
=============================================================================
