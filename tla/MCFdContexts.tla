---------------------------- MODULE MCFdContexts ----------------------------
(* Instances of FdContexts for TLC. *)
EXTENDS FdContexts, TLC

CONSTANTS u1, u2, p1

MCUsers   == {u1, u2}
MCPollers == {p1}
\* The first fds past the constructor's 32 contexts: 32 makes room for 48,
\* which makes room for 72.
MCFds     == {32, 48}
MCSignals == {<<48, "READ">>, <<48, "HUP">>}
MCOneFd   == {31}
MCOneFdSignals == {31} \X {"READ", "WRITE", "HUP"}
Symmetry  == Permutations(MCUsers)
=============================================================================
