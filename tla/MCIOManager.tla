---------------------------- MODULE MCIOManager ----------------------------
(* Model values for IOManager: one task, k1, is pinned to the first thread. *)
EXTENDS IOManager, TLC

CONSTANTS t1, t2, k1, k2, k3

OneThread == {t1}
TwoThreads == {t1, t2}
TwoTasks == {k1, k2}
ThreeTasks == {k1, k2, k3}
PinFirst == [k \in Tasks |-> IF k = k1 THEN t1 ELSE AnyThread]
=============================================================================
