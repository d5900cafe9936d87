------------------------------ MODULE TaskPool ------------------------------
(***************************************************************************)
(* What sylar's Scheduler promises to the program that uses it: a job that *)
(* has been submitted waits, runs on one thread at a time, may go back to  *)
(* waiting, and finishes once; jobs may submit jobs even while the pool is *)
(* closing; and the pool is closed only when no job waits or runs.         *)
(***************************************************************************)
CONSTANT Jobs
VARIABLES job, pool

vars == <<job, pool>>

Init ==
    /\ job = [j \in Jobs |-> "new"]
    /\ pool = "open"

Move(j, from, to) == job[j] = from /\ job' = [job EXCEPT ![j] = to]

\* The user submits to an open pool; a running job submits at any time.
Submit(j) ==
    /\ pool = "open" \/ \E k \in Jobs : job[k] = "running"
    /\ Move(j, "new", "pending")
    /\ UNCHANGED pool

Run(j)     == pool # "closed" /\ Move(j, "pending", "running") /\ UNCHANGED pool
Requeue(j) == pool # "closed" /\ Move(j, "running", "pending") /\ UNCHANGED pool
Finish(j)  == pool # "closed" /\ Move(j, "running", "done") /\ UNCHANGED pool

Close == pool = "open" /\ pool' = "closing" /\ UNCHANGED job

Closed ==
    /\ pool = "closing"
    /\ \A j \in Jobs : job[j] \in {"new", "done"}
    /\ pool' = "closed"
    /\ UNCHANGED job

Next ==
    \/ \E j \in Jobs : Submit(j) \/ Run(j) \/ Requeue(j) \/ Finish(j)
    \/ Close
    \/ Closed

Spec == Init /\ [][Next]_vars
=============================================================================
