----------------------------- MODULE Scheduler -----------------------------
(***************************************************************************)
(* The N-M fiber scheduler of sylar/scheduler.{h,cc}, with the fiber state *)
(* machine of sylar/fiber.cc it drives.  Every thread of the pool runs     *)
(* Scheduler::run: it scans m_tasks under m_mutex, resumes the first task  *)
(* it may run, and resumes its idle fiber when there is none.  A critical  *)
(* section is one action; what happens between two of them is another.     *)
(*                                                                         *)
(* Fiber::yield publishes READY before swapcontext has saved the context   *)
(* (fiber.cc:170-183).  Once a second thread resumes a fiber in that       *)
(* window, two threads run on one stack and nothing the program does is    *)
(* defined any more: see Defined, and the run scheduler_two_cpus.          *)
(***************************************************************************)
EXTENDS Naturals, Sequences, FiniteSets

CONSTANTS
    Workers,    \* the threads start() creates
    Caller,     \* the thread that constructs, starts and stops the scheduler
    UseCaller,  \* constructor argument use_caller
    Fibers,     \* every fiber (or function) the program ever schedules
    AnyThread,  \* the thread argument -1 of schedule(): any thread
    NoFiber,    \* a null fiber pointer
    MaxYields   \* bound: how often, in all, fibers reschedule themselves

\* The threads that execute run(): the workers and, with use_caller, Caller.
Threads == Workers \cup (IF UseCaller THEN {Caller} ELSE {})

ASSUME ThreadsAssumption ==
    /\ UseCaller \in BOOLEAN
    /\ IsFiniteSet(Workers)
    /\ Caller \notin Workers
    /\ AnyThread \notin Workers \cup {Caller}
    /\ Threads # {}          \* SYLAR_ASSERT(threads > 0)
ASSUME FibersAssumption == NoFiber \notin Fibers
ASSUME BoundAssumption == MaxYields \in Nat

VARIABLES
    m_tasks,             \* the queue of ScheduleTask [fiber, thread]
    m_stopping,
    m_activeThreadCount,
    m_idleThreadCount,
    m_state,             \* Fiber::m_state, with "NEW" (not yet submitted) and
                         \* "CB" (submitted as a function: no Fiber object yet)
    pc,                  \* where each thread is in run()
    task,                \* the fiber each thread took from the queue
    idleTerm,            \* the thread's idle fiber is TERM
    started,             \* start() has been called
    main,                \* where Caller is: "user" code, then inside stop()
    yields               \* reschedulings so far, bounded by MaxYields

vars == <<m_tasks, m_stopping, m_activeThreadCount, m_idleThreadCount,
          m_state, pc, task, idleTerm, started, main, yields>>

ScheduleTask == [fiber : Fibers, thread : Threads \cup {AnyThread}]
FiberStates  == {"NEW", "CB", "READY", "RUNNING", "TERM"}
PcValues     == {"off", "scan", "resume", "exec", "switch", "return",
                 "idle", "exit"}

Init ==
    /\ m_tasks = <<>>
    /\ m_stopping = FALSE
    /\ m_activeThreadCount = 0
    /\ m_idleThreadCount = 0
    /\ m_state = [f \in Fibers |-> "NEW"]
    /\ pc = [t \in Threads |-> "off"]
    /\ task = [t \in Threads |-> NoFiber]
    /\ idleTerm = [t \in Threads |-> FALSE]
    /\ started = FALSE
    /\ main = "user"
    /\ yields = 0

-----------------------------------------------------------------------------
(* The task queue *)

Queued(f) == \E i \in DOMAIN m_tasks : m_tasks[i].fiber = f

\* scheduleNoLock(); tickle() of the base class only logs.
Enqueue(f, th) == m_tasks' = Append(m_tasks, [fiber |-> f, thread |-> th])

\* The list without its i-th element.
Erase(s, i) == [j \in 1..(Len(s) - 1) |-> IF j < i THEN s[j] ELSE s[j + 1]]

\* Mutants of Skips.
SkipsWithoutRunningCheck(t, e) == e.thread # AnyThread /\ e.thread # t
SkipsEveryPinned(t, e) == e.thread # AnyThread \/ m_state[e.fiber] = "RUNNING"

\* What the scan of run() passes over: a task for another thread, and a fiber
\* that is still RUNNING because it queued itself and has not yielded yet.
Skips(t, e) ==
    \/ e.thread # AnyThread /\ e.thread # t
    \/ m_state[e.fiber] = "RUNNING"

NothingFor(t) == \A i \in DOMAIN m_tasks : Skips(t, m_tasks[i])

\* Mutants of Stopping.
StoppingIgnoresActive == m_stopping /\ m_tasks = <<>>
StoppingIgnoresQueue == m_stopping /\ m_activeThreadCount = 0
StoppingWaitsForIdle ==
    /\ m_stopping /\ m_tasks = <<>>
    /\ m_activeThreadCount = 0 /\ m_idleThreadCount = 0

\* stopping(), evaluated under m_mutex.
Stopping == m_stopping /\ m_tasks = <<>> /\ m_activeThreadCount = 0

\* A fiber is on a CPU from the swapcontext of resume() to the one of yield().
OnCpu(t) == pc[t] \in {"exec", "switch"}

\* No fiber is on two CPUs at once.
Defined == \A t, u \in Threads :
               t # u /\ OnCpu(t) /\ OnCpu(u) => task[t] # task[u]

-----------------------------------------------------------------------------
(* Caller: user code, start() and stop() *)

\* schedule(fiber or cb, th) from outside the pool, before or after start().
MainSchedule(f, th, kind) ==
    /\ main = "user"
    /\ m_state[f] = "NEW"
    /\ m_state' = [m_state EXCEPT ![f] = kind]
    /\ Enqueue(f, th)
    /\ UNCHANGED <<m_stopping, m_activeThreadCount, m_idleThreadCount, pc,
                   task, idleTerm, started, main, yields>>

\* start() holds m_mutex until every worker exists, so no worker scans before.
Start ==
    /\ main = "user" /\ ~started
    /\ started' = TRUE
    /\ pc' = [t \in Threads |-> IF t \in Workers THEN "scan" ELSE pc[t]]
    /\ UNCHANGED <<m_tasks, m_stopping, m_activeThreadCount, m_idleThreadCount,
                   m_state, task, idleTerm, main, yields>>

\* stop() up to m_stopping = true; the first stop() never returns early,
\* because m_stopping is still false.
Stop ==
    /\ main = "user" /\ started
    /\ m_stopping' = TRUE
    /\ main' = IF UseCaller THEN "enter" ELSE "join"
    /\ UNCHANGED <<m_tasks, m_activeThreadCount, m_idleThreadCount, m_state,
                   pc, task, idleTerm, started, yields>>

\* m_rootFiber->resume(): Caller starts to execute run().
StopEnterRoot ==
    /\ main = "enter"
    /\ main' = "root"
    /\ pc' = [pc EXCEPT ![Caller] = "scan"]
    /\ UNCHANGED <<m_tasks, m_stopping, m_activeThreadCount, m_idleThreadCount,
                   m_state, task, idleTerm, started, yields>>

\* run() returned, so m_rootFiber terminated and resume() returns.
StopLeaveRoot ==
    /\ main = "root" /\ pc[Caller] = "exit"
    /\ main' = "join"
    /\ UNCHANGED <<m_tasks, m_stopping, m_activeThreadCount, m_idleThreadCount,
                   m_state, pc, task, idleTerm, started, yields>>

\* Every join() has returned, and so does stop().
StopJoined ==
    /\ main = "join"
    /\ \A w \in Workers : pc[w] = "exit"
    /\ main' = "done"
    /\ UNCHANGED <<m_tasks, m_stopping, m_activeThreadCount, m_idleThreadCount,
                   m_state, pc, task, idleTerm, started, yields>>

\* A second stop() (the destructor of IOManager calls it again) returns at once.
StopAgain == main = "done" /\ Stopping /\ UNCHANGED vars

-----------------------------------------------------------------------------
(* run() on thread t: the scan *)

\* Mutant of Take: erases the head of the queue, not the task found.
TakeErasesHead(t) ==
    /\ pc[t] = "scan"
    /\ \E i \in DOMAIN m_tasks :
        /\ ~Skips(t, m_tasks[i])
        /\ \A j \in 1..(i - 1) : Skips(t, m_tasks[j])
        /\ m_tasks' = Tail(m_tasks)
        /\ task' = [task EXCEPT ![t] = m_tasks[i].fiber]
    /\ m_activeThreadCount' = m_activeThreadCount + 1
    /\ pc' = [pc EXCEPT ![t] = "resume"]
    /\ UNCHANGED <<m_stopping, m_idleThreadCount, m_state, idleTerm, started,
                   main, yields>>

\* The first task that is not skipped leaves the queue; the thread is active.
Take(t) ==
    /\ pc[t] = "scan"
    /\ \E i \in DOMAIN m_tasks :
        /\ ~Skips(t, m_tasks[i])
        /\ \A j \in 1..(i - 1) : Skips(t, m_tasks[j])
        /\ m_tasks' = Erase(m_tasks, i)
        /\ task' = [task EXCEPT ![t] = m_tasks[i].fiber]
    /\ m_activeThreadCount' = m_activeThreadCount + 1
    /\ pc' = [pc EXCEPT ![t] = "resume"]
    /\ UNCHANGED <<m_stopping, m_idleThreadCount, m_state, idleTerm, started,
                   main, yields>>

\* No task for t: its idle fiber is resumed...
EnterIdle(t) ==
    /\ pc[t] = "scan" /\ NothingFor(t) /\ ~idleTerm[t]
    /\ m_idleThreadCount' = m_idleThreadCount + 1
    /\ pc' = [pc EXCEPT ![t] = "idle"]
    /\ UNCHANGED <<m_tasks, m_stopping, m_activeThreadCount, m_state, task,
                   idleTerm, started, main, yields>>

\* ...or, when that has terminated, run() returns.
Exit(t) ==
    /\ pc[t] = "scan" /\ NothingFor(t) /\ idleTerm[t]
    /\ pc' = [pc EXCEPT ![t] = "exit"]
    /\ UNCHANGED <<m_tasks, m_stopping, m_activeThreadCount, m_idleThreadCount,
                   m_state, task, idleTerm, started, main, yields>>

\* idle(): one evaluation of stopping(); the idle fiber yields or terminates.
LeaveIdle(t) ==
    /\ pc[t] = "idle"
    /\ idleTerm' = [idleTerm EXCEPT ![t] = Stopping]
    /\ m_idleThreadCount' = m_idleThreadCount - 1
    /\ pc' = [pc EXCEPT ![t] = "scan"]
    /\ UNCHANGED <<m_tasks, m_stopping, m_activeThreadCount, m_state, task,
                   started, main, yields>>

-----------------------------------------------------------------------------
(* run() on thread t: the task it took *)

\* Fiber::resume(), after wrapping a function in a new Fiber if need be.  Its
\* SYLAR_ASSERT is the property ResumeSafe: a failed one would end the process.
Resume(t) ==
    /\ pc[t] = "resume"
    /\ m_state[task[t]] \in {"CB", "READY"}
    /\ m_state' = [m_state EXCEPT ![task[t]] = "RUNNING"]
    /\ pc' = [pc EXCEPT ![t] = "exec"]
    /\ UNCHANGED <<m_tasks, m_stopping, m_activeThreadCount, m_idleThreadCount,
                   task, idleTerm, started, main, yields>>

\* The running fiber schedules a fiber or a function nobody scheduled yet.
Spawn(t, f, th, kind) ==
    /\ pc[t] = "exec"
    /\ m_state[f] = "NEW"
    /\ m_state' = [m_state EXCEPT ![f] = kind]
    /\ Enqueue(f, th)
    /\ UNCHANGED <<m_stopping, m_activeThreadCount, m_idleThreadCount, pc,
                   task, idleTerm, started, main, yields>>

\* The running fiber schedules itself, as it must do before it yields.
ScheduleSelf(t, th) ==
    /\ pc[t] = "exec" /\ ~Queued(task[t])
    /\ yields < MaxYields
    /\ yields' = yields + 1
    /\ Enqueue(task[t], th)
    /\ UNCHANGED <<m_stopping, m_activeThreadCount, m_idleThreadCount, m_state,
                   pc, task, idleTerm, started, main>>

\* yield() up to m_state = READY: the context is not saved yet.
Yield(t) ==
    /\ pc[t] = "exec" /\ Queued(task[t])
    /\ m_state' = [m_state EXCEPT ![task[t]] = "READY"]
    /\ pc' = [pc EXCEPT ![t] = "switch"]
    /\ UNCHANGED <<m_tasks, m_stopping, m_activeThreadCount, m_idleThreadCount,
                   task, idleTerm, started, main, yields>>

\* MainFunc(): the callback returned; the last yield() keeps TERM.
Finish(t) ==
    /\ pc[t] = "exec" /\ ~Queued(task[t])
    /\ m_state' = [m_state EXCEPT ![task[t]] = "TERM"]
    /\ pc' = [pc EXCEPT ![t] = "switch"]
    /\ UNCHANGED <<m_tasks, m_stopping, m_activeThreadCount, m_idleThreadCount,
                   task, idleTerm, started, main, yields>>

\* The swapcontext of yield(): the fiber's context is saved, run() goes on.
SwitchOut(t) ==
    /\ pc[t] = "switch"
    /\ pc' = [pc EXCEPT ![t] = "return"]
    /\ UNCHANGED <<m_tasks, m_stopping, m_activeThreadCount, m_idleThreadCount,
                   m_state, task, idleTerm, started, main, yields>>

\* Mutants of Return.
ReturnKeepsActive(t) ==
    /\ pc[t] = "return"
    /\ task' = [task EXCEPT ![t] = NoFiber]
    /\ pc' = [pc EXCEPT ![t] = "scan"]
    /\ UNCHANGED <<m_tasks, m_stopping, m_activeThreadCount, m_idleThreadCount,
                   m_state, idleTerm, started, main, yields>>
ReturnLowersIdle(t) ==
    /\ pc[t] = "return"
    /\ m_idleThreadCount' = m_idleThreadCount - 1
    /\ task' = [task EXCEPT ![t] = NoFiber]
    /\ pc' = [pc EXCEPT ![t] = "scan"]
    /\ UNCHANGED <<m_tasks, m_stopping, m_activeThreadCount, m_state, idleTerm,
                   started, main, yields>>

\* resume() returned: the thread is not active any more and drops the task.
Return(t) ==
    /\ pc[t] = "return"
    /\ m_activeThreadCount' = m_activeThreadCount - 1
    /\ task' = [task EXCEPT ![t] = NoFiber]
    /\ pc' = [pc EXCEPT ![t] = "scan"]
    /\ UNCHANGED <<m_tasks, m_stopping, m_idleThreadCount, m_state, idleTerm,
                   started, main, yields>>

-----------------------------------------------------------------------------
(* Specification *)

Kinds == {"CB", "READY"}     \* a function, or a Fiber object (born READY)
Targets == Threads \cup {AnyThread}

\* The user's code on Caller, which nothing obliges to go on.
UserStep ==
    \/ \E f \in Fibers, th \in Targets, kind \in Kinds :
           MainSchedule(f, th, kind)
    \/ Start
    \/ Stop

\* stop() once it has been called.
StopStep == StopEnterRoot \/ StopLeaveRoot \/ StopJoined

\* A callback's own choice among what it may do next.
FiberStep(t) ==
    \/ \E f \in Fibers, th \in Targets, kind \in Kinds : Spawn(t, f, th, kind)
    \/ \E th \in Targets : ScheduleSelf(t, th)
    \/ Yield(t)
    \/ Finish(t)

ThreadStep(t) ==
    \/ Take(t) \/ EnterIdle(t) \/ Exit(t) \/ LeaveIdle(t)
    \/ Resume(t) \/ FiberStep(t) \/ SwitchOut(t) \/ Return(t)

\* Two threads on one stack: the model says nothing about what follows.
Undefined == ~Defined /\ UNCHANGED vars

Next ==
    \/ Defined /\ (UserStep \/ StopStep \/ \E t \in Threads : ThreadStep(t))
    \/ StopAgain
    \/ Undefined

\* Safety part.
Spec == Init /\ [][Next]_vars

\* The kernel runs every runnable thread, and callbacks terminate.
Fairness ==
    /\ WF_vars(Defined /\ StopStep)
    /\ \A t \in Threads : WF_vars(Defined /\ ThreadStep(t))

FairSpec == Spec /\ Fairness

-----------------------------------------------------------------------------
(* Properties *)

BusyPc == {"resume", "exec", "switch", "return"}
BusyThreads == {t \in Threads : pc[t] \in BusyPc}
IdleThreads == {t \in Threads : pc[t] = "idle"}

\* Every variable holds a value of its C++ type; the two unsigned counters do
\* not wrap below zero (m_activeThreadCount, m_idleThreadCount).
TypeOK ==
    /\ m_tasks \in Seq(ScheduleTask)
    /\ m_stopping \in BOOLEAN
    /\ m_activeThreadCount \in Nat
    /\ m_idleThreadCount \in Nat
    /\ m_state \in [Fibers -> FiberStates]
    /\ pc \in [Threads -> PcValues]
    /\ task \in [Threads -> Fibers \cup {NoFiber}]
    /\ idleTerm \in [Threads -> BOOLEAN]
    /\ started \in BOOLEAN
    /\ main \in {"user", "enter", "root", "join", "done"}
    /\ yields \in 0..MaxYields

\* The atomics that run() raises under m_mutex and lowers outside it count
\* exactly the threads that hold a task and the threads in their idle fiber:
\* stopping() and hasIdleThreads() rely on it.
CountersExact ==
    /\ m_activeThreadCount = Cardinality(BusyThreads)
    /\ m_idleThreadCount = Cardinality(IdleThreads)

\* The SYLAR_ASSERT of Fiber::resume holds whenever run() resumes a task: the
\* fiber is neither RUNNING nor TERM, although the scan looked at its state
\* one critical section earlier and another thread may have touched it since.
ResumeSafe ==
    \A t \in Threads : pc[t] = "resume" => m_state[task[t]] \in {"CB", "READY"}

\* No task is lost between two threads: whatever was submitted and has not
\* terminated is in the queue, or in the hands of exactly one thread.
NoTaskLost ==
    \A f \in Fibers :
        m_state[f] \in {"CB", "READY", "RUNNING"} =>
            \/ Queued(f)
            \/ \E t \in Threads :
                /\ pc[t] \in {"resume", "exec"} /\ task[t] = f
                /\ \A u \in Threads \ {t} :
                       pc[u] \in {"resume", "exec"} => task[u] # f

\* scheduler.h:83-86: stop() returns only when every scheduled task has been
\* executed to its end, the ones other tasks scheduled meanwhile included.
StopWaitsForAll ==
    main = "done" =>
        m_tasks = <<>> /\ \A f \in Fibers : m_state[f] \in {"NEW", "TERM"}

\* Once one thread has seen stopping() hold, it holds for good: no thread can
\* leave run() while another one still may produce work for it.
StoppingIsFinal == \A t \in Threads : idleTerm[t] => Stopping

\* stop() returns: the threads do not wait for each other for ever.
StopReturns == m_stopping ~> (main = "done" \/ ~Defined)

\* A task scheduled on a given worker is executed there, whether or not the
\* scheduler is ever stopped: no other thread takes it, and the scan of its
\* thread is not starved by the tasks before it.
PinnedTaskRuns ==
    \A f \in Fibers, w \in Workers :
        (started /\ \E i \in DOMAIN m_tasks :
                        m_tasks[i] = [fiber |-> f, thread |-> w])
            ~> ((pc[w] = "exec" /\ task[w] = f) \/ ~Defined)

(* A claim of the repository that the code does not meet *)

\* scheduler.cc:173-175: skipping RUNNING fibers is what keeps a fiber that
\* has not yet yielded from being resumed by a second thread.
FiberOnOneCpu == Defined

-----------------------------------------------------------------------------
(* The inductive invariant: TypeOK, CountersExact and the four parts below. *)

\* A queued task is alive, and is queued once.
QueueInv ==
    /\ \A i \in DOMAIN m_tasks :
           m_state[m_tasks[i].fiber] \in {"CB", "READY", "RUNNING"}
    /\ \A i, j \in DOMAIN m_tasks :
           i # j => m_tasks[i].fiber # m_tasks[j].fiber

\* A fiber taken by a thread: who holds it and in which state it is.
HeldInv ==
    /\ \A t \in Threads : pc[t] \in BusyPc => task[t] \in Fibers
    /\ \A t \in Threads : pc[t] = "resume" =>
           ~Queued(task[t]) /\ m_state[task[t]] \in {"CB", "READY"}
    /\ \A t \in Threads : pc[t] = "exec" => m_state[task[t]] = "RUNNING"
    /\ \A t, u \in Threads :
           t # u /\ {pc[t], pc[u]} \subseteq {"resume", "exec"}
               => task[t] # task[u]

\* A fiber that nobody is about to run, or runs, is queued, new or finished.
LiveInv ==
    \A f \in Fibers :
        m_state[f] \in {"CB", "READY", "RUNNING"} =>
            \/ Queued(f)
            \/ \E t \in Threads : pc[t] \in {"resume", "exec"} /\ task[t] = f

\* How far start() and stop() are, and what the threads have seen of it.
StopInv ==
    /\ StoppingIsFinal
    /\ \A t \in Threads : pc[t] = "exit" => idleTerm[t]
    /\ ~started => \A w \in Workers : pc[w] = "off"
    /\ main \in {"user", "enter"} /\ UseCaller => pc[Caller] = "off"
    /\ main # "user" => m_stopping
    /\ main = "user" => ~m_stopping
    /\ main \in {"enter", "root"} => UseCaller
    /\ main \in {"join", "done"} /\ UseCaller => pc[Caller] = "exit"
    /\ main = "done" => \A w \in Workers : pc[w] = "exit"

IndInv ==
    TypeOK /\ CountersExact /\ QueueInv /\ HeldInv /\ LiveInv /\ StopInv

-----------------------------------------------------------------------------
(* What the scheduler promises: a pool of jobs that closes only when done.  *)

JobState(s) ==
    CASE s = "NEW" -> "new"
      [] s \in {"CB", "READY"} -> "pending"
      [] s = "RUNNING" -> "running"
      [] s = "TERM" -> "done"
JobOf == [f \in Fibers |-> JobState(m_state[f])]
PoolOf == IF main = "done" THEN "closed"
          ELSE IF m_stopping THEN "closing" ELSE "open"

Pool == INSTANCE TaskPool WITH Jobs <- Fibers, job <- JobOf, pool <- PoolOf

\* The scheduler implements the abstract pool.
PoolSpec == Pool!Spec
=============================================================================
