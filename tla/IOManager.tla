----------------------------- MODULE IOManager -----------------------------
(***************************************************************************)
(* How the threads of an IOManager sleep, are woken and stop: idle(),      *)
(* stopping(), tickle() and onTimerInsertedAtFront() of iomanager.cc,      *)
(* together with the parts of Scheduler::run and Scheduler::schedule that  *)
(* decide when a tickle is sent.  The queue, the timers and the events     *)
(* themselves are the subject of Scheduler, TimerManager and FdContexts;   *)
(* here a task is a name that travels: it waits as a timer or as an event, *)
(* is queued, is run.  A reader of m_pendingEventCount, of the timers and  *)
(* of the queue reads them one after the other, as stopping() does.        *)
(***************************************************************************)
EXTENDS Naturals, Sequences, FiniteSets

CONSTANTS
    Threads,    \* the threads that execute run()
    Main,       \* the thread that schedules from outside and calls stop()
    Tasks,      \* every callback of the program
    PinnedTo,   \* the thread argument each task is scheduled with
    AnyThread,  \* the thread argument -1
    FarTimers   \* timers whose delay does not fit in the (int) of idle()

ASSUME PoolAssumption ==
    /\ IsFiniteSet(Threads) /\ Threads # {} /\ Main \notin Threads
    /\ AnyThread \notin Threads
    /\ PinnedTo \in [Tasks -> Threads \cup {AnyThread}]
    /\ FarTimers \subseteq Tasks
    \* A thread is not the name of a place (place says where a task is).
    /\ Threads \cap {"new", "queue", "run", "done", "timer", "due", "event",
                    "ready"} = {}

VARIABLES
    place,       \* where each task is
    m_tasks,     \* the scheduler's queue
    m_stopping, m_activeThreadCount, m_idleThreadCount, m_pendingEventCount,
    pipe,        \* the tickle pipe has bytes nobody was woken for
    owed,        \* the actors that left schedule()'s lock with need_tickle
    pc, task,    \* where each thread is in run() and idle(), and its task
    idleTerm,    \* the idle fiber of the thread has terminated
    blind,       \* the thread called epoll_wait with a negative timeout
    reported     \* the events epoll_wait returned to the thread

vars == <<place, m_tasks, m_stopping, m_activeThreadCount, m_idleThreadCount,
          m_pendingEventCount, pipe, owed, pc, task, idleTerm, blind, reported>>

counters == <<m_activeThreadCount, m_idleThreadCount, m_pendingEventCount>>
Actors == Threads \cup {Main}
At(p) == {k \in Tasks : place[k] \in p}
HasTimer == At({"timer", "due"}) # {}

Init ==
    /\ place = [k \in Tasks |-> "new"] /\ m_tasks = <<>>
    /\ m_stopping = FALSE
    /\ m_activeThreadCount = 0 /\ m_idleThreadCount = 0
    /\ m_pendingEventCount = 0
    /\ pipe = FALSE /\ owed = {}
    /\ pc = [t \in Threads |-> "scan"]
    /\ task = [t \in Threads |-> Main]      \* no task
    /\ idleTerm = [t \in Threads |-> FALSE]
    /\ blind = [t \in Threads |-> FALSE]
    /\ reported = [t \in Threads |-> {}]

\* An actor that owes a tickle() does nothing else first.
At1(t, p) == pc[t] = p /\ t \notin owed
Goto(t, p) == pc' = [pc EXCEPT ![t] = p]
Move(k, p) == place' = [place EXCEPT ![k] = p]

-----------------------------------------------------------------------------
(* schedule(), tickle() and what user code does *)

\* Mutant of Enqueue: a task found in the queue is replaced.
EnqueueDropsRest(a, k) ==
    /\ m_tasks' = <<k>> /\ Move(k, "queue")
    /\ owed' = IF m_tasks = <<>> THEN owed \cup {a} ELSE owed

\* schedule(): only the task that finds the queue empty asks for a tickle.
Enqueue(a, k) ==
    /\ m_tasks' = Append(m_tasks, k) /\ Move(k, "queue")
    /\ owed' = IF m_tasks = <<>> THEN owed \cup {a} ELSE owed

\* tickle(): nothing is written when no thread counts as idle.
Tickle(a) ==
    /\ a \in owed
    /\ owed' = owed \ {a}
    /\ pipe' = (pipe \/ m_idleThreadCount > 0)
    /\ UNCHANGED <<place, m_tasks, m_stopping, counters, pc, task, idleTerm,
                   blind, reported>>

\* User code, outside the pool until stop() or in the task a thread runs.
Busy(a) ==
    /\ a \notin owed
    /\ IF a = Main THEN ~m_stopping ELSE pc[a] = "run"

Schedule(a, k) ==
    /\ Busy(a) /\ place[k] = "new"
    /\ Enqueue(a, k)
    /\ UNCHANGED <<m_stopping, counters, pipe, pc, task, idleTerm, blind,
                   reported>>

\* addTimer(); a timer that became the first one tickles.
AddTimer(a, k, front) ==
    /\ Busy(a) /\ place[k] = "new"
    /\ Move(k, "timer")
    /\ owed' = IF front THEN owed \cup {a} ELSE owed
    /\ UNCHANGED <<m_tasks, m_stopping, counters, pipe, pc, task, idleTerm,
                   blind, reported>>

AddEvent(a, k) ==
    /\ Busy(a) /\ place[k] = "new"
    /\ Move(k, "event")
    /\ m_pendingEventCount' = m_pendingEventCount + 1
    /\ UNCHANGED <<m_tasks, m_stopping, m_activeThreadCount,
                   m_idleThreadCount, pipe, owed, pc, task, idleTerm, blind,
                   reported>>

\* Time passes, and the peers of the sockets act.
Expire(k) ==
    /\ place[k] = "timer" /\ k \notin FarTimers
    /\ Move(k, "due")
    /\ UNCHANGED <<m_tasks, m_stopping, counters, pipe, owed, pc, task,
                   idleTerm, blind, reported>>
EventReady(k) ==
    /\ place[k] = "event"
    /\ Move(k, "ready")
    /\ UNCHANGED <<m_tasks, m_stopping, counters, pipe, owed, pc, task,
                   idleTerm, blind, reported>>

\* stop() up to the joins: m_stopping, then one tickle() per thread.
Stop ==
    /\ Busy(Main)
    /\ m_stopping' = TRUE
    /\ owed' = owed \cup {Main}
    /\ UNCHANGED <<place, m_tasks, counters, pipe, pc, task, idleTerm, blind,
                   reported>>

-----------------------------------------------------------------------------
(* Scheduler::run() on thread t *)

Mine(t, k) == PinnedTo[k] \in {t, AnyThread}
\* Tasks left in the queue, this thread's or not, are worth a tickle.
Owe(t, q) == owed' = IF q # <<>> THEN owed \cup {t} ELSE owed

Take(t) ==
    /\ At1(t, "scan")
    /\ \E i \in DOMAIN m_tasks :
        /\ Mine(t, m_tasks[i]) /\ \A j \in 1..(i - 1) : ~Mine(t, m_tasks[j])
        /\ LET left == SubSeq(m_tasks, 1, i - 1)
                           \o SubSeq(m_tasks, i + 1, Len(m_tasks))
           IN  m_tasks' = left /\ Owe(t, left)
        /\ task' = [task EXCEPT ![t] = m_tasks[i]]
        /\ Move(m_tasks[i], "run")
    /\ m_activeThreadCount' = m_activeThreadCount + 1
    /\ Goto(t, "run")
    /\ UNCHANGED <<m_stopping, m_idleThreadCount, m_pendingEventCount, pipe,
                   idleTerm, blind, reported>>

\* The task returned.
Finish(t) ==
    /\ At1(t, "run")
    /\ Goto(t, "scan") /\ Move(task[t], "done")
    /\ task' = [task EXCEPT ![t] = Main]
    /\ m_activeThreadCount' = m_activeThreadCount - 1
    /\ UNCHANGED <<m_tasks, m_stopping, m_idleThreadCount,
                   m_pendingEventCount, pipe, owed, idleTerm, blind, reported>>

\* Nothing for t: on to the idle fiber, or out of run() if it terminated.
\* The thread does not count as idle yet.
NoTask(t) ==
    /\ At1(t, "scan")
    /\ \A i \in DOMAIN m_tasks : ~Mine(t, m_tasks[i])
    /\ Goto(t, IF idleTerm[t] THEN "exit" ELSE "gap")
    /\ Owe(t, m_tasks)
    /\ UNCHANGED <<place, m_tasks, m_stopping, counters, pipe, task, idleTerm,
                   blind, reported>>

EnterIdle(t) ==
    /\ At1(t, "gap")
    /\ Goto(t, "timers")
    /\ m_idleThreadCount' = m_idleThreadCount + 1
    /\ UNCHANGED <<place, m_tasks, m_stopping, m_activeThreadCount,
                   m_pendingEventCount, pipe, owed, task, idleTerm, blind,
                   reported>>

-----------------------------------------------------------------------------
(* idle(): stopping(), which evaluates a conjunction from left to right *)

\* getNextTimer() gives the timeout of epoll_wait: 5 s at most, unless the
\* delay of the first timer becomes negative as an int.
ReadTimers(t) ==
    /\ At1(t, "timers")
    /\ Goto(t, IF HasTimer THEN "wait" ELSE "events")
    /\ blind' = [blind EXCEPT ![t] =
                    HasTimer /\ At({"timer", "due"}) \subseteq FarTimers]
    /\ UNCHANGED <<place, m_tasks, m_stopping, counters, pipe, owed, task,
                   idleTerm, reported>>

ReadEvents(t) ==
    /\ At1(t, "events")
    /\ Goto(t, IF m_pendingEventCount = 0 THEN "queue" ELSE "wait")
    /\ UNCHANGED <<place, m_tasks, m_stopping, counters, pipe, owed, task,
                   idleTerm, blind, reported>>

\* Mutant of ReadQueue: the idle fiber never ends.
ReadQueueNeverStops(t) ==
    /\ At1(t, "queue")
    /\ Goto(t, "wait")
    /\ UNCHANGED <<place, m_tasks, m_stopping, counters, pipe, owed, task,
                   idleTerm, blind, reported>>

\* Scheduler::stopping(), under m_mutex; TRUE ends the idle fiber.
ReadQueue(t) ==
    /\ At1(t, "queue")
    /\ LET stop == m_stopping /\ m_tasks = <<>> /\ m_activeThreadCount = 0
       IN  /\ Goto(t, IF stop THEN "back" ELSE "wait")
           /\ idleTerm' = [idleTerm EXCEPT ![t] = stop]
    /\ UNCHANGED <<place, m_tasks, m_stopping, counters, pipe, owed, task,
                   blind, reported>>

-----------------------------------------------------------------------------
(* idle(): epoll_wait() and what follows it *)

\* epoll_wait returns what is ready, and empties the pipe; a thread with a
\* finite timeout may return with nothing at all.
Wake(t) ==
    /\ At1(t, "wait")
    /\ blind[t] => pipe \/ At({"ready"}) # {}
    /\ reported' = [reported EXCEPT ![t] = At({"ready"})]
    /\ pipe' = FALSE
    /\ Goto(t, "list")
    /\ UNCHANGED <<place, m_tasks, m_stopping, counters, owed, task, idleTerm,
                   blind>>

\* Mutant of ListExpired: the timers are read, and their callbacks dropped.
ListExpiredDrops(t) ==
    /\ At1(t, "list")
    /\ place' = [k \in Tasks |-> IF place[k] = "due" THEN t ELSE place[k]]
    /\ Goto(t, "handle")
    /\ UNCHANGED <<m_tasks, m_stopping, counters, pipe, owed, task, idleTerm,
                   blind, reported>>

\* listExpiredCb() takes the due timers into the cbs of this thread.
ListExpired(t) ==
    /\ At1(t, "list")
    /\ place' = [k \in Tasks |-> IF place[k] = "due" THEN t ELSE place[k]]
    /\ Goto(t, "cbs")
    /\ UNCHANGED <<m_tasks, m_stopping, counters, pipe, owed, task, idleTerm,
                   blind, reported>>

ScheduleCb(t, k) ==
    /\ At1(t, "cbs") /\ place[k] = t
    /\ Enqueue(t, k)
    /\ UNCHANGED <<m_stopping, counters, pipe, pc, task, idleTerm, blind,
                   reported>>

CbsDone(t) ==
    /\ At1(t, "cbs") /\ At({t}) = {}
    /\ Goto(t, "handle")
    /\ UNCHANGED <<place, m_tasks, m_stopping, counters, pipe, owed, task,
                   idleTerm, blind, reported>>

\* triggerEvent() for one reported event that is still registered...
HandleEvent(t, k) ==
    /\ At1(t, "handle") /\ k \in reported[t]
    /\ reported' = [reported EXCEPT ![t] = @ \ {k}]
    /\ IF place[k] = "ready"
          THEN Enqueue(t, k) /\ Goto(t, "uncount")
          ELSE UNCHANGED <<place, m_tasks, owed, pc>>
    /\ UNCHANGED <<m_stopping, counters, pipe, task, idleTerm, blind>>

\* ...and only then --m_pendingEventCount.
Uncount(t) ==
    /\ At1(t, "uncount")
    /\ Goto(t, "handle")
    /\ m_pendingEventCount' = m_pendingEventCount - 1
    /\ UNCHANGED <<place, m_tasks, m_stopping, m_activeThreadCount,
                   m_idleThreadCount, pipe, owed, task, idleTerm, blind,
                   reported>>

HandleDone(t) ==
    /\ At1(t, "handle") /\ reported[t] = {}
    /\ Goto(t, "back")
    /\ UNCHANGED <<place, m_tasks, m_stopping, counters, pipe, owed, task,
                   idleTerm, blind, reported>>

\* The idle fiber yields, or returns, to run().
LeaveIdle(t) ==
    /\ At1(t, "back")
    /\ Goto(t, "scan")
    /\ m_idleThreadCount' = m_idleThreadCount - 1
    /\ UNCHANGED <<place, m_tasks, m_stopping, m_activeThreadCount,
                   m_pendingEventCount, pipe, owed, task, idleTerm, blind,
                   reported>>

-----------------------------------------------------------------------------
(* Specification *)

User(a) == \E k \in Tasks :
    \/ Schedule(a, k) \/ AddEvent(a, k)
    \/ \E front \in BOOLEAN : AddTimer(a, k, front)

\* What a thread does once it may run; the choices of user code are its own.
Step(t) ==
    \/ Tickle(t) \/ Take(t) \/ Finish(t) \/ NoTask(t) \/ EnterIdle(t)
    \/ ReadTimers(t) \/ ReadEvents(t) \/ ReadQueue(t)
    \/ Wake(t) \/ ListExpired(t) \/ CbsDone(t)
    \/ \E k \in Tasks : ScheduleCb(t, k) \/ HandleEvent(t, k)
    \/ Uncount(t) \/ HandleDone(t) \/ LeaveIdle(t)

Exited == \A t \in Threads : pc[t] = "exit"

\* Every thread is gone and stop() has returned from its joins.
Joined == m_stopping /\ Exited /\ Main \notin owed /\ UNCHANGED vars

Next ==
    \/ \E a \in Actors : User(a)
    \/ \E k \in Tasks : Expire(k) \/ EventReady(k)
    \/ Stop \/ Tickle(Main)
    \/ \E t \in Threads : Step(t)
    \/ Joined

Spec == Init /\ [][Next]_vars

\* Every thread runs (the kernel schedules them, epoll_wait has a timeout) and
\* time passes; nothing obliges user code or the peers to do anything.
FairSpec ==
    /\ Spec
    /\ WF_vars(Tickle(Main))
    /\ \A t \in Threads : WF_vars(Step(t))
    /\ \A k \in Tasks : WF_vars(Expire(k))

-----------------------------------------------------------------------------
(* Properties *)

\* A thread that read "no timer" before a task added one may leave run() as
\* soon as that task is over; a task pinned to it then never runs.
Stranded(k) == \E t \in Threads : PinnedTo[k] = t /\ pc[t] = "exit"

\* What the comment above stopping() asks for (iomanager.cc:350-351): when the
\* threads have left run(), no task, no timer and no registered event is left.
\* The code reads the three at three moments and does not keep it.
NothingLeftBehind == Exited => At({"new", "done"}) = Tasks

\* What it does keep: the queue is read last, under its lock, so that no task
\* that was queued, is running, or was taken from the timers (listExpiredCb has
\* removed it, schedule() has not added it yet) is left behind.
NoTaskLeftBehind ==
    Exited => \A k \in At({"queue", "run"} \cup Threads) : Stranded(k)

\* A tickle may be missed (the thread that should see it has scanned the queue
\* and does not count as idle yet, scheduler.cc:217), and is never repeated:
\* still every queued task is run, and every due timer and ready event unless
\* the threads are gone, because epoll_wait does not sleep longer than 5 s.
EverythingRuns ==
    \A k \in Tasks : place[k] \in {"queue", "due", "ready"}
                         ~> place[k] = "done" \/ Stranded(k) \/ Exited

\* stop() returns: once no event is registered any more, every thread finds
\* the way out, whatever order it reads the timers, the count and the queue in.
StopReturns ==
    (m_stopping /\ <>[](At({"event"}) = {}))
        ~> Exited \/ \E k \in Tasks : place[k] = "queue" /\ Stranded(k)
=============================================================================
