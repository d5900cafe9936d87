-------------------------- MODULE IOManagerProofs --------------------------
(***************************************************************************)
(* Proofs about IOManager: what stopping() keeps, for every number of      *)
(* threads and tasks and however tasks are pinned.                         *)
(***************************************************************************)
EXTENDS IOManager, DataLemmas, TLAPS

Names == {"new", "queue", "run", "done", "timer", "due", "event", "ready"}
Places == {"scan", "run", "gap", "timers", "events", "queue", "wait", "list",
           "cbs", "handle", "uncount", "back", "exit"}

IOTypes ==
    /\ place \in [Tasks -> Names \cup Threads]
    /\ m_tasks \in Seq(Tasks)
    /\ pc \in [Threads -> Places]
    /\ task \in [Threads -> Tasks \cup {Main}]
    /\ idleTerm \in [Threads -> BOOLEAN]

\* A thread leaves run() only after stop().
StopInv ==
    \A t \in Threads : idleTerm[t] \/ pc[t] = "exit" => m_stopping

\* A task is where place says: a thread runs it, a thread holds it in its cbs
\* (which it leaves only when they are scheduled), or it is in the queue.
TravelInv ==
    \A k \in Tasks :
        /\ place[k] = "run" => \E t \in Threads : pc[t] = "run" /\ task[t] = k
        /\ \A t \in Threads : place[k] = t => pc[t] = "cbs"
        /\ place[k] = "queue" => \E i \in DOMAIN m_tasks : m_tasks[i] = k

IndInv == IOTypes /\ StopInv /\ TravelInv /\ NoTaskLeftBehind

-----------------------------------------------------------------------------
LEMMA InitInv == Init => IndInv
<1> SUFFICES ASSUME Init PROVE IndInv
  OBVIOUS
<1>1. IOTypes
  BY PoolAssumption DEF Init, IOTypes, Names, Places
<1>2. StopInv /\ TravelInv
  BY PoolAssumption DEF Init, StopInv, TravelInv
<1>3. NoTaskLeftBehind
  BY PoolAssumption DEF Init, NoTaskLeftBehind, Exited
<1>4. QED
  BY <1>1, <1>2, <1>3 DEF IndInv

\* The types of the places and of the queue.
LEMMA TypesStep == IndInv /\ [Next]_vars => IOTypes'
<1> SUFFICES ASSUME IndInv, [Next]_vars PROVE IOTypes'
  OBVIOUS
<1> USE PoolAssumption DEF IndInv, IOTypes, Names, Places, At1, Goto, Move
<1>1. ASSUME NEW a \in Actors, NEW k \in Tasks, Schedule(a, k)
      PROVE  IOTypes'
  BY <1>1 DEF Schedule, Enqueue
<1>2. ASSUME NEW a \in Actors, NEW k \in Tasks, NEW front \in BOOLEAN, AddTimer(a, k, front)
      PROVE  IOTypes'
  BY <1>2 DEF AddTimer
<1>3. ASSUME NEW a \in Actors, NEW k \in Tasks, AddEvent(a, k)
      PROVE  IOTypes'
  BY <1>3 DEF AddEvent
<1>4. ASSUME NEW k \in Tasks, Expire(k) PROVE IOTypes'
  BY <1>4 DEF Expire
<1>5. ASSUME NEW k \in Tasks, EventReady(k) PROVE IOTypes'
  BY <1>5 DEF EventReady
<1>6. CASE Stop
  BY <1>6 DEF Stop
<1>7. ASSUME NEW a \in Actors, Tickle(a) PROVE IOTypes'
  BY <1>7 DEF Tickle
<1>8. ASSUME NEW t \in Threads, Take(t) PROVE IOTypes'
  <2>1. PICK i \in DOMAIN m_tasks :
            /\ m_tasks' = SubSeq(m_tasks, 1, i - 1)
                              \o SubSeq(m_tasks, i + 1, Len(m_tasks))
            /\ task' = [task EXCEPT ![t] = m_tasks[i]]
            /\ place' = [place EXCEPT ![m_tasks[i]] = "run"]
    BY <1>8 DEF Take
  <2>2. /\ m_tasks' \in Seq(Tasks)
        /\ \A j \in DOMAIN m_tasks : j # i =>
                \E n \in DOMAIN m_tasks' : m_tasks'[n] = m_tasks[j]
    <3>1. m_tasks \in Seq(Tasks)
      OBVIOUS
    <3>2. Erased(Tasks, m_tasks, i, m_tasks')
      BY <2>1, <3>1, RemoveAt, Zenon
    <3>3. QED
      BY <3>2, Zenon DEF Erased
  <2>3. m_tasks[i] \in Tasks
    OBVIOUS
  <2>4. QED
    BY <1>8, <2>1, <2>2, <2>3 DEF Take
<1>9. ASSUME NEW t \in Threads, Finish(t) PROVE IOTypes'
  BY <1>9 DEF Finish
<1>10. ASSUME NEW t \in Threads, NoTask(t) PROVE IOTypes'
  BY <1>10 DEF NoTask
<1>11. ASSUME NEW t \in Threads, EnterIdle(t) PROVE IOTypes'
  BY <1>11 DEF EnterIdle
<1>12. ASSUME NEW t \in Threads, ReadTimers(t) PROVE IOTypes'
  BY <1>12 DEF ReadTimers
<1>13. ASSUME NEW t \in Threads, ReadEvents(t) PROVE IOTypes'
  BY <1>13 DEF ReadEvents
<1>14. ASSUME NEW t \in Threads, ReadQueue(t) PROVE IOTypes'
  BY <1>14 DEF ReadQueue
<1>15. ASSUME NEW t \in Threads, Wake(t) PROVE IOTypes'
  BY <1>15 DEF Wake
<1>16. ASSUME NEW t \in Threads, ListExpired(t) PROVE IOTypes'
  BY <1>16 DEF ListExpired
<1>17. ASSUME NEW t \in Threads, CbsDone(t) PROVE IOTypes'
  BY <1>17 DEF CbsDone
<1>18. ASSUME NEW t \in Threads, NEW k \in Tasks, ScheduleCb(t, k)
      PROVE  IOTypes'
  BY <1>18 DEF ScheduleCb, Enqueue
<1>19. ASSUME NEW t \in Threads, NEW k \in Tasks, HandleEvent(t, k)
      PROVE  IOTypes'
  <2>1. CASE place[k] = "ready"
    <3>1. /\ place' = [place EXCEPT ![k] = "queue"] /\ task' = task
          /\ pc' = [pc EXCEPT ![t] = "uncount"] /\ idleTerm' = idleTerm
          /\ m_tasks' = Append(m_tasks, k)
      BY <1>19, <2>1 DEF HandleEvent, Enqueue
    <3>2. QED
      BY <3>1
  <2>2. CASE place[k] # "ready"
    BY <1>19, <2>2 DEF HandleEvent
  <2>3. QED
    BY <2>1, <2>2
<1>20. ASSUME NEW t \in Threads, Uncount(t) PROVE IOTypes'
  BY <1>20 DEF Uncount
<1>21. ASSUME NEW t \in Threads, HandleDone(t) PROVE IOTypes'
  BY <1>21 DEF HandleDone
<1>22. ASSUME NEW t \in Threads, LeaveIdle(t) PROVE IOTypes'
  BY <1>22 DEF LeaveIdle
<1>23. CASE UNCHANGED vars
  BY <1>23 DEF vars
<1> HIDE DEF IndInv, IOTypes, Names, Places, At1, Goto, Move
<1>24. QED
  BY <1>1, <1>2, <1>3, <1>4, <1>5, <1>6, <1>7, <1>8, <1>9, <1>10, <1>11, <1>12,
     <1>13, <1>14, <1>15, <1>16, <1>17, <1>18, <1>19, <1>20, <1>21, <1>22, <1>23
     DEF Next, User, Step, Joined, Actors

\* Only stopping() ends an idle fiber.
LEMMA StopStep == IndInv /\ [Next]_vars => StopInv'
<1> SUFFICES ASSUME IndInv, [Next]_vars PROVE StopInv'
  OBVIOUS
<1> USE PoolAssumption DEF IndInv, IOTypes, StopInv, At1, Goto
<1>1. ASSUME NEW a \in Actors, NEW k \in Tasks, Schedule(a, k)
      PROVE  StopInv'
  BY <1>1 DEF Schedule, Enqueue
<1>2. ASSUME NEW a \in Actors, NEW k \in Tasks, NEW front \in BOOLEAN, AddTimer(a, k, front)
      PROVE  StopInv'
  BY <1>2 DEF AddTimer
<1>3. ASSUME NEW a \in Actors, NEW k \in Tasks, AddEvent(a, k)
      PROVE  StopInv'
  BY <1>3 DEF AddEvent
<1>4. ASSUME NEW k \in Tasks, Expire(k) PROVE StopInv'
  BY <1>4 DEF Expire
<1>5. ASSUME NEW k \in Tasks, EventReady(k) PROVE StopInv'
  BY <1>5 DEF EventReady
<1>6. CASE Stop
  BY <1>6 DEF Stop
<1>7. ASSUME NEW a \in Actors, Tickle(a) PROVE StopInv'
  BY <1>7 DEF Tickle
<1>8. ASSUME NEW t \in Threads, Take(t) PROVE StopInv'
  BY <1>8 DEF Take
<1>9. ASSUME NEW t \in Threads, Finish(t) PROVE StopInv'
  BY <1>9 DEF Finish
<1>10. ASSUME NEW t \in Threads, NoTask(t) PROVE StopInv'
  BY <1>10 DEF NoTask
<1>11. ASSUME NEW t \in Threads, EnterIdle(t) PROVE StopInv'
  BY <1>11 DEF EnterIdle
<1>12. ASSUME NEW t \in Threads, ReadTimers(t) PROVE StopInv'
  BY <1>12 DEF ReadTimers
<1>13. ASSUME NEW t \in Threads, ReadEvents(t) PROVE StopInv'
  BY <1>13 DEF ReadEvents
<1>14. ASSUME NEW t \in Threads, ReadQueue(t) PROVE StopInv'
  BY <1>14 DEF ReadQueue
<1>15. ASSUME NEW t \in Threads, Wake(t) PROVE StopInv'
  BY <1>15 DEF Wake
<1>16. ASSUME NEW t \in Threads, ListExpired(t) PROVE StopInv'
  BY <1>16 DEF ListExpired
<1>17. ASSUME NEW t \in Threads, CbsDone(t) PROVE StopInv'
  BY <1>17 DEF CbsDone
<1>18. ASSUME NEW t \in Threads, NEW k \in Tasks, ScheduleCb(t, k)
      PROVE  StopInv'
  BY <1>18 DEF ScheduleCb, Enqueue
<1>19. ASSUME NEW t \in Threads, NEW k \in Tasks, HandleEvent(t, k)
      PROVE  StopInv'
  BY <1>19 DEF HandleEvent, Enqueue
<1>20. ASSUME NEW t \in Threads, Uncount(t) PROVE StopInv'
  BY <1>20 DEF Uncount
<1>21. ASSUME NEW t \in Threads, HandleDone(t) PROVE StopInv'
  BY <1>21 DEF HandleDone
<1>22. ASSUME NEW t \in Threads, LeaveIdle(t) PROVE StopInv'
  BY <1>22 DEF LeaveIdle
<1>23. CASE UNCHANGED vars
  BY <1>23 DEF vars
<1> HIDE DEF IndInv, IOTypes, StopInv, At1, Goto
<1>24. QED
  BY <1>1, <1>2, <1>3, <1>4, <1>5, <1>6, <1>7, <1>8, <1>9, <1>10, <1>11, <1>12,
     <1>13, <1>14, <1>15, <1>16, <1>17, <1>18, <1>19, <1>20, <1>21, <1>22, <1>23
     DEF Next, User, Step, Joined, Actors

\* No step loses track of a task.
LEMMA TravelStep == IndInv /\ [Next]_vars => TravelInv'
<1> SUFFICES ASSUME IndInv, [Next]_vars PROVE TravelInv'
  OBVIOUS
<1> USE PoolAssumption DEF IndInv, IOTypes, TravelInv, Names, At1, Goto, Move
<1>1. ASSUME NEW a \in Actors, NEW k \in Tasks, Schedule(a, k)
      PROVE  TravelInv'
  <2>1. /\ \A i \in DOMAIN m_tasks :
              i \in DOMAIN m_tasks' /\ m_tasks'[i] = m_tasks[i]
        /\ \E i \in DOMAIN m_tasks' : m_tasks'[i] = k
    <3>1. m_tasks' = Append(m_tasks, k)
      BY <1>1 DEF Schedule, Enqueue
    <3>2. QED
      BY <3>1, AppendAt
  <2>2. place' = [place EXCEPT ![k] = "queue"] /\ pc' = pc /\ task' = task
    BY <1>1 DEF Schedule, Enqueue
  <2>3. QED
    BY <2>1, <2>2
<1>2. ASSUME NEW a \in Actors, NEW k \in Tasks, NEW front \in BOOLEAN, AddTimer(a, k, front)
      PROVE  TravelInv'
  BY <1>2 DEF AddTimer
<1>3. ASSUME NEW a \in Actors, NEW k \in Tasks, AddEvent(a, k)
      PROVE  TravelInv'
  BY <1>3 DEF AddEvent
<1>4. ASSUME NEW k \in Tasks, Expire(k) PROVE TravelInv'
  BY <1>4 DEF Expire
<1>5. ASSUME NEW k \in Tasks, EventReady(k) PROVE TravelInv'
  BY <1>5 DEF EventReady
<1>6. CASE Stop
  BY <1>6 DEF Stop
<1>7. ASSUME NEW a \in Actors, Tickle(a) PROVE TravelInv'
  BY <1>7 DEF Tickle
<1>8. ASSUME NEW t \in Threads, Take(t) PROVE TravelInv'
  <2>1. PICK i \in DOMAIN m_tasks :
            /\ m_tasks' = SubSeq(m_tasks, 1, i - 1)
                              \o SubSeq(m_tasks, i + 1, Len(m_tasks))
            /\ task' = [task EXCEPT ![t] = m_tasks[i]]
            /\ place' = [place EXCEPT ![m_tasks[i]] = "run"]
    BY <1>8 DEF Take
  <2>2. /\ m_tasks' \in Seq(Tasks)
        /\ \A j \in DOMAIN m_tasks : j # i =>
                \E n \in DOMAIN m_tasks' : m_tasks'[n] = m_tasks[j]
    <3>1. m_tasks \in Seq(Tasks)
      OBVIOUS
    <3>2. Erased(Tasks, m_tasks, i, m_tasks')
      BY <2>1, <3>1, RemoveAt, Zenon
    <3>3. QED
      BY <3>2, Zenon DEF Erased
  <2>3. m_tasks[i] \in Tasks
    OBVIOUS
  <2>4. ASSUME NEW k \in Tasks, place'[k] = "queue"
        PROVE  \E n \in DOMAIN m_tasks' : m_tasks'[n] = k
    <3>1. k # m_tasks[i] /\ place[k] = "queue"
      BY <2>1, <2>3, <2>4
    <3>2. PICK j \in DOMAIN m_tasks : m_tasks[j] = k
      BY <3>1
    <3>3. QED
      BY <2>2, <3>1, <3>2
  <2>5. /\ pc' = [pc EXCEPT ![t] = "run"] /\ pc[t] = "scan"
    BY <1>8 DEF Take
  <2>6. ASSUME NEW k \in Tasks, place'[k] = "run"
        PROVE  \E u \in Threads : pc'[u] = "run" /\ task'[u] = k
    <3>1. CASE k = m_tasks[i]
      BY <2>1, <2>5, <3>1
    <3>2. CASE k # m_tasks[i]
      BY <2>1, <2>3, <2>5, <2>6, <3>2
    <3>3. QED
      BY <3>1, <3>2
  <2>7. \A k \in Tasks : \A u \in Threads : place'[k] = u => pc'[u] = "cbs"
    BY <2>1, <2>3, <2>5
  <2>8. QED
    BY <2>4, <2>6, <2>7
<1>9. ASSUME NEW t \in Threads, Finish(t) PROVE TravelInv'
  BY <1>9 DEF Finish
<1>10. ASSUME NEW t \in Threads, NoTask(t) PROVE TravelInv'
  BY <1>10 DEF NoTask
<1>11. ASSUME NEW t \in Threads, EnterIdle(t) PROVE TravelInv'
  BY <1>11 DEF EnterIdle
<1>12. ASSUME NEW t \in Threads, ReadTimers(t) PROVE TravelInv'
  BY <1>12 DEF ReadTimers
<1>13. ASSUME NEW t \in Threads, ReadEvents(t) PROVE TravelInv'
  BY <1>13 DEF ReadEvents
<1>14. ASSUME NEW t \in Threads, ReadQueue(t) PROVE TravelInv'
  BY <1>14 DEF ReadQueue
<1>15. ASSUME NEW t \in Threads, Wake(t) PROVE TravelInv'
  BY <1>15 DEF Wake
<1>16. ASSUME NEW t \in Threads, ListExpired(t) PROVE TravelInv'
  BY <1>16 DEF ListExpired
<1>17. ASSUME NEW t \in Threads, CbsDone(t) PROVE TravelInv'
  <2>1. /\ place' = place /\ m_tasks' = m_tasks /\ task' = task
        /\ pc' = [pc EXCEPT ![t] = "handle"] /\ pc[t] = "cbs"
        /\ \A k \in Tasks : place[k] # t
    BY <1>17 DEF CbsDone, At
  <2>2. QED
    BY <2>1
<1>18. ASSUME NEW t \in Threads, NEW k \in Tasks, ScheduleCb(t, k)
      PROVE  TravelInv'
  <2>1. /\ \A i \in DOMAIN m_tasks :
              i \in DOMAIN m_tasks' /\ m_tasks'[i] = m_tasks[i]
        /\ \E i \in DOMAIN m_tasks' : m_tasks'[i] = k
    <3>1. m_tasks' = Append(m_tasks, k)
      BY <1>18 DEF ScheduleCb, Enqueue
    <3>2. QED
      BY <3>1, AppendAt
  <2>2. place' = [place EXCEPT ![k] = "queue"] /\ pc' = pc /\ task' = task
    BY <1>18 DEF ScheduleCb, Enqueue
  <2>3. QED
    BY <2>1, <2>2
<1>19. ASSUME NEW t \in Threads, NEW k \in Tasks, HandleEvent(t, k)
      PROVE  TravelInv'
  <2>1. CASE place[k] = "ready"
    <3>1. /\ \A i \in DOMAIN m_tasks :
                i \in DOMAIN m_tasks' /\ m_tasks'[i] = m_tasks[i]
          /\ \E i \in DOMAIN m_tasks' : m_tasks'[i] = k
      BY <1>19, <2>1, AppendAt DEF HandleEvent, Enqueue
    <3>2. /\ place' = [place EXCEPT ![k] = "queue"] /\ task' = task
          /\ pc' = [pc EXCEPT ![t] = "uncount"] /\ pc[t] = "handle"
      BY <1>19, <2>1 DEF HandleEvent, Enqueue
    <3>3. QED
      BY <3>1, <3>2
  <2>2. CASE place[k] # "ready"
    BY <1>19, <2>2 DEF HandleEvent
  <2>3. QED
    BY <2>1, <2>2
<1>20. ASSUME NEW t \in Threads, Uncount(t) PROVE TravelInv'
  BY <1>20 DEF Uncount
<1>21. ASSUME NEW t \in Threads, HandleDone(t) PROVE TravelInv'
  BY <1>21 DEF HandleDone
<1>22. ASSUME NEW t \in Threads, LeaveIdle(t) PROVE TravelInv'
  BY <1>22 DEF LeaveIdle
<1>23. CASE UNCHANGED vars
  BY <1>23 DEF vars
<1> HIDE DEF IndInv, IOTypes, TravelInv, Names, At1, Goto, Move
<1>24. QED
  BY <1>1, <1>2, <1>3, <1>4, <1>5, <1>6, <1>7, <1>8, <1>9, <1>10, <1>11, <1>12,
     <1>13, <1>14, <1>15, <1>16, <1>17, <1>18, <1>19, <1>20, <1>21, <1>22, <1>23
     DEF Next, User, Step, Joined, Actors

\* The last thread to leave has seen no task that it may run; when all have
\* left, nobody schedules any more.
LEMMA LeftStep == IndInv /\ [Next]_vars => NoTaskLeftBehind'
<1> SUFFICES ASSUME IndInv, [Next]_vars, Exited' PROVE NoTaskLeftBehind'
  BY DEF NoTaskLeftBehind
<1>0. IOTypes' /\ TravelInv'
  BY TypesStep, TravelStep
<1>1. \A k \in Tasks : place'[k] # "run" /\ place'[k] \notin Threads
  BY <1>0 DEF TravelInv, Exited
<1>2. ASSUME NEW k \in Tasks, PinnedTo[k] \in Threads PROVE Stranded(k)'
  BY <1>2 DEF Stranded, Exited
<1>3. SUFFICES ASSUME NEW k \in Tasks, place'[k] = "queue", PinnedTo[k] = AnyThread
               PROVE  FALSE
  <2>1. ASSUME NEW k \in Tasks, place'[k] \in {"queue", "run"} \cup Threads
        PROVE  Stranded(k)'
    BY <1>1, <1>2, <1>3, <2>1, PoolAssumption
  <2>2. QED
    BY <2>1 DEF NoTaskLeftBehind, At
<1>4. PICK i \in DOMAIN m_tasks' : m_tasks'[i] = k
  BY <1>0, <1>3 DEF TravelInv
<1>5. ASSUME Exited PROVE FALSE
  <2>1. m_stopping
    BY <1>5, PoolAssumption DEF IndInv, StopInv, Exited
  <2>2. place[k] # "queue"
    <3>1. ASSUME place[k] = "queue" PROVE FALSE
      <4>1. Stranded(k)
        BY <1>5, <3>1 DEF IndInv, NoTaskLeftBehind, At
      <4>2. QED
        BY <1>3, <4>1, PoolAssumption DEF Stranded
    <3>2. QED
      BY <3>1
  <2>3. \A a \in Actors : ~Busy(a)
    BY <1>5, <2>1 DEF Actors, Busy, Exited
  <2>4. \A t \in Threads : \A p \in Places \ {"exit"} : ~At1(t, p)
    BY <1>5 DEF At1, Exited
  <2>5. \A a \in Actors : ~User(a)
    BY <2>3 DEF User, Schedule, AddTimer, AddEvent
  <2>6. \A t \in Threads : Step(t) => Tickle(t)
    BY <2>4 DEF Step, Places, Take, Finish, NoTask, EnterIdle, ReadTimers,
       ReadEvents, ReadQueue, Wake, ListExpired, CbsDone, ScheduleCb,
       HandleEvent, Uncount, HandleDone, LeaveIdle
  <2>7. \/ UNCHANGED place
        \/ \E j \in Tasks : Expire(j) \/ EventReady(j)
    BY <2>5, <2>6 DEF Next, Stop, Tickle, Joined, vars
  <2>8. QED
    BY <1>3, <2>2, <2>7 DEF Expire, EventReady, Move, IndInv, IOTypes
<1>6. ASSUME ~Exited PROVE FALSE
  <2>1. PICK t \in Threads : pc[t] # "exit" /\ pc'[t] = "exit"
    BY <1>6 DEF Exited
  <2>2. NoTask(t)
    <3>1. pc' # pc
      BY <2>1
    <3>2. \E u \in Threads : Step(u)
      BY <3>1 DEF Next, User, Schedule, AddTimer, AddEvent, Expire, EventReady,
         Stop, Tickle, Joined, vars
    <3>3. PICK u \in Threads : Step(u)
      BY <3>2
    <3>4. \E p \in Places : pc' = [pc EXCEPT ![u] = p] /\ (p = "exit" => NoTask(u))
      BY <3>1, <3>3 DEF Step, Places, Goto, Tickle, Take, Finish, NoTask,
         EnterIdle, ReadTimers, ReadEvents, ReadQueue, Wake, ListExpired,
         CbsDone, ScheduleCb, HandleEvent, Uncount, HandleDone, LeaveIdle
    <3>5. QED
      BY <2>1, <3>4 DEF IndInv, IOTypes
  <2>3. \A j \in DOMAIN m_tasks : ~Mine(t, m_tasks[j])
    BY <2>2 DEF NoTask
  <2>4. m_tasks' = m_tasks
    BY <2>2 DEF NoTask
  <2>5. QED
    BY <1>3, <1>4, <2>3, <2>4 DEF Mine
<1>7. QED
  BY <1>5, <1>6

-----------------------------------------------------------------------------
\* When every thread has left run(), a task that was queued, is running or was
\* taken from the timers is left only if it was pinned to a thread that has
\* left: for every number of threads and tasks.
THEOREM StoppingCorrect == Spec => []NoTaskLeftBehind
<1>1. IndInv /\ [Next]_vars => IndInv'
  BY TypesStep, StopStep, TravelStep, LeftStep DEF IndInv
<1>2. IndInv => NoTaskLeftBehind
  BY DEF IndInv
<1>3. QED
  BY InitInv, <1>1, <1>2, PTL DEF Spec
=============================================================================
