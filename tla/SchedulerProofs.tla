-------------------------- MODULE SchedulerProofs --------------------------
(***************************************************************************)
(* Proofs about Scheduler, for every set of workers, with and without      *)
(* use_caller, and for every set of fibers and every bound on yields.      *)
(***************************************************************************)
EXTENDS Scheduler, DataLemmas, FiniteSetTheorems, TLAPS

-----------------------------------------------------------------------------
(* Lemmas about the operators the model is built from *)

\* The pool of threads is finite.
LEMMA ThreadsFinite == IsFiniteSet(Threads)
<1>1. IsFiniteSet({Caller}) /\ IsFiniteSet({})
  BY FS_Singleton, FS_EmptySet
<1>2. IsFiniteSet(Workers \cup {Caller}) /\ IsFiniteSet(Workers \cup {})
  BY <1>1, FS_Union, ThreadsAssumption
<1>3. QED
  BY <1>2, ThreadsAssumption DEF Threads

\* Erase removes one entry and keeps all the others, in order.
LEMMA EraseFacts ==
    ASSUME NEW S, NEW s \in Seq(S), NEW i \in DOMAIN s
    PROVE  /\ Erase(s, i) \in Seq(S)
           /\ \A j \in DOMAIN Erase(s, i) : \E k \in DOMAIN s \ {i} :
                  /\ Erase(s, i)[j] = s[k]
                  /\ k = IF j < i THEN j ELSE j + 1
           /\ \A k \in DOMAIN s \ {i} : \E j \in DOMAIN Erase(s, i) :
                  Erase(s, i)[j] = s[k]
<1> DEFINE n == Len(s)
           E == Erase(s, i)
<1>1. n \in Nat /\ DOMAIN s = 1..n /\ i \in 1..n /\ n - 1 \in Nat
  OBVIOUS
<1>2. \A j \in 1..n : s[j] \in S
  OBVIOUS
<1>3. E \in [1..(n - 1) -> S] /\ DOMAIN E = 1..(n - 1)
  BY <1>1, <1>2 DEF Erase
<1>4. E \in Seq(S)
  BY <1>1, <1>3
<1>5. ASSUME NEW j \in DOMAIN E
      PROVE  \E k \in DOMAIN s \ {i} :
                 E[j] = s[k] /\ k = IF j < i THEN j ELSE j + 1
  <2>1. j \in 1..(n - 1)
    BY <1>3
  <2>2. CASE j < i
    <3>1. j \in DOMAIN s \ {i} /\ E[j] = s[j]
      BY <1>1, <2>1, <2>2 DEF Erase
    <3>2. QED
      BY <2>2, <3>1
  <2>3. CASE ~(j < i)
    <3>1. j + 1 \in DOMAIN s \ {i} /\ E[j] = s[j + 1]
      BY <1>1, <2>1, <2>3 DEF Erase
    <3>2. QED
      BY <2>3, <3>1
  <2>4. QED
    BY <2>2, <2>3
<1>6. ASSUME NEW k \in DOMAIN s \ {i}
      PROVE  \E j \in DOMAIN E : E[j] = s[k]
  <2>1. CASE k < i
    <3>1. k \in DOMAIN E /\ E[k] = s[k]
      BY <1>1, <1>3, <2>1 DEF Erase
    <3>2. QED
      BY <3>1
  <2>2. CASE k > i
    <3>1. k - 1 \in DOMAIN E /\ ~(k - 1 < i) /\ (k - 1) + 1 = k
      BY <1>1, <1>3, <2>2
    <3>2. E[k - 1] = s[k]
      BY <1>1, <1>3, <3>1 DEF Erase
    <3>3. QED
      BY <3>1, <3>2
  <2>3. QED
    BY <1>1, <2>1, <2>2
<1>7. QED
  BY <1>4, <1>5, <1>6

-----------------------------------------------------------------------------
(* The inductive invariant *)

\* m_activeThreadCount and m_idleThreadCount while thread t changes its pc.
LEMMA CountersStep ==
    ASSUME TypeOK, CountersExact, NEW t \in Threads, NEW p \in PcValues,
           pc' = [pc EXCEPT ![t] = p],
           m_activeThreadCount' =
               IF pc[t] \notin BusyPc /\ p \in BusyPc
               THEN m_activeThreadCount + 1
               ELSE IF pc[t] \in BusyPc /\ p \notin BusyPc
                    THEN m_activeThreadCount - 1 ELSE m_activeThreadCount,
           m_idleThreadCount' =
               IF pc[t] # "idle" /\ p = "idle"
               THEN m_idleThreadCount + 1
               ELSE IF pc[t] = "idle" /\ p # "idle"
                    THEN m_idleThreadCount - 1 ELSE m_idleThreadCount
    PROVE  /\ CountersExact'
           /\ m_activeThreadCount' \in Nat
           /\ m_idleThreadCount' \in Nat
<1>0. /\ pc \in [Threads -> PcValues] /\ pc' \in [Threads -> PcValues]
      /\ pc'[t] = p /\ \A u \in Threads \ {t} : pc'[u] = pc[u]
      /\ m_activeThreadCount \in Nat /\ m_idleThreadCount \in Nat
  BY DEF TypeOK
<1>1. IsFiniteSet(Threads)
  BY ThreadsFinite
<1>2. BusyThreads \in SUBSET Threads /\ IdleThreads \in SUBSET Threads
  BY DEF BusyThreads, IdleThreads
<1>3. /\ m_activeThreadCount' = Cardinality(BusyThreads')
      /\ m_activeThreadCount' \in Nat
  <2>1. CASE pc[t] \notin BusyPc /\ p \in BusyPc
    <3>1. t \notin BusyThreads /\ BusyThreads' = BusyThreads \cup {t}
      BY <1>0, <2>1 DEF BusyThreads
    <3>2. Cardinality(BusyThreads') = Cardinality(BusyThreads) + 1
      BY <1>1, <1>2, <3>1, CardAdd
    <3>3. QED
      BY <1>0, <2>1, <3>2 DEF CountersExact
  <2>2. CASE pc[t] \in BusyPc /\ p \notin BusyPc
    <3>1. t \in BusyThreads /\ BusyThreads' = BusyThreads \ {t}
      BY <1>0, <2>2 DEF BusyThreads
    <3>2. /\ Cardinality(BusyThreads') = Cardinality(BusyThreads) - 1
          /\ Cardinality(BusyThreads) - 1 \in Nat
      BY <1>1, <1>2, <3>1, CardRemove
    <3>3. QED
      BY <2>2, <3>2 DEF CountersExact
  <2>3. CASE (pc[t] \in BusyPc) <=> (p \in BusyPc)
    <3>1. BusyThreads' = BusyThreads
      BY <1>0, <2>3 DEF BusyThreads
    <3>2. QED
      BY <1>0, <2>3, <3>1 DEF CountersExact
  <2>4. QED
    BY <2>1, <2>2, <2>3
<1>4. /\ m_idleThreadCount' = Cardinality(IdleThreads')
      /\ m_idleThreadCount' \in Nat
  <2>1. CASE pc[t] # "idle" /\ p = "idle"
    <3>1. t \notin IdleThreads /\ IdleThreads' = IdleThreads \cup {t}
      BY <1>0, <2>1 DEF IdleThreads
    <3>2. Cardinality(IdleThreads') = Cardinality(IdleThreads) + 1
      BY <1>1, <1>2, <3>1, CardAdd
    <3>3. QED
      BY <1>0, <2>1, <3>2 DEF CountersExact
  <2>2. CASE pc[t] = "idle" /\ p # "idle"
    <3>1. t \in IdleThreads /\ IdleThreads' = IdleThreads \ {t}
      BY <1>0, <2>2 DEF IdleThreads
    <3>2. /\ Cardinality(IdleThreads') = Cardinality(IdleThreads) - 1
          /\ Cardinality(IdleThreads) - 1 \in Nat
      BY <1>1, <1>2, <3>1, CardRemove
    <3>3. QED
      BY <2>2, <3>2 DEF CountersExact
  <2>3. CASE (pc[t] = "idle") <=> (p = "idle")
    <3>1. IdleThreads' = IdleThreads
      BY <1>0, <2>3 DEF IdleThreads
    <3>2. QED
      BY <1>0, <2>3, <3>1 DEF CountersExact
  <2>4. QED
    BY <2>1, <2>2, <2>3
<1>5. QED
  BY <1>3, <1>4 DEF CountersExact

\* A thread that holds a task keeps m_activeThreadCount above zero, so that
\* stopping() does not hold: no idle fiber has terminated.
LEMMA BusyKeepsGoing ==
    ASSUME IndInv, NEW t \in Threads, pc[t] \in BusyPc
    PROVE  \A u \in Threads : ~idleTerm[u]
<1>1. t \in BusyThreads /\ BusyThreads \in SUBSET Threads
  BY DEF BusyThreads
<1>2. Cardinality(BusyThreads) # 0
  BY <1>1, ThreadsFinite, CardRemove
<1>3. ~Stopping
  BY <1>2 DEF Stopping, IndInv, CountersExact
<1>4. QED
  BY <1>3 DEF IndInv, StopInv, StoppingIsFinal

\* Appending a task that is not queued yet.
LEMMA EnqueueFacts ==
    ASSUME TypeOK, NEW f \in Fibers, NEW th \in Targets, Enqueue(f, th)
    PROVE  /\ m_tasks' \in Seq(ScheduleTask)
           /\ DOMAIN m_tasks' = DOMAIN m_tasks \cup {Len(m_tasks) + 1}
           /\ Len(m_tasks) + 1 \notin DOMAIN m_tasks
           /\ \A i \in DOMAIN m_tasks : m_tasks'[i] = m_tasks[i]
           /\ m_tasks'[Len(m_tasks) + 1].fiber = f
<1> DEFINE e == [fiber |-> f, thread |-> th]
<1>1. e \in ScheduleTask /\ e.fiber = f
  BY DEF ScheduleTask, Targets
<1>2. m_tasks \in Seq(ScheduleTask) /\ m_tasks' = Append(m_tasks, e)
  BY DEF TypeOK, Enqueue
<1> HIDE DEF e
<1>3. QED
  BY <1>1, <1>2

\* Submitting a fiber nobody has scheduled yet, whoever does it.
LEMMA SubmitFacts ==
    ASSUME IndInv, NEW f \in Fibers, NEW th \in Targets, NEW kind \in Kinds,
           m_state[f] = "NEW", Enqueue(f, th),
           m_state' = [m_state EXCEPT ![f] = kind],
           UNCHANGED <<pc, task>>
    PROVE  QueueInv' /\ HeldInv' /\ LiveInv'
<1>1. /\ DOMAIN m_tasks' = DOMAIN m_tasks \cup {Len(m_tasks) + 1}
      /\ Len(m_tasks) + 1 \notin DOMAIN m_tasks
      /\ \A i \in DOMAIN m_tasks : m_tasks'[i] = m_tasks[i]
      /\ m_tasks'[Len(m_tasks) + 1].fiber = f
  BY EnqueueFacts DEF IndInv
<1>2. /\ m_state'[f] \in {"CB", "READY"}
      /\ \A g \in Fibers \ {f} : m_state'[g] = m_state[g]
  BY DEF IndInv, TypeOK, Kinds
<1>3. \A i \in DOMAIN m_tasks : m_tasks[i].fiber \in Fibers \ {f}
  <2>1. \A i \in DOMAIN m_tasks : m_tasks[i] \in ScheduleTask
    BY DEF IndInv, TypeOK
  <2>2. QED
    BY <2>1 DEF IndInv, QueueInv, ScheduleTask
<1>4. \A t \in Threads :
          pc[t] \in {"resume", "exec"} => task[t] \in Fibers \ {f}
  BY DEF IndInv, HeldInv, BusyPc
<1>5. QueueInv'
  BY <1>1, <1>2, <1>3 DEF IndInv, QueueInv
<1>6. HeldInv'
  BY <1>1, <1>2, <1>3, <1>4 DEF IndInv, HeldInv, Queued
<1>7. LiveInv'
  BY <1>1, <1>2, <1>3, <1>4 DEF IndInv, LiveInv, Queued
<1>8. QED
  BY <1>5, <1>6, <1>7

LEMMA InitInv == Init => IndInv
<1> SUFFICES ASSUME Init PROVE IndInv
  OBVIOUS
<1>1. TypeOK
  <2>1. m_tasks \in Seq(ScheduleTask) /\ yields \in 0..MaxYields
    BY BoundAssumption DEF Init
  <2>2. /\ m_state \in [Fibers -> FiberStates]
        /\ pc \in [Threads -> PcValues]
        /\ task \in [Threads -> Fibers \cup {NoFiber}]
        /\ idleTerm \in [Threads -> BOOLEAN]
    BY DEF Init, FiberStates, PcValues
  <2>3. QED
    BY <2>1, <2>2 DEF Init, TypeOK
<1>2. CountersExact
  <2>1. BusyThreads = {} /\ IdleThreads = {}
    BY DEF Init, BusyThreads, IdleThreads, BusyPc
  <2>2. QED
    BY <2>1, FS_EmptySet DEF Init, CountersExact
<1>3. QueueInv /\ HeldInv /\ LiveInv /\ StopInv
  BY DEF Init, QueueInv, HeldInv, LiveInv, StopInv, StoppingIsFinal, BusyPc,
         Threads
<1>4. QED
  BY <1>1, <1>2, <1>3 DEF IndInv

\* A new task from Caller: no thread has seen stopping() hold yet.
LEMMA MainScheduleInv ==
    ASSUME IndInv, NEW f \in Fibers, NEW th \in Targets, NEW kind \in Kinds,
           MainSchedule(f, th, kind)
    PROVE  IndInv'
<1>1. TypeOK /\ m_state[f] = "NEW" /\ Enqueue(f, th) /\ main = "user"
  BY DEF IndInv, MainSchedule
<1>2. TypeOK'
  <2>1. m_tasks' \in Seq(ScheduleTask)
    BY <1>1, EnqueueFacts
  <2>2. m_state' \in [Fibers -> FiberStates]
    BY <1>1 DEF MainSchedule, TypeOK, Kinds, FiberStates
  <2>3. QED
    BY <1>1, <2>1, <2>2 DEF MainSchedule, TypeOK
<1>3. CountersExact'
  BY DEF IndInv, CountersExact, BusyThreads, IdleThreads, MainSchedule
<1>4. QueueInv' /\ HeldInv' /\ LiveInv'
  BY <1>1, SubmitFacts DEF IndInv, MainSchedule
<1>5. StopInv'
  BY <1>1 DEF IndInv, MainSchedule, StopInv, StoppingIsFinal, Stopping
<1>6. QED
  BY <1>2, <1>3, <1>4, <1>5 DEF IndInv

\* A new task from a running fiber: that fiber keeps stopping() from holding.
LEMMA SpawnInv ==
    ASSUME IndInv, NEW t \in Threads, NEW f \in Fibers, NEW th \in Targets,
           NEW kind \in Kinds, Spawn(t, f, th, kind)
    PROVE  IndInv'
<1>1. TypeOK /\ m_state[f] = "NEW" /\ Enqueue(f, th) /\ pc[t] = "exec"
  BY DEF IndInv, Spawn
<1>2. TypeOK'
  <2>1. m_tasks' \in Seq(ScheduleTask)
    BY <1>1, EnqueueFacts
  <2>2. m_state' \in [Fibers -> FiberStates]
    BY <1>1 DEF Spawn, TypeOK, Kinds, FiberStates
  <2>3. QED
    BY <1>1, <2>1, <2>2 DEF Spawn, TypeOK
<1>3. CountersExact'
  BY DEF IndInv, CountersExact, BusyThreads, IdleThreads, Spawn
<1>4. QueueInv' /\ HeldInv' /\ LiveInv'
  BY <1>1, SubmitFacts DEF IndInv, Spawn
<1>5. \A u \in Threads : ~idleTerm[u]
  BY <1>1, BusyKeepsGoing DEF BusyPc
<1>6. StopInv'
  BY <1>1, <1>5 DEF IndInv, Spawn, StopInv, StoppingIsFinal
<1>7. QED
  BY <1>2, <1>3, <1>4, <1>6 DEF IndInv

\* Only the queue changes: the running fiber is in it from now on.
LEMMA ScheduleSelfInv ==
    ASSUME IndInv, NEW t \in Threads, NEW th \in Targets, ScheduleSelf(t, th)
    PROVE  IndInv'
<1> DEFINE f == task[t]
<1>1. /\ TypeOK /\ Enqueue(f, th) /\ pc[t] = "exec" /\ ~Queued(f)
      /\ f \in Fibers /\ m_state[f] = "RUNNING"
  BY DEF IndInv, HeldInv, ScheduleSelf, BusyPc
<1>2. /\ m_tasks' \in Seq(ScheduleTask)
      /\ DOMAIN m_tasks' = DOMAIN m_tasks \cup {Len(m_tasks) + 1}
      /\ Len(m_tasks) + 1 \notin DOMAIN m_tasks
      /\ \A i \in DOMAIN m_tasks : m_tasks'[i] = m_tasks[i]
      /\ m_tasks'[Len(m_tasks) + 1].fiber = f
  BY <1>1, EnqueueFacts
<1>3. TypeOK'
  <2>1. yields' \in 0..MaxYields
    BY <1>1, BoundAssumption DEF ScheduleSelf, TypeOK
  <2>2. QED
    BY <1>1, <1>2, <2>1 DEF ScheduleSelf, TypeOK
<1>4. CountersExact'
  BY DEF IndInv, CountersExact, BusyThreads, IdleThreads, ScheduleSelf
<1>5. QueueInv'
  BY <1>1, <1>2 DEF IndInv, QueueInv, ScheduleSelf, Queued
<1>6. HeldInv'
  BY <1>1, <1>2 DEF IndInv, HeldInv, ScheduleSelf, Queued
<1>7. LiveInv'
  BY <1>1, <1>2 DEF IndInv, LiveInv, ScheduleSelf, Queued
<1>8. \A u \in Threads : ~idleTerm[u]
  BY <1>1, BusyKeepsGoing DEF BusyPc
<1>9. StopInv'
  BY <1>8 DEF IndInv, ScheduleSelf, StopInv, StoppingIsFinal
<1>10. QED
  BY <1>3, <1>4, <1>5, <1>6, <1>7, <1>9 DEF IndInv

\* The task found leaves the queue and is in one thread's hands.
LEMMA TakeInv ==
    ASSUME IndInv, NEW t \in Threads, Take(t)
    PROVE  IndInv'
<1>1. PICK i \in DOMAIN m_tasks :
          /\ ~Skips(t, m_tasks[i])
          /\ m_tasks' = Erase(m_tasks, i)
          /\ task' = [task EXCEPT ![t] = m_tasks[i].fiber]
  BY DEF Take
<1> DEFINE f == m_tasks[i].fiber
<1>2. /\ m_tasks \in Seq(ScheduleTask) /\ f \in Fibers
      /\ m_state[f] \in {"CB", "READY"}
  <2>1. m_tasks \in Seq(ScheduleTask) /\ m_tasks[i] \in ScheduleTask
    BY DEF IndInv, TypeOK
  <2>2. QED
    BY <1>1, <2>1 DEF IndInv, QueueInv, Skips, ScheduleTask
<1>3. /\ m_tasks' \in Seq(ScheduleTask)
      /\ \A j \in DOMAIN m_tasks' : \E k \in DOMAIN m_tasks \ {i} :
             m_tasks'[j] = m_tasks[k] /\ k = IF j < i THEN j ELSE j + 1
      /\ \A k \in DOMAIN m_tasks \ {i} : \E j \in DOMAIN m_tasks' :
             m_tasks'[j] = m_tasks[k]
  BY <1>1, <1>2, EraseFacts
<1>4. /\ pc[t] = "scan" /\ pc' = [pc EXCEPT ![t] = "resume"]
      /\ pc \in [Threads -> PcValues]
      /\ task \in [Threads -> Fibers \cup {NoFiber}]
      /\ task'[t] = f /\ \A u \in Threads \ {t} : task'[u] = task[u]
      /\ pc'[t] = "resume" /\ \A u \in Threads \ {t} : pc'[u] = pc[u]
  BY <1>1 DEF Take, IndInv, TypeOK
<1>5. CountersExact' /\ m_activeThreadCount' \in Nat
  <2>1. /\ m_activeThreadCount' = m_activeThreadCount + 1
        /\ m_idleThreadCount' = m_idleThreadCount
    BY DEF Take
  <2>2. QED
    BY <1>4, <2>1, CountersStep DEF IndInv, BusyPc, PcValues
<1>6. TypeOK'
  BY <1>1, <1>2, <1>3, <1>4, <1>5 DEF Take, IndInv, TypeOK, PcValues
<1>7. QueueInv'
  <2>1. \A j \in DOMAIN m_tasks' : j \in Nat
    BY <1>3
  <2>2. i \in Nat
    BY <1>2
  <2>3. \A j, k \in DOMAIN m_tasks' :
            j # k => m_tasks'[j].fiber # m_tasks'[k].fiber
    <3> SUFFICES ASSUME NEW j \in DOMAIN m_tasks', NEW k \in DOMAIN m_tasks',
                        j # k
                 PROVE  m_tasks'[j].fiber # m_tasks'[k].fiber
      OBVIOUS
    <3>1. PICK a \in DOMAIN m_tasks \ {i} :
              m_tasks'[j] = m_tasks[a] /\ a = IF j < i THEN j ELSE j + 1
      BY <1>3
    <3>2. PICK b \in DOMAIN m_tasks \ {i} :
              m_tasks'[k] = m_tasks[b] /\ b = IF k < i THEN k ELSE k + 1
      BY <1>3
    <3>3. a # b
      BY <2>1, <2>2, <3>1, <3>2
    <3>4. QED
      BY <3>1, <3>2, <3>3 DEF IndInv, QueueInv
  <2>4. \A j \in DOMAIN m_tasks' :
            m_state'[m_tasks'[j].fiber] \in {"CB", "READY", "RUNNING"}
    BY <1>3 DEF IndInv, QueueInv, Take
  <2>5. QED
    BY <2>3, <2>4 DEF QueueInv
<1>8. \A g \in Fibers : Queued(g)' <=> Queued(g) /\ g # f
  BY <1>3 DEF Queued, IndInv, QueueInv
<1>9. Queued(f)
  BY DEF Queued
<1>10. HeldInv'
  <2>1. \A u \in Threads : pc'[u] \in BusyPc => task'[u] \in Fibers
    BY <1>2, <1>4 DEF IndInv, HeldInv
  <2>2. \A u \in Threads \ {t} :
            pc[u] \in {"resume", "exec"} => task[u] # f /\ task[u] \in Fibers
    BY <1>2, <1>9 DEF IndInv, HeldInv, BusyPc
  <2>3. \A u \in Threads : pc'[u] = "resume" =>
            /\ ~\E j \in DOMAIN m_tasks' : m_tasks'[j].fiber = task'[u]
            /\ m_state'[task'[u]] \in {"CB", "READY"}
    <3>1. \A u \in Threads : pc'[u] = "resume" =>
              /\ task'[u] \in Fibers
              /\ task'[u] = f \/ ~Queued(task'[u])
              /\ m_state[task'[u]] \in {"CB", "READY"}
      BY <1>2, <1>4, <2>2 DEF IndInv, HeldInv
    <3>2. QED
      BY <1>8, <3>1 DEF Queued, Take
  <2>4. \A u \in Threads : pc'[u] = "exec" => m_state'[task'[u]] = "RUNNING"
    BY <1>4 DEF IndInv, HeldInv, Take
  <2>5. \A u, v \in Threads :
            u # v /\ {pc'[u], pc'[v]} \subseteq {"resume", "exec"}
                => task'[u] # task'[v]
    BY <1>4, <2>2 DEF IndInv, HeldInv
  <2>6. QED
    BY <2>1, <2>3, <2>4, <2>5 DEF HeldInv, Queued
<1>11. LiveInv'
  <2> SUFFICES ASSUME NEW g \in Fibers,
                      m_state[g] \in {"CB", "READY", "RUNNING"}
               PROVE  Queued(g)' \/ \E u \in Threads :
                          pc'[u] \in {"resume", "exec"} /\ task'[u] = g
    BY DEF LiveInv, Take
  <2>1. CASE g = f
    BY <1>4, <2>1
  <2>2. CASE g # f
    <3>1. Queued(g) \/ \E u \in Threads :
              pc[u] \in {"resume", "exec"} /\ task[u] = g
      BY DEF IndInv, LiveInv
    <3>2. QED
      BY <1>4, <1>8, <2>2, <3>1
  <2>3. QED
    BY <2>1, <2>2
<1>12. StopInv'
  <2>1. m_tasks # <<>>
    BY <1>2
  <2>2. \A u \in Threads : ~idleTerm[u]
    BY <2>1 DEF IndInv, StopInv, StoppingIsFinal, Stopping
  <2>3. pc[t] # "exit"
    BY <1>4
  <2>4. QED
    BY <1>4, <2>2, <2>3 DEF IndInv, StopInv, StoppingIsFinal, Take, Threads
<1>13. QED
  BY <1>5, <1>6, <1>7, <1>10, <1>11, <1>12 DEF IndInv

\* The steps of a thread that holds no task: nothing but the idle fibers and
\* the counters of idle threads.
LEMMA IdleInv ==
    ASSUME IndInv, NEW t \in Threads, EnterIdle(t) \/ Exit(t) \/ LeaveIdle(t)
    PROVE  IndInv'
<1> DEFINE p == pc'[t]
<1>1. /\ pc \in [Threads -> PcValues] /\ idleTerm \in [Threads -> BOOLEAN]
      /\ m_idleThreadCount \in Nat /\ m_activeThreadCount \in Nat
      /\ Stopping \in BOOLEAN
  BY DEF IndInv, TypeOK, Stopping
<1>2. /\ UNCHANGED <<m_tasks, m_stopping, m_activeThreadCount, m_state, task,
                     started, main, yields>>
      /\ pc' = [pc EXCEPT ![t] = p]
      /\ p \in {"idle", "exit", "scan"}
      /\ pc[t] \in {"scan", "idle"}
      /\ idleTerm' \in [Threads -> BOOLEAN]
  BY <1>1 DEF EnterIdle, Exit, LeaveIdle
<1>3. CountersExact' /\ m_idleThreadCount' \in Nat
  <2>1. m_idleThreadCount' =
            IF pc[t] # "idle" /\ p = "idle" THEN m_idleThreadCount + 1
            ELSE IF pc[t] = "idle" /\ p # "idle" THEN m_idleThreadCount - 1
                 ELSE m_idleThreadCount
    BY <1>1 DEF EnterIdle, Exit, LeaveIdle
  <2> HIDE DEF p
  <2>2. QED
    BY <1>2, <2>1, CountersStep DEF IndInv, BusyPc, PcValues
<1> HIDE DEF p
<1>4. TypeOK'
  BY <1>1, <1>2, <1>3 DEF IndInv, TypeOK, PcValues
<1>5. QueueInv'
  BY <1>2 DEF IndInv, QueueInv
<1>6. \A u \in Threads : /\ pc'[u] \in BusyPc <=> pc[u] \in BusyPc
                         /\ pc'[u] = "resume" <=> pc[u] = "resume"
                         /\ pc'[u] = "exec" <=> pc[u] = "exec"
                         /\ u # t => pc'[u] = pc[u]
  BY <1>1, <1>2 DEF BusyPc
<1>7. HeldInv'
  BY <1>2, <1>6 DEF IndInv, HeldInv, Queued, BusyPc
<1>8. LiveInv'
  BY <1>2, <1>6 DEF IndInv, LiveInv, Queued
<1>9. StopInv'
  <2>1. \A u \in Threads : idleTerm'[u] => Stopping'
    BY <1>1, <1>2 DEF IndInv, StopInv, StoppingIsFinal, Stopping, EnterIdle,
                      Exit, LeaveIdle
  <2>2. \A u \in Threads : pc'[u] = "exit" => idleTerm'[u]
    BY <1>1, <1>2 DEF IndInv, StopInv, EnterIdle, Exit, LeaveIdle
  <2>3. \A u \in Threads : pc[u] = "exit" => pc'[u] = "exit"
    BY <1>1, <1>2
  <2>4. QED
    BY <1>2, <2>1, <2>2, <2>3 DEF IndInv, StopInv, StoppingIsFinal, Threads
<1>10. QED
  BY <1>3, <1>4, <1>5, <1>7, <1>8, <1>9 DEF IndInv

\* The steps of a thread that holds a task, up to its return to run(): the
\* fiber's state changes, and no other thread has that fiber in its hands.
LEMMA FiberInv ==
    ASSUME IndInv, NEW t \in Threads,
           Resume(t) \/ Yield(t) \/ Finish(t) \/ SwitchOut(t)
    PROVE  IndInv'
<1> DEFINE f == task[t]
           p == pc'[t]
<1>1. /\ pc \in [Threads -> PcValues] /\ m_state \in [Fibers -> FiberStates]
      /\ pc[t] \in {"resume", "exec", "switch"} /\ f \in Fibers
      /\ UNCHANGED <<m_tasks, m_stopping, m_activeThreadCount,
                     m_idleThreadCount, task, idleTerm, started, main, yields>>
      /\ p \in {"exec", "switch", "return"}
      /\ pc' = [pc EXCEPT ![t] = p]
  BY DEF IndInv, TypeOK, HeldInv, BusyPc, Resume, Yield, Finish, SwitchOut
<1>2. \A u \in Threads \ {t} : pc'[u] = pc[u]
  BY <1>1
<1>3. CountersExact'
  <2> HIDE DEF p
  <2>1. QED
    BY <1>1, CountersStep DEF IndInv, BusyPc, PcValues
<1>4. /\ m_state' \in [Fibers -> FiberStates]
      /\ \A g \in Fibers \ {f} : m_state'[g] = m_state[g]
  BY <1>1 DEF Resume, Yield, Finish, SwitchOut, FiberStates
<1> HIDE DEF p
<1>5. TypeOK'
  BY <1>1, <1>4 DEF IndInv, TypeOK, PcValues
<1> USE DEF p
<1>6. ASSUME NEW u \in Threads \ {t}, pc[t] \in {"resume", "exec"},
             pc[u] \in {"resume", "exec"}
      PROVE  task[u] # f
  BY <1>6 DEF IndInv, HeldInv
<1>7. QueueInv'
  <2>1. \A i \in DOMAIN m_tasks : m_tasks[i].fiber \in Fibers
    <3>1. \A i \in DOMAIN m_tasks : m_tasks[i] \in ScheduleTask
      BY DEF IndInv, TypeOK
    <3>2. QED
      BY <3>1 DEF ScheduleTask
  <2>2. Queued(f) => m_state'[f] \in {"CB", "READY", "RUNNING"}
    BY <1>1 DEF IndInv, QueueInv, Queued, Resume, Yield, Finish, SwitchOut
  <2>3. QED
    BY <1>1, <1>4, <2>1, <2>2 DEF IndInv, QueueInv, Queued
<1>8. HeldInv'
  <2>1. \A u \in Threads : pc'[u] \in BusyPc => task'[u] \in Fibers
    BY <1>1, <1>2 DEF IndInv, HeldInv
  <2>2. \A u \in Threads : pc'[u] = "resume" =>
            /\ ~\E i \in DOMAIN m_tasks' : m_tasks'[i].fiber = task'[u]
            /\ m_state'[task'[u]] \in {"CB", "READY"}
    <3> SUFFICES ASSUME NEW u \in Threads, pc'[u] = "resume"
                 PROVE  /\ ~\E i \in DOMAIN m_tasks' :
                               m_tasks'[i].fiber = task'[u]
                        /\ m_state'[task'[u]] \in {"CB", "READY"}
      OBVIOUS
    <3>1. u # t /\ pc[u] = "resume" /\ task[u] \in Fibers
      BY <1>1, <1>2 DEF IndInv, HeldInv, BusyPc
    <3>2. ~Queued(task[u]) /\ m_state[task[u]] \in {"CB", "READY"}
      BY <3>1 DEF IndInv, HeldInv
    <3>3. CASE pc[t] \in {"resume", "exec"}
      BY <1>1, <1>4, <1>6, <3>1, <3>2, <3>3 DEF Queued
    <3>4. CASE pc[t] = "switch"
      BY <1>1, <3>2, <3>4 DEF Queued, Resume, Yield, Finish, SwitchOut
    <3>5. QED
      BY <1>1, <3>3, <3>4
  <2>3. \A u \in Threads : pc'[u] = "exec" => m_state'[task'[u]] = "RUNNING"
    <3> SUFFICES ASSUME NEW u \in Threads, pc'[u] = "exec"
                 PROVE  m_state'[task'[u]] = "RUNNING"
      OBVIOUS
    <3>1. CASE u = t
      BY <1>1, <3>1 DEF Resume, Yield, Finish, SwitchOut
    <3>2. CASE u # t
      <4>1. pc[u] = "exec" /\ task[u] \in Fibers /\ m_state[task[u]] = "RUNNING"
        BY <1>2, <3>2 DEF IndInv, HeldInv, BusyPc
      <4>2. CASE pc[t] \in {"resume", "exec"}
        BY <1>1, <1>4, <1>6, <3>2, <4>1, <4>2
      <4>3. CASE pc[t] = "switch"
        BY <1>1, <4>1, <4>3 DEF Resume, Yield, Finish, SwitchOut
      <4>4. QED
        BY <1>1, <4>2, <4>3
    <3>3. QED
      BY <3>1, <3>2
  <2>4. \A u, v \in Threads :
            u # v /\ {pc'[u], pc'[v]} \subseteq {"resume", "exec"}
                => task'[u] # task'[v]
    <3>1. \A u \in Threads : pc'[u] \in {"resume", "exec"}
                                 => pc[u] \in {"resume", "exec"}
      BY <1>1, <1>2 DEF Resume, Yield, Finish, SwitchOut
    <3>2. QED
      BY <1>1, <3>1 DEF IndInv, HeldInv
  <2>5. QED
    BY <2>1, <2>2, <2>3, <2>4 DEF HeldInv, Queued
<1>9. LiveInv'
  <2> SUFFICES ASSUME NEW g \in Fibers,
                      m_state'[g] \in {"CB", "READY", "RUNNING"}
               PROVE  Queued(g)' \/ \E u \in Threads :
                          pc'[u] \in {"resume", "exec"} /\ task'[u] = g
    BY DEF LiveInv
  <2>1. Queued(g)' <=> Queued(g)
    BY <1>1 DEF Queued
  <2>2. CASE g # f
    <3>1. Queued(g) \/ \E u \in Threads \ {t} :
              pc[u] \in {"resume", "exec"} /\ task[u] = g
      BY <1>4, <2>2 DEF IndInv, LiveInv
    <3>2. QED
      BY <1>1, <1>2, <2>1, <3>1
  <2>3. CASE g = f
    <3>1. CASE Resume(t)
      BY <1>1, <2>3, <3>1 DEF Resume
    <3>2. CASE Yield(t)
      BY <2>1, <2>3, <3>2 DEF Yield
    <3>3. CASE Finish(t)
      BY <1>1, <2>3, <3>3 DEF Finish
    <3>4. CASE SwitchOut(t)
      <4>1. Queued(g) \/ \E u \in Threads :
                pc[u] \in {"resume", "exec"} /\ task[u] = g
        BY <3>4 DEF IndInv, LiveInv, SwitchOut
      <4>2. QED
        BY <1>1, <1>2, <2>1, <3>4, <4>1 DEF SwitchOut
    <3>5. QED
      BY <3>1, <3>2, <3>3, <3>4
  <2>4. QED
    BY <2>2, <2>3
<1>10. StopInv'
  <2>1. \A u \in Threads : ~idleTerm[u]
    BY <1>1, BusyKeepsGoing DEF BusyPc
  <2>2. \A u \in Threads : pc[u] # "exit" /\ pc'[u] # "exit"
    BY <1>1, <1>2, <2>1 DEF IndInv, StopInv
  <2>3. QED
    BY <1>1, <2>1, <2>2 DEF IndInv, StopInv, StoppingIsFinal, Threads
<1>11. QED
  BY <1>3, <1>5, <1>7, <1>8, <1>9, <1>10 DEF IndInv

\* resume() returned: the thread lets go of a fiber it does not run any more.
LEMMA ReturnInv ==
    ASSUME IndInv, NEW t \in Threads, Return(t)
    PROVE  IndInv'
<1>1. /\ pc \in [Threads -> PcValues]
      /\ task \in [Threads -> Fibers \cup {NoFiber}]
      /\ pc[t] = "return" /\ pc' = [pc EXCEPT ![t] = "scan"]
      /\ m_activeThreadCount' = m_activeThreadCount - 1
      /\ UNCHANGED <<m_tasks, m_stopping, m_idleThreadCount, m_state, idleTerm,
                     started, main, yields>>
  BY DEF IndInv, TypeOK, Return
<1>2. /\ pc'[t] = "scan"
      /\ \A u \in Threads \ {t} : pc'[u] = pc[u] /\ task'[u] = task[u]
  BY <1>1 DEF Return
<1>3. CountersExact' /\ m_activeThreadCount' \in Nat
  BY <1>1, CountersStep DEF IndInv, BusyPc, PcValues
<1>4. TypeOK'
  <2>1. task' \in [Threads -> Fibers \cup {NoFiber}]
    BY <1>1 DEF Return
  <2>2. QED
    BY <1>1, <1>3, <2>1 DEF IndInv, TypeOK, PcValues
<1>5. QueueInv'
  BY <1>1 DEF IndInv, QueueInv
<1>6. HeldInv'
  BY <1>1, <1>2 DEF IndInv, HeldInv, Queued, BusyPc
<1>7. LiveInv'
  BY <1>1, <1>2 DEF IndInv, LiveInv, Queued
<1>8. StopInv'
  <2>1. \A u \in Threads : ~idleTerm[u]
    BY <1>1, BusyKeepsGoing DEF BusyPc
  <2>2. \A u \in Threads : pc[u] # "exit" /\ pc'[u] # "exit"
    BY <1>1, <1>2, <2>1 DEF IndInv, StopInv
  <2>3. QED
    BY <1>1, <2>1, <2>2 DEF IndInv, StopInv, StoppingIsFinal, Threads
<1>9. QED
  BY <1>3, <1>4, <1>5, <1>6, <1>7, <1>8 DEF IndInv

\* start() and the steps of stop(): no task moves.
LEMMA MainInv ==
    ASSUME IndInv,
           Start \/ Stop \/ StopEnterRoot \/ StopLeaveRoot \/ StopJoined
    PROVE  IndInv'
<1>1. /\ UNCHANGED <<m_tasks, m_activeThreadCount, m_idleThreadCount, m_state,
                     task, idleTerm, yields>>
      /\ pc \in [Threads -> PcValues]
  BY DEF IndInv, TypeOK, Start, Stop, StopEnterRoot, StopLeaveRoot, StopJoined
<1>2. Workers \subseteq Threads /\ (UseCaller => Caller \in Threads)
      /\ Caller \notin Workers
  BY ThreadsAssumption DEF Threads
<1>3. \A u \in Threads : pc'[u] = pc[u] \/ (pc[u] = "off" /\ pc'[u] = "scan")
  BY <1>1, <1>2 DEF IndInv, StopInv, Start, Stop, StopEnterRoot, StopLeaveRoot,
                    StopJoined
<1>4. pc' \in [Threads -> PcValues]
  BY <1>1 DEF Start, Stop, StopEnterRoot, StopLeaveRoot, StopJoined, PcValues
<1>5. TypeOK'
  BY <1>1, <1>4 DEF IndInv, TypeOK, Start, Stop, StopEnterRoot, StopLeaveRoot,
                    StopJoined
<1>6. CountersExact'
  <2>1. BusyThreads' = BusyThreads /\ IdleThreads' = IdleThreads
    BY <1>3 DEF BusyThreads, IdleThreads, BusyPc
  <2>2. QED
    BY <1>1, <2>1 DEF IndInv, CountersExact
<1>7. QueueInv'
  BY <1>1 DEF IndInv, QueueInv
<1>8. HeldInv'
  BY <1>1, <1>3 DEF IndInv, HeldInv, Queued, BusyPc
<1>9. LiveInv'
  BY <1>1, <1>3 DEF IndInv, LiveInv, Queued
<1>10. StopInv'
  <2>1. StoppingIsFinal'
    BY <1>1 DEF IndInv, StopInv, StoppingIsFinal, Stopping, Start, Stop,
                StopEnterRoot, StopLeaveRoot, StopJoined
  <2>2. CASE Start
    BY <1>1, <1>2, <1>3, <2>1, <2>2 DEF IndInv, StopInv, Start
  <2>3. CASE Stop
    BY <1>1, <1>2, <1>3, <2>1, <2>3 DEF IndInv, StopInv, Stop
  <2>4. CASE StopEnterRoot
    BY <1>1, <1>2, <1>3, <2>1, <2>4 DEF IndInv, StopInv, StopEnterRoot
  <2>5. CASE StopLeaveRoot
    BY <1>1, <1>2, <1>3, <2>1, <2>5 DEF IndInv, StopInv, StopLeaveRoot
  <2>6. CASE StopJoined
    BY <1>1, <1>2, <1>3, <2>1, <2>6 DEF IndInv, StopInv, StopJoined
  <2>7. QED
    BY <2>2, <2>3, <2>4, <2>5, <2>6
<1>11. QED
  BY <1>5, <1>6, <1>7, <1>8, <1>9, <1>10 DEF IndInv

LEMMA NextInv == IndInv /\ [Next]_vars => IndInv'
<1> SUFFICES ASSUME IndInv, [Next]_vars PROVE IndInv'
  OBVIOUS
<1>1. CASE UNCHANGED vars
  BY <1>1 DEF vars, IndInv, TypeOK, CountersExact, QueueInv, HeldInv, LiveInv,
              StopInv, StoppingIsFinal, Stopping, Queued, BusyThreads,
              IdleThreads
<1>2. CASE UserStep
  BY <1>2, MainScheduleInv, MainInv DEF UserStep
<1>3. CASE StopStep
  BY <1>3, MainInv DEF StopStep
<1>4. ASSUME NEW t \in Threads, ThreadStep(t) PROVE IndInv'
  <2>1. CASE FiberStep(t)
    BY <2>1, SpawnInv, ScheduleSelfInv, FiberInv DEF FiberStep
  <2>2. CASE Take(t)
    BY <2>2, TakeInv
  <2>3. CASE EnterIdle(t) \/ Exit(t) \/ LeaveIdle(t)
    BY <2>3, IdleInv
  <2>4. CASE Resume(t) \/ SwitchOut(t)
    BY <2>4, FiberInv
  <2>5. CASE Return(t)
    BY <2>5, ReturnInv
  <2>6. QED
    BY <1>4, <2>1, <2>2, <2>3, <2>4, <2>5 DEF ThreadStep
<1>5. QED
  BY <1>1, <1>2, <1>3, <1>4 DEF Next, StopAgain, Undefined

\* The invariant holds in every reachable state.
THEOREM Invariant == Spec => []IndInv
  BY InitInv, NextInv, PTL DEF Spec

-----------------------------------------------------------------------------
(* What it implies *)

\* Type correctness: in particular the two unsigned counters never wrap.
THEOREM TypeCorrect == Spec => []TypeOK
<1>1. IndInv => TypeOK
  BY DEF IndInv
<1>2. QED
  BY <1>1, Invariant, PTL

\* The counters equal the number of busy and of idle threads.
THEOREM CountersCorrect == Spec => []CountersExact
<1>1. IndInv => CountersExact
  BY DEF IndInv
<1>2. QED
  BY <1>1, Invariant, PTL

\* The assertion of Fiber::resume never fails in run().
THEOREM ResumeCorrect == Spec => []ResumeSafe
<1>1. IndInv => ResumeSafe
  BY DEF IndInv, HeldInv, ResumeSafe
<1>2. QED
  BY <1>1, Invariant, PTL

\* A task that is neither new nor finished is queued, or with one thread.
THEOREM TasksCorrect == Spec => []NoTaskLost
<1>1. IndInv => NoTaskLost
  BY DEF IndInv, HeldInv, LiveInv, NoTaskLost
<1>2. QED
  BY <1>1, Invariant, PTL

\* stopping() is stable once a thread has acted on it.
THEOREM StoppingCorrect == Spec => []StoppingIsFinal
<1>1. IndInv => StoppingIsFinal
  BY DEF IndInv, StopInv
<1>2. QED
  BY <1>1, Invariant, PTL

\* When every thread has left run(), no task is left anywhere.
LEMMA AllExited ==
    ASSUME IndInv, \A t \in Threads : pc[t] = "exit"
    PROVE  m_tasks = <<>> /\ \A f \in Fibers : m_state[f] \in {"NEW", "TERM"}
<1>1. PICK t \in Threads : TRUE
  BY ThreadsAssumption
<1>2. m_tasks = <<>>
  BY <1>1 DEF IndInv, StopInv, StoppingIsFinal, Stopping
<1>3. \A f \in Fibers : ~Queued(f)
  BY <1>2 DEF Queued
<1>4. \A f \in Fibers : m_state[f] \notin {"CB", "READY", "RUNNING"}
  BY <1>3 DEF IndInv, LiveInv
<1>5. QED
  BY <1>2, <1>4 DEF IndInv, TypeOK, FiberStates

\* stop() returns only when every task has been executed to its end.
THEOREM StopCorrect == Spec => []StopWaitsForAll
<1>1. IndInv => StopWaitsForAll
  <2> SUFFICES ASSUME IndInv, main = "done" PROVE StopWaitsForAll
    BY DEF StopWaitsForAll
  <2>1. \A t \in Threads : pc[t] = "exit"
    BY ThreadsAssumption DEF IndInv, StopInv, Threads
  <2>2. QED
    BY <2>1, AllExited DEF StopWaitsForAll
<1>2. QED
  BY <1>1, Invariant, PTL

-----------------------------------------------------------------------------
(* The scheduler implements TaskPool *)

\* How a step that changes one fiber's state looks to the abstract pool.
LEMMA JobMoves ==
    ASSUME TypeOK, NEW f \in Fibers, NEW s \in FiberStates,
           m_state' = [m_state EXCEPT ![f] = s]
    PROVE  JobOf' = [JobOf EXCEPT ![f] = JobState(s)]
  BY DEF TypeOK, JobOf

LEMMA PoolInit == Init => Pool!Init
  BY DEF Init, Pool!Init, JobOf, JobState, PoolOf

LEMMA PoolStep == IndInv /\ [Next]_vars => [Pool!Next]_(Pool!vars)
<1> SUFFICES ASSUME IndInv, [Next]_vars PROVE [Pool!Next]_(Pool!vars)
  OBVIOUS
<1>0. TypeOK /\ m_state \in [Fibers -> FiberStates]
  BY DEF IndInv, TypeOK
<1>1. CASE UNCHANGED vars
  BY <1>1 DEF vars, Pool!vars, JobOf, PoolOf
<1>2. ASSUME UNCHANGED <<m_state, m_stopping, main>>
      PROVE  UNCHANGED Pool!vars
  BY <1>2 DEF Pool!vars, JobOf, PoolOf
<1>3. CASE UserStep
  <2>1. ASSUME NEW f \in Fibers, NEW th \in Targets, NEW kind \in Kinds,
               MainSchedule(f, th, kind)
        PROVE  Pool!Next
    <3>1. JobOf[f] = "new" /\ JobOf' = [JobOf EXCEPT ![f] = "pending"]
      BY <1>0, <2>1, JobMoves
      DEF MainSchedule, Kinds, FiberStates, JobOf, JobState
    <3>2. PoolOf = "open" /\ PoolOf' = PoolOf
      BY <2>1 DEF MainSchedule, PoolOf, IndInv, StopInv
    <3>3. QED
      BY <3>1, <3>2 DEF Pool!Next, Pool!Submit, Pool!Move
  <2>2. CASE Start
    BY <1>2, <2>2 DEF Start
  <2>3. CASE Stop
    <3>1. PoolOf = "open" /\ PoolOf' = "closing" /\ JobOf' = JobOf
      BY <2>3 DEF Stop, PoolOf, JobOf, IndInv, StopInv
    <3>2. QED
      BY <3>1 DEF Pool!Next, Pool!Close
  <2>4. QED
    BY <1>3, <2>1, <2>2, <2>3 DEF UserStep
<1>4. CASE StopStep
  <2>1. CASE StopEnterRoot \/ StopLeaveRoot
    <3>1. JobOf' = JobOf /\ PoolOf' = PoolOf
      BY <2>1 DEF StopEnterRoot, StopLeaveRoot, JobOf, PoolOf
    <3>2. QED
      BY <3>1 DEF Pool!vars
  <2>2. CASE StopJoined
    <3>1. \A t \in Threads : pc[t] = "exit"
      BY <2>2, ThreadsAssumption DEF StopJoined, IndInv, StopInv, Threads
    <3>2. \A f \in Fibers : JobOf[f] \in {"new", "done"}
      BY <3>1, AllExited DEF JobOf, JobState
    <3>3. PoolOf = "closing" /\ PoolOf' = "closed" /\ JobOf' = JobOf
      BY <2>2 DEF StopJoined, PoolOf, JobOf, IndInv, StopInv
    <3>4. QED
      BY <3>2, <3>3 DEF Pool!Next, Pool!Closed
  <2>3. QED
    BY <1>4, <2>1, <2>2 DEF StopStep
<1>5. ASSUME NEW t \in Threads, ThreadStep(t)
      PROVE  [Pool!Next]_(Pool!vars)
  <2> DEFINE g == task[t]
  <2>1. pc[t] \in {"resume", "exec"} =>
            PoolOf # "closed" /\ g \in Fibers
    <3>1. main = "done" => pc[t] = "exit"
      BY DEF IndInv, StopInv, Threads
    <3>2. QED
      BY <3>1 DEF PoolOf, IndInv, HeldInv, BusyPc
  <2>2. CASE Take(t) \/ EnterIdle(t) \/ Exit(t) \/ LeaveIdle(t) \/
             SwitchOut(t) \/ Return(t) \/
             \E th \in Targets : ScheduleSelf(t, th)
    BY <1>2, <2>2 DEF Take, EnterIdle, Exit, LeaveIdle, SwitchOut, Return,
                      ScheduleSelf
  <2>3. CASE Resume(t)
    <3>1. JobOf[g] = "pending" /\ JobOf' = [JobOf EXCEPT ![g] = "running"]
      BY <1>0, <2>1, <2>3, JobMoves
      DEF Resume, FiberStates, JobOf, JobState
    <3>2. PoolOf' = PoolOf
      BY <2>3 DEF Resume, PoolOf
    <3>3. QED
      BY <2>1, <2>3, <3>1, <3>2 DEF Resume, Pool!Next, Pool!Run, Pool!Move
  <2>4. CASE Yield(t)
    <3>1. JobOf[g] = "running" /\ JobOf' = [JobOf EXCEPT ![g] = "pending"]
      BY <1>0, <2>1, <2>4, JobMoves
      DEF Yield, FiberStates, JobOf, JobState, IndInv, HeldInv
    <3>2. PoolOf' = PoolOf
      BY <2>4 DEF Yield, PoolOf
    <3>3. QED
      BY <2>1, <2>4, <3>1, <3>2 DEF Yield, Pool!Next, Pool!Requeue, Pool!Move
  <2>5. CASE Finish(t)
    <3>1. JobOf[g] = "running" /\ JobOf' = [JobOf EXCEPT ![g] = "done"]
      BY <1>0, <2>1, <2>5, JobMoves
      DEF Finish, FiberStates, JobOf, JobState, IndInv, HeldInv
    <3>2. PoolOf' = PoolOf
      BY <2>5 DEF Finish, PoolOf
    <3>3. QED
      BY <2>1, <2>5, <3>1, <3>2 DEF Finish, Pool!Next, Pool!Finish, Pool!Move
  <2>6. ASSUME NEW f \in Fibers, NEW th \in Targets, NEW kind \in Kinds,
               Spawn(t, f, th, kind)
        PROVE  Pool!Next
    <3>1. JobOf[f] = "new" /\ JobOf' = [JobOf EXCEPT ![f] = "pending"]
      BY <1>0, <2>6, JobMoves DEF Spawn, Kinds, FiberStates, JobOf, JobState
    <3>2. JobOf[g] = "running" /\ g \in Fibers /\ PoolOf' = PoolOf
      BY <2>1, <2>6 DEF Spawn, PoolOf, JobOf, JobState, IndInv, HeldInv
    <3>3. QED
      BY <3>1, <3>2 DEF Pool!Next, Pool!Submit, Pool!Move
  <2>7. QED
    BY <1>5, <2>2, <2>3, <2>4, <2>5, <2>6 DEF ThreadStep, FiberStep
<1>6. QED
  BY <1>1, <1>3, <1>4, <1>5 DEF Next, StopAgain, Undefined

\* Every behaviour of the scheduler is one of the abstract pool.
THEOREM SchedulerImplementsPool == Spec => PoolSpec
<1>1. Spec => Pool!Spec
  BY PoolInit, PoolStep, Invariant, PTL DEF Spec, Pool!Spec
<1>2. QED
  BY <1>1 DEF PoolSpec
=============================================================================
