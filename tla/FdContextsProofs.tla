-------------------------- MODULE FdContextsProofs --------------------------
(***************************************************************************)
(* The events of IOManager for every number of threads and fds: IndInv is  *)
(* an invariant of FdContexts.  The lemmas below prove it conjunct by      *)
(* conjunct, each by one step per action.                                  *)
(***************************************************************************)
EXTENDS FdContexts, DataLemmas

\* The model's start satisfies the invariant.
LEMMA InitIndInv == Init => IndInv
<1> SUFFICES ASSUME Init PROVE IndInv
  OBVIOUS
<1>1. TypeOK
  <2>1. current \in [Fds -> 0..MaxGen]
    BY FdAssumption DEF Init
  <2>2. pc \in [Threads -> {"idle", "add", "grow", "del", "cancel",
                           "cancelAll", "trigger", "count"}]
    BY DEF Init
  <2>3. QED
    BY <2>1, <2>2, FdAssumption
       DEF Init, TypeOK, Events, Gens, Ctxs, NoCall
<1>2. VectorInv /\ CallInv /\ EdgeInv /\ CtxInv /\ LockInv
  BY <1>1, FdAssumption
     DEF Init, TypeOK, VectorInv, CallInv, EdgeInv, CtxInv, LockInv, Events, Gens
<1>9. EpollInv
  BY FdAssumption DEF Init, EpollInv, Leaving, Ctxs, Gens
<1>3. Registered = {} /\ Counting = {}
  BY DEF Init, Registered, Counting, Threads, Ctxs, Gens
<1>4. PendingExact
  BY <1>3, FS_EmptySet DEF Init, PendingExact
<1>5. ASSUME NEW w \in Fds \X Events
      PROVE  Adding(w) = {} /\ RegisteredAt(w) = {} /\ woken[w] = 0
  BY DEF Init, Adding, RegisteredAt, Threads, Ctxs, Gens
<1>6. WaiterInOnePlace
  <2>1. Cardinality({}) = 0
    BY FS_EmptySet
  <2>2. ASSUME NEW w \in Fds \X Events
        PROVE  Cardinality(Adding(w)) + Cardinality(RegisteredAt(w)) + woken[w]
                   = (IF w \in waiting THEN 1 ELSE 0)
    <3>1. w \notin waiting
      BY DEF Init
    <3>2. Cardinality(Adding(w)) = 0 /\ Cardinality(RegisteredAt(w)) = 0
      BY <1>5, <2>1
    <3>3. QED
      BY <1>5, <3>1, <3>2
  <2>3. QED
    BY <2>2 DEF WaiterInOnePlace
<1>7. AddNeverAborts
  BY DEF Init, AddNeverAborts
<1>8. QED
  BY <1>1, <1>2, <1>9, <1>4, <1>6, <1>7 DEF IndInv

-----------------------------------------------------------------------------
(* Finite sets to count in *)

\* Threads, contexts and registrations are finitely many.
LEMMA FiniteDomains ==
    /\ IsFiniteSet(Threads) /\ IsFiniteSet(Users)
    /\ IsFiniteSet(Ctxs) /\ IsFiniteSet(Ctxs \X Events)
<1>1. IsFiniteSet(Threads)
  BY ThreadAssumption, FS_Union DEF Threads
<1>2. IsFiniteSet(Gens)
  BY FdAssumption, FS_Interval DEF Gens
<1>3. IsFiniteSet(Ctxs)
  BY <1>2, FdAssumption, FS_Product DEF Ctxs
<1>4. IsFiniteSet(Events)
  <2>1. Events = {"READ"} \cup {"WRITE"}
    BY DEF Events
  <2>2. QED
    BY <2>1, FS_Singleton, FS_Union
<1>5. IsFiniteSet(Ctxs \X Events)
  BY <1>3, <1>4, FS_Product
<1>6. QED
  BY <1>1, <1>3, <1>5, ThreadAssumption

\* The cardinalities that the invariant talks about are natural numbers.
LEMMA CardTypes ==
    /\ Cardinality(Registered) \in Nat /\ Cardinality(Counting) \in Nat
    /\ \A w : Cardinality(Adding(w)) \in Nat /\ Cardinality(RegisteredAt(w)) \in Nat
<1>1. Registered \subseteq Ctxs \X Events /\ Counting \subseteq Threads
  BY DEF Registered, Counting
<1>2. \A w : Adding(w) \subseteq Users /\ RegisteredAt(w) \subseteq Ctxs
  BY DEF Adding, RegisteredAt
<1>3. QED
  BY <1>1, <1>2, FiniteDomains, FS_Subset, FS_CardinalityType

-----------------------------------------------------------------------------
(* Facts about a state that satisfies the invariant *)

\* A context whose mutex is free and that has events is the one epoll knows.
LEMMA FreeContext ==
    ASSUME IndInv, NEW c \in Ctxs, mutex[c] = NoThread
    PROVE  /\ epctx[c[1]] = c[2] => interest[c[1]] = events[c]
           /\ events[c] # {} => epctx[c[1]] = c[2]
  BY DEF IndInv, EpollInv, Leaving

\* A pending addEvent finds the event's slot empty: the waiter is in addEvent,
\* so it is not registered anywhere.
LEMMA SlotEmpty ==
    ASSUME IndInv, NEW u \in Users, pc[u] = "add"
    PROVE  /\ CtxOf(u) \in Ctxs /\ call[u].fd \in Fds /\ call[u].event \in Events
           /\ call[u].event \notin events[CtxOf(u)] \cup ctx[CtxOf(u)]
<1> DEFINE w == <<call[u].fd, call[u].event>>
<1>1. CtxOf(u) \in Ctxs /\ call[u].fd \in Fds /\ call[u].event \in Events
  BY DEF IndInv, CallInv, Threads
<1>2. w \in Fds \X Events
  BY <1>1
<1>3. u \in Adding(w)
  BY DEF Adding
<1>4. Cardinality(Adding(w)) # 0
  BY <1>3, FiniteDomains, CardRemove DEF Adding
<1>5. SUFFICES ASSUME call[u].event \in events[CtxOf(u)] PROVE FALSE
  BY <1>1 DEF IndInv, CtxInv
<1>6. CtxOf(u) \in RegisteredAt(w)
  BY <1>1, <1>5 DEF RegisteredAt, CtxOf
<1>7. Cardinality(RegisteredAt(w)) # 0
  BY <1>6, FiniteDomains, CardRemove DEF RegisteredAt
<1>8. woken[w] \in Nat
  BY <1>2 DEF IndInv, TypeOK
<1>9. Cardinality(Adding(w)) + Cardinality(RegisteredAt(w)) + woken[w]
          = (IF w \in waiting THEN 1 ELSE 0)
  BY <1>2 DEF IndInv, WaiterInOnePlace
<1> HIDE DEF w
<1>10. QED
  BY <1>4, <1>7, <1>8, <1>9, CardTypes

\* m_pendingEventCount is positive when a registered event or a trigger not
\* yet subtracted is left.
LEMMA PendingPositive ==
    ASSUME IndInv
    PROVE  /\ \A c \in Ctxs : \A e \in events[c] : m_pendingEventCount - 1 \in Nat
           /\ \A t \in Threads : pc[t] = "count" => m_pendingEventCount - 1 \in Nat
<1>1. ASSUME NEW c \in Ctxs, NEW e \in events[c]
      PROVE  m_pendingEventCount - 1 \in Nat
  <2>1. <<c, e>> \in Registered
    BY <1>1 DEF Registered, IndInv, TypeOK
  <2>2. Cardinality(Registered) - 1 \in Nat
    BY <2>1, FiniteDomains, CardRemove DEF Registered
  <2>3. QED
    BY <2>2, CardTypes DEF IndInv, PendingExact
<1>2. ASSUME NEW t \in Threads, pc[t] = "count"
      PROVE  m_pendingEventCount - 1 \in Nat
  <2>1. t \in Counting
    BY <1>2 DEF Counting
  <2>2. Cardinality(Counting) - 1 \in Nat
    BY <2>1, FiniteDomains, CardRemove DEF Counting
  <2>3. QED
    BY <2>2, CardTypes DEF IndInv, PendingExact
<1>3. QED
  BY <1>1, <1>2

-----------------------------------------------------------------------------
(* Types, the vector and what calls know *)

\* epoll_ctl keeps the types of the epoll set and of its ready list.
LEMMA EpollTypes ==
    ASSUME TypeOK, EdgeInv, NEW fd \in Fds, NEW g \in Gens,
           NEW S \in SUBSET Events, EpollLeave(fd, g, S) \/ EpollSet(fd, g, S)
    PROVE  /\ interest' \in [Fds -> SUBSET Events]
           /\ epctx' \in [Fds -> 0..MaxGen]
           /\ ready' \in [Fds -> SUBSET (Events \cup {"HUP"})]
           /\ edge' \in [Fds -> BOOLEAN]
           /\ EdgeInv'
<1>1. CASE EpollDel(fd)
  BY <1>1, FdAssumption DEF TypeOK, EdgeInv, EpollDel, Gens
<1>2. CASE EpollSet(fd, g, S)
  <2>1. interest' \in [Fds -> SUBSET Events] /\ epctx' \in [Fds -> 0..MaxGen]
    BY <1>2, FdAssumption DEF TypeOK, EpollSet, Gens
  <2>2. ready' \in [Fds -> SUBSET (Events \cup {"HUP"})]
    BY <1>2 DEF TypeOK, EpollSet
  <2>3. edge' \in [Fds -> BOOLEAN]
    BY <1>2 DEF TypeOK, EpollSet
  <2>4. EdgeInv'
    BY <1>2, FdAssumption DEF TypeOK, EdgeInv, EpollSet, Gens
  <2>5. QED
    BY <2>1, <2>2, <2>3, <2>4
<1>3. QED
  BY <1>1, <1>2 DEF EpollLeave

\* Every action keeps the types, the vector and what calls know.
LEMMA TypesStep ==
    ASSUME IndInv, Next
    PROVE  TypeOK' /\ VectorInv' /\ CallInv' /\ EdgeInv'
<1> USE DEF ctx_vars, vec_vars, ep_vars
<1>0. TypeOK /\ VectorInv /\ CallInv /\ EdgeInv
  BY DEF IndInv
<1>1. ASSUME NEW fd \in Fds, NEW e \in Events \cup {"HUP"}, BecomeReady(fd, e)
      PROVE  TypeOK' /\ VectorInv' /\ CallInv' /\ EdgeInv'
  BY <1>0, <1>1, FdAssumption
     DEF BecomeReady, TypeOK, VectorInv, CallInv, EdgeInv, CtxOf, Gens
<1>2. ASSUME NEW fd \in Fds, NEW e \in Events, BecomeUnready(fd, e)
      PROVE  TypeOK' /\ VectorInv' /\ CallInv' /\ EdgeInv'
  BY <1>0, <1>2 DEF BecomeUnready, TypeOK, VectorInv, CallInv, EdgeInv, CtxOf
<1>3. ASSUME NEW u \in Users, NEW fd \in Fds, NEW e \in Events, CallAdd(u, fd, e)
      PROVE  TypeOK' /\ VectorInv' /\ CallInv' /\ EdgeInv'
  BY <1>0, <1>3, FdAssumption
     DEF CallAdd, TypeOK, VectorInv, CallInv, EdgeInv, CtxOf, Ctxs, Threads,
         Gens
<1>4. ASSUME NEW u \in Users, NEW fd \in Fds, NEW e \in Events \cup {"NONE"},
             NEW op \in {"del", "cancel", "cancelAll"}, CallRemove(u, op, fd, e),
             e = "NONE" => op = "cancelAll"
      PROVE  TypeOK' /\ VectorInv' /\ CallInv' /\ EdgeInv'
  BY <1>0, <1>4, FdAssumption
     DEF CallRemove, TypeOK, VectorInv, CallInv, EdgeInv, CtxOf, Ctxs,
         Threads, Gens
<1>5. ASSUME NEW u \in Users, Grow(u)
      PROVE  TypeOK' /\ VectorInv' /\ CallInv' /\ EdgeInv'
  <2>1. call[u].fd \in Fds /\ u \in Threads
    BY <1>0, <1>5 DEF Grow, CallInv, Threads
  <2> DEFINE n == (call[u].fd * 3) \div 2
  <2>2. n \in Nat /\ n > call[u].fd
    <3>1. \A k \in Nat : k # 0 /\ k # 1 =>
              (k * 3) \div 2 \in Nat /\ (k * 3) \div 2 > k
      OBVIOUS
    <3>2. call[u].fd \in Nat \ {0, 1}
      BY <2>1, FdAssumption
    <3>3. QED
      BY <3>1, <3>2
  <2> HIDE DEF n
  <2>3. \A fd \in Fds : Resized(n, fd) \in 0..MaxGen /\ Resized(n, fd) \in Nat
    BY <1>0, <1>5, <2>2, FdAssumption DEF Grow, n, Resized, TypeOK
  <2>4. \A fd \in Fds : n > fd => Resized(n, fd) \in Gens
    BY <1>0, <2>2, <2>3, FdAssumption DEF Resized, TypeOK, Gens
  <2>5. /\ size' = n /\ current' = [fd \in Fds |-> Resized(n, fd)]
        /\ allocated' = [fd \in Fds |->
                            IF Resized(n, fd) > allocated[fd]
                            THEN Resized(n, fd) ELSE allocated[fd]]
        /\ call' = [call EXCEPT ![u].gen = Resized(n, call[u].fd)]
        /\ pc' = [pc EXCEPT ![u] = "add"]
        /\ UNCHANGED <<ctx_vars, mutex, m_pendingEventCount, ep_vars, waiting,
                       woken, todo, batch, adds, aborted>>
    BY <1>5 DEF Grow, n
  <2>6. TypeOK'
    <3>1. current' \in [Fds -> 0..MaxGen] /\ allocated' \in [Fds -> 0..MaxGen]
      BY <1>0, <2>3, <2>5 DEF TypeOK
    <3>2. call' \in [Threads -> [op : {"none", "add", "del", "cancel",
                                      "cancelAll", "poll"},
                                fd : Fds \cup {0}, event : Events \cup {"NONE"},
                                gen : 0..MaxGen]]
      <4> DEFINE C == [op : {"none", "add", "del", "cancel", "cancelAll", "poll"},
                       fd : Fds \cup {0}, event : Events \cup {"NONE"},
                       gen : 0..MaxGen]
      <4>1. call \in [Threads -> C]
        BY <1>0 DEF TypeOK
      <4>2. [call[u] EXCEPT !.gen = Resized(n, call[u].fd)] \in C
        BY <2>1, <2>3, <4>1
      <4>3. call' = [call EXCEPT ![u] =
                        [call[u] EXCEPT !.gen = Resized(n, call[u].fd)]]
        BY <2>5
      <4> HIDE DEF C
      <4>4. call' \in [Threads -> C]
        BY <4>1, <4>2, <4>3
      <4>5. QED
        BY <4>4 DEF C
    <3>3. pc' \in [Threads -> {"idle", "add", "grow", "del", "cancel",
                              "cancelAll", "trigger", "count"}]
      BY <1>0, <2>5 DEF TypeOK
    <3>4. QED
      BY <1>0, <2>2, <2>5, <3>1, <3>2, <3>3 DEF TypeOK
  <2>7. VectorInv'
    BY <1>0, <2>2, <2>3, <2>4, <2>5, FdAssumption DEF TypeOK, VectorInv
  <2>8. CallInv'
    <3>1. call'[u].fd = call[u].fd /\ call'[u].event = call[u].event
          /\ call'[u].gen = Resized(n, call[u].fd)
      BY <1>0, <2>1, <2>5 DEF TypeOK
    <3>2. CtxOf(u)' \in Ctxs
      <4>1. Resized(n, call[u].fd) \in Gens
        BY <2>1, <2>2, <2>4
      <4>2. QED
        BY <2>1, <3>1, <4>1 DEF CtxOf, Ctxs
    <3>5. call[u].event \in Events
      BY <1>0, <1>5, <2>1 DEF Grow, CallInv
    <3>3. \A t \in Threads \ {u} : call'[t] = call[t] /\ pc'[t] = pc[t]
      BY <1>0, <2>1, <2>5 DEF TypeOK
    <3>4. QED
      BY <1>0, <2>1, <3>1, <3>2, <3>3, <3>5 DEF CallInv, CtxOf
  <2>9. EdgeInv'
    BY <1>0, <2>5 DEF EdgeInv
  <2>10. QED
    BY <2>6, <2>7, <2>8, <2>9
<1>6. ASSUME NEW u \in Users, AddEvent(u)
      PROVE  TypeOK' /\ VectorInv' /\ CallInv' /\ EdgeInv'
  <2> DEFINE c == CtxOf(u)
  <2>1. /\ c \in Ctxs /\ call[u].fd \in Fds /\ call[u].gen \in Gens
        /\ call[u].event \in Events /\ u \in Threads
        /\ call[u].event \notin events[c] \cup ctx[c]
    BY <1>6, SlotEmpty DEF AddEvent, CtxOf, Ctxs, Threads
  <2>2. Done(u) /\ UNCHANGED <<vec_vars, mutex, woken, todo, batch, adds, aborted>>
    BY <1>6, <2>1 DEF AddEvent
  <2>3. CallInv' /\ VectorInv'
    BY <1>0, <2>1, <2>2 DEF Done, CallInv, VectorInv, CtxOf, TypeOK
  <2>4. call' \in [Threads -> [op : {"none", "add", "del", "cancel", "cancelAll",
                                    "poll"},
                              fd : Fds \cup {0}, event : Events \cup {"NONE"},
                              gen : 0..MaxGen]]
    BY <1>0, <2>1, <2>2, FdAssumption DEF Done, NoCall, TypeOK
  <2>5. pc' \in [Threads -> {"idle", "add", "grow", "del", "cancel", "cancelAll",
                            "trigger", "count"}]
    BY <1>0, <2>1, <2>2 DEF Done, TypeOK
  <2>6. CASE UNCHANGED <<ctx_vars, m_pendingEventCount, ep_vars>>
             /\ waiting' = waiting \ {<<call[u].fd, call[u].event>>}
    BY <1>0, <2>2, <2>3, <2>4, <2>5, <2>6 DEF TypeOK, EdgeInv
  <2>7. CASE /\ EpollSet(call[u].fd, call[u].gen, events[c] \cup {call[u].event})
             /\ m_pendingEventCount' = m_pendingEventCount + 1
             /\ events' = [events EXCEPT ![c] = @ \cup {call[u].event}]
             /\ ctx' = [ctx EXCEPT ![c] = @ \cup {call[u].event}]
             /\ UNCHANGED waiting
    <3>1. events[c] \cup {call[u].event} \in SUBSET Events
      BY <1>0, <2>1 DEF TypeOK
    <3>2. /\ interest' \in [Fds -> SUBSET Events]
          /\ epctx' \in [Fds -> 0..MaxGen]
          /\ ready' \in [Fds -> SUBSET (Events \cup {"HUP"})]
          /\ edge' \in [Fds -> BOOLEAN]
          /\ EdgeInv'
      BY <1>0, <2>1, <2>7, <3>1, EpollTypes
    <3>3. events' \in [Ctxs -> SUBSET Events] /\ ctx' \in [Ctxs -> SUBSET Events]
      BY <1>0, <2>1, <2>7 DEF TypeOK
    <3>4. QED
      BY <1>0, <2>2, <2>3, <2>4, <2>5, <2>7, <3>2, <3>3 DEF TypeOK
  <2>8. QED
    BY <1>6, <2>1, <2>6, <2>7 DEF AddEvent
<1>7. ASSUME NEW u \in Users, NotFound(u)
      PROVE  TypeOK' /\ VectorInv' /\ CallInv' /\ EdgeInv'
  BY <1>0, <1>7, FdAssumption
     DEF NotFound, Done, NoCall, TypeOK, VectorInv, CallInv, EdgeInv, CtxOf,
         Threads
<1>8. ASSUME NEW u \in Users, DelEvent(u)
      PROVE  TypeOK' /\ VectorInv' /\ CallInv' /\ EdgeInv'
  <2> DEFINE c == CtxOf(u)
  <2>1. /\ c \in Ctxs /\ call[u].fd \in Fds /\ call[u].gen \in Gens
        /\ call[u].event \in events[c] /\ u \in Threads
        /\ events[c] \ {call[u].event} \in SUBSET Events
    BY <1>0, <1>8 DEF DelEvent, CallInv, CtxOf, Ctxs, Threads, TypeOK
  <2>2. CallInv' /\ VectorInv'
    BY <1>0, <1>8, <2>1 DEF DelEvent, Done, CallInv, VectorInv, CtxOf, TypeOK
  <2>3. call' \in [Threads -> [op : {"none", "add", "del", "cancel", "cancelAll",
                                    "poll"},
                              fd : Fds \cup {0}, event : Events \cup {"NONE"},
                              gen : 0..MaxGen]]
    BY <1>0, <1>8, <2>1, FdAssumption DEF DelEvent, Done, NoCall, TypeOK
  <2>4. pc' \in [Threads -> {"idle", "add", "grow", "del", "cancel", "cancelAll",
                            "trigger", "count"}]
    BY <1>0, <1>8, <2>1 DEF DelEvent, Done, TypeOK
  <2>5. /\ interest' \in [Fds -> SUBSET Events]
        /\ epctx' \in [Fds -> 0..MaxGen]
        /\ ready' \in [Fds -> SUBSET (Events \cup {"HUP"})]
        /\ edge' \in [Fds -> BOOLEAN]
        /\ EdgeInv'
    BY <1>0, <1>8, <2>1, EpollTypes DEF DelEvent
  <2>6. events' \in [Ctxs -> SUBSET Events] /\ ctx' \in [Ctxs -> SUBSET Events]
    BY <1>0, <1>8, <2>1 DEF DelEvent, TypeOK
  <2>7. m_pendingEventCount' \in Nat
    BY <1>8, <2>1, PendingPositive DEF DelEvent
  <2>8. QED
    BY <1>0, <1>8, <2>2, <2>3, <2>4, <2>5, <2>6, <2>7 DEF DelEvent, TypeOK
<1>9. ASSUME NEW u \in Users, CancelEvents(u)
      PROVE  TypeOK' /\ VectorInv' /\ CallInv' /\ EdgeInv'
  <2> DEFINE c == CtxOf(u)
             gone == IF pc[u] = "cancelAll" THEN events[c] ELSE {call[u].event}
  <2>1. /\ c \in Ctxs /\ call[u].fd \in Fds /\ call[u].gen \in Gens
        /\ u \in Threads /\ gone \subseteq Events
        /\ events[c] \ gone \in SUBSET Events
    BY <1>0, <1>9 DEF CancelEvents, CallInv, CtxOf, Ctxs, Threads, TypeOK
  <2>2. /\ EpollLeave(call[u].fd, call[u].gen, events[c] \ gone)
        /\ mutex' = [mutex EXCEPT ![c] = u]
        /\ todo' = [todo EXCEPT ![u] = gone]
        /\ pc' = [pc EXCEPT ![u] = "trigger"]
        /\ UNCHANGED <<vec_vars, ctx_vars, m_pendingEventCount, waiting, woken,
                       call, batch, adds, aborted>>
    BY <1>9 DEF CancelEvents
  <2> HIDE DEF gone
  <2>3. CallInv' /\ VectorInv'
    BY <1>0, <2>1, <2>2 DEF CallInv, VectorInv, CtxOf, TypeOK
  <2>4. /\ interest' \in [Fds -> SUBSET Events]
        /\ epctx' \in [Fds -> 0..MaxGen]
        /\ ready' \in [Fds -> SUBSET (Events \cup {"HUP"})]
        /\ edge' \in [Fds -> BOOLEAN]
        /\ EdgeInv'
    BY <1>0, <2>1, <2>2, EpollTypes
  <2>5. TypeOK'
    BY <1>0, <2>1, <2>2, <2>4 DEF TypeOK
  <2>6. QED
    BY <2>3, <2>4, <2>5
<1>10. ASSUME NEW t \in Threads, NEW e \in Events, Trigger(t, e)
      PROVE  TypeOK' /\ VectorInv' /\ CallInv' /\ EdgeInv'
  <2> DEFINE c == CtxOf(t)
  <2>1. CASE Abort("triggerEvent")
    BY <1>0, <2>1 DEF Abort, TypeOK, VectorInv, CallInv, EdgeInv, CtxOf
  <2>2. CASE /\ events' = [events EXCEPT ![c] = @ \ {e}]
             /\ ctx' = [ctx EXCEPT ![c] = @ \ {e}]
             /\ woken' = [woken EXCEPT ![<<c[1], e>>] = @ + 1]
             /\ todo' = [todo EXCEPT ![t] = @ \ {e}]
             /\ pc' = [pc EXCEPT ![t] = "count"]
             /\ UNCHANGED <<vec_vars, mutex, m_pendingEventCount, ep_vars,
                            waiting, call, batch, adds, aborted>>
    <3>1. c \in Ctxs /\ c[1] \in Fds
      BY <1>0, <1>10 DEF Trigger, CallInv, Ctxs
    <3>2. CallInv' /\ VectorInv' /\ EdgeInv'
      BY <1>0, <2>2, <3>1 DEF CallInv, VectorInv, EdgeInv, CtxOf, TypeOK
    <3>3. events' \in [Ctxs -> SUBSET Events] /\ ctx' \in [Ctxs -> SUBSET Events]
      BY <1>0, <2>2, <3>1 DEF TypeOK
    <3>4. woken' \in [Fds \X Events -> Nat]
      BY <1>0, <2>2, <3>1 DEF TypeOK
    <3> HIDE DEF c
    <3>5. QED
      BY <1>0, <2>2, <3>2, <3>3, <3>4 DEF TypeOK
  <2>3. QED
    BY <1>10, <2>1, <2>2 DEF Trigger
<1>11. ASSUME NEW t \in Threads, Count(t)
      PROVE  TypeOK' /\ VectorInv' /\ CallInv' /\ EdgeInv'
  <2>1. CtxOf(t) \in Ctxs
    BY <1>0, <1>11 DEF Count, CallInv
  <2>2. m_pendingEventCount' \in Nat
    BY <1>11, PendingPositive DEF Count
  <2>3. call' \in [Threads -> [op : {"none", "add", "del", "cancel", "cancelAll",
                                    "poll"},
                              fd : Fds \cup {0}, event : Events \cup {"NONE"},
                              gen : 0..MaxGen]]
    BY <1>0, <1>11, FdAssumption DEF Count, Done, NoCall, TypeOK
  <2>4. pc' \in [Threads -> {"idle", "add", "grow", "del", "cancel", "cancelAll",
                            "trigger", "count"}]
    <3>1. pc' = [pc EXCEPT ![t] = "trigger"] \/ pc' = [pc EXCEPT ![t] = "idle"]
      BY <1>11 DEF Count, Done
    <3>2. QED
      BY <1>0, <3>1 DEF TypeOK
  <2>5. mutex' \in [Ctxs -> Threads \cup {NoThread}]
    BY <1>0, <1>11, <2>1 DEF Count, TypeOK
  <2>6. CallInv' /\ VectorInv' /\ EdgeInv'
    BY ZenonT(60), <1>0, <1>11, <2>1
       DEF Count, Done, CallInv, VectorInv, EdgeInv, CtxOf, TypeOK
  <2>7. QED
    BY <1>0, <1>11, <2>2, <2>3, <2>4, <2>5, <2>6 DEF Count, TypeOK
<1>12. ASSUME NEW p \in Pollers, EpollWait(p)
      PROVE  TypeOK' /\ VectorInv' /\ CallInv' /\ EdgeInv'
  BY <1>0, <1>12
     DEF EpollWait, Report, TypeOK, VectorInv, CallInv, EdgeInv, CtxOf,
         Threads
<1>13. ASSUME NEW p \in Pollers, NEW x \in batch[p], Handle(p, x)
      PROVE  TypeOK' /\ VectorInv' /\ CallInv' /\ EdgeInv'
  <2> DEFINE c == <<x.fd, x.gen>>
             real == Real(x)
  <2>1. /\ p \in Threads /\ x.fd \in Fds /\ x.gen \in Gens /\ c \in Ctxs
        /\ batch' = [batch EXCEPT ![p] = @ \ {x}]
        /\ UNCHANGED <<vec_vars, ctx_vars, m_pendingEventCount, waiting, woken,
                       adds, aborted>>
    BY <1>0, <1>13 DEF Handle, TypeOK, Threads, Ctxs
  <2>2. real \subseteq Events
    BY <1>0, <2>1 DEF Real, TypeOK
  <2>3. batch' \in [Threads -> SUBSET [fd : Fds, gen : Gens,
                                      mask : SUBSET (Events \cup {"HUP"})]]
    BY <1>0, <2>1 DEF TypeOK
  <2>4. CASE UNCHANGED <<mutex, ep_vars, pc, call, todo>>
    BY <1>0, <2>1, <2>3, <2>4 DEF TypeOK, VectorInv, CallInv, EdgeInv, CtxOf
  <2>5. CASE /\ EpollLeave(x.fd, x.gen, events[c] \ real)
             /\ mutex' = [mutex EXCEPT ![c] = p]
             /\ call' = [call EXCEPT ![p] = [op |-> "poll", fd |-> x.fd,
                                             event |-> "NONE", gen |-> x.gen]]
             /\ todo' = [todo EXCEPT ![p] = real]
             /\ pc' = [pc EXCEPT ![p] = "trigger"]
    <3>1. events[c] \ real \in SUBSET Events
      BY <1>0, <2>1 DEF TypeOK
    <3>2. /\ interest' \in [Fds -> SUBSET Events]
          /\ epctx' \in [Fds -> 0..MaxGen]
          /\ ready' \in [Fds -> SUBSET (Events \cup {"HUP"})]
          /\ edge' \in [Fds -> BOOLEAN]
          /\ EdgeInv'
      BY <1>0, <2>1, <2>5, <3>1, EpollTypes
    <3>3. CallInv' /\ VectorInv'
      BY <1>0, <2>1, <2>5 DEF CallInv, VectorInv, CtxOf, TypeOK
    <3>4. call' \in [Threads -> [op : {"none", "add", "del", "cancel",
                                      "cancelAll", "poll"},
                                fd : Fds \cup {0}, event : Events \cup {"NONE"},
                                gen : 0..MaxGen]]
      BY <1>0, <2>1, <2>5, FdAssumption DEF TypeOK, Gens
    <3> HIDE DEF c, real
    <3>5. QED
      BY <1>0, <2>1, <2>2, <2>3, <2>5, <3>2, <3>3, <3>4 DEF TypeOK
  <2>6. QED
    BY <1>13, <2>4, <2>5 DEF Handle
<1>14. ASSUME NEW fd \in Fds, NEW e \in Events, RunWaiter(fd, e)
      PROVE  TypeOK' /\ VectorInv' /\ CallInv' /\ EdgeInv'
  BY <1>0, <1>14 DEF RunWaiter, TypeOK, VectorInv, CallInv, EdgeInv, CtxOf
<1>15. QED
  BY <1>1, <1>2, <1>3, <1>4, <1>5, <1>6, <1>7, <1>8, <1>9, <1>10, <1>11,
     <1>12, <1>13, <1>14 DEF Next, Continue, TriggerSome, Poll, Events

-----------------------------------------------------------------------------
(* Locks *)

\* Every action keeps events and EventContexts in step, and the mutexes with
\* the threads that trigger events.
LEMMA LocksStep ==
    ASSUME IndInv, Next
    PROVE  CtxInv' /\ LockInv'
<1> USE DEF ctx_vars, vec_vars, ep_vars
<1>0. TypeOK /\ CallInv /\ CtxInv /\ LockInv
  BY DEF IndInv
<1>1. CASE UNCHANGED <<ctx_vars, mutex, pc, call>>
  BY <1>0, <1>1 DEF CtxInv, LockInv, CtxOf
<1>2. ASSUME NEW u \in Users, pc[u] \notin {"trigger", "count"},
             pc'[u] \notin {"trigger", "count"}, UNCHANGED mutex, ctx' = events',
             \A t \in Threads \ {u} : pc'[t] = pc[t] /\ call'[t] = call[t]
      PROVE  CtxInv' /\ LockInv'
  <2>1. \A t \in Threads \ {u} : pc'[t] = pc[t] /\ CtxOf(t)' = CtxOf(t)
    BY <1>2 DEF CtxOf
  <2>2. \A d \in Ctxs : mutex[d] # u
    BY <1>0, <1>2, ThreadAssumption DEF LockInv
  <2>3. \A d \in Ctxs : mutex[d] \in Threads \cup {NoThread}
    BY <1>0 DEF TypeOK
  <2>4. LockInv'
    BY <1>0, <1>2, <2>1, <2>2, <2>3 DEF LockInv
  <2>5. QED
    BY <1>2, <2>4 DEF CtxInv
<1>3. ASSUME NEW t \in Threads, NEW c \in Ctxs, mutex[c] = NoThread,
             pc[t] \notin {"trigger", "count"},
             mutex' = [mutex EXCEPT ![c] = t], pc' = [pc EXCEPT ![t] = "trigger"],
             CtxOf(t)' = c, \A s \in Threads \ {t} : call'[s] = call[s],
             UNCHANGED ctx_vars
      PROVE  CtxInv' /\ LockInv'
  <2>1. \A s \in Threads \ {t} : pc'[s] = pc[s] /\ CtxOf(s)' = CtxOf(s)
    BY <1>0, <1>3 DEF TypeOK, CtxOf
  <2>2. pc'[t] = "trigger" /\ mutex'[c] = t
    BY <1>0, <1>3 DEF TypeOK
  <2>3. \A d \in Ctxs \ {c} : mutex'[d] = mutex[d] /\ mutex[d] # t
    BY <1>0, <1>3, ThreadAssumption DEF TypeOK, LockInv, Threads
  <2>4. ASSUME NEW s \in Threads, pc'[s] \in {"trigger", "count"}
        PROVE  (mutex[CtxOf(s)])' = s
    BY <1>0, <1>3, <2>1, <2>2, <2>3, <2>4, ThreadAssumption
       DEF LockInv, CallInv, Threads
  <2>5. ASSUME NEW d \in Ctxs, mutex'[d] # NoThread
        PROVE  (pc[mutex[d]] \in {"trigger", "count"} /\ CtxOf(mutex[d]) = d)'
    <3>1. CASE d = c
      BY <1>3, <2>2, <3>1
    <3>2. CASE d # c
      <4>1. mutex'[d] = mutex[d] /\ mutex[d] \in Threads \ {t}
        BY <1>0, <2>3, <2>5, <3>2 DEF TypeOK
      <4>2. QED
        BY <1>0, <2>1, <2>5, <4>1 DEF LockInv
    <3>3. QED
      BY <3>1, <3>2
  <2>6. QED
    BY <1>0, <1>3, <2>4, <2>5 DEF LockInv, CtxInv
<1>4. ASSUME NEW u \in Users, NEW fd \in Fds, NEW e \in Events, CallAdd(u, fd, e)
      PROVE  CtxInv' /\ LockInv'
  BY <1>0, <1>2, <1>4 DEF CallAdd, TypeOK, CtxInv, Threads
<1>5. ASSUME NEW u \in Users, NEW fd, NEW e, NEW op \in {"del", "cancel", "cancelAll"},
             CallRemove(u, op, fd, e)
      PROVE  CtxInv' /\ LockInv'
  BY <1>0, <1>2, <1>5 DEF CallRemove, TypeOK, CtxInv, Threads
<1>6. ASSUME NEW u \in Users, Grow(u)
      PROVE  CtxInv' /\ LockInv'
  <2>1. \A t \in Threads \ {u} : pc'[t] = pc[t] /\ call'[t] = call[t]
    BY <1>0, <1>6 DEF Grow, TypeOK
  <2>2. /\ pc[u] \notin {"trigger", "count"} /\ pc'[u] \notin {"trigger", "count"}
        /\ UNCHANGED mutex /\ ctx' = events'
    BY <1>0, <1>6 DEF Grow, TypeOK, CtxInv, Threads
  <2>3. QED
    BY <1>2, <2>1, <2>2
<1>7. ASSUME NEW u \in Users, AddEvent(u)
      PROVE  CtxInv' /\ LockInv'
  <2>1. call[u].event \notin events[CtxOf(u)] \cup ctx[CtxOf(u)]
    BY <1>7, SlotEmpty DEF AddEvent
  <2>2. Done(u) /\ ctx' = events' /\ UNCHANGED mutex
    BY <1>0, <1>7, <2>1 DEF AddEvent, CtxInv
  <2>3. QED
    BY <1>0, <1>2, <1>7, <2>2 DEF AddEvent, Done, TypeOK, Threads
<1>8. ASSUME NEW u \in Users, NotFound(u)
      PROVE  CtxInv' /\ LockInv'
  BY <1>0, <1>2, <1>8 DEF NotFound, Done, TypeOK, CtxInv, Threads
<1>9. ASSUME NEW u \in Users, DelEvent(u)
      PROVE  CtxInv' /\ LockInv'
  BY <1>0, <1>2, <1>9 DEF DelEvent, Done, TypeOK, CtxInv, Threads
<1>10. ASSUME NEW u \in Users, CancelEvents(u)
      PROVE  CtxInv' /\ LockInv'
  <2>1. CtxOf(u) \in Ctxs /\ CtxOf(u)' = CtxOf(u) /\ u \in Threads
    BY <1>0, <1>10 DEF CancelEvents, CallInv, CtxOf, Threads
  <2>2. QED
    BY <1>0, <1>3, <1>10, <2>1 DEF CancelEvents, Free
<1>11. ASSUME NEW t \in Threads, NEW e \in Events, Trigger(t, e)
      PROVE  CtxInv' /\ LockInv'
  <2>1. CASE Abort("triggerEvent")
    BY <1>1, <2>1 DEF Abort
  <2>2. CASE ~Abort("triggerEvent")
    <3>1. /\ pc' = [pc EXCEPT ![t] = "count"] /\ UNCHANGED <<call, mutex>>
          /\ ctx' = events'
      BY <1>0, <1>11, <2>2 DEF Trigger, CtxInv
    <3>2. QED
      BY <1>0, <1>11, <3>1 DEF Trigger, TypeOK, CtxInv, LockInv, CtxOf
  <2>3. QED
    BY <2>1, <2>2
<1>12. ASSUME NEW t \in Threads, Count(t)
      PROVE  CtxInv' /\ LockInv'
  <2>1. CASE todo[t] # {}
    BY <1>0, <1>12, <2>1 DEF Count, TypeOK, CtxInv, LockInv, CtxOf
  <2>2. CASE todo[t] = {}
    <3>1. /\ mutex' = [mutex EXCEPT ![CtxOf(t)] = NoThread]
          /\ pc' = [pc EXCEPT ![t] = "idle"] /\ call' = [call EXCEPT ![t] = NoCall]
          /\ UNCHANGED ctx_vars
      BY <1>12, <2>2 DEF Count, Done
    <3>2. CtxOf(t) \in Ctxs /\ mutex[CtxOf(t)] = t
      BY <1>0, <1>12 DEF Count, CallInv, LockInv
    <3>3. \A s \in Threads \ {t} : pc'[s] = pc[s] /\ CtxOf(s)' = CtxOf(s)
      BY <1>0, <3>1 DEF TypeOK, CtxOf
    <3>4. pc'[t] = "idle" /\ mutex'[CtxOf(t)] = NoThread
      BY <1>0, <3>1, <3>2 DEF TypeOK
    <3>5. \A d \in Ctxs \ {CtxOf(t)} : mutex'[d] = mutex[d] /\ mutex[d] # t
      BY <1>0, <3>1, ThreadAssumption DEF TypeOK, LockInv, Threads
    <3>6. ASSUME NEW s \in Threads, pc'[s] \in {"trigger", "count"}
          PROVE  (mutex[CtxOf(s)])' = s
      <4>1. s # t /\ pc[s] \in {"trigger", "count"}
        BY <3>3, <3>4, <3>6
      <4>2. CtxOf(s) \in Ctxs /\ mutex[CtxOf(s)] = s /\ CtxOf(s)' = CtxOf(s)
        BY <1>0, <3>3, <4>1 DEF LockInv, CallInv
      <4>3. QED
        BY <3>2, <3>5, <4>1, <4>2
    <3>7. ASSUME NEW d \in Ctxs, mutex'[d] # NoThread
          PROVE  (pc[mutex[d]] \in {"trigger", "count"} /\ CtxOf(mutex[d]) = d)'
      <4>1. mutex'[d] = mutex[d] /\ mutex[d] \in Threads \ {t}
        BY <1>0, <3>4, <3>5, <3>7 DEF TypeOK
      <4>2. QED
        BY <1>0, <3>3, <3>7, <4>1 DEF LockInv
    <3>8. QED
      BY <1>0, <3>1, <3>6, <3>7 DEF LockInv, CtxInv
  <2>3. QED
    BY <2>1, <2>2
<1>13. ASSUME NEW p \in Pollers, NEW x \in batch[p], Handle(p, x)
      PROVE  CtxInv' /\ LockInv'
  <2>1. CASE UNCHANGED <<mutex, ep_vars, pc, call, todo>>
    BY <1>1, <1>13, <2>1 DEF Handle
  <2>2. CASE ~UNCHANGED <<mutex, ep_vars, pc, call, todo>>
    <3>1. p \in Threads /\ <<x.fd, x.gen>> \in Ctxs
      BY <1>0 DEF TypeOK, Threads, Ctxs
    <3>2. /\ mutex' = [mutex EXCEPT ![<<x.fd, x.gen>>] = p]
          /\ call' = [call EXCEPT ![p] = [op |-> "poll", fd |-> x.fd,
                                          event |-> "NONE", gen |-> x.gen]]
          /\ pc' = [pc EXCEPT ![p] = "trigger"]
          /\ mutex[<<x.fd, x.gen>>] = NoThread /\ pc[p] = "idle"
          /\ UNCHANGED ctx_vars
      BY <1>13, <2>2 DEF Handle
    <3>3. CtxOf(p)' = <<x.fd, x.gen>>
      BY <1>0, <3>1, <3>2 DEF TypeOK, CtxOf
    <3>4. \A s \in Threads \ {p} : call'[s] = call[s]
      BY <1>0, <3>2 DEF TypeOK
    <3>5. QED
      BY <1>3, <3>1, <3>2, <3>3, <3>4
  <2>3. QED
    BY <2>1, <2>2
<1>14. ASSUME NEW p \in Pollers, EpollWait(p)
      PROVE  CtxInv' /\ LockInv'
  BY <1>1, <1>14 DEF EpollWait
<1>15. ASSUME NEW fd, NEW e,
              BecomeReady(fd, e) \/ BecomeUnready(fd, e) \/ RunWaiter(fd, e)
      PROVE  CtxInv' /\ LockInv'
  BY <1>1, <1>15 DEF BecomeReady, BecomeUnready, RunWaiter
<1>16. QED
  BY <1>4, <1>5, <1>6, <1>7, <1>8, <1>9, <1>10, <1>11, <1>12, <1>13, <1>14,
     <1>15 DEF Next, Continue, TriggerSome, Poll

-----------------------------------------------------------------------------
(* The epoll set *)

\* epoll_ctl by a thread that owns the fd's entry, or finds none, changes what
\* epoll knows of that context only.
LEMMA EpollOwner ==
    ASSUME TypeOK, NEW c \in Ctxs, epctx[c[1]] \in {0, c[2]},
           NEW S, EpollLeave(c[1], c[2], S)
    PROVE  /\ \A d \in Ctxs \ {c} :
                 /\ epctx'[d[1]] = d[2] <=> epctx[d[1]] = d[2]
                 /\ epctx[d[1]] = d[2] => interest'[d[1]] = interest[d[1]]
           /\ S = {} => epctx'[c[1]] # c[2]
           /\ S # {} => epctx'[c[1]] = c[2] /\ interest'[c[1]] = S
<1> DEFINE fd == c[1]
           g == c[2]
<1>1. c = <<fd, g>> /\ fd \in Fds /\ g \in Nat /\ g # 0
  BY FdAssumption DEF Ctxs, Gens
<1>2. \E v \in {0, g} :
          /\ epctx' = [epctx EXCEPT ![fd] = v]
          /\ interest' = [interest EXCEPT ![fd] = S]
          /\ v = 0 <=> S = {}
  <2>1. CASE S = {}
    BY <1>1, <2>1 DEF EpollLeave, EpollDel
  <2>2. CASE S # {}
    BY <1>1, <2>2 DEF EpollLeave, EpollSet
  <2>3. QED
    BY <2>1, <2>2
<1>3. ASSUME NEW d \in Ctxs \ {c}
      PROVE  /\ epctx'[d[1]] = d[2] <=> epctx[d[1]] = d[2]
             /\ epctx[d[1]] = d[2] => interest'[d[1]] = interest[d[1]]
  <2>1. d = <<d[1], d[2]>> /\ d[1] \in Fds /\ d[2] # 0
    BY FdAssumption DEF Ctxs, Gens
  <2>2. CASE d[1] = fd
    <3>1. d[2] # g
      BY <1>1, <2>1, <2>2
    <3>2. epctx'[fd] # d[2] /\ epctx[fd] # d[2]
      BY <1>1, <1>2, <2>1, <3>1 DEF TypeOK
    <3>3. QED
      BY <2>2, <3>2
  <2>3. CASE d[1] # fd
    BY <1>1, <1>2, <2>1, <2>3 DEF TypeOK
  <2>4. QED
    BY <2>2, <2>3
<1>4. /\ S = {} => epctx'[fd] # g
      /\ S # {} => epctx'[fd] = g /\ interest'[fd] = S
  BY <1>1, <1>2 DEF TypeOK
<1>5. QED
  BY <1>3, <1>4

\* A thread takes a free context's mutex, or changes its events, after an
\* epoll_ctl with what is left: the epoll set is in step again.
LEMMA EpollKept ==
    ASSUME IndInv, NEW c \in Ctxs, epctx[c[1]] \in {0, c[2]},
           NEW S, EpollLeave(c[1], c[2], S),
           \A d \in Ctxs \ {c} : events'[d] = events[d] /\ Leaving(d)' = Leaving(d),
           S = (events[c] \ Leaving(c))'
    PROVE  EpollInv'
<1>1. TypeOK /\ EpollInv
  BY DEF IndInv
<1>2. /\ \A d \in Ctxs \ {c} :
            /\ epctx'[d[1]] = d[2] <=> epctx[d[1]] = d[2]
            /\ epctx[d[1]] = d[2] => interest'[d[1]] = interest[d[1]]
      /\ S = {} => epctx'[c[1]] # c[2]
      /\ S # {} => epctx'[c[1]] = c[2] /\ interest'[c[1]] = S
  BY <1>1, EpollOwner
<1>3. ASSUME NEW d \in Ctxs
      PROVE  (IF epctx[d[1]] = d[2]
              THEN interest[d[1]] = events[d] \ Leaving(d) /\ interest[d[1]] # {}
              ELSE events[d] \subseteq Leaving(d))'
  <2>1. CASE d = c
    BY <1>2, <2>1
  <2>2. CASE d # c
    BY <1>1, <1>2, <2>2 DEF EpollInv
  <2>3. QED
    BY <2>1, <2>2
<1>4. QED
  BY <1>3 DEF EpollInv

\* Every action keeps the epoll set in step with the registered events.
LEMMA EpollStep ==
    ASSUME IndInv, Next
    PROVE  EpollInv'
<1> USE DEF ctx_vars, vec_vars, ep_vars
<1>0. TypeOK /\ CallInv /\ LockInv /\ EpollInv
  BY DEF IndInv
<1>1. CASE UNCHANGED <<interest, epctx, events, mutex, todo>>
  BY <1>0, <1>1 DEF EpollInv, Leaving
<1>2. ASSUME NEW t \in Threads, NEW c \in Ctxs, mutex[c] = NoThread,
             pc[t] \notin {"trigger", "count"}, NEW gone, events[c] # {},
             EpollLeave(c[1], c[2], events[c] \ gone),
             mutex' = [mutex EXCEPT ![c] = t], todo' = [todo EXCEPT ![t] = gone],
             UNCHANGED events
      PROVE  EpollInv'
  <2>1. epctx[c[1]] = c[2]
    BY <1>2, FreeContext
  <2>2. Leaving(c)' = gone
    BY <1>0, <1>2, ThreadAssumption DEF TypeOK, Leaving, Threads
  <2>3. ASSUME NEW d \in Ctxs \ {c}
        PROVE  events'[d] = events[d] /\ Leaving(d)' = Leaving(d)
    <3>1. mutex'[d] = mutex[d] /\ mutex[d] # t
      BY <1>0, <1>2, ThreadAssumption DEF TypeOK, LockInv, Threads
    <3>2. QED
      BY <1>0, <1>2, <3>1 DEF TypeOK, Leaving
  <2>4. events[c] \ gone = (events[c] \ Leaving(c))'
    BY <1>2, <2>2
  <2>5. QED
    BY <1>2, <2>1, <2>3, <2>4, EpollKept
<1>3. ASSUME NEW u \in Users, AddEvent(u)
      PROVE  EpollInv'
  <2>0. CtxOf(u) \in Ctxs /\ call[u].event \in Events
    BY <1>0, <1>3 DEF AddEvent, CallInv, Threads
  <2> PICK c \in Ctxs, e \in Events : c = CtxOf(u) /\ e = call[u].event
    BY <2>0
  <2>1. /\ c[1] = call[u].fd /\ c[2] = call[u].gen
        /\ e \notin events[c] \cup ctx[c] /\ mutex[c] = NoThread
    BY <1>3, SlotEmpty DEF AddEvent, CtxOf, Free
  <2>2. CASE UNCHANGED <<ctx_vars, mutex, ep_vars, todo>>
    BY <1>1, <2>2
  <2>3. CASE /\ ~(events[c] = {} /\ epctx[c[1]] # 0)
             /\ EpollSet(c[1], c[2], events[c] \cup {e})
             /\ events' = [events EXCEPT ![c] = @ \cup {e}]
             /\ UNCHANGED <<mutex, todo>>
    <3>1. epctx[c[1]] \in {0, c[2]}
      BY <2>1, <2>3, FreeContext
    <3>2. EpollLeave(c[1], c[2], events[c] \cup {e})
      BY <2>3 DEF EpollLeave
    <3>3. \A d \in Ctxs \ {c} : events'[d] = events[d] /\ Leaving(d)' = Leaving(d)
      BY <1>0, <2>1, <2>3 DEF TypeOK, Leaving
    <3>4. events[c] \cup {e} = (events[c] \ Leaving(c))'
      BY <1>0, <2>1, <2>3 DEF TypeOK, Leaving
    <3>5. QED
      BY <2>1, <3>1, <3>2, <3>3, <3>4, EpollKept
  <2>4. QED
    BY <1>3, <2>1, <2>2, <2>3 DEF AddEvent
<1>4. ASSUME NEW u \in Users, DelEvent(u)
      PROVE  EpollInv'
  <2>0. CtxOf(u) \in Ctxs /\ call[u].event \in Events
    BY <1>0, <1>4 DEF DelEvent, CallInv, Threads
  <2> PICK c \in Ctxs, e \in Events : c = CtxOf(u) /\ e = call[u].event
    BY <2>0
  <2>1. /\ c[1] = call[u].fd /\ c[2] = call[u].gen
        /\ e \in events[c] /\ mutex[c] = NoThread
        /\ EpollLeave(c[1], c[2], events[c] \ {e})
        /\ events' = [events EXCEPT ![c] = @ \ {e}]
        /\ UNCHANGED <<mutex, todo>>
    BY <1>0, <1>4 DEF DelEvent, CallInv, CtxOf, Free, Threads
  <2>2. epctx[c[1]] = c[2]
    BY <2>1, FreeContext
  <2>3. \A d \in Ctxs \ {c} : events'[d] = events[d] /\ Leaving(d)' = Leaving(d)
    BY <1>0, <2>1 DEF TypeOK, Leaving
  <2>4. events[c] \ {e} = (events[c] \ Leaving(c))'
    BY <1>0, <2>1 DEF TypeOK, Leaving
  <2>5. QED
    BY <2>1, <2>2, <2>3, <2>4, EpollKept
<1>5. ASSUME NEW u \in Users, CancelEvents(u)
      PROVE  EpollInv'
  <2> DEFINE c == CtxOf(u)
             gone == IF pc[u] = "cancelAll" THEN events[c] ELSE {call[u].event}
  <2>1. /\ c \in Ctxs /\ c[1] = call[u].fd /\ c[2] = call[u].gen /\ u \in Threads
        /\ mutex[c] = NoThread /\ pc[u] \notin {"trigger", "count"}
    BY <1>0, <1>5 DEF CancelEvents, CallInv, CtxOf, Free, Threads
  <2>2. /\ EpollLeave(c[1], c[2], events[c] \ gone) /\ events[c] # {}
        /\ mutex' = [mutex EXCEPT ![c] = u]
        /\ todo' = [todo EXCEPT ![u] = gone]
        /\ UNCHANGED events
    BY <1>5, <2>1 DEF CancelEvents
  <2> HIDE DEF c, gone
  <2>3. QED
    BY <1>2, <2>1, <2>2
<1>6. ASSUME NEW t \in Threads, NEW e \in Events, Trigger(t, e)
      PROVE  EpollInv'
  <2>0. CtxOf(t) \in Ctxs
    BY <1>0, <1>6 DEF Trigger, CallInv
  <2> PICK c \in Ctxs : c = CtxOf(t)
    BY <2>0
  <2>1. CASE Abort("triggerEvent")
    BY <1>1, <2>1 DEF Abort
  <2>2. CASE ~Abort("triggerEvent")
    <3>1. /\ mutex[c] = t /\ e \in todo[t]
          /\ events' = [events EXCEPT ![c] = @ \ {e}]
          /\ todo' = [todo EXCEPT ![t] = @ \ {e}]
          /\ UNCHANGED <<mutex, interest, epctx>>
      BY <1>0, <1>6, <2>2 DEF Trigger, CallInv, LockInv
    <3>2. /\ Leaving(c) = todo[t] /\ Leaving(c)' = todo[t] \ {e}
          /\ events'[c] = events[c] \ {e}
      BY <1>0, <3>1, ThreadAssumption DEF Leaving, TypeOK, Threads
    <3>3. ASSUME NEW d \in Ctxs \ {c}
          PROVE  events'[d] = events[d] /\ Leaving(d)' = Leaving(d)
      <4>1. mutex[d] # t
        BY <1>0, <3>1, ThreadAssumption DEF LockInv, Threads
      <4>2. QED
        BY <1>0, <3>1, <4>1 DEF Leaving, TypeOK
    <3>4. ASSUME NEW d \in Ctxs
          PROVE  (IF epctx[d[1]] = d[2]
                  THEN /\ interest[d[1]] = events[d] \ Leaving(d)
                       /\ interest[d[1]] # {}
                  ELSE events[d] \subseteq Leaving(d))'
      <4>1. CASE d = c
        BY <1>0, <3>1, <3>2, <4>1 DEF EpollInv
      <4>2. CASE d # c
        BY <1>0, <3>1, <3>3, <4>2 DEF EpollInv
      <4>3. QED
        BY <4>1, <4>2
    <3>5. QED
      BY <3>4 DEF EpollInv
  <2>3. QED
    BY <2>1, <2>2
<1>7. ASSUME NEW t \in Threads, Count(t)
      PROVE  EpollInv'
  <2> DEFINE c == CtxOf(t)
  <2>1. CASE todo[t] # {}
    BY <1>1, <1>7, <2>1 DEF Count
  <2>2. CASE todo[t] = {}
    <3>1. /\ c \in Ctxs /\ mutex[c] = t
          /\ mutex' = [mutex EXCEPT ![c] = NoThread]
          /\ UNCHANGED <<events, todo, interest, epctx>>
      BY <1>0, <1>7, <2>2 DEF Count, CallInv, LockInv
    <3> HIDE DEF c
    <3>2. \A d \in Ctxs : Leaving(d)' = Leaving(d)
      BY <1>0, <2>2, <3>1, ThreadAssumption DEF Leaving, TypeOK, Threads
    <3>3. QED
      BY <1>0, <3>1, <3>2 DEF EpollInv
  <2>3. QED
    BY <2>1, <2>2
<1>8. ASSUME NEW p \in Pollers, NEW x \in batch[p], Handle(p, x)
      PROVE  EpollInv'
  <2> DEFINE c == <<x.fd, x.gen>>
             real == Real(x)
  <2>1. CASE UNCHANGED <<mutex, ep_vars, pc, call, todo>>
    BY <1>1, <1>8, <2>1 DEF Handle
  <2>2. CASE ~UNCHANGED <<mutex, ep_vars, pc, call, todo>>
    <3>1. /\ p \in Threads /\ c \in Ctxs /\ c[1] = x.fd /\ c[2] = x.gen
          /\ mutex[c] = NoThread /\ pc[p] \notin {"trigger", "count"}
      BY <1>0, <1>8 DEF TypeOK, Threads, Ctxs, Handle
    <3>2. /\ EpollLeave(c[1], c[2], events[c] \ real) /\ events[c] # {}
          /\ mutex' = [mutex EXCEPT ![c] = p]
          /\ todo' = [todo EXCEPT ![p] = real]
          /\ UNCHANGED events
      BY <1>8, <2>2, <3>1 DEF Handle
    <3> HIDE DEF c, real
    <3>3. QED
      BY <1>2, <3>1, <3>2
  <2>3. QED
    BY <2>1, <2>2
<1>9. ASSUME NEW u \in Users, Grow(u) \/ NotFound(u)
      PROVE  EpollInv'
  BY <1>1, <1>9 DEF Grow, NotFound
<1>10. ASSUME NEW u, NEW fd, NEW e, NEW op,
              CallAdd(u, fd, e) \/ CallRemove(u, op, fd, e)
      PROVE  EpollInv'
  BY <1>1, <1>10 DEF CallAdd, CallRemove
<1>11. ASSUME NEW p \in Pollers, EpollWait(p)
      PROVE  EpollInv'
  BY <1>1, <1>11 DEF EpollWait
<1>12. ASSUME NEW fd, NEW e,
              BecomeReady(fd, e) \/ BecomeUnready(fd, e) \/ RunWaiter(fd, e)
      PROVE  EpollInv'
  BY <1>1, <1>12 DEF BecomeReady, BecomeUnready, RunWaiter
<1>13. QED
  BY <1>3, <1>4, <1>5, <1>6, <1>7, <1>8, <1>9, <1>10, <1>11, <1>12
     DEF Next, Continue, TriggerSome, Poll

-----------------------------------------------------------------------------
(* The pending events *)

\* Every action keeps m_pendingEventCount exact.
LEMMA PendingStep ==
    ASSUME IndInv, Next
    PROVE  PendingExact'
<1> USE DEF ctx_vars, vec_vars, ep_vars
<1>0. TypeOK /\ CallInv /\ PendingExact
  BY DEF IndInv
<1>1. ASSUME UNCHANGED <<events, m_pendingEventCount>>,
             \A t \in Threads : pc'[t] = "count" <=> pc[t] = "count"
      PROVE  PendingExact'
  <2>1. Registered' = Registered /\ Counting' = Counting
    BY <1>1 DEF Registered, Counting
  <2>2. QED
    BY <1>0, <1>1, <2>1 DEF PendingExact
<1>2. ASSUME NEW u \in Users, AddEvent(u)
      PROVE  PendingExact'
  <2>1. /\ CtxOf(u) \in Ctxs /\ call[u].event \in Events
        /\ call[u].event \notin events[CtxOf(u)] \cup ctx[CtxOf(u)]
    BY <1>2, SlotEmpty DEF AddEvent
  <2> PICK c \in Ctxs, e \in Events : c = CtxOf(u) /\ e = call[u].event
    BY <2>1
  <2>2. \A t \in Threads : pc'[t] = "count" <=> pc[t] = "count"
    BY <1>0, <1>2, <2>1 DEF AddEvent, Done, TypeOK, Threads
  <2>3. CASE UNCHANGED <<events, m_pendingEventCount>>
    BY <1>1, <2>2, <2>3
  <2>4. CASE /\ m_pendingEventCount' = m_pendingEventCount + 1
             /\ events' = [events EXCEPT ![c] = @ \cup {e}]
    <3>1. Counting' = Counting
      BY <2>2 DEF Counting
    <3>2. Registered' = Registered \cup {<<c, e>>} /\ <<c, e>> \notin Registered
      BY <1>0, <2>1, <2>4 DEF Registered, TypeOK
    <3>3. Cardinality(Registered') = Cardinality(Registered) + 1
      <4>1. Registered \in SUBSET (Ctxs \X Events) /\ <<c, e>> \in Ctxs \X Events
        BY DEF Registered
      <4>2. QED
        BY <3>2, <4>1, CardAdd, FiniteDomains
    <3>4. QED
      BY <1>0, <2>4, <3>1, <3>3, CardTypes DEF PendingExact
  <2>5. QED
    BY <1>2, <2>1, <2>3, <2>4 DEF AddEvent
<1>3. ASSUME NEW u \in Users, DelEvent(u)
      PROVE  PendingExact'
  <2>1. CtxOf(u) \in Ctxs /\ call[u].event \in Events
    BY <1>0, <1>3 DEF DelEvent, CallInv, Threads
  <2> PICK c \in Ctxs, e \in Events : c = CtxOf(u) /\ e = call[u].event
    BY <2>1
  <2>2. /\ e \in events[c] /\ events' = [events EXCEPT ![c] = @ \ {e}]
        /\ m_pendingEventCount' = m_pendingEventCount - 1
    BY <1>3 DEF DelEvent
  <2>3. Counting' = Counting
    BY <1>0, <1>3 DEF DelEvent, Done, Counting, TypeOK, Threads
  <2>4. Registered' = Registered \ {<<c, e>>} /\ <<c, e>> \in Registered
    BY <1>0, <2>2 DEF Registered, TypeOK
  <2>5. Cardinality(Registered') = Cardinality(Registered) - 1
    BY <2>4, CardRemove, FiniteDomains DEF Registered
  <2>6. QED
    BY <1>0, <2>2, <2>3, <2>5, CardTypes DEF PendingExact
<1>4. ASSUME NEW t \in Threads, NEW e \in Events, Trigger(t, e)
      PROVE  PendingExact'
  <2>1. CASE Abort("triggerEvent")
    BY <1>1, <2>1 DEF Abort
  <2>2. CASE ~Abort("triggerEvent")
    <3>1. CtxOf(t) \in Ctxs
      BY <1>0, <1>4 DEF Trigger, CallInv
    <3> PICK c \in Ctxs : c = CtxOf(t)
      BY <3>1
    <3>2. /\ e \in events[c] /\ events' = [events EXCEPT ![c] = @ \ {e}]
          /\ pc' = [pc EXCEPT ![t] = "count"] /\ pc[t] = "trigger"
          /\ UNCHANGED m_pendingEventCount
      BY <1>4, <2>2 DEF Trigger
    <3>3. Registered' = Registered \ {<<c, e>>} /\ <<c, e>> \in Registered
      BY <1>0, <3>2 DEF Registered, TypeOK
    <3>4. Counting' = Counting \cup {t} /\ t \notin Counting
      BY <1>0, <3>2 DEF Counting, TypeOK
    <3>5. Cardinality(Registered') = Cardinality(Registered) - 1
      BY <3>3, CardRemove, FiniteDomains DEF Registered
    <3>6. Cardinality(Counting') = Cardinality(Counting) + 1
      BY <3>4, CardAdd, FiniteDomains DEF Counting
    <3>7. QED
      BY <1>0, <3>2, <3>5, <3>6, CardTypes DEF PendingExact
  <2>3. QED
    BY <2>1, <2>2
<1>5. ASSUME NEW t \in Threads, Count(t)
      PROVE  PendingExact'
  <2>1. Registered' = Registered
    BY <1>5 DEF Count, Registered
  <2>2. Counting' = Counting \ {t} /\ t \in Counting
    BY <1>0, <1>5 DEF Count, Done, Counting, TypeOK
  <2>3. Cardinality(Counting') = Cardinality(Counting) - 1
    BY <2>2, CardRemove, FiniteDomains DEF Counting
  <2>4. m_pendingEventCount' = m_pendingEventCount - 1
    BY <1>5 DEF Count
  <2>5. QED
    BY <1>0, <2>1, <2>3, <2>4, CardTypes DEF PendingExact
<1>6. ASSUME NEW u \in Users, Grow(u) \/ NotFound(u) \/ CancelEvents(u)
      PROVE  PendingExact'
  BY <1>0, <1>1, <1>6 DEF Grow, NotFound, CancelEvents, Done, TypeOK, Threads
<1>7. ASSUME NEW u \in Users, NEW fd, NEW e, NEW op \in {"del", "cancel", "cancelAll"},
             CallAdd(u, fd, e) \/ CallRemove(u, op, fd, e)
      PROVE  PendingExact'
  BY <1>0, <1>1, <1>7 DEF CallAdd, CallRemove, TypeOK, Threads
<1>8. ASSUME NEW p \in Pollers, NEW x \in batch[p], Handle(p, x)
      PROVE  PendingExact'
  BY <1>0, <1>1, <1>8 DEF Handle, TypeOK, Threads
<1>9. ASSUME NEW p \in Pollers, EpollWait(p)
      PROVE  PendingExact'
  BY <1>1, <1>9 DEF EpollWait
<1>10. ASSUME NEW fd, NEW e,
              BecomeReady(fd, e) \/ BecomeUnready(fd, e) \/ RunWaiter(fd, e)
      PROVE  PendingExact'
  BY <1>1, <1>10 DEF BecomeReady, BecomeUnready, RunWaiter
<1>11. QED
  BY <1>2, <1>3, <1>4, <1>5, <1>6, <1>7, <1>8, <1>9, <1>10
     DEF Next, Continue, TriggerSome, Poll

-----------------------------------------------------------------------------
(* The waiters *)

\* Every action keeps each waiter in one place.
LEMMA WaiterStep ==
    ASSUME IndInv, Next
    PROVE  WaiterInOnePlace'
<1> USE DEF ctx_vars, vec_vars, ep_vars
<1> DEFINE Placed(w) ==
        Cardinality(Adding(w)) + Cardinality(RegisteredAt(w)) + woken[w]
            = (IF w \in waiting THEN 1 ELSE 0)
<1>0. TypeOK /\ CallInv /\ \A w \in Fds \X Events : Placed(w)
  BY DEF IndInv, WaiterInOnePlace
<1>1. SUFFICES ASSUME NEW w \in Fds \X Events PROVE Placed(w)'
  BY DEF WaiterInOnePlace
<1>2. /\ Cardinality(Adding(w)) \in Nat /\ Cardinality(RegisteredAt(w)) \in Nat
      /\ woken[w] \in Nat /\ Placed(w)
  BY <1>0, CardTypes DEF TypeOK
<1>3. ASSUME Adding(w)' = Adding(w), RegisteredAt(w)' = RegisteredAt(w),
             woken'[w] = woken[w], w \in waiting' <=> w \in waiting
      PROVE  Placed(w)'
  BY <1>2, <1>3
<1>4. ASSUME UNCHANGED <<events, woken, waiting>>, Adding(w)' = Adding(w)
      PROVE  Placed(w)'
  BY <1>3, <1>4 DEF RegisteredAt
<1>5. ASSUME UNCHANGED <<events, woken, waiting, pc, call>>
      PROVE  Placed(w)'
  BY <1>4, <1>5 DEF Adding
<1>6. ASSUME NEW t \in Threads,
             pc[t] \notin {"grow", "add"}, pc'[t] \notin {"grow", "add"},
             \A s \in Threads \ {t} : pc'[s] = pc[s] /\ call'[s] = call[s]
      PROVE  Adding(w)' = Adding(w)
  BY <1>6 DEF Adding, Threads
<1>7. ASSUME NEW u \in Adding(w), pc'[u] \notin {"grow", "add"},
             \A s \in Threads \ {u} : pc'[s] = pc[s] /\ call'[s] = call[s]
      PROVE  /\ Cardinality(Adding(w)') = Cardinality(Adding(w)) - 1
             /\ Cardinality(Adding(w)) # 0
  <2>1. Adding(w)' = Adding(w) \ {u}
    BY <1>7 DEF Adding, Threads
  <2>2. QED
    BY <1>7, <2>1, CardRemove, FiniteDomains DEF Adding
<1>8. ASSUME NEW c \in RegisteredAt(w), events' = [events EXCEPT ![c] = @ \ {w[2]}]
      PROVE  /\ Cardinality(RegisteredAt(w)') = Cardinality(RegisteredAt(w)) - 1
             /\ Cardinality(RegisteredAt(w)) # 0
  <2>1. RegisteredAt(w)' = RegisteredAt(w) \ {c}
    BY <1>0, <1>8 DEF RegisteredAt, TypeOK
  <2>2. QED
    BY <1>8, <2>1, CardRemove, FiniteDomains DEF RegisteredAt
<1>9. ASSUME NEW c \in Ctxs, NEW e \in Events, w # <<c[1], e>>,
             \/ events' = [events EXCEPT ![c] = @ \ {e}]
             \/ events' = [events EXCEPT ![c] = @ \cup {e}]
      PROVE  RegisteredAt(w)' = RegisteredAt(w)
  <2>1. w = <<w[1], w[2]>>
    OBVIOUS
  <2>2. ASSUME NEW d \in Ctxs, d[1] = w[1]
        PROVE  w[2] \in events'[d] <=> w[2] \in events[d]
    <3>1. CASE d = c
      <4>1. w[2] # e
        BY <1>9, <2>1, <2>2, <3>1
      <4>2. events'[c] = events[c] \ {e} \/ events'[c] = events[c] \cup {e}
        BY <1>0, <1>9 DEF TypeOK
      <4>3. QED
        BY <3>1, <4>1, <4>2
    <3>2. CASE d # c
      BY <1>0, <1>9, <3>2 DEF TypeOK
    <3>3. QED
      BY <3>1, <3>2
  <2>3. QED
    BY <2>2 DEF RegisteredAt
<1>10. ASSUME NEW u \in Users, NEW fd \in Fds, NEW e \in Events, CallAdd(u, fd, e)
      PROVE  Placed(w)'
  <2>1. /\ call'[u].fd = fd /\ call'[u].event = e /\ pc'[u] \in {"grow", "add"}
        /\ pc[u] = "idle"
        /\ \A s \in Threads \ {u} : pc'[s] = pc[s] /\ call'[s] = call[s]
    BY <1>0, <1>10 DEF CallAdd, TypeOK, Threads
  <2>2. RegisteredAt(w)' = RegisteredAt(w) /\ woken'[w] = woken[w]
    BY <1>10 DEF CallAdd, RegisteredAt
  <2>3. CASE w = <<fd, e>>
    <3>1. w \notin waiting /\ w \in waiting'
      BY <1>10, <2>3 DEF CallAdd
    <3>2. Adding(w)' = Adding(w) \cup {u} /\ u \notin Adding(w)
      BY <2>1, <2>3 DEF Adding, Threads
    <3>3. Cardinality(Adding(w)') = Cardinality(Adding(w)) + 1
      <4>1. Adding(w) \in SUBSET Users
        BY DEF Adding
      <4>2. QED
        BY <3>2, <4>1, CardAdd, FiniteDomains
    <3>4. QED
      BY <1>2, <2>2, <3>1, <3>3
  <2>4. CASE w # <<fd, e>>
    <3>1. Adding(w)' = Adding(w)
      BY <2>1, <2>4 DEF Adding, Threads
    <3>2. w \in waiting' <=> w \in waiting
      BY <1>10, <2>4 DEF CallAdd
    <3>3. QED
      BY <1>3, <2>2, <3>1, <3>2
  <2>5. QED
    BY <2>3, <2>4
<1>11. ASSUME NEW u \in Users, NEW fd, NEW e,
              NEW op \in {"del", "cancel", "cancelAll"}, CallRemove(u, op, fd, e)
      PROVE  Placed(w)'
  BY <1>0, <1>4, <1>6, <1>11 DEF CallRemove, TypeOK, Threads
<1>12. ASSUME NEW u \in Users, Grow(u)
      PROVE  Placed(w)'
  <2>1. /\ call'[u].fd = call[u].fd /\ call'[u].event = call[u].event
        /\ pc[u] = "grow" /\ pc'[u] = "add"
        /\ \A s \in Threads \ {u} : pc'[s] = pc[s] /\ call'[s] = call[s]
    BY <1>0, <1>12 DEF Grow, TypeOK, Threads
  <2>2. Adding(w)' = Adding(w)
    BY <2>1 DEF Adding, Threads
  <2>3. QED
    BY <1>4, <1>12, <2>2 DEF Grow
<1>13. ASSUME NEW u \in Users, AddEvent(u)
      PROVE  Placed(w)'
  <2>1. /\ CtxOf(u) \in Ctxs /\ call[u].event \in Events
        /\ call[u].event \notin events[CtxOf(u)] \cup ctx[CtxOf(u)]
    BY <1>13, SlotEmpty DEF AddEvent
  <2> PICK c \in Ctxs, e \in Events : c = CtxOf(u) /\ e = call[u].event
    BY <2>1
  <2>2. c[1] = call[u].fd /\ pc[u] = "add" /\ UNCHANGED woken
    BY <1>13, <2>1 DEF AddEvent, CtxOf
  <2>3. /\ pc'[u] \notin {"grow", "add"}
        /\ \A s \in Threads \ {u} : pc'[s] = pc[s] /\ call'[s] = call[s]
    BY <1>0, <1>13, <2>1 DEF AddEvent, Done, TypeOK, Threads
  <2>4. w = <<c[1], e>> => u \in Adding(w)
    BY <2>2 DEF Adding
  <2>5. w # <<c[1], e>> => Adding(w)' = Adding(w)
    BY <2>2, <2>3 DEF Adding, Threads
  <2>6. CASE events' = events /\ waiting' = waiting \ {<<c[1], e>>}
    <3>1. RegisteredAt(w)' = RegisteredAt(w)
      BY <2>6 DEF RegisteredAt
    <3>2. CASE w = <<c[1], e>>
      <4>1. /\ Cardinality(Adding(w)') = Cardinality(Adding(w)) - 1
            /\ Cardinality(Adding(w)) # 0
        BY <1>7, <2>3, <2>4, <3>2
      <4>2. w \notin waiting'
        BY <2>6, <3>2
      <4>3. QED
        BY <1>2, <2>2, <3>1, <4>1, <4>2
    <3>3. CASE w # <<c[1], e>>
      BY <1>3, <2>2, <2>5, <2>6, <3>1, <3>3
    <3>4. QED
      BY <3>2, <3>3
  <2>7. CASE events' = [events EXCEPT ![c] = @ \cup {e}] /\ waiting' = waiting
    <3>1. CASE w = <<c[1], e>>
      <4>1. Cardinality(Adding(w)') = Cardinality(Adding(w)) - 1
        BY <1>7, <2>3, <2>4, <3>1
      <4>2. RegisteredAt(w)' = RegisteredAt(w) \cup {c} /\ c \notin RegisteredAt(w)
        BY <1>0, <2>1, <2>7, <3>1 DEF RegisteredAt, TypeOK
      <4>3. Cardinality(RegisteredAt(w)') = Cardinality(RegisteredAt(w)) + 1
        BY <4>2, CardAdd, FiniteDomains DEF RegisteredAt
      <4>4. QED
        BY <1>2, <2>2, <2>7, <4>1, <4>3
    <3>2. CASE w # <<c[1], e>>
      BY <1>3, <1>9, <2>2, <2>5, <2>7, <3>2
    <3>3. QED
      BY <3>1, <3>2
  <2>8. QED
    BY <1>13, <2>1, <2>2, <2>6, <2>7 DEF AddEvent
<1>14. ASSUME NEW u \in Users, NotFound(u) \/ CancelEvents(u)
      PROVE  Placed(w)'
  BY <1>0, <1>4, <1>6, <1>14 DEF NotFound, CancelEvents, Done, TypeOK, Threads
<1>15. ASSUME NEW u \in Users, DelEvent(u)
      PROVE  Placed(w)'
  <2>1. CtxOf(u) \in Ctxs /\ call[u].event \in Events
    BY <1>0, <1>15 DEF DelEvent, CallInv, Threads
  <2> PICK c \in Ctxs, e \in Events : c = CtxOf(u) /\ e = call[u].event
    BY <2>1
  <2>2. /\ c[1] = call[u].fd /\ e \in events[c] /\ UNCHANGED woken
        /\ events' = [events EXCEPT ![c] = @ \ {e}]
        /\ waiting' = waiting \ {<<c[1], e>>}
    BY <1>15 DEF DelEvent, CtxOf
  <2>3. Adding(w)' = Adding(w)
    BY <1>0, <1>6, <1>15 DEF DelEvent, Done, TypeOK, Threads
  <2>4. CASE w = <<c[1], e>>
    <3>1. c \in RegisteredAt(w) /\ w[2] = e
      BY <2>2, <2>4 DEF RegisteredAt
    <3>2. /\ Cardinality(RegisteredAt(w)') = Cardinality(RegisteredAt(w)) - 1
          /\ Cardinality(RegisteredAt(w)) # 0
      BY <1>8, <2>2, <3>1
    <3>3. w \notin waiting'
      BY <2>2, <2>4
    <3>4. QED
      BY <1>2, <2>2, <2>3, <3>2, <3>3
  <2>5. CASE w # <<c[1], e>>
    BY <1>3, <1>9, <2>2, <2>3, <2>5
  <2>6. QED
    BY <2>4, <2>5
<1>16. ASSUME NEW t \in Threads, NEW e \in Events, Trigger(t, e)
      PROVE  Placed(w)'
  <2>1. CASE Abort("triggerEvent")
    BY <1>5, <2>1 DEF Abort
  <2>2. CASE ~Abort("triggerEvent")
    <3>1. CtxOf(t) \in Ctxs
      BY <1>0, <1>16 DEF Trigger, CallInv
    <3> PICK c \in Ctxs : c = CtxOf(t)
      BY <3>1
    <3>2. /\ e \in events[c] /\ events' = [events EXCEPT ![c] = @ \ {e}]
          /\ woken' = [woken EXCEPT ![<<c[1], e>>] = @ + 1]
          /\ pc[t] = "trigger" /\ pc' = [pc EXCEPT ![t] = "count"]
          /\ UNCHANGED <<waiting, call>>
      BY <1>16, <2>2 DEF Trigger
    <3>3. Adding(w)' = Adding(w)
      BY <1>0, <1>6, <3>2 DEF TypeOK
    <3>4. CASE w = <<c[1], e>>
      <4>1. c \in RegisteredAt(w) /\ w[2] = e
        BY <3>2, <3>4 DEF RegisteredAt
      <4>2. Cardinality(RegisteredAt(w)') = Cardinality(RegisteredAt(w)) - 1
        BY <1>8, <3>2, <4>1
      <4>3. woken'[w] = woken[w] + 1
        BY <1>0, <3>2, <3>4 DEF TypeOK
      <4>4. QED
        BY <1>2, <3>2, <3>3, <4>2, <4>3
    <3>5. CASE w # <<c[1], e>>
      <4>1. woken'[w] = woken[w]
        BY <1>0, <3>2, <3>5 DEF TypeOK
      <4>2. QED
        BY <1>3, <1>9, <3>2, <3>3, <3>5, <4>1
    <3>6. QED
      BY <3>4, <3>5
  <2>3. QED
    BY <2>1, <2>2
<1>17. ASSUME NEW t \in Threads, Count(t)
      PROVE  Placed(w)'
  <2>1. /\ pc[t] = "count" /\ pc'[t] \notin {"grow", "add"}
        /\ \A s \in Threads \ {t} : pc'[s] = pc[s] /\ call'[s] = call[s]
    BY <1>0, <1>17 DEF Count, Done, TypeOK
  <2>2. QED
    BY <1>4, <1>6, <1>17, <2>1 DEF Count
<1>18. ASSUME NEW p \in Pollers, NEW x \in batch[p], Handle(p, x)
      PROVE  Placed(w)'
  <2>1. /\ pc[p] = "idle" /\ pc'[p] \notin {"grow", "add"} /\ p \in Threads
        /\ \A s \in Threads \ {p} : pc'[s] = pc[s] /\ call'[s] = call[s]
    BY <1>0, <1>18 DEF Handle, TypeOK, Threads
  <2>2. QED
    BY <1>4, <1>6, <1>18, <2>1 DEF Handle
<1>19. ASSUME NEW fd \in Fds, NEW e \in Events, RunWaiter(fd, e)
      PROVE  Placed(w)'
  <2>1. Adding(w)' = Adding(w) /\ RegisteredAt(w)' = RegisteredAt(w)
    BY <1>19 DEF RunWaiter, Adding, RegisteredAt
  <2>2. CASE w = <<fd, e>>
    <3>1. woken[w] # 0 /\ woken'[w] = woken[w] - 1 /\ w \notin waiting'
      BY <1>0, <1>19, <2>2 DEF RunWaiter, TypeOK
    <3>2. QED
      BY <1>2, <2>1, <3>1
  <2>3. CASE w # <<fd, e>>
    <3>1. woken'[w] = woken[w] /\ (w \in waiting' <=> w \in waiting)
      BY <1>0, <1>19, <2>3 DEF RunWaiter, TypeOK
    <3>2. QED
      BY <1>3, <2>1, <3>1
  <2>4. QED
    BY <2>2, <2>3
<1>20. ASSUME NEW p \in Pollers, EpollWait(p)
      PROVE  Placed(w)'
  BY <1>5, <1>20 DEF EpollWait
<1>21. ASSUME NEW fd, NEW e, BecomeReady(fd, e) \/ BecomeUnready(fd, e)
      PROVE  Placed(w)'
  BY <1>5, <1>21 DEF BecomeReady, BecomeUnready
<1> HIDE DEF Placed
<1>22. QED
  BY <1>10, <1>11, <1>12, <1>13, <1>14, <1>15, <1>16, <1>17, <1>18, <1>19,
     <1>20, <1>21 DEF Next, Continue, TriggerSome, Poll

\* No action fails an assertion of addEvent.
LEMMA AddStep ==
    ASSUME IndInv, Next
    PROVE  AddNeverAborts'
<1>1. ASSUME NEW u \in Users, AddEvent(u)
      PROVE  UNCHANGED aborted
  BY <1>1, SlotEmpty DEF AddEvent
<1>2. ASSUME NEW t, NEW e, Trigger(t, e)
      PROVE  aborted' \in {aborted, "triggerEvent"}
  BY <1>2 DEF Trigger, Abort
<1>3. aborted' \in {aborted, "triggerEvent"}
  BY <1>1, <1>2
     DEF Next, Continue, TriggerSome, Poll, BecomeReady, BecomeUnready, CallAdd,
         CallRemove, Grow, NotFound, DelEvent, CancelEvents, Count, EpollWait,
         Handle, RunWaiter
<1>4. QED
  BY <1>3 DEF AddNeverAborts, IndInv

-----------------------------------------------------------------------------
(* Theorems *)

\* IndInv is an invariant of the events of IOManager.
THEOREM FdInvariant == Spec => []IndInv
<1>1. Init => IndInv
  BY InitIndInv
<1>2. IndInv /\ [Next]_vars => IndInv'
  <2>1. CASE IndInv /\ Next
    BY <2>1, TypesStep, LocksStep, EpollStep, PendingStep, WaiterStep, AddStep
       DEF IndInv
  <2>2. CASE IndInv /\ UNCHANGED vars
    BY <2>2
       DEF vars, vec_vars, ctx_vars, ep_vars, IndInv, TypeOK, VectorInv, CallInv,
           EdgeInv, CtxInv, LockInv, EpollInv, Leaving, PendingExact,
           WaiterInOnePlace, AddNeverAborts, Registered, Counting, Adding,
           RegisteredAt, CtxOf
  <2>3. QED
    BY <2>1, <2>2
<1>3. QED
  BY <1>1, <1>2, PTL DEF Spec

\* Every variable keeps its type; m_pendingEventCount never goes below zero.
THEOREM FdTypes == Spec => []TypeOK
<1>1. IndInv => TypeOK
  BY DEF IndInv
<1>2. QED
  BY <1>1, FdInvariant, PTL

\* m_pendingEventCount, which decides whether IOManager may stop, is exact.
THEOREM PendingCorrect == Spec => []PendingExact
<1>1. IndInv => PendingExact
  BY DEF IndInv
<1>2. QED
  BY <1>1, FdInvariant, PTL

\* A waiter of addEvent is in exactly one place until it has been run or
\* deleted: it is not forgotten and not woken twice.
THEOREM WaitersCorrect == Spec => []WaiterInOnePlace
<1>1. IndInv => WaiterInOnePlace
  BY DEF IndInv
<1>2. QED
  BY <1>1, FdInvariant, PTL

\* The epoll set matches the registered events of every fd nobody is working on.
THEOREM EpollCorrect == Spec => []EpollMatches
<1>1. ASSUME IndInv, NEW fd \in Fds, \A g \in Gens : mutex[<<fd, g>>] = NoThread,
             NEW g \in Gens
      PROVE  IF epctx[fd] = g
             THEN interest[fd] = events[<<fd, g>>] /\ interest[fd] # {}
             ELSE events[<<fd, g>>] = {}
  <2> DEFINE c == <<fd, g>>
  <2>1. c \in Ctxs /\ c[1] = fd /\ c[2] = g /\ Leaving(c) = {}
    BY <1>1 DEF Ctxs, Leaving
  <2>2. IF epctx[c[1]] = c[2]
        THEN interest[c[1]] = events[c] \ Leaving(c) /\ interest[c[1]] # {}
        ELSE events[c] \subseteq Leaving(c)
    BY <1>1, <2>1 DEF IndInv, EpollInv
  <2>3. QED
    BY <2>1, <2>2
<1>2. IndInv => EpollMatches
  BY <1>1 DEF EpollMatches
<1>3. QED
  BY <1>2, FdInvariant, PTL

\* addEvent's assertions never fail.
THEOREM AddCorrect == Spec => []AddNeverAborts
<1>1. IndInv => AddNeverAborts
  BY DEF IndInv
<1>2. QED
  BY <1>1, FdInvariant, PTL
=============================================================================
