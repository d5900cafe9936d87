----------------------------- MODULE FdContexts -----------------------------
(***************************************************************************)
(* The events of IOManager (sylar/iomanager.{h,cc}): the vector of         *)
(* FdContexts behind m_mutex, one mutex per context, the epoll set, and    *)
(* m_pendingEventCount.  Users call addEvent, delEvent, cancelEvent and    *)
(* cancelAll; pollers are in IOManager::idle.  A thread finds the context  *)
(* first and locks it later, and a poller handles events that epoll_wait   *)
(* reported before it had the lock: those are steps of their own.          *)
(*                                                                         *)
(* The fds stay open, so epoll_ctl MOD and DEL of a registered fd succeed.  *)
(* A failed assertion aborts the process: then nothing happens any more.   *)
(***************************************************************************)
EXTENDS Naturals, FiniteSets

CONSTANTS
    Users, Pollers,
    NoThread,   \* the holder of a free mutex
    Fds,        \* file descriptors, naturals
    InitSize,   \* contextResize(32) of the constructor
    Signals,    \* bound: the <<fd, signal>> that the peers give
    MaxAdds,    \* bound: calls of addEvent
    MaxGen      \* bound: how often the context of one fd is allocated

Threads == Users \cup Pollers
Events  == {"READ", "WRITE"}
Gens    == 1..MaxGen

ASSUME FdAssumption ==
    /\ Fds \subseteq Nat \ {0, 1} /\ IsFiniteSet(Fds)
    /\ Signals \subseteq Fds \X {"READ", "WRITE", "HUP"}
    /\ InitSize \in Nat /\ MaxAdds \in Nat /\ MaxGen \in Nat \ {0}
ASSUME ThreadAssumption ==
    /\ IsFiniteSet(Users) /\ IsFiniteSet(Pollers) /\ Users \cap Pollers = {}
    /\ NoThread \notin Users \cup Pollers

\* An FdContext is named by its fd and the number of its allocation.
Ctxs == Fds \X Gens

VARIABLES
    current,    \* m_fdContexts[fd], as an allocation number; 0 = not in it
    allocated,  \* how often contextResize has allocated the context of an fd
    size,       \* m_fdContexts.size()
    events,     \* FdContext::events, a set
    ctx,        \* the events whose EventContext holds a fiber or a callback
    mutex,      \* FdContext::mutex
    m_pendingEventCount,
    interest,   \* external: the epoll set, per fd the events asked for...
    epctx,      \* ...and the data.ptr given; 0 = the fd is not in the set
    ready,      \* external: what the fd is ready for, "HUP" included
    edge,       \* external: the fd is on epoll's ready list
    waiting,    \* what the program waits for, as it sees it
    woken,      \* how often that waiter sits in the scheduler's queue
    pc, call, todo, batch,   \* each thread's place and locals
    adds,
    aborted     \* the function whose SYLAR_ASSERT failed; "no" = none has

ctx_vars == <<events, ctx>>
vec_vars == <<current, allocated, size>>
ep_vars  == <<interest, epctx, ready, edge>>
vars == <<vec_vars, ctx_vars, mutex, m_pendingEventCount, ep_vars, waiting,
          woken, pc, call, todo, batch, adds, aborted>>

NoCall == [op |-> "none", fd |-> 0, event |-> "NONE", gen |-> 0]

\* contextResize(n): what m_fdContexts holds for fd afterwards.
Resized(n, fd) ==
    IF fd >= n THEN 0
    ELSE IF current[fd] = 0 THEN allocated[fd] + 1 ELSE current[fd]

Init ==
    /\ size = InitSize
    /\ current = [fd \in Fds |-> IF fd < InitSize THEN 1 ELSE 0]
    /\ allocated = current
    /\ events = [c \in Ctxs |-> {}]
    /\ ctx = [c \in Ctxs |-> {}]
    /\ mutex = [c \in Ctxs |-> NoThread]
    /\ m_pendingEventCount = 0
    /\ interest = [fd \in Fds |-> {}]
    /\ epctx = [fd \in Fds |-> 0]
    /\ ready = [fd \in Fds |-> {}]
    /\ edge = [fd \in Fds |-> FALSE]
    /\ waiting = {}
    /\ woken = [w \in Fds \X Events |-> 0]
    /\ pc = [t \in Threads |-> "idle"]
    /\ call = [t \in Threads |-> NoCall]
    /\ todo = [t \in Threads |-> {}]
    /\ batch = [t \in Threads |-> {}]
    /\ adds = 0
    /\ aborted = "no"

-----------------------------------------------------------------------------
(* epoll (external): edge-triggered, and re-armed by every epoll_ctl *)

\* What epoll_wait would report about fd.
Report(fd) == ready[fd] \cap (interest[fd] \cup {"HUP"})

\* epoll_ctl(ADD or MOD, fd, evs) with the context of allocation g.
EpollSet(fd, g, evs) ==
    /\ interest' = [interest EXCEPT ![fd] = evs]
    /\ epctx' = [epctx EXCEPT ![fd] = g]
    /\ edge' = [edge EXCEPT ![fd] = (ready[fd] \cap (evs \cup {"HUP"}) # {})]
    /\ UNCHANGED ready

\* epoll_ctl(DEL, fd).
EpollDel(fd) ==
    /\ interest' = [interest EXCEPT ![fd] = {}]
    /\ epctx' = [epctx EXCEPT ![fd] = 0]
    /\ edge' = [edge EXCEPT ![fd] = FALSE]
    /\ UNCHANGED ready

\* MOD while events are left, DEL otherwise.
EpollLeave(fd, g, left) ==
    IF left = {} THEN EpollDel(fd) ELSE EpollSet(fd, g, left)

\* The peer: the fd becomes ready, or stops being so after a read or a write.
BecomeReady(fd, e) ==
    /\ <<fd, e>> \in Signals /\ e \notin ready[fd]
    /\ ready' = [ready EXCEPT ![fd] = @ \cup {e}]
    /\ edge' = [edge EXCEPT ![fd] =
                   @ \/ (epctx[fd] # 0 /\ e \in interest[fd] \cup {"HUP"})]
    /\ UNCHANGED <<vec_vars, ctx_vars, mutex, m_pendingEventCount, interest,
                   epctx, waiting, woken, pc, call, todo, batch, adds, aborted>>

BecomeUnready(fd, e) ==
    /\ e \in ready[fd] \ {"HUP"}
    /\ ready' = [ready EXCEPT ![fd] = @ \ {e}]
    /\ UNCHANGED <<vec_vars, ctx_vars, mutex, m_pendingEventCount, interest,
                   epctx, edge, waiting, woken, pc, call, todo, batch, adds,
                   aborted>>

-----------------------------------------------------------------------------
(* Finding the context, under m_mutex *)

\* The program starts to wait for an event: nobody else does, or is about to.
CallAdd(u, fd, e) ==
    /\ pc[u] = "idle" /\ adds < MaxAdds
    /\ <<fd, e>> \notin waiting
    /\ adds' = adds + 1
    /\ waiting' = waiting \cup {<<fd, e>>}
    /\ call' = [call EXCEPT ![u] = [op |-> "add", fd |-> fd, event |-> e,
                                    gen |-> current[fd]]]
    /\ pc' = [pc EXCEPT ![u] = IF size > fd THEN "add" ELSE "grow"]
    /\ UNCHANGED <<vec_vars, ctx_vars, mutex, m_pendingEventCount, ep_vars,
                   woken, todo, batch, aborted>>

\* The fd was past the end: contextResize(fd * 1.5) under the write lock,
\* whatever another thread has done to the vector since it was looked at.
Grow(u) ==
    LET n == (call[u].fd * 3) \div 2 IN
    /\ pc[u] = "grow"
    /\ \A fd \in Fds : Resized(n, fd) <= MaxGen
    /\ size' = n
    /\ current' = [fd \in Fds |-> Resized(n, fd)]
    /\ allocated' = [fd \in Fds |->
                        IF Resized(n, fd) > allocated[fd]
                        THEN Resized(n, fd) ELSE allocated[fd]]
    /\ call' = [call EXCEPT ![u].gen = Resized(n, call[u].fd)]
    /\ pc' = [pc EXCEPT ![u] = "add"]
    /\ UNCHANGED <<ctx_vars, mutex, m_pendingEventCount, ep_vars, waiting,
                   woken, todo, batch, adds, aborted>>

\* delEvent, cancelEvent and cancelAll give up when the fd is past the end.
CallRemove(u, op, fd, e) ==
    /\ pc[u] = "idle" /\ size > fd
    /\ call' = [call EXCEPT ![u] = [op |-> op, fd |-> fd, event |-> e,
                                    gen |-> current[fd]]]
    /\ pc' = [pc EXCEPT ![u] = op]
    /\ UNCHANGED <<vec_vars, ctx_vars, mutex, m_pendingEventCount, ep_vars,
                   waiting, woken, todo, batch, adds, aborted>>

-----------------------------------------------------------------------------
(* Under the context's mutex *)

CtxOf(t) == <<call[t].fd, call[t].gen>>
Free(t) == mutex[CtxOf(t)] = NoThread

\* The call returns.
Done(t) ==
    /\ pc' = [pc EXCEPT ![t] = "idle"]
    /\ call' = [call EXCEPT ![t] = NoCall]

\* SYLAR_ASSERT fails in function f.
Abort(f) ==
    /\ aborted' = f
    /\ UNCHANGED <<vec_vars, ctx_vars, mutex, m_pendingEventCount, ep_vars,
                   waiting, woken, pc, call, todo, batch, adds>>

\* Mutant of AddEvent: replaces the events already asked for.
AddEventReplaces(u) ==
    LET c == CtxOf(u)  fd == call[u].fd  e == call[u].event IN
    /\ pc[u] = "add" /\ Free(u)
    /\ e \notin events[c] /\ ~(events[c] = {} /\ epctx[fd] # 0)
    /\ EpollSet(fd, call[u].gen, {e})
    /\ m_pendingEventCount' = m_pendingEventCount + 1
    /\ events' = [events EXCEPT ![c] = @ \cup {e}]
    /\ ctx' = [ctx EXCEPT ![c] = @ \cup {e}]
    /\ Done(u)
    /\ UNCHANGED <<vec_vars, mutex, waiting, woken, todo, batch, adds, aborted>>

\* addEvent from the lock on: ADD for the first event of the context, which
\* fails if the fd is in the epoll set, MOD otherwise.
AddEvent(u) ==
    LET c == CtxOf(u)  fd == call[u].fd  e == call[u].event IN
    /\ pc[u] = "add" /\ Free(u)
    /\ \/ e \in events[c] \cup ctx[c] /\ Abort("addEvent")
       \/ /\ e \notin events[c] \cup ctx[c]
          /\ events[c] = {} /\ epctx[fd] # 0            \* EEXIST: return -1
          /\ waiting' = waiting \ {<<fd, e>>}
          /\ Done(u)
          /\ UNCHANGED <<vec_vars, ctx_vars, mutex, m_pendingEventCount,
                         ep_vars, woken, todo, batch, adds, aborted>>
       \/ /\ e \notin events[c] \cup ctx[c]
          /\ ~(events[c] = {} /\ epctx[fd] # 0)
          /\ EpollSet(fd, call[u].gen, events[c] \cup {e})
          /\ m_pendingEventCount' = m_pendingEventCount + 1
          /\ events' = [events EXCEPT ![c] = @ \cup {e}]
          /\ ctx' = [ctx EXCEPT ![c] = @ \cup {e}]
          /\ Done(u)
          /\ UNCHANGED <<vec_vars, mutex, waiting, woken, todo, batch, adds,
                         aborted>>

\* The event is not registered: the call returns false.
NotFound(u) ==
    /\ pc[u] \in {"del", "cancel", "cancelAll"} /\ Free(u)
    /\ IF pc[u] = "cancelAll" THEN events[CtxOf(u)] = {}
       ELSE call[u].event \notin events[CtxOf(u)]
    /\ Done(u)
    /\ UNCHANGED <<vec_vars, ctx_vars, mutex, m_pendingEventCount, ep_vars,
                   waiting, woken, todo, batch, adds, aborted>>

\* Mutant of DelEvent: the count stays.
DelEventKeepsCount(u) ==
    LET c == CtxOf(u)  e == call[u].event IN
    /\ pc[u] = "del" /\ Free(u) /\ e \in events[c]
    /\ EpollLeave(call[u].fd, call[u].gen, events[c] \ {e})
    /\ events' = [events EXCEPT ![c] = @ \ {e}]
    /\ ctx' = [ctx EXCEPT ![c] = @ \ {e}]
    /\ waiting' = waiting \ {<<call[u].fd, e>>}
    /\ Done(u)
    /\ UNCHANGED <<vec_vars, mutex, m_pendingEventCount, woken, todo, batch,
                   adds, aborted>>

\* delEvent: the waiter is dropped, not woken.
DelEvent(u) ==
    LET c == CtxOf(u)  e == call[u].event IN
    /\ pc[u] = "del" /\ Free(u) /\ e \in events[c]
    /\ EpollLeave(call[u].fd, call[u].gen, events[c] \ {e})
    /\ m_pendingEventCount' = m_pendingEventCount - 1
    /\ events' = [events EXCEPT ![c] = @ \ {e}]
    /\ ctx' = [ctx EXCEPT ![c] = @ \ {e}]
    /\ waiting' = waiting \ {<<call[u].fd, e>>}
    /\ Done(u)
    /\ UNCHANGED <<vec_vars, mutex, woken, todo, batch, adds, aborted>>

\* cancelEvent and cancelAll up to their first triggerEvent.
CancelEvents(u) ==
    LET c == CtxOf(u)
        gone == IF pc[u] = "cancelAll" THEN events[c] ELSE {call[u].event}
    IN
    /\ pc[u] \in {"cancel", "cancelAll"} /\ Free(u)
    /\ gone # {} /\ gone \subseteq events[c]
    /\ EpollLeave(call[u].fd, call[u].gen, events[c] \ gone)
    /\ mutex' = [mutex EXCEPT ![c] = u]
    /\ todo' = [todo EXCEPT ![u] = gone]
    /\ pc' = [pc EXCEPT ![u] = "trigger"]
    /\ UNCHANGED <<vec_vars, ctx_vars, m_pendingEventCount, waiting, woken,
                   call, batch, adds, aborted>>

\* Mutant of Trigger: the event stays in FdContext::events.
TriggerKeepsEvent(t, e) ==
    LET c == CtxOf(t) IN
    /\ pc[t] = "trigger" /\ e \in todo[t]
    /\ e = "WRITE" => "READ" \notin todo[t]
    /\ e \in events[c]
    /\ ctx' = [ctx EXCEPT ![c] = @ \ {e}]
    /\ woken' = [woken EXCEPT ![<<c[1], e>>] = @ + 1]
    /\ todo' = [todo EXCEPT ![t] = @ \ {e}]
    /\ pc' = [pc EXCEPT ![t] = "count"]
    /\ UNCHANGED <<vec_vars, events, mutex, m_pendingEventCount, ep_vars,
                   waiting, call, batch, adds, aborted>>

\* Mutant of Trigger: resetEventContext is forgotten.
TriggerKeepsContext(t, e) ==
    /\ pc[t] = "trigger" /\ e \in todo[t] \cap events[CtxOf(t)]
    /\ events' = [events EXCEPT ![CtxOf(t)] = @ \ {e}]
    /\ woken' = [woken EXCEPT ![<<call[t].fd, e>>] = @ + 1]
    /\ todo' = [todo EXCEPT ![t] = @ \ {e}]
    /\ pc' = [pc EXCEPT ![t] = "count"]
    /\ UNCHANGED <<vec_vars, ctx, mutex, m_pendingEventCount, ep_vars,
                   waiting, call, batch, adds, aborted>>

\* triggerEvent(e): READ before WRITE; the waiter goes to the scheduler.
Trigger(t, e) ==
    LET c == CtxOf(t) IN
    /\ pc[t] = "trigger" /\ e \in todo[t]
    /\ e = "WRITE" => "READ" \notin todo[t]
    /\ \/ e \notin events[c] /\ Abort("triggerEvent")
       \/ /\ e \in events[c]
          /\ events' = [events EXCEPT ![c] = @ \ {e}]
          /\ ctx' = [ctx EXCEPT ![c] = @ \ {e}]
          /\ woken' = [woken EXCEPT ![<<c[1], e>>] = @ + 1]
          /\ todo' = [todo EXCEPT ![t] = @ \ {e}]
          /\ pc' = [pc EXCEPT ![t] = "count"]
          /\ UNCHANGED <<vec_vars, mutex, m_pendingEventCount, ep_vars,
                         waiting, call, batch, adds, aborted>>

\* Mutant of Count: the event is subtracted twice.
CountTwice(t) ==
    /\ pc[t] = "count"
    /\ m_pendingEventCount' = m_pendingEventCount - 2
    /\ IF todo[t] # {}
       THEN pc' = [pc EXCEPT ![t] = "trigger"] /\ UNCHANGED <<mutex, call>>
       ELSE Done(t) /\ mutex' = [mutex EXCEPT ![CtxOf(t)] = NoThread]
    /\ UNCHANGED <<vec_vars, ctx_vars, ep_vars, waiting, woken, todo, batch,
                   adds, aborted>>

\* --m_pendingEventCount after it; at the end the lock is released.
Count(t) ==
    /\ pc[t] = "count"
    /\ m_pendingEventCount' = m_pendingEventCount - 1
    /\ IF todo[t] # {}
       THEN pc' = [pc EXCEPT ![t] = "trigger"] /\ UNCHANGED <<mutex, call>>
       ELSE Done(t) /\ mutex' = [mutex EXCEPT ![CtxOf(t)] = NoThread]
    /\ UNCHANGED <<vec_vars, ctx_vars, ep_vars, waiting, woken, todo, batch,
                   adds, aborted>>

-----------------------------------------------------------------------------
(* Pollers: IOManager::idle *)

\* epoll_wait: a snapshot of the ready list, at most MAX_EVNETS = 256 fds long.
EpollWait(p) ==
    LET listed == {fd \in Fds : edge[fd]} IN
    /\ pc[p] = "idle" /\ batch[p] = {} /\ listed # {}
    /\ batch' = [batch EXCEPT ![p] =
                    {[fd |-> fd, gen |-> epctx[fd], mask |-> Report(fd)] :
                        fd \in {f \in listed : Report(f) # {}}}]
    /\ edge' = [fd \in Fds |-> FALSE]
    /\ UNCHANGED <<vec_vars, ctx_vars, mutex, m_pendingEventCount, interest,
                   epctx, ready, waiting, woken, pc, call, todo, adds, aborted>>

\* Mutant of Real: a hang-up wakes nobody.
RealIgnoresHup(x) == x.mask \cap Events

\* EPOLLERR and EPOLLHUP count as whatever is registered now.
Real(x) ==
    (x.mask \cap Events) \cup
        (IF "HUP" \in x.mask THEN events[<<x.fd, x.gen>>] ELSE {})

\* One event of the snapshot, once the context is locked.
Handle(p, x) ==
    LET c == <<x.fd, x.gen>>  real == Real(x) IN
    /\ pc[p] = "idle" /\ x \in batch[p] /\ mutex[c] = NoThread
    /\ batch' = [batch EXCEPT ![p] = @ \ {x}]
    /\ \/ /\ events[c] \cap real = {}
          /\ UNCHANGED <<mutex, ep_vars, pc, call, todo>>
       \/ /\ events[c] \cap real # {}
          /\ EpollLeave(x.fd, x.gen, events[c] \ real)
          /\ mutex' = [mutex EXCEPT ![c] = p]
          /\ call' = [call EXCEPT ![p] = [op |-> "poll", fd |-> x.fd,
                                          event |-> "NONE", gen |-> x.gen]]
          /\ todo' = [todo EXCEPT ![p] = real]
          /\ pc' = [pc EXCEPT ![p] = "trigger"]
    /\ UNCHANGED <<vec_vars, ctx_vars, m_pendingEventCount, waiting, woken,
                   adds, aborted>>

\* The scheduler runs the waiter, which may wait again.
RunWaiter(fd, e) ==
    /\ woken[<<fd, e>>] > 0
    /\ woken' = [woken EXCEPT ![<<fd, e>>] = @ - 1]
    /\ waiting' = waiting \ {<<fd, e>>}
    /\ UNCHANGED <<vec_vars, ctx_vars, mutex, m_pendingEventCount, ep_vars, pc,
                   call, todo, batch, adds, aborted>>

-----------------------------------------------------------------------------
Poll(p) ==
    \/ EpollWait(p)
    \/ \E x \in batch[p] : Handle(p, x)

\* What a call does once it has started.
Continue(u) ==
    Grow(u) \/ AddEvent(u) \/ NotFound(u) \/ DelEvent(u) \/ CancelEvents(u)

TriggerSome(t) == (\E e \in Events : Trigger(t, e)) \/ Count(t)

Next ==
    /\ aborted = "no"
    /\ \/ \E fd \in Fds, e \in Events \cup {"HUP"} : BecomeReady(fd, e)
       \/ \E fd \in Fds, e \in Events : BecomeUnready(fd, e)
       \/ \E u \in Users, fd \in Fds, e \in Events : CallAdd(u, fd, e)
       \/ \E u \in Users, fd \in Fds, e \in Events, op \in {"del", "cancel"} :
              CallRemove(u, op, fd, e)
       \/ \E u \in Users, fd \in Fds : CallRemove(u, "cancelAll", fd, "NONE")
       \/ \E u \in Users : Continue(u)
       \/ \E t \in Threads : TriggerSome(t)
       \/ \E p \in Pollers : Poll(p)
       \/ \E fd \in Fds, e \in Events : RunWaiter(fd, e)

Spec == Init /\ [][Next]_vars

\* No thread stops inside a call, pollers keep polling.  The peer, the users
\* and the scheduler promise nothing.
Fairness ==
    /\ \A u \in Users : WF_vars(aborted = "no" /\ Continue(u))
    /\ \A t \in Threads : WF_vars(aborted = "no" /\ TriggerSome(t))
    /\ \A p \in Pollers : WF_vars(aborted = "no" /\ Poll(p))

FairSpec == Spec /\ Fairness

-----------------------------------------------------------------------------
(* Properties *)

TypeOK ==
    /\ current \in [Fds -> 0..MaxGen] /\ allocated \in [Fds -> 0..MaxGen]
    /\ size \in Nat
    /\ events \in [Ctxs -> SUBSET Events] /\ ctx \in [Ctxs -> SUBSET Events]
    /\ mutex \in [Ctxs -> Threads \cup {NoThread}]
    /\ m_pendingEventCount \in Nat
    /\ interest \in [Fds -> SUBSET Events] /\ epctx \in [Fds -> 0..MaxGen]
    /\ ready \in [Fds -> SUBSET (Events \cup {"HUP"})]
    /\ edge \in [Fds -> BOOLEAN]
    /\ waiting \subseteq Fds \X Events
    /\ woken \in [Fds \X Events -> Nat]
    /\ pc \in [Threads -> {"idle", "add", "grow", "del", "cancel", "cancelAll",
                           "trigger", "count"}]
    /\ call \in [Threads -> [op : {"none", "add", "del", "cancel", "cancelAll",
                                   "poll"},
                             fd : Fds \cup {0}, event : Events \cup {"NONE"},
                             gen : 0..MaxGen]]
    /\ todo \in [Threads -> SUBSET Events]
    /\ batch \in [Threads -> SUBSET [fd : Fds, gen : Gens,
                                     mask : SUBSET (Events \cup {"HUP"})]]
    /\ adds \in 0..MaxAdds
    /\ aborted \in {"no", "addEvent", "triggerEvent"}

Registered == {r \in Ctxs \X Events : r[2] \in events[r[1]]}
Counting   == {t \in Threads : pc[t] = "count"}

\* m_pendingEventCount, which IOManager::stopping reads without any lock, is
\* the number of registered events plus the triggers not yet subtracted: the
\* manager never stops while a waiter is registered, and can stop afterwards.
PendingExact ==
    m_pendingEventCount = Cardinality(Registered) + Cardinality(Counting)

Adding(w) == {u \in Users : /\ pc[u] \in {"grow", "add"}
                            /\ <<call[u].fd, call[u].event>> = w}
RegisteredAt(w) == {c \in Ctxs : c[1] = w[1] /\ w[2] \in events[c]}

\* A waiter is in exactly one place - in addEvent, registered in one context,
\* or scheduled once - however adds, removals, resizes and pollers interleave:
\* it is neither forgotten nor woken twice.
WaiterInOnePlace ==
    \A w \in Fds \X Events :
        Cardinality(Adding(w)) + Cardinality(RegisteredAt(w)) + woken[w]
            = (IF w \in waiting THEN 1 ELSE 0)

\* When no thread holds a context of fd, epoll asks for exactly the events
\* registered there and hands back the context they are registered in.
EpollMatches ==
    \A fd \in Fds :
        (\A g \in Gens : mutex[<<fd, g>>] = NoThread) =>
            \A g \in Gens :
                IF epctx[fd] = g
                THEN interest[fd] = events[<<fd, g>>] /\ interest[fd] # {}
                ELSE events[<<fd, g>>] = {}

\* addEvent's assertions (no duplicate event, an empty EventContext) hold if no
\* two waiters of the program ask for the same event at the same time.
AddNeverAborts == aborted # "addEvent"

\* A registered event whose fd stays ready is triggered, although epoll is
\* edge-triggered and events are added and removed while pollers work.
EventDelivered ==
    \A c \in Ctxs, e \in Events :
        (e \in events[c] /\ ready[c[1]] \cap {e, "HUP"} # {})
            ~> \/ e \notin events[c]
               \/ ready[c[1]] \cap {e, "HUP"} = {}
               \/ aborted # "no"

\* triggerEvent's "the event to trigger must have been registered".
TriggersRegistered == aborted # "triggerEvent"

\* Every registered event is in the context m_fdContexts has for the fd, so
\* that delEvent, cancelEvent and cancelAll can find it.
ContextFound ==
    \A c \in Ctxs : events[c] # {} => current[c[1]] = c[2]

-----------------------------------------------------------------------------
(* The inductive invariant *)

\* m_fdContexts has a context for every fd below its size.
VectorInv ==
    \A fd \in Fds : /\ size > fd => current[fd] \in Gens
                    /\ current[fd] <= allocated[fd]

\* A call knows its fd and event, and its context once it has found it.
CallInv ==
    \A t \in Threads :
        /\ pc[t] \notin {"idle", "grow"} => CtxOf(t) \in Ctxs
        /\ pc[t] \in {"grow", "add", "del", "cancel"} =>
               call[t].fd \in Fds /\ call[t].event \in Events

\* Only an fd in the epoll set is on the ready list.
EdgeInv == \A fd \in Fds : edge[fd] => epctx[fd] \in Gens

\* events and the EventContexts are set and reset together.
CtxInv == ctx = events

\* A mutex is held across steps exactly by a thread that triggers events.
LockInv ==
    /\ \A t \in Threads : pc[t] \in {"trigger", "count"} => mutex[CtxOf(t)] = t
    /\ \A c \in Ctxs : mutex[c] # NoThread =>
           /\ pc[mutex[c]] \in {"trigger", "count"}
           /\ CtxOf(mutex[c]) = c

\* The events a context's holder has yet to trigger have left the epoll set.
Leaving(c) == IF mutex[c] = NoThread THEN {} ELSE todo[mutex[c]]
EpollInv ==
    \A c \in Ctxs :
        IF epctx[c[1]] = c[2]
        THEN /\ interest[c[1]] = events[c] \ Leaving(c)
             /\ interest[c[1]] # {}
        ELSE events[c] \subseteq Leaving(c)

IndInv ==
    /\ TypeOK /\ VectorInv /\ CallInv /\ EdgeInv /\ CtxInv /\ LockInv
    /\ EpollInv /\ PendingExact /\ WaiterInOnePlace /\ AddNeverAborts
=============================================================================
