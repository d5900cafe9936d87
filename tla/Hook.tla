-------------------------------- MODULE Hook --------------------------------
(***************************************************************************)
(* The hooked system calls of hook.cc on one fd number, with the FdManager *)
(* of fd_manager.cc: do_io (read, write, accept and their kin), connect,   *)
(* sleep, socket, close, fcntl, ioctl and setsockopt, called by fibers on  *)
(* several threads with hooks enabled.  The number is reused: a socket may *)
(* be made while a fiber still uses the one before.                        *)
(*                                                                         *)
(* A timer of the IOManager is armed, then expired with its callback in    *)
(* the scheduler's queue, then run in three steps; cancel() reaches it     *)
(* only while it is armed.  A callback is known by the fiber, the number   *)
(* of its call and the event the call needs: two timers that the retries   *)
(* of one call leave in the queue count as one.  The event table of the fd *)
(* is FdContexts' in short: event says which fiber waits, epoll whether    *)
(* the kernel knows.                                                       *)
(***************************************************************************)
EXTENDS Naturals, FiniteSets

CONSTANTS
    Fibers, None,
    Ops,        \* the calls of each fiber: "io" or "connect", and the event
    MaxCalls,   \* bound: calls of each fiber, sleeps included
    MaxSockets, \* bound: sockets made on the number
    MaxSets     \* bound: option changes

Dirs == {"READ", "WRITE"}

ASSUME HookAssumption ==
    None \notin Fibers /\ Ops \in [Fibers -> SUBSET ({"io", "connect"} \X Dirs)]

VARIABLES
    open, sockets,      \* the fd is open; sockets made on it so far
    nonblock, ready,    \* O_NONBLOCK of the kernel; directions with data
    ctx,                \* the FdCtx in m_datas, or None
    event, epoll,       \* waiting fiber of each direction; known to the kernel
    pc, call,           \* where each fiber is; how many calls it has made
    info,               \* its call: which, its timeout, tinfo (see NoCall)
    armed, queued,      \* fibers with a timer; callbacks in the queue
    setting, cancelling,\* callbacks run up to tinfo->cancelled, cancelEvent
    sets, cleared,      \* option changes; ioctl(FIONBIO, 0) was called on it
    aborted             \* an assertion of addEvent() has ended the program

kernel == <<open, sockets, nonblock, ready>>
table == <<event, epoll>>
timers == <<armed, queued, setting, cancelling>>
vars == <<kernel, ctx, table, pc, call, info, timers, sets, cleared, aborted>>

NewCtx == [userNonblock |-> FALSE, timeouts |-> {}]

\* The call of a fiber: op, the event it needs (dir), whether it has a timeout
\* (to), tinfo->cancelled and by the timer of which call, the socket it began
\* on, and whether nothing but data will end it any more (left): its timer or
\* a close() came when it could not be woken, or it blocks in the kernel since
\* an ioctl() cleared the flag.
NoCall == [op |-> "io", dir |-> "READ", to |-> FALSE, cancelled |-> FALSE,
           by |-> 0, on |-> 0, left |-> FALSE]

Init ==
    /\ open = FALSE /\ sockets = 0 /\ nonblock = FALSE /\ ready = {}
    /\ ctx = None
    /\ event = [e \in Dirs |-> None] /\ epoll = FALSE
    /\ pc = [f \in Fibers |-> "idle"]
    /\ call = [f \in Fibers |-> 0] /\ info = [f \in Fibers |-> NoCall]
    /\ armed = {} /\ queued = {} /\ setting = {} /\ cancelling = {}
    /\ sets = 0 /\ cleared = FALSE /\ aborted = FALSE

Dir(f) == info[f].dir
At(f, p) == pc[f] = p
Goto(f, p) == pc' = [pc EXCEPT ![f] = p]
Return(f) == Goto(f, "idle") /\ info' = [info EXCEPT ![f] = NoCall]

-----------------------------------------------------------------------------
(* socket(), accept()'s new fd, and FdManager *)

Socket(f) ==
    /\ At(f, "idle") /\ ~open /\ sockets < MaxSockets
    /\ open' = TRUE /\ sockets' = sockets + 1
    /\ Goto(f, "get")
    /\ UNCHANGED <<nonblock, ready, ctx, table, call, info, timers, sets,
                   cleared>>

\* FdManager::get(fd, true): a context that is there is taken as it is.
Get(f) ==
    /\ At(f, "get")
    /\ Goto(f, IF ctx # None THEN "idle" ELSE "create")
    /\ UNCHANGED <<kernel, ctx, table, call, info, timers, sets, cleared>>

\* FdCtx::init sets O_NONBLOCK; whatever another thread stored is replaced.
Create(f) ==
    /\ At(f, "create")
    /\ ctx' = NewCtx /\ nonblock' = TRUE
    /\ Return(f)
    /\ UNCHANGED <<open, sockets, ready, table, call, timers, sets, cleared>>

-----------------------------------------------------------------------------
(* do_io and connect_with_timeout *)

Known == sockets > 0 /\ \A f \in Fibers : pc[f] \notin {"get", "create"}

\* A call with neither context nor hook is the plain system call.
Plain(f, e) ==
    IF open /\ ~nonblock /\ e \notin ready
    THEN /\ Goto(f, "blocked")
         /\ info' = [info EXCEPT ![f].dir = e, ![f].on = sockets]
    ELSE UNCHANGED <<pc, info>>

Begin(f, o, e) ==
    /\ At(f, "idle") /\ Known /\ call[f] < MaxCalls[f]
    /\ call' = [call EXCEPT ![f] = @ + 1]
    /\ \/ ctx = None /\ o = "io" /\ Plain(f, e)
       \/ ctx = None /\ o = "connect" /\ UNCHANGED <<pc, info>>
       \/ ctx # None /\ ctx.userNonblock /\ Plain(f, e)
       \/ /\ ctx # None /\ ~ctx.userNonblock
          /\ info' = [info EXCEPT ![f] =
                [NoCall EXCEPT !.op = o, !.dir = e, !.on = sockets,
                    !.to = o = "connect" \/ e \in ctx.timeouts]]
          /\ Goto(f, "try")
    /\ UNCHANGED <<kernel, ctx, table, timers, sets, cleared>>

\* Mutant of Try: the timeout of setsockopt is not used, only connect's.
TryIgnoresTimeout(f) ==
    /\ At(f, "try")
    /\ IF ~open \/ Dir(f) \in ready
       THEN Return(f) /\ ready' = ready \ {Dir(f)} /\ UNCHANGED armed
       ELSE /\ Goto(f, IF nonblock THEN "add" ELSE "blocked")
            /\ armed' = IF info[f].op = "connect" /\ nonblock
                        THEN armed \cup {f} ELSE armed
            /\ info' = [info EXCEPT ![f].left = @ \/ (~nonblock /\ cleared)]
            /\ UNCHANGED ready
    /\ UNCHANGED <<open, sockets, nonblock, ctx, table, call, queued, setting,
                   cancelling, sets, cleared>>

\* fun(fd, ...): done, an error, or EAGAIN (EINPROGRESS) and a timer.
Try(f) ==
    /\ At(f, "try")
    /\ IF ~open \/ Dir(f) \in ready
       THEN Return(f) /\ ready' = ready \ {Dir(f)} /\ UNCHANGED armed
       ELSE /\ Goto(f, IF nonblock THEN "add" ELSE "blocked")
            /\ armed' = IF info[f].to /\ nonblock THEN armed \cup {f} ELSE armed
            /\ info' = [info EXCEPT ![f].left = @ \/ (~nonblock /\ cleared)]
            /\ UNCHANGED ready
    /\ UNCHANGED <<open, sockets, nonblock, ctx, table, call, queued, setting,
                   cancelling, sets, cleared>>

\* addEvent asserts that nobody waits for the event.  It fails on a closed fd,
\* and on one whose registration the kernel dropped with an earlier socket.
AddEvent(f) ==
    /\ At(f, "add") /\ event[Dir(f)] = None
    /\ IF open /\ (epoll \/ \A e \in Dirs : event[e] = None)
       THEN /\ event' = [event EXCEPT ![Dir(f)] = f] /\ epoll' = TRUE
            /\ Goto(f, "wait") /\ UNCHANGED <<armed, info>>
       ELSE /\ armed' = armed \ {f} /\ Return(f) /\ UNCHANGED table
    /\ UNCHANGED <<kernel, ctx, call, queued, setting, cancelling,
                   sets, cleared>>
AddEventAborts(f) ==
    /\ At(f, "add") /\ event[Dir(f)] # None
    /\ aborted' = TRUE
    /\ UNCHANGED <<kernel, ctx, table, pc, call, info, timers, sets, cleared>>

\* Back from yield(): the timer is cancelled, the call ends or tries again.
Resume(f) ==
    /\ At(f, "woken")
    /\ armed' = armed \ {f}
    /\ IF info[f].cancelled \/ info[f].op = "connect" THEN Return(f)
       ELSE Goto(f, "try") /\ UNCHANGED info
    /\ UNCHANGED <<kernel, ctx, table, call, queued, setting, cancelling,
                   sets, cleared>>

\* sleep(), usleep(), nanosleep(): a timer that schedules the fiber.
Sleep(f) ==
    /\ At(f, "idle") /\ call[f] < MaxCalls[f]
    /\ call' = [call EXCEPT ![f] = @ + 1]
    /\ Goto(f, "sleep")
    /\ UNCHANGED <<kernel, ctx, table, info, timers, sets, cleared>>
SleepEnds(f) ==
    /\ At(f, "sleep") /\ Return(f)
    /\ UNCHANGED <<kernel, ctx, table, call, timers, sets, cleared>>

-----------------------------------------------------------------------------
(* Timers and events *)

Expire(f) ==
    /\ f \in armed
    /\ armed' = armed \ {f} /\ queued' = queued \cup {<<f, call[f], Dir(f)>>}
    /\ UNCHANGED <<kernel, ctx, table, pc, call, info, setting, cancelling,
                   sets, cleared>>

\* The call of a callback, as long as its timer_info lives.
InCall(f) == pc[f] \in {"try", "add", "wait", "woken"}
Lives(c) == InCall(c[1]) /\ call[c[1]] = c[2]

\* The callback of the condition timer.  weak_ptr: the timer_info of a call
\* that has returned is out of its reach.
TimerRuns(c) ==
    /\ queued' = queued \ {c}
    /\ setting' = IF Lives(c) /\ ~info[c[1]].cancelled
                  THEN setting \cup {c} ELSE setting
    /\ UNCHANGED <<kernel, ctx, table, pc, call, info, armed, cancelling, sets,
                   cleared>>

\* Mutant of TimerSets: the timer_info is the fiber's, not the call's.
TimerSetsShared(c) ==
    /\ setting' = setting \ {c} /\ cancelling' = cancelling \cup {c}
    /\ info' = IF InCall(c[1])
               THEN [info EXCEPT ![c[1]].cancelled = TRUE, ![c[1]].by = c[2]]
               ELSE info
    /\ UNCHANGED <<kernel, ctx, table, pc, call, armed, queued, sets, cleared>>

\* t->cancelled = ETIMEDOUT, in a timer_info that its call may have left...
TimerSets(c) ==
    /\ setting' = setting \ {c} /\ cancelling' = cancelling \cup {c}
    /\ info' = IF Lives(c)
               THEN [info EXCEPT ![c[1]].cancelled = TRUE, ![c[1]].by = c[2]]
               ELSE info
    /\ UNCHANGED <<kernel, ctx, table, pc, call, armed, queued, sets, cleared>>

\* ...and cancelEvent, which wakes whoever waits for the event by now.
TimerCancels(c) ==
    LET g == event[c[3]]
        found == g # None /\ epoll
    IN  /\ cancelling' = cancelling \ {c}
        /\ pc' = IF found THEN [pc EXCEPT ![g] = "woken"] ELSE pc
        /\ event' = IF found THEN [event EXCEPT ![c[3]] = None] ELSE event
        /\ info' = IF Lives(c) /\ ~At(c[1], "woken") /\ ~(found /\ g = c[1])
                   THEN [info EXCEPT ![c[1]].left = TRUE] ELSE info
        /\ UNCHANGED <<kernel, ctx, epoll, call, armed, queued, setting, sets,
                       cleared>>

\* The peer, and epoll.
Arrives(e) ==
    /\ open /\ e \notin ready
    /\ ready' = ready \cup {e}
    /\ UNCHANGED <<open, sockets, nonblock, ctx, table, pc, call, info, timers,
                   sets, cleared>>
EventFires(f) ==
    /\ event[Dir(f)] = f /\ epoll /\ Dir(f) \in ready
    /\ event' = [event EXCEPT ![Dir(f)] = None]
    /\ Goto(f, "woken")
    /\ UNCHANGED <<kernel, ctx, epoll, call, info, timers, sets, cleared>>
\* A thread blocked in the kernel.
Unblocks(f) ==
    /\ At(f, "blocked") /\ (Dir(f) \in ready \/ ~open)
    /\ Return(f)
    /\ UNCHANGED <<kernel, ctx, table, call, timers, sets, cleared>>

-----------------------------------------------------------------------------
(* close(), in three steps *)

CancelAll(f) ==
    /\ At(f, "idle") /\ Known /\ open /\ ctx # None
    /\ \A g \in Fibers : pc[g] \notin {"del", "close"}
    /\ pc' = [g \in Fibers |->
                IF g = f THEN "del"
                ELSE IF epoll /\ event[Dir(g)] = g THEN "woken" ELSE pc[g]]
    /\ event' = IF epoll THEN [e \in Dirs |-> None] ELSE event
    /\ UNCHANGED <<kernel, ctx, epoll, call, info, timers, sets, cleared>>

\* close_f: the kernel forgets the fd, its flags and its registration; an
\* event still registered waits for nothing.
Free ==
    /\ open' = FALSE /\ nonblock' = FALSE /\ ready' = {} /\ epoll' = FALSE
    /\ cleared' = FALSE

\* Mutant of Del: the fd is closed before the context is deleted.
DelLate(f) ==
    /\ At(f, "del")
    /\ IF open THEN Free /\ UNCHANGED <<ctx, pc>>
       ELSE ctx' = None /\ Goto(f, "idle")
            /\ UNCHANGED <<open, nonblock, ready, epoll, cleared>>
    /\ UNCHANGED <<sockets, event, call, info, timers, sets>>

Del(f) ==
    /\ At(f, "del")
    /\ ctx' = None
    /\ Goto(f, "close")
    /\ UNCHANGED <<kernel, table, call, info, timers, sets, cleared>>
Close(f) ==
    /\ At(f, "close")
    /\ Free
    /\ info' = [g \in Fibers |->
                  IF event[Dir(g)] = g THEN [info[g] EXCEPT !.left = TRUE]
                  ELSE info[g]]
    /\ Goto(f, "idle")
    /\ UNCHANGED <<sockets, ctx, event, call, timers, sets>>

-----------------------------------------------------------------------------
(* Options *)

Set(f) == At(f, "idle") /\ Known /\ ctx # None /\ sets < MaxSets
              /\ sets' = sets + 1
              /\ UNCHANGED <<table, pc, call, info, timers>>

setsockopt(f, e) ==
    /\ Set(f)
    /\ ctx' = [ctx EXCEPT !.timeouts = @ \cup {e}]
    /\ UNCHANGED <<kernel, cleared>>

\* fcntl(F_SETFL) keeps the O_NONBLOCK that the hook relies on.
fcntl(f, user) ==
    /\ Set(f)
    /\ ctx' = [ctx EXCEPT !.userNonblock = user]
    /\ nonblock' = TRUE
    /\ UNCHANGED <<open, sockets, ready, cleared>>

\* ioctl(FIONBIO) does not.
ioctl(f, user) ==
    /\ Set(f)
    /\ ctx' = [ctx EXCEPT !.userNonblock = user]
    /\ nonblock' = user /\ cleared' = (cleared \/ ~user)
    /\ UNCHANGED <<open, sockets, ready>>

\* What a fiber in a call goes on to do, and what its timers do.
Step(f) ==
    \/ Get(f) \/ Create(f) \/ Try(f) \/ AddEvent(f) \/ Resume(f)
    \/ SleepEnds(f) \/ Del(f) \/ Close(f)
TimerStep ==
    \/ \E c \in queued : TimerRuns(c)
    \/ \E c \in setting : TimerSets(c)
    \/ \E c \in cancelling : TimerCancels(c)

Next ==
    /\ ~aborted
    /\ \/ \E f \in Fibers : AddEventAborts(f)
       \/ /\ UNCHANGED aborted
          /\ \/ \E f \in Fibers :
                \/ Step(f) \/ Expire(f) \/ EventFires(f)
                \/ Socket(f) \/ Sleep(f) \/ CancelAll(f) \/ Unblocks(f)
                \/ \E o \in Ops[f] : Begin(f, o[1], o[2])
                \/ \E e \in Dirs : setsockopt(f, e)
                \/ \E user \in BOOLEAN : fcntl(f, user) \/ ioctl(f, user)
             \/ TimerStep
             \/ \E e \in Dirs : Arrives(e)

Spec == Init /\ [][Next]_vars

\* The scheduler runs every ready fiber and callback, timers expire, epoll
\* reports what is ready; calls, data and closing are up to the program.
Alive(A) == ~aborted /\ UNCHANGED aborted /\ A
FairSpec ==
    /\ Spec
    /\ \A f \in Fibers :
        /\ WF_vars(Alive(Step(f)))
        /\ WF_vars(Alive(Expire(f) \/ EventFires(f)))
    /\ WF_vars(Alive(TimerStep))

-----------------------------------------------------------------------------
(* Properties *)

\* ETIMEDOUT is given only to a call that has a timeout, and by its own timer:
\* a callback that was queued, or had even begun, when its call returned
\* (cancel() does not reach it) does not end the fiber's next call with it
\* (hook.cc:117-124, 242-249).
TimeoutIsOwn ==
    \A f \in Fibers : info[f].cancelled => info[f].to /\ info[f].by = call[f]

\* No call begun on a socket of socket() or accept() blocks the thread: its
\* context exists and O_NONBLOCK is set as long as the fd is open and not
\* being closed, across the reuse of the number (close() deletes the context
\* before the number is free, hook.cc:345-347).  An ioctl(FIONBIO, 0) ends
\* this: unlike fcntl it clears the flag in the kernel (hook.cc:437-452).
ThreadNeverBlocks ==
    open /\ ~cleared =>
        \A f \in Fibers : At(f, "blocked") => info[f].on # sockets

\* A call with a timeout returns; one that is blocked in the kernel has not.
\* The code does not promise it, and this does not say it, of a call
\*   - whose timer ran cancelEvent before addEvent had registered the event
\*     (hook.cc:117-127): it waits with tinfo->cancelled set, and no timer
\*     will wake it (left);
\*   - whose event was registered between the cancelAll and the close_f of a
\*     close() (hook.cc:343-347): cancelEvent fails for it (left);
\*   - whose fd was closed and its number given to another socket: it may
\*     retry there before FdCtx::init has set O_NONBLOCK, and block;
\*   - that blocks on an fd that ioctl(FIONBIO, 0) made blocking
\*     (hook.cc:437-452; left).
TimedCallReturns ==
    \A f \in Fibers :
        LET Pending == InCall(f) \/ At(f, "blocked")
        IN  Pending /\ info[f].to
                ~> ~Pending \/ info[f].left \/ info[f].on # sockets \/ aborted
=============================================================================
