----------------------------- MODULE HookProofs -----------------------------
(***************************************************************************)
(* Proofs about Hook, for every set of fibers, whatever calls each of them *)
(* makes, and every bound on calls, sockets and option changes.            *)
(***************************************************************************)
EXTENDS Hook, TLAPS

-----------------------------------------------------------------------------
(* The inductive invariant *)

Opening == {f \in Fibers : pc[f] \in {"get", "create"}}
Closing == {f \in Fibers : pc[f] \in {"del", "close"}}

Calls == [op : {"io", "connect"}, dir : Dirs, to : BOOLEAN,
          cancelled : BOOLEAN, by : Nat, on : Nat, left : BOOLEAN]
Places == {"idle", "get", "create", "try", "add", "wait", "woken", "blocked",
           "sleep", "del", "close"}
Callbacks == Fibers \X Nat \X Dirs
Types ==
    /\ sockets \in Nat
    /\ call \in [Fibers -> Nat]
    /\ info \in [Fibers -> Calls]
    /\ pc \in [Fibers -> Places]
    /\ event \in [Dirs -> Fibers \cup {None}]
    /\ armed \subseteq Fibers
    /\ queued \subseteq Callbacks /\ setting \subseteq Callbacks
    /\ cancelling \subseteq Callbacks

\* A fiber outside a call has no timeout behind it.
CallInv ==
    \A f \in Fibers : info[f].cancelled =>
        /\ InCall(f) \/ pc[f] = "blocked"
        /\ info[f].to /\ info[f].by = call[f]

\* Timers are those of calls with a timeout, and no callback is of a call to
\* come: one that outlives its call never finds it alive again.
TimerInv ==
    /\ \A f \in armed : pc[f] \in {"add", "wait", "woken"} /\ info[f].to
    /\ \A c \in queued \cup setting :
            c[2] <= call[c[1]] /\ (Lives(c) => info[c[1]].to)

\* A registered fiber is the one that waits.
EventInv ==
    \A e \in Dirs : event[e] # None =>
        pc[event[e]] = "wait" /\ info[event[e]].dir = e

\* The number is opened by one fiber at a time and closed by one at a time,
\* never both; while it is free it has no context.
OpenInv ==
    /\ ~open => ctx = None /\ Closing = {}
    /\ \A f \in Opening : open /\ ctx = None /\ Opening = {f} /\ Closing = {}
    /\ \A f \in Closing : Closing = {f} /\ (pc[f] = "close" => ctx = None)

\* The flag of the kernel, and which calls began on the present socket.
BlockInv ==
    /\ open /\ ~cleared /\ Opening = {} => nonblock
    /\ \A f \in Fibers : info[f].on <= sockets
    /\ \A f \in Fibers : Opening # {} /\ (InCall(f) \/ pc[f] = "blocked")
            => info[f].on # sockets

IndInv == Types /\ CallInv /\ TimerInv /\ EventInv /\ OpenInv /\ BlockInv
              /\ ThreadNeverBlocks

-----------------------------------------------------------------------------
LEMMA InitInv == Init => IndInv
<1> SUFFICES ASSUME Init PROVE IndInv
  OBVIOUS
<1>1. Types
  BY DEF Init, Types, Calls, NoCall, Places, Dirs
<1>2. CallInv /\ TimerInv /\ EventInv
  BY DEF Init, CallInv, TimerInv, EventInv, NoCall
<1>3. Opening = {} /\ Closing = {}
  BY DEF Init, Opening, Closing
<1>4. OpenInv /\ BlockInv /\ ThreadNeverBlocks
  BY <1>3 DEF Init, OpenInv, BlockInv, ThreadNeverBlocks, NoCall
<1>5. QED
  BY <1>1, <1>2, <1>4 DEF IndInv

\* Records of calls stay what they are.
LEMMA CallTypes ==
    /\ NoCall \in Calls
    /\ \A r \in Calls, n \in Nat, e \in Dirs :
            [r EXCEPT !.dir = e, !.on = n] \in Calls
    /\ \A r \in Calls, b \in BOOLEAN : [r EXCEPT !.left = b] \in Calls
    /\ \A r \in Calls, n \in Nat :
            [r EXCEPT !.cancelled = TRUE, !.by = n] \in Calls
    /\ \A o \in {"io", "connect"}, e \in Dirs, n \in Nat, b \in BOOLEAN :
            [NoCall EXCEPT !.op = o, !.dir = e, !.on = n, !.to = b] \in Calls
  BY DEF NoCall, Calls, Dirs

\* What a step does to the types.
LEMMA TypesStep == Types /\ [Next]_vars => Types'
<1> SUFFICES ASSUME Types, [Next]_vars PROVE Types'
  OBVIOUS
<1> USE HookAssumption DEF Types, Goto, Return, Places, kernel, table, timers
<1>1. ASSUME NEW f \in Fibers, Step(f) PROVE Types'
  <2>1. CASE Get(f)
    BY <2>1 DEF Get
  <2>2. CASE Create(f)
    BY CallTypes, <2>2 DEF Create
  <2>3. CASE Try(f)
    <3>1. CASE ~open \/ Dir(f) \in ready
      BY CallTypes, <2>3, <3>1 DEF Try
    <3>2. CASE ~(~open \/ Dir(f) \in ready)
      <4> DEFINE b == info[f].left \/ (~nonblock /\ cleared)
      <4>1. info' = [info EXCEPT ![f] = [info[f] EXCEPT !.left = b]]
        BY <2>3, <3>2 DEF Try
      <4>2. b \in BOOLEAN
        OBVIOUS
      <4> HIDE DEF b
      <4>3. info' \in [Fibers -> Calls]
        BY CallTypes, <4>1, <4>2
      <4>4. pc' \in [Fibers -> Places] /\ armed' \subseteq Fibers
        BY <2>3, <3>2 DEF Try
      <4>5. UNCHANGED <<sockets, call, event, queued, setting, cancelling>>
        BY <2>3 DEF Try
      <4>6. QED
        BY <4>3, <4>4, <4>5
    <3>3. QED
      BY <3>1, <3>2
  <2>4. CASE AddEvent(f)
    <3> DEFINE ok == open /\ (epoll \/ \A e \in Dirs : event[e] = None)
    <3>1. CASE ok
      <4>1. Dir(f) \in Dirs
        BY DEF Dir, Calls
      <4>2. QED
        BY <2>4, <3>1, <4>1 DEF AddEvent
    <3>2. CASE ~ok
      BY CallTypes, <2>4, <3>2 DEF AddEvent
    <3>3. QED
      BY <3>1, <3>2
  <2>5. CASE Resume(f)
    <3>1. CASE info[f].cancelled \/ info[f].op = "connect"
      BY CallTypes, <2>5, <3>1 DEF Resume
    <3>2. CASE ~(info[f].cancelled \/ info[f].op = "connect")
      BY CallTypes, <2>5, <3>2 DEF Resume
    <3>3. QED
      BY <3>1, <3>2
  <2>6. CASE SleepEnds(f)
    BY CallTypes, <2>6 DEF SleepEnds
  <2>7. CASE Del(f)
    BY <2>7 DEF Del
  <2>8. CASE Close(f)
    BY CallTypes, <2>8 DEF Close, Free
  <2>9. QED
    BY <1>1, <2>1, <2>2, <2>3, <2>4, <2>5, <2>6, <2>7, <2>8 DEF Step
<1>2. ASSUME NEW f \in Fibers, Expire(f) PROVE Types'
  <2>1. <<f, call[f], Dir(f)>> \in Callbacks
    BY DEF Callbacks, Dir, Calls
  <2>2. QED
    BY <1>2, <2>1 DEF Expire
<1>3. ASSUME NEW f \in Fibers, EventFires(f) PROVE Types'
  BY <1>3 DEF EventFires
<1>4. ASSUME NEW f \in Fibers, Socket(f) PROVE Types'
  BY <1>4 DEF Socket
<1>5. ASSUME NEW f \in Fibers, Sleep(f) PROVE Types'
  BY <1>5 DEF Sleep
<1>6. ASSUME NEW f \in Fibers, CancelAll(f) PROVE Types'
  <2>1. UNCHANGED <<sockets, call, info, armed, queued, setting, cancelling>>
    BY <1>6 DEF CancelAll
  <2>2. pc' \in [Fibers -> Places]
    BY <1>6 DEF CancelAll
  <2>3. event' \in [Dirs -> Fibers \cup {None}]
    BY <1>6 DEF CancelAll
  <2>4. QED
    BY <2>1, <2>2, <2>3
<1>7. ASSUME NEW f \in Fibers, Unblocks(f) PROVE Types'
  BY CallTypes, <1>7 DEF Unblocks
<1>8. ASSUME NEW f \in Fibers, NEW o \in Ops[f], Begin(f, o[1], o[2])
      PROVE  Types'
  <2> DEFINE k == o[1]
             e == o[2]
  <2>0. k \in {"io", "connect"} /\ e \in Dirs
    OBVIOUS
  <2> HIDE DEF k, e
  <2>1. UNCHANGED <<sockets, event, timers>> /\ call' \in [Fibers -> Nat]
    BY <1>8 DEF Begin
  <2>2. CASE UNCHANGED <<pc, info>>
    BY <2>1, <2>2
  <2>3. CASE Goto(f, "blocked")
               /\ info' = [info EXCEPT ![f].dir = e, ![f].on = sockets]
    <3>1. info' = [info EXCEPT ![f] = [info[f] EXCEPT !.dir = e, !.on = sockets]]
      BY <2>3
    <3>2. info[f] \in Calls /\ sockets \in Nat
      OBVIOUS
    <3>3. [info[f] EXCEPT !.dir = e, !.on = sockets] \in Calls
      BY CallTypes, <2>0, <3>2
    <3>4. QED
      BY <2>1, <2>3, <3>1, <3>3
  <2>4. CASE ctx # None /\ ~ctx.userNonblock /\ Goto(f, "try")
               /\ info' = [info EXCEPT ![f] =
                    [NoCall EXCEPT !.op = k, !.dir = e, !.on = sockets,
                        !.to = k = "connect" \/ e \in ctx.timeouts]]
    <3> DEFINE to == k = "connect" \/ e \in ctx.timeouts
    <3>1. to \in BOOLEAN
      OBVIOUS
    <3>2. info' = [info EXCEPT ![f] = [NoCall EXCEPT !.op = k, !.dir = e,
                                           !.on = sockets, !.to = to]]
      BY <2>4
    <3> HIDE DEF to
    <3>3. [NoCall EXCEPT !.op = k, !.dir = e, !.on = sockets, !.to = to] \in Calls
      BY CallTypes, <2>0, <3>1
    <3>4. QED
      BY <2>1, <2>4, <3>2, <3>3
  <2>5. QED
    BY <1>8, <2>2, <2>3, <2>4 DEF Begin, Plain, k, e
<1>9. ASSUME NEW f \in Fibers, NEW e \in Dirs, setsockopt(f, e)
      PROVE  Types'
  BY <1>9 DEF setsockopt, Set
<1>10. ASSUME NEW f \in Fibers, NEW user \in BOOLEAN,
              fcntl(f, user) \/ ioctl(f, user)
       PROVE  Types'
  BY <1>10 DEF fcntl, ioctl, Set
<1>11. ASSUME NEW c \in queued, TimerRuns(c) PROVE Types'
  BY <1>11 DEF TimerRuns
<1>12. ASSUME NEW c \in setting, TimerSets(c) PROVE Types'
  <2> DEFINE f == c[1]
             n == c[2]
  <2>0. f \in Fibers /\ n \in Nat
    BY DEF Callbacks
  <2> HIDE DEF f, n
  <2>1. info' \in [Fibers -> Calls]
    <3>1. \/ info' = info
          \/ info' = [info EXCEPT ![f] = [info[f] EXCEPT !.cancelled = TRUE,
                                                         !.by = n]]
      BY <1>12 DEF TimerSets, f, n
    <3>2. info[f] \in Calls
      BY <2>0
    <3>3. [info[f] EXCEPT !.cancelled = TRUE, !.by = n] \in Calls
      BY CallTypes, <2>0, <3>2
    <3>4. QED
      BY <3>1, <3>3
  <2>2. QED
    BY <1>12, <2>1 DEF TimerSets
<1>13. ASSUME NEW c \in cancelling, TimerCancels(c) PROVE Types'
  <2> DEFINE f == c[1]
             e == c[3]
  <2>0. f \in Fibers /\ e \in Dirs
    BY DEF Callbacks
  <2> HIDE DEF f, e
  <2>1. info' \in [Fibers -> Calls]
    <3>1. info' = info \/ info' = [info EXCEPT ![f] = [info[f] EXCEPT !.left = TRUE]]
      BY <1>13 DEF TimerCancels, f
    <3>2. info[f] \in Calls
      BY <2>0
    <3>3. [info[f] EXCEPT !.left = TRUE] \in Calls
      BY CallTypes, <3>2
    <3>4. QED
      BY <3>1, <3>3
  <2>2. /\ \/ pc' = pc
           \/ event[e] # None /\ pc' = [pc EXCEPT ![event[e]] = "woken"]
        /\ event' = event \/ event' = [event EXCEPT ![e] = None]
    BY <1>13 DEF TimerCancels, e
  <2>3. UNCHANGED <<sockets, call, armed, queued, setting>>
          /\ cancelling' \subseteq cancelling
    BY <1>13 DEF TimerCancels
  <2>4. QED
    BY <2>0, <2>1, <2>2, <2>3
<1>14. ASSUME NEW e \in Dirs, Arrives(e) PROVE Types'
  BY <1>14 DEF Arrives
<1>15. ASSUME NEW f \in Fibers, AddEventAborts(f) PROVE Types'
  BY <1>15 DEF AddEventAborts
<1>16. CASE UNCHANGED vars
  BY <1>16 DEF vars
<1>17. QED
  BY <1>1, <1>2, <1>3, <1>4, <1>5, <1>6, <1>7, <1>8, <1>9, <1>10, <1>11, <1>12,
     <1>13, <1>14, <1>15, <1>16 DEF Next, TimerStep

\* What Begin makes of the call.
LEMMA BeginInfo ==
    ASSUME NEW f \in Fibers, NEW o, NEW e, Begin(f, o, e), Types
    PROVE  /\ \A g \in Fibers : info'[g].on \in {info[g].on, sockets}
           /\ ~info[f].cancelled => ~info'[f].cancelled
<1> DEFINE b == o = "connect" \/ e \in ctx.timeouts
           c == [NoCall EXCEPT !.op = o, !.dir = e, !.on = sockets, !.to = b]
<1>1. \/ UNCHANGED info
      \/ info' = [info EXCEPT ![f].dir = e, ![f].on = sockets]
      \/ info' = [info EXCEPT ![f] = c]
  BY DEF Begin, Plain
<1> HIDE DEF b
<1>2. c.on = sockets /\ ~c.cancelled
  BY DEF NoCall
<1> HIDE DEF c
<1>3. QED
  BY <1>1, <1>2 DEF Types, Calls

\* A callback that is run does not move the call, whatever it does to others.
LEMMA SetsInfo ==
    ASSUME Types, NEW c \in setting, TimerSets(c)
    PROVE  \A g \in Fibers :
              /\ info'[g].on = info[g].on /\ info'[g].dir = info[g].dir
              /\ info'[g].to = info[g].to
              /\ \/ info'[g] = info[g]
                 \/ g = c[1] /\ Lives(c) /\ info'[g].by = c[2]
<1> DEFINE f == c[1]
           n == c[2]
<1>1. \/ info' = info
      \/ /\ Lives(c)
         /\ info' = [info EXCEPT ![f] = [info[f] EXCEPT !.cancelled = TRUE,
                                                       !.by = n]]
  BY DEF TimerSets
<1>2. info \in [Fibers -> Calls]
  BY DEF Types
<1> HIDE DEF f, n
<1>3. \A g \in Fibers :
        /\ info'[g].on = info[g].on /\ info'[g].dir = info[g].dir
        /\ info'[g].to = info[g].to
        /\ \/ info'[g] = info[g]
           \/ g = f /\ Lives(c) /\ info'[g].by = n
  <2>1. CASE info' = info
    BY <2>1
  <2>2. ASSUME Lives(c), info' = [info EXCEPT ![f] =
                    [info[f] EXCEPT !.cancelled = TRUE, !.by = n]],
               NEW g \in Fibers
        PROVE  /\ info'[g].on = info[g].on /\ info'[g].dir = info[g].dir
               /\ info'[g].to = info[g].to
               /\ \/ info'[g] = info[g]
                  \/ g = f /\ Lives(c) /\ info'[g].by = n
    <3>1. CASE g = f
      <4>1. info'[g] = [info[g] EXCEPT !.cancelled = TRUE, !.by = n]
        BY <1>2, <2>2, <3>1
      <4>2. info[g] \in Calls
        BY <1>2
      <4>3. QED
        BY <2>2, <3>1, <4>1, <4>2 DEF Calls
    <3>2. CASE g # f
      BY <1>2, <2>2, <3>2
    <3>3. QED
      BY <3>1, <3>2
  <2>3. QED
    BY <1>1, <2>1, <2>2
<1>4. QED
  BY <1>3 DEF f, n

LEMMA CancelsInfo ==
    ASSUME Types, NEW c \in cancelling, TimerCancels(c)
    PROVE  /\ \A g \in Fibers :
              /\ info'[g].on = info[g].on /\ info'[g].dir = info[g].dir
              /\ info'[g].to = info[g].to /\ info'[g].by = info[g].by
              /\ info'[g].cancelled = info[g].cancelled
           /\ c[3] \in Dirs
           /\ \/ pc' = pc /\ event' = event
              \/ /\ event[c[3]] # None
                 /\ pc' = [pc EXCEPT ![event[c[3]]] = "woken"]
                 /\ event' = [event EXCEPT ![c[3]] = None]
<1> DEFINE f == c[1]
<1>1. info' = info \/ info' = [info EXCEPT ![f] = [info[f] EXCEPT !.left = TRUE]]
  BY DEF TimerCancels
<1>2. info \in [Fibers -> Calls] /\ c[3] \in Dirs
  BY DEF Types, Callbacks
<1> HIDE DEF f
<1>3. \A g \in Fibers :
        /\ info'[g].on = info[g].on /\ info'[g].dir = info[g].dir
        /\ info'[g].to = info[g].to /\ info'[g].by = info[g].by
        /\ info'[g].cancelled = info[g].cancelled
  BY <1>1, <1>2 DEF Calls
<1>4. \/ pc' = pc /\ event' = event
      \/ /\ event[c[3]] # None
         /\ pc' = [pc EXCEPT ![event[c[3]]] = "woken"]
         /\ event' = [event EXCEPT ![c[3]] = None]
  BY DEF TimerCancels
<1>5. QED
  BY <1>2, <1>3, <1>4

\* A step after which a fiber is out of its call, or still in it.
LEMMA BlockKept ==
    ASSUME Types, BlockInv, NEW f \in Fibers, InCall(f),
           UNCHANGED <<open, cleared, nonblock, sockets, Opening>>,
           \A g \in Fibers \ {f} : pc'[g] = pc[g] /\ info'[g] = info[g],
           \/ pc'[f] = "idle" /\ info'[f].on = 0
           \/ info'[f].on = info[f].on
    PROVE  BlockInv'
<1>1. \A g \in Fibers : info[g].on \in Nat /\ info[g].on <= sockets
  BY DEF Types, Calls, BlockInv
<1>2. \A g \in Fibers : info'[g].on <= sockets
  BY <1>1 DEF Types
<1>3. ASSUME NEW g \in Fibers, Opening' # {}, InCall(g)' \/ pc'[g] = "blocked"
      PROVE  info'[g].on # sockets'
  <2>1. CASE g = f
    BY <1>3, <2>1 DEF BlockInv, InCall
  <2>2. CASE g # f
    BY <1>3, <2>2 DEF BlockInv, InCall
  <2>3. QED
    BY <2>1, <2>2
<1>4. QED
  BY <1>2, <1>3 DEF BlockInv

\* What a step does to CallInv.
LEMMA CallStep == IndInv /\ [Next]_vars => CallInv'
<1> SUFFICES ASSUME IndInv, [Next]_vars PROVE CallInv'
  OBVIOUS
<1>0. Types'
  BY TypesStep DEF IndInv
<1> USE <1>0, HookAssumption DEF IndInv, Types, CallInv, InCall, At, Goto,
            Return, NoCall, Calls, kernel, table, timers
<1>1. ASSUME NEW f \in Fibers, Step(f) PROVE CallInv'
  <2>1. CASE Get(f)
    BY <2>1 DEF Get
  <2>2. CASE Create(f)
    BY <2>2 DEF Create
  <2>3. CASE Try(f)
    BY <2>3 DEF Try
  <2>4. CASE AddEvent(f)
    BY <2>4 DEF AddEvent
  <2>5. CASE Resume(f)
    BY <2>5 DEF Resume
  <2>6. CASE SleepEnds(f)
    BY <2>6 DEF SleepEnds
  <2>7. CASE Del(f)
    BY <2>7 DEF Del
  <2>8. CASE Close(f)
    <3>1. UNCHANGED call /\ \A g \in Fibers : g # f => pc'[g] = pc[g]
      BY <2>8 DEF Close
    <3>2. \A g \in Fibers : /\ info'[g].cancelled = info[g].cancelled
                            /\ info'[g].to = info[g].to
                            /\ info'[g].by = info[g].by
      BY <2>8 DEF Close
    <3>3. ~info[f].cancelled
      BY <2>8 DEF Close
    <3>4. QED
      BY <3>1, <3>2, <3>3
  <2>9. QED
    BY <1>1, <2>1, <2>2, <2>3, <2>4, <2>5, <2>6, <2>7, <2>8 DEF Step
<1>2. ASSUME NEW f \in Fibers, Expire(f) PROVE CallInv'
  BY <1>2 DEF Expire
<1>3. ASSUME NEW f \in Fibers, EventFires(f) PROVE CallInv'
  BY <1>3 DEF EventFires
<1>4. ASSUME NEW f \in Fibers, Socket(f) PROVE CallInv'
  BY <1>4 DEF Socket
<1>5. ASSUME NEW f \in Fibers, Sleep(f) PROVE CallInv'
  BY <1>5 DEF Sleep
<1>6. ASSUME NEW f \in Fibers, CancelAll(f) PROVE CallInv'
  BY <1>6 DEF CancelAll, EventInv
<1>7. ASSUME NEW f \in Fibers, Unblocks(f) PROVE CallInv'
  BY <1>7 DEF Unblocks
<1>8. ASSUME NEW f \in Fibers, NEW o \in Ops[f], Begin(f, o[1], o[2])
      PROVE  CallInv'
  <2>1. \A g \in Fibers \ {f} : /\ pc'[g] = pc[g] /\ info'[g] = info[g]
                                 /\ call'[g] = call[g]
    BY <1>8 DEF Begin, Plain
  <2>2. ~info[f].cancelled
    BY <1>8 DEF Begin
  <2>3. ~info'[f].cancelled
    BY <1>8, <2>2, BeginInfo
  <2>4. QED
    BY <2>1, <2>3
<1>9. ASSUME NEW f \in Fibers, NEW e \in Dirs, setsockopt(f, e)
      PROVE  CallInv'
  BY <1>9 DEF setsockopt, Set
<1>10. ASSUME NEW f \in Fibers, NEW user \in BOOLEAN,
              fcntl(f, user) \/ ioctl(f, user)
       PROVE  CallInv'
  BY <1>10 DEF fcntl, ioctl, Set
<1>11. ASSUME NEW c \in queued, TimerRuns(c) PROVE CallInv'
  BY <1>11 DEF TimerRuns
<1>12. ASSUME NEW c \in setting, TimerSets(c) PROVE CallInv'
  <2>1. UNCHANGED <<pc, call>>
    BY <1>12 DEF TimerSets
  <2>2. ASSUME NEW g \in Fibers, g = c[1], Lives(c), info'[g].by = c[2],
               info'[g].to = info[g].to
        PROVE  InCall(g)' /\ info'[g].to /\ info'[g].by = call'[g]
    BY <2>1, <2>2 DEF Lives, TimerInv
  <2>3. QED
    BY <1>12, <2>1, <2>2, SetsInfo
<1>13. ASSUME NEW c \in cancelling, TimerCancels(c) PROVE CallInv'
  <2>1. UNCHANGED call
    BY <1>13 DEF TimerCancels
  <2>2. \A g \in Fibers : pc'[g] = pc[g] \/ pc'[g] = "woken"
    BY <1>13, CancelsInfo
  <2>3. \A g \in Fibers : pc[g] = "wait" \/ pc'[g] = pc[g]
    BY <1>13, CancelsInfo DEF EventInv
  <2>4. QED
    BY <1>13, <2>1, <2>2, <2>3, CancelsInfo
<1>14. ASSUME NEW e \in Dirs, Arrives(e) PROVE CallInv'
  BY <1>14 DEF Arrives
<1>15. ASSUME NEW f \in Fibers, AddEventAborts(f) PROVE CallInv'
  BY <1>15 DEF AddEventAborts
<1>16. CASE UNCHANGED vars
  BY <1>16 DEF vars
<1>17. QED
  BY <1>1, <1>2, <1>3, <1>4, <1>5, <1>6, <1>7, <1>8, <1>9, <1>10, <1>11, <1>12,
     <1>13, <1>14, <1>15, <1>16 DEF Next, TimerStep

\* What a step does to TimerInv.
LEMMA TimerInvStep == IndInv /\ [Next]_vars => TimerInv'
<1> SUFFICES ASSUME IndInv, [Next]_vars PROVE TimerInv'
  OBVIOUS
<1>0. Types'
  BY TypesStep DEF IndInv
<1> USE <1>0, HookAssumption DEF IndInv, Types, TimerInv, Lives, InCall, At, Goto,
            Return, NoCall, Calls, Callbacks, kernel, table, timers
<1>1. ASSUME NEW f \in Fibers, Step(f) PROVE TimerInv'
  <2>1. CASE Get(f)
    BY <2>1 DEF Get
  <2>2. CASE Create(f)
    BY <2>2 DEF Create
  <2>3. CASE Try(f)
    <3>1. \A g \in Fibers : \/ info'[g].to = info[g].to
                            \/ g = f /\ pc'[f] = "idle"
      <4>1. CASE ~open \/ Dir(f) \in ready
        BY <2>3, <4>1 DEF Try
      <4>2. CASE info' = [info EXCEPT ![f].left = @ \/ (~nonblock /\ cleared)]
        BY <4>2
      <4>3. QED
        BY <2>3, <4>1, <4>2 DEF Try
    <3>2. UNCHANGED <<call, queued, setting>>
            /\ \A g \in Fibers : g # f => pc'[g] = pc[g]
      BY <2>3 DEF Try
    <3>3. /\ armed' \subseteq armed \cup {f} /\ f \notin armed
          /\ f \in armed' => info[f].to /\ pc'[f] = "add"
      BY <2>3 DEF Try
    <3>4. \A c \in queued \cup setting : c[1] \in Fibers /\ c[2] \in Nat
      OBVIOUS
    <3>5. InCall(f)
      BY <2>3 DEF Try
    <3>6. QED
      BY <3>1, <3>2, <3>3, <3>4, <3>5
  <2>4. CASE AddEvent(f)
    BY <2>4 DEF AddEvent
  <2>5. CASE Resume(f)
    BY <2>5 DEF Resume
  <2>6. CASE SleepEnds(f)
    BY <2>6 DEF SleepEnds
  <2>7. CASE Del(f)
    BY <2>7 DEF Del
  <2>8. CASE Close(f)
    BY <2>8 DEF Close, Free
  <2>9. QED
    BY <1>1, <2>1, <2>2, <2>3, <2>4, <2>5, <2>6, <2>7, <2>8 DEF Step
<1>2. ASSUME NEW f \in Fibers, Expire(f) PROVE TimerInv'
  BY <1>2 DEF Expire
<1>3. ASSUME NEW f \in Fibers, EventFires(f) PROVE TimerInv'
  BY <1>3 DEF EventFires, EventInv, Dir
<1>4. ASSUME NEW f \in Fibers, Socket(f) PROVE TimerInv'
  BY <1>4 DEF Socket
<1>5. ASSUME NEW f \in Fibers, Sleep(f) PROVE TimerInv'
  BY <1>5 DEF Sleep
<1>6. ASSUME NEW f \in Fibers, CancelAll(f) PROVE TimerInv'
  <2>1. UNCHANGED <<call, info, armed, queued, setting>>
    BY <1>6 DEF CancelAll
  <2>2. \A g \in Fibers : \/ pc'[g] = pc[g]
                          \/ g = f /\ pc[f] = "idle" /\ pc'[f] = "del"
                          \/ pc[g] = "wait" /\ pc'[g] = "woken"
    BY <1>6 DEF CancelAll, EventInv, Dir
  <2>3. QED
    BY <2>1, <2>2
<1>7. ASSUME NEW f \in Fibers, Unblocks(f) PROVE TimerInv'
  BY <1>7 DEF Unblocks
<1>8. ASSUME NEW f \in Fibers, NEW o \in Ops[f], Begin(f, o[1], o[2])
      PROVE  TimerInv'
  BY <1>8 DEF Begin, Plain
<1>9. ASSUME NEW f \in Fibers, NEW e \in Dirs, setsockopt(f, e)
      PROVE  TimerInv'
  BY <1>9 DEF setsockopt, Set
<1>10. ASSUME NEW f \in Fibers, NEW user \in BOOLEAN,
              fcntl(f, user) \/ ioctl(f, user)
       PROVE  TimerInv'
  BY <1>10 DEF fcntl, ioctl, Set
<1>11. ASSUME NEW c \in queued, TimerRuns(c) PROVE TimerInv'
  BY <1>11 DEF TimerRuns
<1>12. ASSUME NEW c \in setting, TimerSets(c) PROVE TimerInv'
  BY <1>12 DEF TimerSets
<1>13. ASSUME NEW c \in cancelling, TimerCancels(c) PROVE TimerInv'
  <2>1. UNCHANGED <<call, armed, queued, setting>>
    BY <1>13 DEF TimerCancels
  <2>2. \A g \in Fibers : \/ pc'[g] = pc[g]
                          \/ pc[g] = "wait" /\ pc'[g] = "woken"
    BY <1>13, CancelsInfo DEF EventInv
  <2>3. \A g \in Fibers : info'[g].to = info[g].to
    BY <1>13, CancelsInfo
  <2>4. QED
    BY <2>1, <2>2, <2>3
<1>14. ASSUME NEW e \in Dirs, Arrives(e) PROVE TimerInv'
  BY <1>14 DEF Arrives
<1>15. ASSUME NEW f \in Fibers, AddEventAborts(f) PROVE TimerInv'
  BY <1>15 DEF AddEventAborts
<1>16. CASE UNCHANGED vars
  BY <1>16 DEF vars
<1>17. QED
  BY <1>1, <1>2, <1>3, <1>4, <1>5, <1>6, <1>7, <1>8, <1>9, <1>10, <1>11, <1>12,
     <1>13, <1>14, <1>15, <1>16 DEF Next, TimerStep

\* What a step does to EventInv.
LEMMA EventStep == IndInv /\ [Next]_vars => EventInv'
<1> SUFFICES ASSUME IndInv, [Next]_vars PROVE EventInv'
  OBVIOUS
<1>0. Types'
  BY TypesStep DEF IndInv
<1> USE <1>0, HookAssumption DEF IndInv, Types, EventInv, Dir, At, Goto, Return,
            kernel, table, timers
<1>1. ASSUME NEW f \in Fibers, Step(f) PROVE EventInv'
  <2>1. CASE Get(f)
    BY <2>1 DEF Get
  <2>2. CASE Create(f)
    BY <2>2 DEF Create
  <2>3. CASE Try(f)
    BY <2>3 DEF Try
  <2>4. CASE AddEvent(f)
    BY <2>4 DEF AddEvent
  <2>5. CASE Resume(f)
    BY <2>5 DEF Resume
  <2>6. CASE SleepEnds(f)
    BY <2>6 DEF SleepEnds
  <2>7. CASE Del(f)
    BY <2>7 DEF Del
  <2>8. CASE Close(f)
    <3>1. UNCHANGED event /\ \A g \in Fibers : g # f => pc'[g] = pc[g]
      BY <2>8 DEF Close
    <3>2. \A g \in Fibers : info'[g].dir = info[g].dir
      BY <2>8 DEF Close, Calls
    <3>3. pc[f] # "wait"
      BY <2>8 DEF Close
    <3>4. QED
      BY <3>1, <3>2, <3>3
  <2>9. QED
    BY <1>1, <2>1, <2>2, <2>3, <2>4, <2>5, <2>6, <2>7, <2>8 DEF Step
<1>2. ASSUME NEW f \in Fibers, Expire(f) PROVE EventInv'
  BY <1>2 DEF Expire
<1>3. ASSUME NEW f \in Fibers, EventFires(f) PROVE EventInv'
  BY <1>3 DEF EventFires
<1>4. ASSUME NEW f \in Fibers, Socket(f) PROVE EventInv'
  BY <1>4 DEF Socket
<1>5. ASSUME NEW f \in Fibers, Sleep(f) PROVE EventInv'
  BY <1>5 DEF Sleep
<1>6. ASSUME NEW f \in Fibers, CancelAll(f) PROVE EventInv'
  BY <1>6 DEF CancelAll
<1>7. ASSUME NEW f \in Fibers, Unblocks(f) PROVE EventInv'
  BY <1>7 DEF Unblocks
<1>8. ASSUME NEW f \in Fibers, NEW o \in Ops[f], Begin(f, o[1], o[2])
      PROVE  EventInv'
  BY <1>8 DEF Begin, Plain
<1>9. ASSUME NEW f \in Fibers, NEW e \in Dirs, setsockopt(f, e)
      PROVE  EventInv'
  BY <1>9 DEF setsockopt, Set
<1>10. ASSUME NEW f \in Fibers, NEW user \in BOOLEAN,
              fcntl(f, user) \/ ioctl(f, user)
       PROVE  EventInv'
  BY <1>10 DEF fcntl, ioctl, Set
<1>11. ASSUME NEW c \in queued, TimerRuns(c) PROVE EventInv'
  BY <1>11 DEF TimerRuns
<1>12. ASSUME NEW c \in setting, TimerSets(c) PROVE EventInv'
  <2>1. UNCHANGED <<pc, event>>
    BY <1>12 DEF TimerSets
  <2>2. QED
    BY <1>12, <2>1, SetsInfo
<1>13. ASSUME NEW c \in cancelling, TimerCancels(c) PROVE EventInv'
  BY <1>13, CancelsInfo
<1>14. ASSUME NEW e \in Dirs, Arrives(e) PROVE EventInv'
  BY <1>14 DEF Arrives
<1>15. ASSUME NEW f \in Fibers, AddEventAborts(f) PROVE EventInv'
  BY <1>15 DEF AddEventAborts
<1>16. CASE UNCHANGED vars
  BY <1>16 DEF vars
<1>17. QED
  BY <1>1, <1>2, <1>3, <1>4, <1>5, <1>6, <1>7, <1>8, <1>9, <1>10, <1>11, <1>12,
     <1>13, <1>14, <1>15, <1>16 DEF Next, TimerStep

\* What a step does to OpenInv.
LEMMA OpenStep == IndInv /\ [Next]_vars => OpenInv'
<1> SUFFICES ASSUME IndInv, [Next]_vars PROVE OpenInv'
  OBVIOUS
<1>0. Types'
  BY TypesStep DEF IndInv
<1> USE <1>0, HookAssumption DEF IndInv, Types, EventInv, OpenInv, Opening, Closing,
            Known, At, Goto, Return, Places, kernel, table, timers
<1>1. ASSUME NEW f \in Fibers, Step(f) PROVE OpenInv'
  <2>1. CASE Get(f)
    BY <2>1 DEF Get
  <2>2. CASE Create(f)
    BY <2>2 DEF Create
  <2>3. CASE Try(f)
    BY <2>3 DEF Try
  <2>4. CASE AddEvent(f)
    BY <2>4 DEF AddEvent
  <2>5. CASE Resume(f)
    BY <2>5 DEF Resume
  <2>6. CASE SleepEnds(f)
    BY <2>6 DEF SleepEnds
  <2>7. CASE Del(f)
    BY <2>7 DEF Del
  <2>8. CASE Close(f)
    <3>1. Closing = {f} /\ Opening = {}
      BY <2>8 DEF Close
    <3>2. Closing' = {} /\ Opening' = {}
      BY <2>8, <3>1 DEF Close
    <3>3. ctx' = None
      BY <2>8 DEF Close
    <3>4. QED
      BY <3>2, <3>3
  <2>9. QED
    BY <1>1, <2>1, <2>2, <2>3, <2>4, <2>5, <2>6, <2>7, <2>8 DEF Step
<1>2. ASSUME NEW f \in Fibers, Expire(f) PROVE OpenInv'
  BY <1>2 DEF Expire
<1>3. ASSUME NEW f \in Fibers, EventFires(f) PROVE OpenInv'
  BY <1>3 DEF EventFires
<1>4. ASSUME NEW f \in Fibers, Socket(f) PROVE OpenInv'
  BY <1>4 DEF Socket
<1>5. ASSUME NEW f \in Fibers, Sleep(f) PROVE OpenInv'
  BY <1>5 DEF Sleep
<1>6. ASSUME NEW f \in Fibers, CancelAll(f) PROVE OpenInv'
  BY <1>6 DEF CancelAll
<1>7. ASSUME NEW f \in Fibers, Unblocks(f) PROVE OpenInv'
  BY <1>7 DEF Unblocks
<1>8. ASSUME NEW f \in Fibers, NEW o \in Ops[f], Begin(f, o[1], o[2])
      PROVE  OpenInv'
  BY <1>8 DEF Begin, Plain
<1>9. ASSUME NEW f \in Fibers, NEW e \in Dirs, setsockopt(f, e)
      PROVE  OpenInv'
  BY <1>9 DEF setsockopt, Set
<1>10. ASSUME NEW f \in Fibers, NEW user \in BOOLEAN,
              fcntl(f, user) \/ ioctl(f, user)
       PROVE  OpenInv'
  BY <1>10 DEF fcntl, ioctl, Set
<1>11. ASSUME NEW c \in queued, TimerRuns(c) PROVE OpenInv'
  BY <1>11 DEF TimerRuns
<1>12. ASSUME NEW c \in setting, TimerSets(c) PROVE OpenInv'
  BY <1>12 DEF TimerSets
<1>13. ASSUME NEW c \in cancelling, TimerCancels(c) PROVE OpenInv'
  <2>1. Opening' = Opening /\ Closing' = Closing
          /\ \A g \in Closing : pc'[g] = pc[g]
    BY <1>13, CancelsInfo
  <2>2. UNCHANGED <<open, ctx>>
    BY <1>13 DEF TimerCancels
  <2>3. QED
    BY <2>1, <2>2
<1>14. ASSUME NEW e \in Dirs, Arrives(e) PROVE OpenInv'
  BY <1>14 DEF Arrives
<1>15. ASSUME NEW f \in Fibers, AddEventAborts(f) PROVE OpenInv'
  BY <1>15 DEF AddEventAborts
<1>16. CASE UNCHANGED vars
  BY <1>16 DEF vars
<1>17. QED
  BY <1>1, <1>2, <1>3, <1>4, <1>5, <1>6, <1>7, <1>8, <1>9, <1>10, <1>11, <1>12,
     <1>13, <1>14, <1>15, <1>16 DEF Next, TimerStep

\* What a step does to BlockInv.
LEMMA BlockStep == IndInv /\ [Next]_vars => BlockInv'
<1> SUFFICES ASSUME IndInv, [Next]_vars PROVE BlockInv'
  OBVIOUS
<1>0. Types'
  BY TypesStep DEF IndInv
<1> USE <1>0, HookAssumption DEF IndInv, Types, EventInv, OpenInv, BlockInv, Opening,
            Closing, Known, InCall, At, Goto, Return, NoCall, Calls, Places, kernel,
            table, timers
<1>1. ASSUME NEW f \in Fibers, Step(f) PROVE BlockInv'
  <2>1. CASE Get(f)
    BY <2>1 DEF Get
  <2>2. CASE Create(f)
    BY <2>2 DEF Create
  <2>3. CASE Try(f)
    <3>1. InCall(f) /\ UNCHANGED <<open, cleared, nonblock, sockets>>
      BY <2>3 DEF Try
    <3>2. Opening' = Opening
      BY <2>3 DEF Try
    <3>3. /\ \A g \in Fibers \ {f} : pc'[g] = pc[g] /\ info'[g] = info[g]
          /\ \/ pc'[f] = "idle" /\ info'[f].on = 0
             \/ info'[f].on = info[f].on
      BY <2>3 DEF Try
    <3> HIDE DEF Types, BlockInv, Opening, InCall
    <3>4. QED
      BY BlockKept, <3>1, <3>2, <3>3
  <2>4. CASE AddEvent(f)
    <3>1. InCall(f) /\ UNCHANGED <<open, cleared, nonblock, sockets>>
      BY <2>4 DEF AddEvent
    <3>2. Opening' = Opening
      BY <2>4 DEF AddEvent
    <3>3. /\ \A g \in Fibers \ {f} : pc'[g] = pc[g] /\ info'[g] = info[g]
          /\ \/ pc'[f] = "idle" /\ info'[f].on = 0
             \/ info'[f].on = info[f].on
      BY <2>4 DEF AddEvent
    <3> HIDE DEF Types, BlockInv, Opening, InCall
    <3>4. QED
      BY BlockKept, <3>1, <3>2, <3>3
  <2>5. CASE Resume(f)
    <3>1. InCall(f) /\ UNCHANGED <<open, cleared, nonblock, sockets>>
      BY <2>5 DEF Resume
    <3>2. Opening' = Opening
      BY <2>5 DEF Resume
    <3>3. /\ \A g \in Fibers \ {f} : pc'[g] = pc[g] /\ info'[g] = info[g]
          /\ \/ pc'[f] = "idle" /\ info'[f].on = 0
             \/ info'[f].on = info[f].on
      BY <2>5 DEF Resume
    <3> HIDE DEF Types, BlockInv, Opening, InCall
    <3>4. QED
      BY BlockKept, <3>1, <3>2, <3>3
  <2>6. CASE SleepEnds(f)
    BY <2>6 DEF SleepEnds
  <2>7. CASE Del(f)
    BY <2>7 DEF Del
  <2>8. CASE Close(f)
    BY <2>8 DEF Close, Free
  <2>9. QED
    BY <1>1, <2>1, <2>2, <2>3, <2>4, <2>5, <2>6, <2>7, <2>8 DEF Step
<1>2. ASSUME NEW f \in Fibers, Expire(f) PROVE BlockInv'
  BY <1>2 DEF Expire
<1>3. ASSUME NEW f \in Fibers, EventFires(f) PROVE BlockInv'
  BY <1>3 DEF EventFires
<1>4. ASSUME NEW f \in Fibers, Socket(f) PROVE BlockInv'
  BY <1>4 DEF Socket
<1>5. ASSUME NEW f \in Fibers, Sleep(f) PROVE BlockInv'
  BY <1>5 DEF Sleep
<1>6. ASSUME NEW f \in Fibers, CancelAll(f) PROVE BlockInv'
  BY <1>6 DEF CancelAll
<1>7. ASSUME NEW f \in Fibers, Unblocks(f) PROVE BlockInv'
  BY <1>7 DEF Unblocks
<1>8. ASSUME NEW f \in Fibers, NEW o \in Ops[f], Begin(f, o[1], o[2])
      PROVE  BlockInv'
  <2>1. Opening = {} /\ Opening' = {}
    BY <1>8 DEF Begin, Plain
  <2>2. UNCHANGED <<open, cleared, nonblock, sockets>>
    BY <1>8 DEF Begin
  <2>3. \A g \in Fibers : info'[g].on \in {info[g].on, sockets}
    BY <1>8, BeginInfo
  <2>4. QED
    BY <2>1, <2>2, <2>3
<1>9. ASSUME NEW f \in Fibers, NEW e \in Dirs, setsockopt(f, e)
      PROVE  BlockInv'
  BY <1>9 DEF setsockopt, Set
<1>10. ASSUME NEW f \in Fibers, NEW user \in BOOLEAN,
              fcntl(f, user) \/ ioctl(f, user)
       PROVE  BlockInv'
  <2>1. UNCHANGED <<open, sockets, pc, info>>
    BY <1>10 DEF fcntl, ioctl, Set
  <2>2. ~cleared' => nonblock'
    BY <1>10 DEF fcntl, ioctl
  <2>3. QED
    BY <2>1, <2>2
<1>11. ASSUME NEW c \in queued, TimerRuns(c) PROVE BlockInv'
  BY <1>11 DEF TimerRuns
<1>12. ASSUME NEW c \in setting, TimerSets(c) PROVE BlockInv'
  <2>1. UNCHANGED <<open, cleared, nonblock, sockets, pc>>
    BY <1>12 DEF TimerSets
  <2>2. QED
    BY <1>12, <2>1, SetsInfo
<1>13. ASSUME NEW c \in cancelling, TimerCancels(c) PROVE BlockInv'
  <2>1. UNCHANGED <<open, cleared, nonblock, sockets>>
    BY <1>13 DEF TimerCancels
  <2>5. \A g \in Fibers : \/ pc'[g] = pc[g]
                          \/ pc[g] = "wait" /\ pc'[g] = "woken"
    BY <1>13, CancelsInfo
  <2>2. Opening' = Opening
    BY <2>5
  <2>3. \A g \in Fibers : InCall(g)' \/ pc'[g] = "blocked" =>
                              InCall(g) \/ pc[g] = "blocked"
    BY <1>13, CancelsInfo
  <2>4. QED
    BY <1>13, <2>1, <2>2, <2>3, CancelsInfo
<1>14. ASSUME NEW e \in Dirs, Arrives(e) PROVE BlockInv'
  BY <1>14 DEF Arrives
<1>15. ASSUME NEW f \in Fibers, AddEventAborts(f) PROVE BlockInv'
  BY <1>15 DEF AddEventAborts
<1>16. CASE UNCHANGED vars
  BY <1>16 DEF vars
<1>17. QED
  BY <1>1, <1>2, <1>3, <1>4, <1>5, <1>6, <1>7, <1>8, <1>9, <1>10, <1>11, <1>12,
     <1>13, <1>14, <1>15, <1>16 DEF Next, TimerStep

\* What a step does to ThreadNeverBlocks.
LEMMA ThreadStep == IndInv /\ [Next]_vars => ThreadNeverBlocks'
<1> SUFFICES ASSUME IndInv, [Next]_vars PROVE ThreadNeverBlocks'
  OBVIOUS
<1>0. Types'
  BY TypesStep DEF IndInv
<1> USE <1>0, HookAssumption DEF IndInv, Types, OpenInv, BlockInv, Opening, Known,
            InCall, ThreadNeverBlocks, At, Goto, Return, NoCall, Calls, kernel, table,
            timers
<1>1. ASSUME NEW f \in Fibers, Step(f) PROVE ThreadNeverBlocks'
  <2>1. CASE Get(f)
    BY <2>1 DEF Get
  <2>2. CASE Create(f)
    BY <2>2 DEF Create
  <2>3. CASE Try(f)
    BY <2>3 DEF Try
  <2>4. CASE AddEvent(f)
    BY <2>4 DEF AddEvent
  <2>5. CASE Resume(f)
    BY <2>5 DEF Resume
  <2>6. CASE SleepEnds(f)
    BY <2>6 DEF SleepEnds
  <2>7. CASE Del(f)
    BY <2>7 DEF Del
  <2>8. CASE Close(f)
    BY <2>8 DEF Close, Free
  <2>9. QED
    BY <1>1, <2>1, <2>2, <2>3, <2>4, <2>5, <2>6, <2>7, <2>8 DEF Step
<1>2. ASSUME NEW f \in Fibers, Expire(f) PROVE ThreadNeverBlocks'
  BY <1>2 DEF Expire
<1>3. ASSUME NEW f \in Fibers, EventFires(f) PROVE ThreadNeverBlocks'
  BY <1>3 DEF EventFires
<1>4. ASSUME NEW f \in Fibers, Socket(f) PROVE ThreadNeverBlocks'
  BY <1>4 DEF Socket
<1>5. ASSUME NEW f \in Fibers, Sleep(f) PROVE ThreadNeverBlocks'
  BY <1>5 DEF Sleep
<1>6. ASSUME NEW f \in Fibers, CancelAll(f) PROVE ThreadNeverBlocks'
  BY <1>6 DEF CancelAll
<1>7. ASSUME NEW f \in Fibers, Unblocks(f) PROVE ThreadNeverBlocks'
  BY <1>7 DEF Unblocks
<1>8. ASSUME NEW f \in Fibers, NEW o \in Ops[f], Begin(f, o[1], o[2])
      PROVE  ThreadNeverBlocks'
  BY <1>8 DEF Begin, Plain
<1>9. ASSUME NEW f \in Fibers, NEW e \in Dirs, setsockopt(f, e)
      PROVE  ThreadNeverBlocks'
  BY <1>9 DEF setsockopt, Set
<1>10. ASSUME NEW f \in Fibers, NEW user \in BOOLEAN,
              fcntl(f, user) \/ ioctl(f, user)
       PROVE  ThreadNeverBlocks'
  BY <1>10 DEF fcntl, ioctl, Set
<1>11. ASSUME NEW c \in queued, TimerRuns(c) PROVE ThreadNeverBlocks'
  BY <1>11 DEF TimerRuns
<1>12. ASSUME NEW c \in setting, TimerSets(c) PROVE ThreadNeverBlocks'
  <2>1. UNCHANGED <<open, cleared, sockets, pc>>
    BY <1>12 DEF TimerSets
  <2>2. QED
    BY <1>12, <2>1, SetsInfo
<1>13. ASSUME NEW c \in cancelling, TimerCancels(c) PROVE ThreadNeverBlocks'
  <2>1. UNCHANGED <<open, cleared, sockets>>
    BY <1>13 DEF TimerCancels
  <2>2. \A g \in Fibers : pc'[g] = "blocked" => pc[g] = "blocked"
    BY <1>13, CancelsInfo
  <2>3. QED
    BY <1>13, <2>1, <2>2, CancelsInfo
<1>14. ASSUME NEW e \in Dirs, Arrives(e) PROVE ThreadNeverBlocks'
  BY <1>14 DEF Arrives
<1>15. ASSUME NEW f \in Fibers, AddEventAborts(f) PROVE ThreadNeverBlocks'
  BY <1>15 DEF AddEventAborts
<1>16. CASE UNCHANGED vars
  BY <1>16 DEF vars
<1>17. QED
  BY <1>1, <1>2, <1>3, <1>4, <1>5, <1>6, <1>7, <1>8, <1>9, <1>10, <1>11, <1>12,
     <1>13, <1>14, <1>15, <1>16 DEF Next, TimerStep

-----------------------------------------------------------------------------
(* Theorems *)

LEMMA Inductive == Spec => []IndInv
<1>1. Init => IndInv
  BY InitInv
<1>2. IndInv /\ [Next]_vars => IndInv'
  BY TypesStep, CallStep, TimerInvStep, EventStep, OpenStep, BlockStep, ThreadStep
     DEF IndInv
<1>3. QED
  BY <1>1, <1>2, PTL DEF Spec

\* The error ETIMEDOUT of a hooked call comes from the timer of that call,
\* never from one that an earlier call of the fiber left in the scheduler's
\* queue or half run (hook.cc:117-124, 242-249).
THEOREM TimeoutCorrect == Spec => []TimeoutIsOwn
<1>1. IndInv => TimeoutIsOwn
  BY DEF IndInv, CallInv, TimeoutIsOwn
<1>2. QED
  BY <1>1, Inductive, PTL

\* No hooked call blocks its thread on a socket that it found in FdManager's
\* care, however often the number is closed and made again, until an
\* ioctl(FIONBIO, 0) clears the flag (hook.cc:334-350, 437-452).
THEOREM ThreadsCorrect == Spec => []ThreadNeverBlocks
<1>1. IndInv => ThreadNeverBlocks
  BY DEF IndInv
<1>2. QED
  BY <1>1, Inductive, PTL
=============================================================================
