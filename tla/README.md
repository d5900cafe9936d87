# A TLA+ verification of sylar

sylar (`sylar-from-scratch/sylar`) is a C++ server framework: an N-M fiber
scheduler, timers, an epoll loop that wakes fibers, hooks that turn blocking
system calls into fiber switches, and sockets, byte buffers, HTTP, configuration
and logging on top. This directory holds TLA+ modules translated from that code,
TLC configurations that check them on small instances, and proofs checked by
TLAPS. Paths below are relative to `sylar-from-scratch/sylar`.

## The system

| Component | State | Operations | Talks to | What is hard | What makes it correct |
|---|---|---|---|---|---|
| Scheduler (`scheduler.{h,cc}`) | `m_tasks`, `m_stopping`, active and idle counters | `schedule`, `start`, `run`, `idle`, `stop`, `stopping` | fibers; `tickle` and `idle` are virtual, IOManager overrides them | several threads scan one queue; counters change outside the lock; stop waits for everybody | no task lost or run twice, stop returns when and only when all is done |
| Fiber (`fiber.{h,cc}`) | `m_state`, saved context | `resume`, `yield`, end of `MainFunc`, `reset` | the scheduler's main fiber | a fiber may be queued before it has yielded | a fiber runs on one thread at a time |
| TimerManager (`timer.{h,cc}`) | `m_timers`, `m_tickled`, `m_previouseTime`, each timer's `m_next`, `m_cb` | `addTimer`, `addConditionTimer`, `cancel`, `refresh`, `reset`, `getNextTimer`, `listExpiredCb` | polled by `IOManager::idle`; `onTimerInsertedAtFront` is `tickle` | many pollers sleep with timeouts that may be out of date; the clock is read before the lock | callbacks neither early, nor twice, nor forgotten |
| IOManager events (`iomanager.{h,cc}`) | `m_fdContexts`, each context's `events` and waiters, epoll set, `m_pendingEventCount` | `addEvent`, `delEvent`, `cancelEvent`, `cancelAll`, `idle` | epoll, the scheduler | contexts are found under one lock and used under another; epoll's answer is old when handled; edge triggering | each waiter woken once, count exact, epoll set in step |
| IOManager wake-up | the tickle pipe | `tickle`, `stopping(timeout)`, `idle` | all three above | a wake-up skipped because nobody is idle *yet*; `stopping` reads three things one by one | no task waits while a thread sleeps for long; no early exit |
| Hook, FdManager (`hook.{h,cc}`, `fd_manager.{h,cc}`) | `FdCtx` (flags, timeouts), per-call `timer_info` | `do_io`, `connect_with_timeout`, `sleep`, `close`, `fcntl`, `ioctl`, `setsockopt` | timers and events | a timeout races the event; close races a wait | a call ends by data, error or timeout; a timer never hurts a later call |
| Thread, mutexes | pthread objects | start, join, lock, unlock | everybody | start-up handshake | - |
| ByteArray (`bytearray.{h,cc}`) | block list, `m_position`, `m_size`, `m_cur` | `write*`, `read*`, `setPosition`, buffers | streams | block boundaries, a cursor that may be null | it is a file with a position |
| Socket, Stream | fd, `m_isConnected`, cached addresses | create, bind, connect, reconnect, listen, accept, close | hook, FdManager | numbers are reused | every open fd has one owner |
| HTTP parser and messages (`http/`) | parser state, the message being filled | `http_parser_execute`, callbacks, `recvRequest`, `recvResponse` | sockets | a read may end anywhere; lengths at 64 bits | the message is what was sent |
| HTTP connection pool | `m_conns`, `m_total` | `getConnection`, `ReleasePtr`, `doRequest` | sockets | late answers; ages and counts at limits | an answer goes to its request |
| TcpServer, HttpServer, Servlet | `m_socks`, `m_isStop`; servlet maps | bind, start, accept loop, stop; match | IOManager, sockets | stop races accept | a stopped server goes quiet; a replaced servlet answers nobody |
| Config (`config.{h,cc}`) | values, listeners, known file times | setValue, addListener, LoadFromConfDir | YAML, files | listeners run before the value changes; files change while read | listeners see every change, no edit is skipped |
| Log (`log.{h,cpp}`) | loggers, levels, appenders | the listener of `logs`, `Logger::log`, `LogFormatter::init` | Config | definitions compared and applied one by one | loggers come and go as the configuration says |
| Uri, Address, Env, Util | plain data | parsing, formatting, arithmetic | the parser, libc | boundaries | what is written is read back |
| Daemon | restart count | fork, waitpid | - | - | - |

Tests, build files and the text that logging writes are left aside.

## Modules

| Module | Models |
|---|---|
| `TaskPool` | what the scheduler promises: a submitted task is waiting, running or finished, and the pool closes only when nothing is left |
| `Scheduler` | `Scheduler::run` on every thread, `schedule`, `start`, `stop`, with the fiber states of `fiber.cc` |
| `TimerManager` | timers, the threads that use them and the pollers of `IOManager::idle` as far as timers go |
| `FdContexts` | the events of IOManager, the epoll set, and the pollers as far as events go |
| `IOManager` | how the threads of an IOManager sleep, are tickled and stop: `schedule`, `tickle`, `run`, `idle`, `stopping`, over tasks that wait as timers, as events or in the queue |
| `Hook` | `do_io`, `connect_with_timeout`, `sleep`, `socket`, `close`, the option calls and `FdManager`, for one fd number that is closed and reused |
| `HttpConnectionPool` | the client's pool, with a wire on which answers may come late |
| `HttpParser` | a connection read through `http_parser.c`, with the callbacks and both read loops |
| `Url` | `http_parser_parse_url` and `Uri`, character by character |
| `TcpServer` | bind, start, accept loops, stop; servlets and their dispatch |
| `ByteFile` | what a ByteArray promises: a file with a position |
| `ByteArray` | blocks, cursor, capacity; strings, files and socket buffers |
| `Codec` | integers of variable and fixed length, zigzag, URL encoding |
| `Config` | one `ConfigVar`, its locks and listeners, and the loading of files |
| `Log` | the variable `logs` and the loggers its listener sets up (an instance of `Config`) |
| `Socket` | which descriptor and addresses each Socket has |
| `Powers` | a power as a recursive function, which the proofs can unfold; TLA+'s own `^` they take as uninterpreted |
| `Address`, `LogFormatter`, `Env` | host and port, IPv6 text, prefixes; log patterns; the command line |
| `MCScheduler`, `MCTimerManager`, `MCFdContexts`, `MCIOManager`, `MCHook` | constants for TLC |
| `MCHttp`, `MCLibrary` | the parts of the http layer, and of the library, side by side: they share no state, so every behaviour is one of one part |
| `DataLemmas` | facts the proofs share: the cardinality of a set with an element more or less; the least of a set of numbers; quotients, powers, digits; sequences joined, cut and with an element more or less; that functions defined by recursion exist |
| `SchedulerProofs`, `TimerManagerProofs`, `FdContextsProofs`, `IOManagerProofs`, `HookProofs` | theorems and proofs about one component each |
| `HttpProofs`, `LibraryProofs` | theorems and proofs about the components that `MCHttp` and `MCLibrary` put side by side |

A critical section is one action: the locks are real mutexes in the code and are
never released in between. What a thread does between two critical sections is
another action, and where it remembers something across them (a context found, a
clock read, an answer of epoll) that is a variable. Definitions prefixed by a
comment "Mutant of ..." are wrong variants, each of which breaks a property; they
show that the property is about the code.

**Scheduler.** `pc[t]` follows a thread through `run()`: *scan* (take the first task
it may run, under the lock), *resume*, *exec* (the fiber's own code: it may
schedule others or itself, yield or end), *switch* (between `m_state = READY` and
the end of `swapcontext`), *return* (the counters), *idle*, *exit*. With
`use_caller` the constructing thread enters `run()` inside `stop()`. A task is a
fiber with the thread it is pinned to or `AnyThread`. Nothing is defined once two
threads run on one stack, so `Defined` guards `Next`; how the code gets there is
the run `scheduler_two_cpus`.

**TimerManager.** `now` is the clock, `Hour` and `Word` scale 60·60·1000 ms and
2^64 down, subtraction is modulo `Word`. A poller goes `getNextTimer` → sleep until
its timeout or a tickle → reads `now_ms` → the rest of `listExpiredCb` under the lock →
runs the callbacks. `horizon` is a history variable: when the last caller of `getNextTimer`
means to wake up.

**FdContexts.** An `FdContext` is named by its fd and the number of its allocation,
because `contextResize` can drop one and allocate another. A caller finds the
context under `m_mutex` (`CallAdd`, `Grow`, `CallRemove`) and works under the
context's own mutex later; a poller snapshots the ready list (`EpollWait`) and
handles each entry when it gets the lock (`Handle`, then `Trigger` and `Count` per
event). epoll is external: edge-triggered, re-armed by every ADD and MOD.
`waiting` and `woken` say what the program is waiting for and what has been handed
to the scheduler. The program is assumed not to wait twice for the same event of
the same fd, as `addEvent` demands.

**IOManager.** The three modules above look inside the queue, the timers and the
events; here each is only a place where a task may be, and the subject is who is
awake. `schedule` enqueues under the lock and remembers in `owed` that it owes a
tickle; `tickle` writes to the pipe only if somebody counts as idle. A thread that
found no task goes through *gap* (before `++m_idleThreadCount`), *timers*, *events*,
*queue* (the three reads of `stopping`), *wait* (`epoll_wait`, at most 5 s, or without
end if the timeout has become negative), *list*, *cbs*, *handle*, *uncount*, *back*.

**Hook.** Fibers share one fd number. `info` is the call with its `timer_info`. A timer is
armed, queued as a callback, or gone; the callback runs in three steps, because other
threads may come between them: it looks for the `timer_info` (`TimerRuns`), sets
`cancelled` (`TimerSets`) and calls `cancelEvent` (`TimerCancels`), which wakes whoever
waits for the event by then. `addEvent` asserts that nobody else waits for its event;
where somebody does, the program ends (`AddEventAborts`). `on` and `sockets` tell the
socket a call was made on from one that later got the same number. `left` marks a call
that nothing but data will end any more: its timer's `cancelEvent` came before the event
was registered, the event came between the `cancelAll` and the `close_f` of a `close`, or
the call blocks in the kernel since `ioctl(FIONBIO, 0)` cleared the flag. `cleared` marks
that `ioctl`, and stays.

**HttpParser.** The peer sends pieces (a character of a URL, part of a name or value,
a byte of the body) and the network ends a read after any of them (`EndRead`). `mark`
is the parser's mark with the part of a field read since it was set. `sent` remembers
what the peer sent. `UMax` scales `ULLONG_MAX` down so that a two-digit length can
overflow. `HeaderValueMore` stands for the matching of values that the parser knows:
its result is read from the whole value in `Finish`.

**HttpConnectionPool.** A connection is connected, closed or deleted; `wire` is the
answers outstanding on it. `m_createTime` is 0 as in the code, which never sets it.

**TcpServer.** A loop is a call of `startAccept` for a socket of one `start()`; its
`accept()` is the hooked one, a try, an `addEvent` and a wait. `stop()` sets the flag and
leaves a task that closes the sockets; further starts and stops may come before it runs.
The task takes two steps for a socket, `CancelSock` and `CloseSock`, and a loop may register
its event in between (`late`): nobody wakes it. Two loops of different starts that wait on
one socket fail `addEvent`'s assertion (`AddEventAborts`).

**ByteArray.** A block is a function from offsets to bytes; `m_cur` is the index of a
block or `Null`. `got` is what an operation handed out, with the position for one that only
looks (`writeToFile`, `toString`, `read` at a position). `ReadAt` starts at `m_cur` whatever
the position, as the code does. The length field of a string is one byte and holds lengths
below `LenSpan`: a longer one is cut to it. Following a null block is `Crash`, with the loop it
was in; `MayCrash` names the calls of the code that can: a read of no bytes at the
capacity, a `writeToFile` from inside a block with less than a block to read, and a read at
a position behind the end or of another block than the cursor's. The refinement mapping to
`ByteFile` reads the first `m_size` bytes of the blocks; a crash is a stutter of the file.
`ByteFile` promises reads at a position for the block of the cursor only.

**Config and Log.** A thread holds the read lock from *notify* to the end of the
listeners; a store waits for that. `told` and `last` are what each listener has been
told. A file has a text and a time; an edit may fall into the second of the last one.
`Log` gives `Config` the type of the variable: sets of logger definitions by name, the
conversion that drops bad appenders and throws for a missing name, and the `==` of the
code, which ignores appenders. A definition whose level has changed ends the set in
a crash, as the null logger does in the code. `lstat` and the comparison of times are one
step (`CheckFile`), although the lock is taken between them: an older time only makes a
load more likely. The files, the texts that edits may give them and the
names of the loggers are constants.

**Url, Address, Env.** `Url` is for texts of at most 65535 characters (`Fits`): the parser
keeps offsets and lengths in 16 bits. `CreateMask` is modelled for prefixes from 1; with 1 the
shift overflows an `int` and gives what compilers make of it, with 0 it shifts by the full
width and gives 0 or 1 as the build decides, so that this prefix is left out. `Env::init` also
reads the path of the executable from `/proc`, which is not modelled.

**Socket.** `open[fd]` numbers the opening that the descriptor stands for, so that a
stale address or a descriptor used after its close can be told.

## Runs

| Run | Instance | Shows |
|---|---|---|
| `scheduler_caller` | 2 workers + caller, 2 fibers, 2 self-reschedulings, fair | counters exact at every step, `resume()`'s assertion, no task lost, `stopping()` final once true, `stop()` waits for all and returns; refinement of `TaskPool`; pinned tasks run |
| `scheduler_two_cpus` (violation) | as small | `yield` publishes READY too early (`fiber.cc:171`): the skip at `scheduler.cc:176` does not close the window its comment describes |
| `timers` | 2 timers, 1 user, 2 pollers, clock 6..7, `Hour` 6, fair | never early, never twice, `cancel` erases what it finds, `m_tickled` protocol sound; a due timer fires, or is cancelled or postponed |
| `timers_rollover` (violation) | clock from 0 | in the first hour of uptime `timer.cc:195` wraps, and a poller with an older `now_ms` fires every timer |
| `fd_events` | 2 users, 1 poller, fds 32 and 48 (past the 32 contexts of the constructor), 2 waits, fair | count exact, each waiter in one place, epoll set in step, `addEvent`'s assertions; a registered event of a ready fd is triggered |
| `fd_trigger` (violation) | one fd | an event removed between `epoll_wait` and the lock fails the assertion at `iomanager.cc:86` |
| `fd_shrink` (violation) | fds 32 and 48 | `contextResize` shrinks a vector another thread has just grown (`iomanager.cc:164`) |
| `iomanager` | 2 threads, 2 tasks, one pinned, fair | no task that was queued or taken from the timers is left when the threads leave; a missed tickle delays and never loses; `stop()` returns once no event is registered |
| `iomanager_stop` (violation) | 1 thread, 2 tasks | `stopping()` reads timers, events and queue at three moments (`iomanager.cc:353`): a timer added in between is left behind |
| `hook` | one fiber with 2 reads, one with a read or a connect, 2 sockets on one number, 1 option call, fair | a timeout belongs to the call it ends, no system call on the open socket blocks a thread, a call with a timeout returns but for the cases named at `TimedCallReturns` |
| `http` | pool: 2 callers, 3 calls each, 3 connections; parser: 2 messages, 2 headers, 2 body bytes, `UMax` 21; server: 2 addresses, 2 starts, 2 patterns that match one uri | an answer goes to its request, `m_total` is exact; body and headers are what was sent; a stopped server wakes its loops, but for the two kinds named at `StopWakesLoops`; replaced servlets are gone |
| `library` | bytes: 3 blocks of 2, writes up to 3, string lengths modulo 2; config: 2 threads, 2 listeners, 1 file of 3 texts; sockets: 2 on 3 numbers, 3 openings; inputs: URLs of 4 characters and 4 more behind a host, 4 pieces of text, pattern and command line, 8-bit integers in groups of 3 bits, all IPv6 addresses of zero and nonzero groups | the byte array refines a file, and the calls that follow a null block are known; listeners and files agree with the variable, loggers come and go with it; descriptors have one owner; conversions are inverse |

*Bounds.* Three threads and two fibers give a thread that takes, one that yields and one
that stops; the counters of self-reschedulings, waits and clock ticks only end behaviours.
Two timers give a front and a second; two pollers give the races between them. fds 32 and 48
are the smallest at which one `fd * 1.5` is smaller than another's. `Signals` lets only fd
48 become ready in `fd_events`; the other is there for the vector. The invariants of these
three runs and of the others are proved for every instance. Two tasks and two threads in
`iomanager` give one that is awake and one that is not. In `hook` the two reads of a fiber
give a timer that outlives its call and meets the next, the other fiber a wait for the same
event and one for the other, two sockets the reuse of the number. In `http` two callers and
three connections give one pooled, one held and one dropped; a second message gives what a
first may leave in the parser; two body bytes the cut between them; the second `start` the
race with the first `stop`; the servlets and the sockets of the server are two parts, since
they meet only where a client is handled. In `library` three blocks of two bytes give a
first, a middle and a last block and every position at and beside a boundary (what follows a
call that only looks would follow without it, so a behaviour of the bytes ends there);
groups of three bits in eight leave a last group that is not full, as groups of seven do in
32 and 64.

*Fairness.* Each thread of the pool, each poller and each caller inside a call goes
on (weak fairness per thread): they are kernel threads. In `iomanager` and `hook` the
clock moves and `epoll_wait` returns within its 5 s, and ready fibers are run, which
is what the runs on the scheduler show. Nothing is assumed of user code: no fiber must
call anything, no peer must become ready. In `scheduler_caller` running fibers are
assumed to end their turn. `http` and `library` check safety only.

*Deadlock* is checked except where the process may stop: the timer runs end at the
clock's bound, a failed assertion ends the process in the fd runs, and the behaviours
of `hook`, `http` and `library` end with their bounds.

## What the models say about the code

The five violations above are findings. Where a property had to leave a case out, its
comment says so; these are the cases, and other observations made while translating:

- `hook.cc`: a timer whose callback runs before `addEvent` (`:117`, `:127`) leaves a call
  without a timeout; an event added between `cancelAll` and `close_f` is never woken
  (`:343-347`), also that of an accept loop whose server is being stopped; the `cancelEvent`
  of a callback that was overtaken (`:123`, `:248`) may wake a later call, and a connect
  then reports success; a call that retries on a number given to another socket may block
  before `FdCtx::init` has set `O_NONBLOCK`; `ioctl(FIONBIO, 0)` clears the `O_NONBLOCK` the
  hook needs (`:451`); a failed `addEvent` in `connect` reports success if `SO_ERROR` is 0
  (`:262`); a timeout of 0 in `setsockopt` becomes an immediate one.
- `iomanager.cc:385`: the `(int)` of a timeout of 2^31 ms or more is negative; with such a
  timer (`FarTimers`) `EverythingRuns` fails, against the comment at `:382`.
- HTTP: callbacks overwrite, so a read that ends in a URL, name or value loses its first
  part; `execute` is never called with length 0, so a response that ends with the
  connection is lost; a second request in the same read goes with the parser.
- Pool: `m_createTime` is never set and the age tests are the wrong way round; `m_maxSize`
  is not used; after a failed send the connection is pooled again.
- `TcpServer`: a failed `bind` forgets sockets bound and started earlier
  (`tcp_server.cc:58-61`); after `start`, `stop`, `start` two loops may wait on one socket, which
  `addEvent`'s assertion turns into an abort.
- ByteArray: a read of no bytes at the capacity follows a null block; so does `writeToFile`
  from inside a block with less than a block to read (`bytearray.cc:470-477`), where the rest
  and the offset only change places from turn to turn; `read(buf, size, position)` starts at
  `m_cur` (`bytearray.cc:417`), so it is right for the block of `m_position` only, and its test
  of the size wraps for a position behind the end; `writeStringF16` cuts a length to 16 bits.
- Config: two setters at once may leave listeners and value disagreeing; a listener added
  between the notification and the store misses the change; two edits within a second
  are not told apart; a listener that sets or adds deadlocks.
- Log: `LogDefine::operator==` compares `appenders` with itself (`log.cpp:603`), so a change
  of appenders alone has no effect; a changed level follows a null logger (`log.cpp:705`,
  `==` for `=`). `LoggersComeAndGo` therefore speaks of loggers added and removed only. A
  pattern that ends in `%d` is read past its end.
- Socket: `accept` leaks a descriptor that FdManager does not know; `connect` after `close`
  keeps the old local address. Uri: an IPv6 host loses its brackets in `toString`. Offsets
  of a URL longer than 65535 characters are cut to 16 bits. Address: `CreateMask(0)` shifts
  by the full width (`address.cc:16`); bare IPv6 text in `Lookup` passes the rest as a
  service name.

The comment at `scheduler.cc:211` ("the queue is certainly empty here") is not true
either - a thread also idles when every queued task is pinned elsewhere or RUNNING -
but nothing relies on it.

## Proofs

All for arbitrary sets of threads, fibers, timers, connections, files and sockets and
for arbitrary bounds.

*Scheduler* (`SchedulerProofs`). The invariants of the runs are not inductive alone.
`IndInv` adds where a fiber can be: in the queue at most once (`QueueInv`), held by
at most one thread, which agrees with its state (`HeldInv`), in one of the two while
it is live (`LiveInv`), and what each place in `stop()` implies (`StopInv`).
`CountersExact` is a statement about cardinalities; each action adds or removes one
thread, by `DataLemmas`. From `IndInv` follow `TypeCorrect`, `CountersCorrect`,
`ResumeCorrect`, `TasksCorrect`, `StoppingCorrect` (an action property), `StopCorrect`
and `SchedulerImplementsPool`, the refinement under the mapping in `Scheduler`.

*Timers* (`TimerManagerProofs`). `SafeInv` (types, who owns a timer under
construction, callback iff queued) gives `TimerTypes`, `CancelErasesWhatItFinds` and
`OneShotCorrect` without assumptions on the clock. `TimersNeverEarly` and
`FrontNeverMissed` assume two things and nothing of how long the program runs:
`LongUptime`, the program starts at least an hour after boot, and `[]PromptPollers`, no
poller takes an hour from reading `now_ms` (`timer.cc:138`) to having the lock. Under
the first the subtraction of `timer.cc:195` never wraps, under the second no `now_ms` is an
hour behind `m_previouseTime`; the run `timers_rollover` shows that the first is needed.

*Events* (`FdContextsProofs`). `PendingExact` is inductive with the types; the other
invariants need to know who holds what. `IndInv` adds: the vector has a context for
every fd below its size (`VectorInv`), a call knows its context (`CallInv`), a mutex is
held across steps exactly by a thread that triggers (`LockInv`), and the epoll set asks
for the registered events except those the holder is still to trigger (`EpollInv`,
whose case "nobody holds it" is `EpollMatches`). `WaiterInOnePlace` gives `SlotEmpty`: a
waiter that is inside `addEvent` is registered nowhere, hence `addEvent`'s assertions
hold. This does not need the context to be the one `m_fdContexts` still has: the fault
that `fd_shrink` shows loses the way to a context, not the waiter in it.

*Wake-up* (`IOManagerProofs`). `NoTaskLeftBehind` speaks of the moment when all threads
have left. `IndInv` adds that a task is where `place` says: a thread runs it, holds it among
the callbacks of `listExpiredCb`, which it leaves only when they are scheduled, or the
queue has it (`TravelInv`), and that nobody leaves before `stop()` (`StopInv`). The step
that matters is `ReadQueue`: the last thread to leave has seen the queue empty and no
active thread under the lock.

*Hook* (`HookProofs`). `TimeoutIsOwn` needs that a fiber outside a call has no timeout
behind it (`CallInv`) and that a registered fiber is the one that waits (`EventInv`).
`ThreadNeverBlocks` needs who may open and close the number: by one fiber at a time, never
both, and without a context while it is free (`OpenInv`), and when the kernel's flag
is set (`BlockInv`). The attempt showed that `cleared` may not be taken back by a later
`ioctl`: a call that began to block while the flag was clear still blocks afterwards.

*Pool, server, servlets* (`HttpProofs`). A connection is in the pool once, held by one
caller or set aside by one (`HoldInv`, `PlaceInv`), it has no answer outstanding but the one
its holder waits for (`WireInv`), and `m_total` counts those that exist, each of which is in
one of these places (`CountInv`, `FoundInv`): from these follow `AnswersCorrect` and
`TotalCorrect`. `StopCorrect` needs that a running loop's socket is in `m_socks`, closed or
forgotten by `bind` (`LoopInv`), and that a loop that waits on a socket that is being
closed, or is closed, registered its event in between (`LateInv`). `DispatchCorrect` needs
that a pattern has at most one entry, the current one (`GlobInv`), because `addGlobServlet`
erases one at most; then it does not matter that `getMatchedServlet` takes the first match.

*Parser* (`HttpProofs`). `BodyCorrect` rests on: the body so far and the bytes since the mark
are what was sent, and a body mark exists in the states of a body only (`BytesInv`);
chunked states and trailers have `F_CHUNKED`, and no byte of a body comes before the end of
the headers otherwise (`ModeInv`); `content_length` is what was announced less what was
read, with one case for a length between its two digits (`LengthInv`), where the
conservative limit of `TooLong` is what excludes the wrap. Two guards of a `CASE` that held
at once (chunked, and with a body) were made exclusive for it. `HeadersCorrect` is about the
same steps: the headers stored are every line sent but the one that is being read
(`StoredInv`), the name in the callback's hands and the bytes since the mark are that line's
name or value (`MarkInv`, `LineInv`), once the URL has been read the path is the one that
`http_parser_parse_url` finds in it (`PathInv`), and a CONNECT ends as an upgrade
(`ConnectInv`), so that it is never one of the messages the property speaks of. That the
state in which the URL ended is the state `parse_url_char` reaches over all of it is shown by
a least counterexample over its length.

*Byte array* (`LibraryProofs`). `CursorFollows` is inductive with the types. What the proof
takes is arithmetic: `DivMod` to `DivUp` say what `\div` and `%` give at and beside a
block boundary, for every block size. That the calls that crash are those of `MayCrash` takes
that a block that is not null holds what is read up to the size. `FileRefinement` maps each
operation, over any number of blocks, to one of `ByteFile`.

*Configuration and loggers* (`LibraryProofs`). While a thread holds the read lock its
listeners stay (`TodoInv`); whoever has been called knows the value about to be stored
(`ToldInv`), and with one setter it was told last (`LastInv`). A noted time is never ahead of
the file's (`MtimeInv`), hence `FilesCorrect`. Until the first listener runs the loggers follow
the variable, from then on the value about to be stored (`LoggerInv`); after a crash the set
that caused it never ends (`AbortInv`).

*Sockets* (`LibraryProofs`). `OwnInv` says of every object, connected or not, what
`FdsOwned` says of connected ones: a later `connect` would otherwise find a stale address.

*Conversions* (`LibraryProofs`). Each is a theorem about inputs of every length (URLs: those
the parser's 16 bits can index), not only those the run reaches. The functions recurse over
their input; every induction is a least counterexample (`LeastNat`), and that a recursive
function exists and satisfies its equation is proved from the tables of its first values
(`RecursionExists`, `JoinedExists`, `SumExists`).

- `NumbersSurvive`: the digits of a number to base *b* add up to it modulo *b*^*n*
  (`DigitsSum`, from the uniqueness of quotient and remainder); `readUint` stops at the byte
  `writeUint` left unmarked, whatever follows, since the number of groups fits the buffer.
- `TextsSurvive`, `CommandLineKept`: what is written is words one after the other, and a
  word stands where the earlier ones end (`JoinedStands`); the reader is followed from word
  to word.
- `PatternsRead`: the state of the loop of `LogFormatter::init` after the first *i* parts
  (mode, open text, patterns, date format), a date with and without braces included.
- `HostsSplit`: where the first colon and the brackets of the text are.
- `AddressesReadBack`: the text of `insert` in closed form, the groups before and after the
  first run of zeros with two colons in between; therefore one double colon, and the groups
  on both its sides at odd places.
- `PrefixesSound`: multiples of a power of two and what lies between them, for prefixes from 1.
- `UrlsReadBack`, for texts of at most 65535 characters that are written again in as many: a
  Uri that `Create` has read consists of fields of known characters, with
  a port of at most 65535 (`CreateMakes`). What `toString` writes is these fields and the
  marks between them; for each of these words the states in which `parse_url_char`, or
  `http_parse_host_char`, reads it are known, and a field is the slice that its states mark
  (`UrlAgain`, `HostAgain`). A numeral is read back as its number (`NumeralBack`), and a port
  left out is the default of the scheme.

`ConversionsCorrect` puts them together for the run's inputs: what `Grow` appends keeps the
input among those the theorems are about (`InputInv`).

Assumptions are the named `ASSUME`s of the modules: finite sets where something is
counted, distinct special values (`NotFound` is no servlet, `None` no fiber or connection, a
thread is not the name of a place), positive bounds and block sizes, descriptors that are
natural numbers, `UMax` of at least 16, positive widths, words of whole bytes, and at least as
many bits in an IPv4 address as groups in an IPv6 address (`LibraryAssumption`: in the code
32 or 64, 7, 32 and 8). TLC evaluates them in the runs. The sets `Glyph` and `OptionText` are
the strings with a few literals added, which the provers do not know to be strings.

Only model-checked: the liveness properties (`StopReturns`, `PinnedTaskRuns`,
`DueTimerFires`, `EventDelivered`, `EverythingRuns`, `TimedCallReturns`), which need
fairness. Every invariant and every action property of a passing run, and both refinements,
are theorems.

## Not modelled

- Stacks and `ucontext`, threads and mutexes: the models take a critical section as one
  action and a context switch as the steps the scheduler can see.
- `daemon.cc`: one process at a time forks, waits and counts; a property would restate
  its branches. The result of `waitpid` is not looked at there.
- Data races that have no outcome to enumerate: `start()` walks `m_socks` while a closing
  task clears it, `Logger::log` walks `m_appenders` without the lock.
- Cookies and parameters of requests, the text of responses and log lines, the count of
  `max_header_size`, interfaces and Unix addresses, file and directory helpers.
- `getReadBuffers` at a given position, which nothing in the library calls.
- `Config::Lookup`'s map of variables and the conversions of containers other than the set
  of logger definitions; the fixed-size loops of `Stream`.

## Plan

What the properties say of safety is proved. What would add to it: the bracketed IPv6 host of
a URL, which `UriRoundTrip` leaves out because `toString` writes it without its brackets;
the count of `max_header_size`; cookies and parameters of `http.cc`; and liveness, which
stays with TLC.
