---------------------------- MODULE TimerManager ----------------------------
(***************************************************************************)
(* The timers of sylar/timer.{h,cc}: the ordered set m_timers behind one   *)
(* read-write lock, user threads that add, cancel, refresh and reset       *)
(* timers, and poller threads (the idle fibers of IOManager) that sleep    *)
(* until the next deadline, collect the expired callbacks and hand them    *)
(* on.  What a caller does under the lock is one action; the clock is read *)
(* before the lock in addTimer and in listExpiredCb, so those take two.    *)
(***************************************************************************)
EXTENDS Integers, FiniteSets

CONSTANTS
    Timers,     \* every Timer ever created: their addresses, so naturals
    Users,      \* threads that use timers
    Pollers,    \* threads in IOManager::idle
    Periods,    \* the values of the argument ms
    Hour,       \* 60 * 60 * 1000
    Word,       \* 2^64, the modulus of uint64_t
    StartTime,  \* the clock when the manager is constructed
    MaxTime     \* bound: the clock stops here

ASSUME TimersAssumption == Timers \subseteq Nat /\ Periods \subseteq Nat \ {0}
ASSUME ClockAssumption ==
    /\ {Hour, StartTime, MaxTime} \subseteq Nat /\ Word \in Nat \ {0}
    /\ StartTime <= MaxTime /\ MaxTime < Word /\ Hour < Word
    /\ IsFiniteSet(Pollers)
    /\ \A ms \in Periods : MaxTime + ms < Word - 1

VARIABLES
    now,              \* CLOCK_MONOTONIC_RAW
    m_timers,
    m_next, m_ms, m_recurring,
    m_cb,             \* the timer's callback is not null
    m_tickled,
    m_previouseTime,
    upc, mine,        \* where each user is, and the timer it is inserting
    ppc, now_ms, cbs, \* where each poller is, and its locals in listExpiredCb
    timeout,          \* when each poller's sleep ends, from getNextTimer
    signal,           \* the manager was told of a new first timer (external)
    horizon,          \* history: what the last getNextTimer answered
    created, fired, cancelled   \* history of each timer

timer_vars == <<m_timers, m_next, m_ms, m_recurring, m_cb>>
user_vars == <<upc, mine>>
poll_vars == <<ppc, now_ms, cbs, timeout, horizon>>
vars == <<now, timer_vars, m_tickled, m_previouseTime, user_vars, poll_vars,
          signal, created, fired, cancelled>>

Never == Word - 1      \* ~0ull, getNextTimer's answer when there is no timer
NoTimer == -1

Init ==
    /\ now = StartTime
    /\ m_timers = {}
    /\ m_next = [t \in Timers |-> 0]
    /\ m_ms = [t \in Timers |-> 0]
    /\ m_recurring = [t \in Timers |-> FALSE]
    /\ m_cb = [t \in Timers |-> FALSE]
    /\ m_tickled = FALSE
    /\ m_previouseTime = StartTime
    /\ upc = [u \in Users |-> "idle"]
    /\ mine = [u \in Users |-> NoTimer]
    /\ ppc = [p \in Pollers |-> "next"]
    /\ now_ms = [p \in Pollers |-> StartTime]
    /\ cbs = [p \in Pollers |-> {}]
    /\ timeout = [p \in Pollers |-> Never]
    /\ signal = FALSE
    /\ horizon = Never
    /\ created = {}
    /\ fired = [t \in Timers |-> 0]
    /\ cancelled = {}

Tick ==
    /\ now < MaxTime
    /\ now' = now + 1
    /\ UNCHANGED <<timer_vars, m_tickled, m_previouseTime, user_vars,
                   poll_vars, signal, created, fired, cancelled>>

-----------------------------------------------------------------------------
(* The ordered set *)

\* Timer::Comparator: by deadline, then by address.
Before(next, t, u) == next[t] < next[u] \/ (next[t] = next[u] /\ t < u)

First(next, S, t) == \A u \in S \ {t} : Before(next, t, u)

\* addTimer(val, lock): t joins S with the deadlines next.  A new first timer
\* raises m_tickled and, after the lock is released, is signalled.
Inserted(u, next, S, t) ==
    LET at_front == First(next, S, t) /\ ~m_tickled IN
    /\ m_timers' = S \cup {t}
    /\ m_tickled' = (m_tickled \/ at_front)
    /\ upc' = [upc EXCEPT ![u] = IF at_front THEN "front" ELSE "idle"]

\* d is the first deadline, or ~0ull if there is none.
IsNextDeadline(d) ==
    IF m_timers = {} THEN d = Never
    ELSE \E t \in m_timers : First(m_next, m_timers, t) /\ d = m_next[t]
Deadlines == {Never} \cup {m_next[t] : t \in m_timers}

-----------------------------------------------------------------------------
(* Users *)

\* addTimer(ms, cb, recurring): the constructor reads the clock, no lock held.
NewTimer(u, t, ms, rec) ==
    /\ upc[u] = "idle" /\ t \notin created
    /\ created' = created \cup {t}
    /\ m_next' = [m_next EXCEPT ![t] = now + ms]
    /\ m_ms' = [m_ms EXCEPT ![t] = ms]
    /\ m_recurring' = [m_recurring EXCEPT ![t] = rec]
    /\ m_cb' = [m_cb EXCEPT ![t] = TRUE]
    /\ upc' = [upc EXCEPT ![u] = "insert"]
    /\ mine' = [mine EXCEPT ![u] = t]
    /\ UNCHANGED <<now, m_timers, m_tickled, m_previouseTime, poll_vars,
                   signal, fired, cancelled>>

InsertTimer(u) ==
    /\ upc[u] = "insert"
    /\ Inserted(u, m_next, m_timers, mine[u])
    /\ mine' = [mine EXCEPT ![u] = NoTimer]
    /\ UNCHANGED <<now, m_next, m_ms, m_recurring, m_cb, m_previouseTime,
                   poll_vars, signal, created, fired, cancelled>>

\* onTimerInsertedAtFront(), which wakes a sleeping poller.
InsertedAtFront(u) ==
    /\ upc[u] = "front"
    /\ signal' = TRUE
    /\ upc' = [upc EXCEPT ![u] = "idle"]
    /\ UNCHANGED <<now, timer_vars, m_tickled, m_previouseTime, mine,
                   poll_vars, created, fired, cancelled>>

\* The user has t in hand: addTimer(t) has returned to somebody.
Usable(u, t) ==
    upc[u] = "idle" /\ t \in created /\ \A v \in Users : mine[v] # t

\* Mutant of Cancel: nulls the callback but leaves the timer in the set.
CancelKeepsTimer(u, t) ==
    /\ Usable(u, t) /\ m_cb[t]
    /\ m_cb' = [m_cb EXCEPT ![t] = FALSE]
    /\ cancelled' = cancelled \cup {t}
    /\ UNCHANGED <<now, m_timers, m_next, m_ms, m_recurring, m_tickled,
                   m_previouseTime, user_vars, poll_vars, signal, created,
                   fired>>

\* Timer::cancel() when it returns true (otherwise it changes nothing).
Cancel(u, t) ==
    /\ Usable(u, t) /\ m_cb[t]
    /\ m_cb' = [m_cb EXCEPT ![t] = FALSE]
    /\ m_timers' = m_timers \ {t}
    /\ cancelled' = cancelled \cup {t}
    /\ UNCHANGED <<now, m_next, m_ms, m_recurring, m_tickled, m_previouseTime,
                   user_vars, poll_vars, signal, created, fired>>

\* Timer::refresh(): a plain insert, with no look at the front of the set.
Refresh(u, t) ==
    /\ Usable(u, t) /\ m_cb[t] /\ t \in m_timers
    /\ m_next' = [m_next EXCEPT ![t] = now + m_ms[t]]
    /\ UNCHANGED <<now, m_timers, m_ms, m_recurring, m_cb, m_tickled,
                   m_previouseTime, user_vars, poll_vars, signal, created,
                   fired, cancelled>>

\* Mutant of Reset: re-inserts like refresh(), without telling anybody.
ResetQuietly(u, t, ms, from_now) ==
    /\ Usable(u, t) /\ ~(ms = m_ms[t] /\ ~from_now)
    /\ m_cb[t] /\ t \in m_timers
    /\ m_next' = [m_next EXCEPT ![t] =
                     (IF from_now THEN now ELSE m_next[t] - m_ms[t]) + ms]
    /\ m_ms' = [m_ms EXCEPT ![t] = ms]
    /\ UNCHANGED <<now, m_timers, m_recurring, m_cb, m_tickled,
                   m_previouseTime, user_vars, poll_vars, signal, created,
                   fired, cancelled>>

\* Timer::reset(ms, from_now), past its early returns.
Reset(u, t, ms, from_now) ==
    /\ Usable(u, t) /\ ~(ms = m_ms[t] /\ ~from_now)
    /\ m_cb[t] /\ t \in m_timers
    /\ m_next' = [m_next EXCEPT ![t] =
                     (IF from_now THEN now ELSE m_next[t] - m_ms[t]) + ms]
    /\ m_ms' = [m_ms EXCEPT ![t] = ms]
    /\ Inserted(u, m_next', m_timers \ {t}, t)
    /\ UNCHANGED <<now, m_recurring, m_cb, m_previouseTime, mine, poll_vars,
                   signal, created, fired, cancelled>>

-----------------------------------------------------------------------------
(* Pollers: IOManager::idle as far as timers are concerned.  A local that is
   not used any more goes back to its initial value. *)

\* Mutant of GetNextTimer: m_tickled stays up.
GetNextTimerKeepsFlag(p) ==
    /\ ppc[p] = "next"
    /\ \E d \in Deadlines :
        /\ IsNextDeadline(d)
        /\ timeout' = [timeout EXCEPT ![p] = d]
        /\ horizon' = d
    /\ ppc' = [ppc EXCEPT ![p] = "sleep"]
    /\ UNCHANGED <<now, timer_vars, m_tickled, m_previouseTime, user_vars,
                   now_ms, cbs, signal, created, fired, cancelled>>

\* getNextTimer(); the answer is kept as the time at which the sleep ends.
GetNextTimer(p) ==
    /\ ppc[p] = "next"
    /\ m_tickled' = FALSE
    /\ \E d \in Deadlines :
        /\ IsNextDeadline(d)
        /\ timeout' = [timeout EXCEPT ![p] = d]
        /\ horizon' = d
    /\ ppc' = [ppc EXCEPT ![p] = "sleep"]
    /\ UNCHANGED <<now, timer_vars, m_previouseTime, user_vars, now_ms, cbs,
                   signal, created, fired, cancelled>>

\* The sleep ends at the deadline or by a signal, which one poller consumes.
Wake(p) ==
    /\ ppc[p] = "sleep"
    /\ \/ now >= timeout[p] /\ UNCHANGED signal
       \/ signal /\ signal' = FALSE
    /\ timeout' = [timeout EXCEPT ![p] = Never]
    /\ ppc' = [ppc EXCEPT ![p] = "list"]
    /\ UNCHANGED <<now, timer_vars, m_tickled, m_previouseTime, user_vars,
                   now_ms, cbs, horizon, created, fired, cancelled>>

\* listExpiredCb(): the clock is read, no lock held.
ListBegin(p) ==
    /\ ppc[p] = "list"
    /\ ppc' = [ppc EXCEPT ![p] = "lock"]
    /\ now_ms' = [now_ms EXCEPT ![p] = now]
    /\ UNCHANGED <<now, timer_vars, m_tickled, m_previouseTime, user_vars,
                   cbs, timeout, horizon, signal, created, fired, cancelled>>

\* a - b in uint64_t, for a and b of that type.
Minus(a, b) == IF b <= a THEN a - b ELSE (a - b) + Word

\* The test of detectClockRollover()...
Rollover(ms) == ms < m_previouseTime /\ ms < Minus(m_previouseTime, Hour)

\* Mutant of Remember: keeps the limit of the test instead of the time.
RememberLimit(ms) ==
    m_previouseTime' = IF m_timers = {} THEN m_previouseTime ELSE ms - Hour

\* ...and its assignment.  With no timer, listExpiredCb returns before it.
Remember(ms) ==
    m_previouseTime' = IF m_timers = {} THEN m_previouseTime ELSE ms

\* Mutant of Expired: one millisecond early.
ExpiredOffByOne(ms) == {t \in m_timers : Rollover(ms) \/ m_next[t] <= ms + 1}

\* lower_bound(now_ms) and the loop after it; everything after a rollover.
Expired(ms) == {t \in m_timers : Rollover(ms) \/ m_next[t] <= ms}

\* Mutant of ListExpired: every expired timer is put back.
ListExpiredRearmsAll(p) ==
    /\ ppc[p] = "lock"
    /\ LET expired == Expired(now_ms[p]) IN
        /\ cbs' = [cbs EXCEPT ![p] = {[timer |-> t, due |-> m_next[t]] :
                                          t \in expired}]
        /\ m_next' = [t \in Timers |-> IF t \in expired
                                       THEN now_ms[p] + m_ms[t] ELSE m_next[t]]
    /\ Remember(now_ms[p])
    /\ ppc' = [ppc EXCEPT ![p] = "run"]
    /\ UNCHANGED <<now, m_timers, m_ms, m_recurring, m_cb, m_tickled,
                   user_vars, now_ms, timeout, horizon, signal, created, fired,
                   cancelled>>

\* The rest of listExpiredCb(), under the write lock: the expired timers leave
\* the set and their callbacks are copied; a recurring one comes back with a
\* deadline counted from now_ms, any other loses its callback.  The look at
\* m_timers under the read lock that comes before it only returns early where
\* this step would find nothing.
ListExpired(p) ==
    /\ ppc[p] = "lock"
    /\ LET expired == Expired(now_ms[p])
           again == {t \in expired : m_recurring[t]}
       IN /\ cbs' = [cbs EXCEPT ![p] = {[timer |-> t, due |-> m_next[t]] :
                                            t \in expired}]
          /\ m_timers' = (m_timers \ expired) \cup again
          /\ m_next' = [t \in Timers |-> IF t \in again
                                         THEN now_ms[p] + m_ms[t]
                                         ELSE m_next[t]]
          /\ m_cb' = [t \in Timers |-> m_cb[t] /\ t \notin expired \ again]
    /\ Remember(now_ms[p])
    /\ ppc' = [ppc EXCEPT ![p] = "run"]
    /\ UNCHANGED <<now, m_ms, m_recurring, m_tickled, user_vars, now_ms,
                   timeout, horizon, signal, created, fired, cancelled>>

\* The callbacks are scheduled; fired counts those of one-shot timers.
RunCbs(p) ==
    /\ ppc[p] = "run"
    /\ fired' = [t \in Timers |->
                    IF ~m_recurring[t] /\ \E c \in cbs[p] : c.timer = t
                    THEN fired[t] + 1 ELSE fired[t]]
    /\ cbs' = [cbs EXCEPT ![p] = {}]
    /\ now_ms' = [now_ms EXCEPT ![p] = StartTime]
    /\ ppc' = [ppc EXCEPT ![p] = "next"]
    /\ UNCHANGED <<now, timer_vars, m_tickled, m_previouseTime, user_vars,
                   timeout, horizon, signal, created, cancelled>>

-----------------------------------------------------------------------------
(* Specification *)

\* What a user chooses to do...
UserCall(u) ==
    \E t \in Timers :
        \/ \E ms \in Periods, rec \in BOOLEAN : NewTimer(u, t, ms, rec)
        \/ Cancel(u, t)
        \/ Refresh(u, t)
        \/ \E ms \in Periods, from_now \in BOOLEAN : Reset(u, t, ms, from_now)
\* ...and what follows from it.
UserReturn(u) == InsertTimer(u) \/ InsertedAtFront(u)

PollerStep(p) ==
    \/ GetNextTimer(p) \/ Wake(p) \/ ListBegin(p) \/ ListExpired(p)
    \/ RunCbs(p)

Next ==
    \/ Tick
    \/ \E u \in Users : UserCall(u) \/ UserReturn(u)
    \/ \E p \in Pollers : PollerStep(p)

Spec == Init /\ [][Next]_vars

\* Threads that can run do; a poller is never kept busy by a callback.
Fairness ==
    /\ \A u \in Users : WF_vars(UserReturn(u))
    /\ \A p \in Pollers : WF_vars(PollerStep(p))

FairSpec == Spec /\ Fairness

-----------------------------------------------------------------------------
(* Properties *)

Callbacks == [timer : Timers, due : Nat]

\* Every variable holds a value of its C++ type.
TypeOK ==
    /\ now \in StartTime..MaxTime
    /\ m_timers \subseteq created /\ created \subseteq Timers
    /\ m_next \in [Timers -> Nat]
    /\ m_ms \in [Timers -> Periods \cup {0}]
    /\ m_recurring \in [Timers -> BOOLEAN]
    /\ m_cb \in [Timers -> BOOLEAN]
    /\ m_tickled \in BOOLEAN
    /\ m_previouseTime \in StartTime..now
    /\ upc \in [Users -> {"idle", "insert", "front"}]
    /\ mine \in [Users -> Timers \cup {NoTimer}]
    /\ ppc \in [Pollers -> {"next", "sleep", "list", "lock", "run"}]
    /\ now_ms \in [Pollers -> StartTime..now]
    /\ cbs \in [Pollers -> SUBSET Callbacks]
    /\ timeout \in [Pollers -> Nat]
    /\ signal \in BOOLEAN
    /\ horizon \in Nat
    /\ fired \in [Timers -> Nat]
    /\ cancelled \subseteq created

\* A timer has a callback exactly as long as it is in the set (from its
\* insertion on).  cancel() erases find()'s answer without looking at it, and
\* listExpiredCb copies m_cb without looking at it: both rely on this.
CallbackIffQueued ==
    \A t \in created :
        (\A u \in Users : mine[u] # t) => (m_cb[t] <=> t \in m_timers)

\* No callback is collected before its deadline, although every poller judges
\* by a clock it read before it had the lock.
NeverEarly == \A p \in Pollers : \A c \in cbs[p] : c.due <= now

\* A one-shot timer's callback runs at most once, whatever two pollers and a
\* canceller do at the same time; and if cancel() returned true, never.
Collected(t) == {p \in Pollers : \E c \in cbs[p] : c.timer = t}
OneShotOnce ==
    \A t \in created : ~m_recurring[t] =>
        fired[t] + Cardinality(Collected(t))
            + (IF m_cb[t] THEN 1 ELSE 0)
            + (IF t \in cancelled THEN 1 ELSE 0) = 1

\* While m_tickled is down, nothing in the set is due before the time at which
\* the last caller of getNextTimer means to wake up: refresh() and the return
\* of recurring timers need not look at the front of the set.
HorizonSound ==
    ~m_tickled => \A t \in m_timers : horizon <= m_next[t]

\* A timer whose deadline has passed is collected, cancelled or postponed: a
\* poller wakes up for it even if it went to sleep before the timer existed.
DueTimerFires ==
    \A t \in Timers :
        (t \in m_timers /\ m_next[t] <= now)
            ~> (t \notin m_timers \/ m_next[t] > now)

-----------------------------------------------------------------------------
(* The inductive invariants *)

\* A timer under construction is its user's own.
MineInv ==
    /\ \A u \in Users : mine[u] # NoTimer <=> upc[u] = "insert"
    /\ \A u \in Users : upc[u] = "insert" =>
           mine[u] \in created /\ m_cb[mine[u]] /\ mine[u] \notin m_timers
    /\ \A u, v \in Users : u # v /\ mine[u] = mine[v] => mine[u] = NoTimer

\* A timer that does not exist yet has no past.
FreshInv ==
    \A t \in Timers \ created : fired[t] = 0 /\ ~m_cb[t] /\ Collected(t) = {}

\* No poller keeps callbacks once it has scheduled them.
PollInv == \A p \in Pollers : ppc[p] # "run" => cbs[p] = {}

\* A deadline is at least one period away from zero: reset() may subtract.
PeriodBelow == \A t \in created : m_ms[t] <= m_next[t]

SafeInv ==
    TypeOK /\ MineInv /\ FreshInv /\ PollInv /\ CallbackIffQueued /\ OneShotOnce

\* No deadline lies further ahead than its period.
PeriodInv == \A t \in created : m_next[t] <= now + m_ms[t]

ClockInv == SafeInv /\ PeriodInv /\ NeverEarly /\ HorizonSound

\* What keeps detectClockRollover from seeing a rollover: the machine has been
\* up for Hour when the manager is constructed...
LongUptime == Hour <= StartTime

\* ...and no poller takes Hour from reading the clock to having the lock
\* (timer.cc:138, 146).  The run as a whole may last as long as it likes.
PromptPollers ==
    \A p \in Pollers : ppc[p] = "lock" => now <= now_ms[p] + Hour
=============================================================================
