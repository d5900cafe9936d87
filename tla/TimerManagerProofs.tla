------------------------- MODULE TimerManagerProofs -------------------------
(***************************************************************************)
(* Proofs about TimerManager, for every set of timers, users and pollers,  *)
(* every choice of periods and every bound on the clock.                   *)
(***************************************************************************)
EXTENDS TimerManager, DataLemmas, FiniteSetTheorems, TLAPS

\* A timer is never the null pointer.
LEMMA TimerIsNotNull == \A t \in Timers : t \in Nat /\ t # NoTimer
  BY TimersAssumption DEF NoTimer

\* The pollers that hold a copy of t's callback can be counted.
LEMMA CollectedFinite ==
    \A t : Collected(t) \in SUBSET Pollers /\ Cardinality(Collected(t)) \in Nat
<1> SUFFICES ASSUME NEW t
             PROVE  /\ Collected(t) \in SUBSET Pollers
                    /\ Cardinality(Collected(t)) \in Nat
  OBVIOUS
<1>1. Collected(t) \subseteq Pollers
  BY DEF Collected
<1>2. QED
  BY <1>1, FS_Subset, FS_CardinalityType, ClockAssumption

\* The clock and the periods are numbers.
LEMMA NumberTypes ==
    ASSUME SafeInv
    PROVE  /\ now \in Nat /\ m_previouseTime \in Nat /\ horizon \in Nat
           /\ \A t \in Timers : m_ms[t] \in Nat /\ m_next[t] \in Nat
           /\ \A p \in Pollers : now_ms[p] \in Nat /\ now_ms[p] <= now
<1>1. StartTime \in Nat /\ MaxTime \in Nat
  BY ClockAssumption
<1>2. /\ now \in StartTime..MaxTime /\ m_previouseTime \in StartTime..now
      /\ now_ms \in [Pollers -> StartTime..now] /\ horizon \in Nat
      /\ m_next \in [Timers -> Nat] /\ m_ms \in [Timers -> Periods \cup {0}]
  BY DEF SafeInv, TypeOK
<1>3. Periods \cup {0} \subseteq Nat
  BY TimersAssumption
<1>4. \A t \in Timers : m_ms[t] \in Nat
  BY <1>2, <1>3
<1>5. \A p \in Pollers : now_ms[p] \in StartTime..now
  BY <1>2
<1>6. QED
  BY <1>1, <1>2, <1>4, <1>5

LEMMA InitSafe == Init => SafeInv
<1> SUFFICES ASSUME Init PROVE SafeInv
  OBVIOUS
<1>1. TypeOK
  <2>1. /\ now \in StartTime..MaxTime /\ m_previouseTime \in StartTime..now
        /\ now_ms \in [Pollers -> StartTime..now]
        /\ timeout \in [Pollers -> Nat] /\ horizon \in Nat
    BY ClockAssumption DEF Init, Never
  <2>2. QED
    BY <2>1 DEF Init, TypeOK
<1>2. MineInv /\ PollInv
  BY DEF Init, MineInv, PollInv
<1>3. FreshInv
  BY DEF Init, FreshInv, Collected
<1>4. CallbackIffQueued /\ OneShotOnce
  BY DEF Init, CallbackIffQueued, OneShotOnce
<1>5. QED
  BY <1>1, <1>2, <1>3, <1>4 DEF SafeInv

-----------------------------------------------------------------------------
(* Every step preserves SafeInv *)

\* What the steps that touch no callback leave alone.
LEMMA QuietStep ==
    ASSUME SafeInv, UNCHANGED <<created, fired, cancelled, m_cb, m_recurring,
                                cbs, mine>>
    PROVE  FreshInv' /\ OneShotOnce' /\
           (m_timers' = m_timers => CallbackIffQueued')
<1>1. \A t : Collected(t)' = Collected(t)
  BY DEF Collected
<1>2. FreshInv'
  BY <1>1 DEF SafeInv, FreshInv
<1>3. OneShotOnce'
  BY <1>1 DEF SafeInv, OneShotOnce
<1>4. QED
  BY <1>2, <1>3 DEF SafeInv, CallbackIffQueued

LEMMA TickSafe == SafeInv /\ Tick => SafeInv'
<1> SUFFICES ASSUME SafeInv, Tick PROVE SafeInv'
  OBVIOUS
<1>1. TypeOK'
  <2>1. /\ now' \in StartTime..MaxTime
        /\ m_previouseTime' \in StartTime..now'
        /\ now_ms' \in [Pollers -> StartTime..now']
    <3>1. now \in Nat /\ now' = now + 1 /\ now' <= MaxTime /\ StartTime \in Nat
          /\ MaxTime \in Nat /\ now \in StartTime..MaxTime
      BY ClockAssumption DEF SafeInv, TypeOK, Tick
    <3>2. StartTime..now \subseteq StartTime..now'
      BY <3>1
    <3>3. QED
      BY <3>1, <3>2 DEF SafeInv, TypeOK, Tick, poll_vars
  <2>2. QED
    BY <2>1 DEF SafeInv, TypeOK, Tick, timer_vars, user_vars, poll_vars
<1>2. MineInv' /\ PollInv'
  BY DEF SafeInv, MineInv, PollInv, Tick, timer_vars, user_vars, poll_vars
<1>3. FreshInv' /\ OneShotOnce' /\ CallbackIffQueued'
  BY QuietStep DEF Tick, timer_vars, user_vars, poll_vars
<1>4. QED
  BY <1>1, <1>2, <1>3 DEF SafeInv

LEMMA NewTimerSafe ==
    ASSUME SafeInv, NEW u \in Users, NEW t \in Timers, NEW ms \in Periods,
           NEW rec \in BOOLEAN, NewTimer(u, t, ms, rec)
    PROVE  SafeInv'
<1>0. /\ t \notin created /\ upc[u] = "idle" /\ t # NoTimer
      /\ ms \in Nat /\ now \in Nat
  BY TimersAssumption, TimerIsNotNull, ClockAssumption
  DEF NewTimer, SafeInv, TypeOK
<1>1. TypeOK'
  <2>1. m_next' \in [Timers -> Nat]
    BY <1>0 DEF SafeInv, TypeOK, NewTimer
  <2>2. m_ms' \in [Timers -> Periods \cup {0}]
    BY DEF SafeInv, TypeOK, NewTimer
  <2>3. m_recurring' \in [Timers -> BOOLEAN] /\ m_cb' \in [Timers -> BOOLEAN]
    BY DEF SafeInv, TypeOK, NewTimer
  <2>4. /\ upc' \in [Users -> {"idle", "insert", "front"}]
        /\ mine' \in [Users -> Timers \cup {NoTimer}]
    BY DEF SafeInv, TypeOK, NewTimer
  <2>5. QED
    BY <2>1, <2>2, <2>3, <2>4 DEF SafeInv, TypeOK, NewTimer, poll_vars
<1>2. \A x : Collected(x)' = Collected(x)
  BY DEF Collected, NewTimer, poll_vars
<1>3. \A x \in created : m_cb'[x] = m_cb[x] /\ m_recurring'[x] = m_recurring[x]
  BY <1>0 DEF SafeInv, TypeOK, NewTimer
<1>4. /\ mine'[u] = t /\ upc'[u] = "insert" /\ m_cb'[t]
      /\ \A v \in Users \ {u} : mine'[v] = mine[v] /\ upc'[v] = upc[v]
  BY DEF SafeInv, TypeOK, NewTimer
<1>5. MineInv'
  <2>1. mine[u] = NoTimer /\ \A v \in Users : mine[v] # t
    BY <1>0 DEF SafeInv, MineInv
  <2>2. t \in created' /\ t \notin m_timers' /\ created \subseteq created'
    BY <1>0 DEF SafeInv, TypeOK, NewTimer
  <2>3. QED
    BY <1>0, <1>3, <1>4, <2>1, <2>2 DEF SafeInv, MineInv, NewTimer
<1>6. PollInv'
  BY DEF SafeInv, PollInv, NewTimer, poll_vars
<1>7. FreshInv'
  BY <1>0, <1>2 DEF SafeInv, TypeOK, FreshInv, NewTimer
<1>8. CallbackIffQueued'
  <2> SUFFICES ASSUME NEW x \in created', \A v \in Users : mine'[v] # x
               PROVE  m_cb'[x] <=> x \in m_timers'
    BY DEF CallbackIffQueued
  <2>1. x # t /\ x \in created /\ x \in Timers /\ x # NoTimer
    BY <1>4, TimerIsNotNull DEF NewTimer, SafeInv, TypeOK
  <2>2. mine[u] = NoTimer
    BY <1>0 DEF SafeInv, MineInv
  <2>3. \A v \in Users : mine[v] # x
    BY <1>4, <2>1, <2>2
  <2>4. QED
    BY <1>3, <2>1, <2>3 DEF SafeInv, CallbackIffQueued, NewTimer
<1>9. OneShotOnce'
  <2>1. Cardinality(Collected(t)) = 0 /\ fired[t] = 0 /\ t \notin cancelled
    BY <1>0, FS_EmptySet DEF SafeInv, TypeOK, FreshInv
  <2>2. QED
    BY <1>0, <1>2, <1>3, <1>4, <2>1 DEF SafeInv, OneShotOnce, NewTimer
<1>10. QED
  BY <1>1, <1>5, <1>6, <1>7, <1>8, <1>9 DEF SafeInv

LEMMA InsertTimerSafe ==
    ASSUME SafeInv, NEW u \in Users, InsertTimer(u)
    PROVE  SafeInv'
<1> DEFINE t == mine[u]
<1>1. /\ upc[u] = "insert" /\ t \in created /\ m_cb[t] /\ t \in Timers
      /\ t # NoTimer /\ m_timers' = m_timers \cup {t}
      /\ upc' \in [Users -> {"idle", "insert", "front"}]
      /\ upc'[u] # "insert" /\ \A v \in Users \ {u} : upc'[v] = upc[v]
      /\ mine'[u] = NoTimer /\ \A v \in Users \ {u} : mine'[v] = mine[v]
      /\ mine' \in [Users -> Timers \cup {NoTimer}]
      /\ m_tickled' \in BOOLEAN
  BY TimerIsNotNull DEF SafeInv, TypeOK, MineInv, InsertTimer, Inserted
<1>2. TypeOK'
  BY <1>1 DEF SafeInv, TypeOK, InsertTimer, poll_vars
<1>3. MineInv'
  BY <1>1 DEF SafeInv, MineInv, InsertTimer
<1>4. PollInv'
  BY DEF SafeInv, PollInv, InsertTimer, poll_vars
<1>5. \A x : Collected(x)' = Collected(x)
  BY DEF Collected, InsertTimer, poll_vars
<1>6. FreshInv' /\ OneShotOnce'
  BY <1>5 DEF SafeInv, FreshInv, OneShotOnce, InsertTimer
<1>7. CallbackIffQueued'
  BY <1>1 DEF SafeInv, MineInv, CallbackIffQueued, InsertTimer
<1>8. QED
  BY <1>2, <1>3, <1>4, <1>6, <1>7 DEF SafeInv

LEMMA InsertedAtFrontSafe ==
    ASSUME SafeInv, NEW u \in Users, InsertedAtFront(u)
    PROVE  SafeInv'
<1>1. TypeOK'
  BY DEF SafeInv, TypeOK, InsertedAtFront, timer_vars, poll_vars
<1>2. MineInv' /\ PollInv'
  BY DEF SafeInv, TypeOK, MineInv, PollInv, InsertedAtFront, timer_vars,
         poll_vars
<1>3. FreshInv' /\ OneShotOnce' /\ CallbackIffQueued'
  BY QuietStep DEF InsertedAtFront, timer_vars, poll_vars
<1>4. QED
  BY <1>1, <1>2, <1>3 DEF SafeInv

\* cancel() finds the timer it erases, and takes the place of its callback.
LEMMA CancelSafe ==
    ASSUME SafeInv, NEW u \in Users, NEW t \in Timers, Cancel(u, t)
    PROVE  SafeInv'
<1>1. /\ t \in created /\ m_cb[t] /\ \A v \in Users : mine[v] # t
      /\ m_cb' \in [Timers -> BOOLEAN] /\ ~m_cb'[t]
      /\ \A x \in Timers \ {t} : m_cb'[x] = m_cb[x]
      /\ created \subseteq Timers
  BY DEF SafeInv, TypeOK, Cancel, Usable
<1>2. TypeOK'
  BY <1>1 DEF SafeInv, TypeOK, Cancel, user_vars, poll_vars
<1>3. MineInv' /\ PollInv'
  BY <1>1 DEF SafeInv, MineInv, PollInv, Cancel, user_vars, poll_vars
<1>4. \A x : Collected(x)' = Collected(x)
  BY DEF Collected, Cancel, poll_vars
<1>5. FreshInv'
  BY <1>1, <1>4 DEF SafeInv, FreshInv, Cancel
<1>6. CallbackIffQueued'
  BY <1>1 DEF SafeInv, CallbackIffQueued, Cancel, user_vars
<1>7. OneShotOnce'
  <2> SUFFICES ASSUME NEW x \in created, ~m_recurring[x]
               PROVE  fired[x] + Cardinality(Collected(x))
                        + (IF m_cb'[x] THEN 1 ELSE 0)
                        + (IF x \in cancelled' THEN 1 ELSE 0) = 1
    BY <1>4 DEF OneShotOnce, Cancel
  <2>1. fired[x] + Cardinality(Collected(x)) + (IF m_cb[x] THEN 1 ELSE 0)
            + (IF x \in cancelled THEN 1 ELSE 0) = 1
    BY DEF SafeInv, OneShotOnce
  <2>2. fired[x] \in Nat /\ Cardinality(Collected(x)) \in Nat
    BY CollectedFinite DEF SafeInv, TypeOK
  <2>3. CASE x = t
    BY <1>1, <2>1, <2>2, <2>3 DEF Cancel
  <2>4. CASE x # t
    BY <1>1, <2>1, <2>4 DEF Cancel
  <2>5. QED
    BY <2>3, <2>4
<1>8. QED
  BY <1>2, <1>3, <1>5, <1>6, <1>7 DEF SafeInv

LEMMA RefreshSafe ==
    ASSUME SafeInv, NEW u \in Users, NEW t \in Timers, Refresh(u, t)
    PROVE  SafeInv'
<1>1. now \in Nat /\ m_ms[t] \in Nat
  BY NumberTypes
<1>2. TypeOK'
  <2>1. m_next' \in [Timers -> Nat]
    BY <1>1 DEF SafeInv, TypeOK, Refresh
  <2>2. QED
    BY <2>1 DEF SafeInv, TypeOK, Refresh, user_vars, poll_vars
<1>3. MineInv' /\ PollInv'
  BY DEF SafeInv, MineInv, PollInv, Refresh, user_vars, poll_vars
<1>4. FreshInv' /\ OneShotOnce' /\ CallbackIffQueued'
  BY QuietStep DEF Refresh, user_vars, poll_vars
<1>5. QED
  BY <1>2, <1>3, <1>4 DEF SafeInv

LEMMA ResetSafe ==
    ASSUME SafeInv, PeriodBelow, NEW u \in Users, NEW t \in Timers,
           NEW ms \in Periods, NEW from_now \in BOOLEAN,
           Reset(u, t, ms, from_now)
    PROVE  SafeInv'
<1>0. /\ now \in Nat /\ m_ms[t] \in Nat /\ m_next[t] \in Nat /\ ms \in Nat
      /\ m_ms[t] <= m_next[t] /\ t \in m_timers /\ upc[u] = "idle"
  <2>1. ms \in Nat
    BY TimersAssumption
  <2>2. t \in created
    BY DEF Reset, Usable
  <2>3. QED
    BY <2>1, <2>2, NumberTypes DEF PeriodBelow, Reset, Usable
<1>1. /\ m_next' \in [Timers -> Nat] /\ m_ms' \in [Timers -> Periods \cup {0}]
  <2>1. ((IF from_now THEN now ELSE m_next[t] - m_ms[t]) + ms) \in Nat
    BY <1>0
  <2>2. m_next' \in [Timers -> Nat]
    BY <2>1 DEF SafeInv, TypeOK, Reset
  <2>3. QED
    BY <2>2 DEF SafeInv, TypeOK, Reset
<1>2. /\ m_timers' = m_timers /\ m_tickled' \in BOOLEAN
      /\ upc' \in [Users -> {"idle", "insert", "front"}]
      /\ upc'[u] # "insert" /\ \A v \in Users \ {u} : upc'[v] = upc[v]
  BY <1>0 DEF SafeInv, TypeOK, Reset, Inserted
<1>3. TypeOK'
  BY <1>1, <1>2 DEF SafeInv, TypeOK, Reset, poll_vars
<1>4. MineInv' /\ PollInv'
  BY <1>0, <1>2 DEF SafeInv, MineInv, PollInv, Reset, poll_vars
<1>5. FreshInv' /\ OneShotOnce' /\ CallbackIffQueued'
  BY <1>2, QuietStep DEF Reset, poll_vars
<1>6. QED
  BY <1>3, <1>4, <1>5 DEF SafeInv

\* getNextTimer() and the sleep.
LEMMA SleepSafe ==
    ASSUME SafeInv, NEW p \in Pollers,
           GetNextTimer(p) \/ Wake(p) \/ ListBegin(p)
    PROVE  SafeInv'
<1>1. Never \in Nat /\ m_timers \subseteq Timers /\ now \in StartTime..now
  BY ClockAssumption DEF Never, SafeInv, TypeOK
<1>2. /\ UNCHANGED <<now, timer_vars, m_previouseTime, user_vars, cbs, created,
                     fired, cancelled>>
      /\ ppc[p] # "run"
  BY DEF GetNextTimer, Wake, ListBegin
<1>3. /\ ppc' \in [Pollers -> {"next", "sleep", "list", "lock", "run"}]
      /\ \A q \in Pollers \ {p} : ppc'[q] = ppc[q]
  BY DEF SafeInv, TypeOK, GetNextTimer, Wake, ListBegin
<1>4. now_ms' \in [Pollers -> StartTime..now]
  BY <1>1 DEF SafeInv, TypeOK, GetNextTimer, Wake, ListBegin
<1>5. timeout' \in [Pollers -> Nat] /\ horizon' \in Nat
  <2>1. Deadlines \subseteq Nat
    BY <1>1 DEF Deadlines, SafeInv, TypeOK
  <2>2. QED
    BY <1>1, <2>1 DEF SafeInv, TypeOK, GetNextTimer, Wake, ListBegin
<1>6. m_tickled' \in BOOLEAN /\ signal' \in BOOLEAN
  BY DEF SafeInv, TypeOK, GetNextTimer, Wake, ListBegin
<1>7. TypeOK'
  BY <1>2, <1>3, <1>4, <1>5, <1>6 DEF SafeInv, TypeOK, timer_vars, user_vars
<1>8. MineInv' /\ PollInv'
  BY <1>2, <1>3 DEF SafeInv, MineInv, PollInv, timer_vars, user_vars
<1>9. FreshInv' /\ OneShotOnce' /\ CallbackIffQueued'
  BY <1>2, QuietStep DEF timer_vars, user_vars
<1>10. QED
  BY <1>7, <1>8, <1>9 DEF SafeInv

\* Each expired one-shot timer trades its callback for one copy of it.
LEMMA ListExpiredSafe ==
    ASSUME SafeInv, NEW p \in Pollers, ListExpired(p)
    PROVE  SafeInv'
<1> DEFINE expired == Expired(now_ms[p])
           again == {t \in expired : m_recurring[t]}
<1>1. /\ expired \subseteq m_timers /\ m_timers \subseteq Timers
      /\ m_timers \subseteq created /\ again \subseteq expired
  BY DEF Expired, SafeInv, TypeOK
<1>2. /\ cbs' = [cbs EXCEPT ![p] = {[timer |-> t, due |-> m_next[t]] :
                                        t \in expired}]
      /\ m_timers' = (m_timers \ expired) \cup again
      /\ m_next' = [t \in Timers |-> IF t \in again THEN now_ms[p] + m_ms[t]
                                                    ELSE m_next[t]]
      /\ m_cb' = [t \in Timers |-> m_cb[t] /\ t \notin expired \ again]
      /\ UNCHANGED <<now, m_ms, m_recurring, m_tickled, user_vars, now_ms,
                     timeout, horizon, signal, created, fired, cancelled>>
      /\ ppc[p] = "lock" /\ ppc' = [ppc EXCEPT ![p] = "run"]
      /\ Remember(now_ms[p])
  BY DEF ListExpired
<1>3. \A t \in expired : \A u \in Users : mine[u] # t
  BY <1>1, TimerIsNotNull DEF SafeInv, TypeOK, MineInv
<1>4. \A t \in expired : m_cb[t]
  BY <1>1, <1>3 DEF SafeInv, CallbackIffQueued
<1> HIDE DEF expired, again
<1>5. TypeOK'
  <2>1. m_timers' \subseteq created'
    BY <1>1, <1>2
  <2>2. m_next' \in [Timers -> Nat]
    BY <1>2, NumberTypes
  <2>3. m_previouseTime' \in StartTime..now
    BY <1>2 DEF Remember, SafeInv, TypeOK
  <2>4. cbs' \in [Pollers -> SUBSET Callbacks]
    <3>1. {[timer |-> t, due |-> m_next[t]] : t \in expired} \subseteq Callbacks
      BY <1>1, NumberTypes DEF Callbacks
    <3>2. QED
      BY <1>2, <3>1 DEF SafeInv, TypeOK
  <2>5. m_cb' \in [Timers -> BOOLEAN]
    BY <1>2
  <2>6. QED
    BY <1>2, <2>1, <2>2, <2>3, <2>4, <2>5 DEF SafeInv, TypeOK, user_vars
<1>6. /\ cbs[p] = {}
      /\ cbs'[p] = {[timer |-> t, due |-> m_next[t]] : t \in expired}
      /\ \A q \in Pollers \ {p} : cbs'[q] = cbs[q]
  BY <1>2 DEF SafeInv, PollInv, TypeOK
<1>7. \A t : /\ t \in expired => /\ p \notin Collected(t)
                                 /\ Collected(t)' = Collected(t) \cup {p}
             /\ t \notin expired => Collected(t)' = Collected(t)
  <2> SUFFICES ASSUME NEW t
               PROVE  /\ p \notin Collected(t)
                      /\ t \in expired => Collected(t)' = Collected(t) \cup {p}
                      /\ t \notin expired => Collected(t)' = Collected(t)
    OBVIOUS
  <2>1. p \notin Collected(t)
    BY <1>6 DEF Collected
  <2>2. (\E c \in cbs'[p] : c.timer = t) <=> t \in expired
    <3>1. ASSUME NEW c \in cbs'[p], c.timer = t PROVE t \in expired
      <4>1. PICK x \in expired : c = [timer |-> x, due |-> m_next[x]]
        BY <1>6
      <4>2. QED
        BY <3>1, <4>1
    <3>2. ASSUME t \in expired PROVE \E c \in cbs'[p] : c.timer = t
      <4>1. [timer |-> t, due |-> m_next[t]] \in cbs'[p]
        BY <1>6, <3>2
      <4>2. [timer |-> t, due |-> m_next[t]].timer = t
        OBVIOUS
      <4>3. QED
        BY <4>1, <4>2
    <3>3. QED
      BY <3>1, <3>2
  <2>3. QED
    BY <1>6, <2>1, <2>2 DEF Collected
<1>8. MineInv'
  BY <1>1, <1>2, <1>3 DEF SafeInv, TypeOK, MineInv, user_vars
<1>9. PollInv'
  BY <1>2, <1>6 DEF SafeInv, TypeOK, PollInv
<1>10. FreshInv'
  BY <1>1, <1>2, <1>7 DEF SafeInv, FreshInv
<1>11. CallbackIffQueued'
  <2> SUFFICES ASSUME NEW t \in created, \A u \in Users : mine[u] # t
               PROVE  m_cb'[t] <=> t \in m_timers'
    BY <1>2 DEF CallbackIffQueued, user_vars
  <2>1. t \in Timers /\ (m_cb[t] <=> t \in m_timers)
    BY DEF SafeInv, TypeOK, CallbackIffQueued
  <2>2. QED
    BY <1>1, <1>2, <2>1
<1>12. OneShotOnce'
  <2> SUFFICES ASSUME NEW t \in created, ~m_recurring[t]
               PROVE  fired[t] + Cardinality(Collected(t)')
                        + (IF m_cb'[t] THEN 1 ELSE 0)
                        + (IF t \in cancelled THEN 1 ELSE 0) = 1
    BY <1>2 DEF OneShotOnce
  <2>1. /\ fired[t] + Cardinality(Collected(t)) + (IF m_cb[t] THEN 1 ELSE 0)
             + (IF t \in cancelled THEN 1 ELSE 0) = 1
        /\ t \in Timers /\ fired[t] \in Nat
        /\ Cardinality(Collected(t)) \in Nat
    BY CollectedFinite DEF SafeInv, TypeOK, OneShotOnce
  <2>2. CASE t \in expired
    <3>1. Cardinality(Collected(t)') = Cardinality(Collected(t)) + 1
      BY <1>7, <2>2, CollectedFinite, CardAdd, ClockAssumption
    <3>2. m_cb[t] /\ ~m_cb'[t]
      <4>1. t \notin again
        BY DEF again
      <4>2. QED
        BY <1>2, <1>4, <2>1, <2>2, <4>1
    <3>3. QED
      BY <2>1, <3>1, <3>2
  <2>3. CASE t \notin expired
    BY <1>2, <1>7, <2>1, <2>3
  <2>4. QED
    BY <2>2, <2>3
<1>13. QED
  BY <1>5, <1>8, <1>9, <1>10, <1>11, <1>12 DEF SafeInv

\* Each copy of a one-shot callback is spent by one run of it.
LEMMA RunCbsSafe ==
    ASSUME SafeInv, NEW p \in Pollers, RunCbs(p)
    PROVE  SafeInv'
<1>1. TypeOK'
  <2>1. /\ cbs' \in [Pollers -> SUBSET Callbacks]
        /\ ppc' \in [Pollers -> {"next", "sleep", "list", "lock", "run"}]
    BY DEF SafeInv, TypeOK, RunCbs
  <2>2. now_ms' \in [Pollers -> StartTime..now]
    BY ClockAssumption DEF SafeInv, TypeOK, RunCbs
  <2>3. fired' \in [Timers -> Nat]
    BY DEF SafeInv, TypeOK, RunCbs
  <2>4. QED
    BY <2>1, <2>2, <2>3 DEF SafeInv, TypeOK, RunCbs, timer_vars, user_vars
<1>2. MineInv' /\ PollInv'
  BY DEF SafeInv, TypeOK, MineInv, PollInv, RunCbs, timer_vars, user_vars
<1>3. \A t : Collected(t)' = Collected(t) \ {p}
  BY DEF SafeInv, TypeOK, Collected, RunCbs
<1>4. \A t \in Timers : fired'[t] = IF ~m_recurring[t] /\ p \in Collected(t)
                                    THEN fired[t] + 1 ELSE fired[t]
  BY DEF Collected, RunCbs
<1>5. FreshInv'
  BY <1>3, <1>4 DEF SafeInv, FreshInv, RunCbs, timer_vars
<1>6. CallbackIffQueued'
  BY DEF SafeInv, CallbackIffQueued, RunCbs, timer_vars, user_vars
<1>7. OneShotOnce'
  <2> SUFFICES ASSUME NEW t \in created, ~m_recurring[t]
               PROVE  fired'[t] + Cardinality(Collected(t)')
                        + (IF m_cb[t] THEN 1 ELSE 0)
                        + (IF t \in cancelled THEN 1 ELSE 0) = 1
    BY DEF OneShotOnce, RunCbs, timer_vars
  <2>1. /\ fired[t] + Cardinality(Collected(t)) + (IF m_cb[t] THEN 1 ELSE 0)
             + (IF t \in cancelled THEN 1 ELSE 0) = 1
        /\ t \in Timers /\ fired[t] \in Nat
        /\ Cardinality(Collected(t)) \in Nat
    BY CollectedFinite DEF SafeInv, TypeOK, OneShotOnce
  <2>2. CASE p \in Collected(t)
    <3>1. Cardinality(Collected(t)') = Cardinality(Collected(t)) - 1
      BY <1>3, <2>2, CollectedFinite, CardRemove, ClockAssumption
    <3>2. QED
      BY <1>4, <2>1, <2>2, <3>1
  <2>3. CASE p \notin Collected(t)
    <3>1. Collected(t)' = Collected(t)
      BY <1>3, <2>3
    <3>2. QED
      BY <1>4, <2>1, <2>3, <3>1
  <2>4. QED
    BY <2>2, <2>3
<1>8. QED
  BY <1>1, <1>2, <1>5, <1>6, <1>7 DEF SafeInv

LEMMA PeriodBelowStep ==
    ASSUME SafeInv, PeriodBelow, [Next]_vars
    PROVE  PeriodBelow'
<1> USE DEF PeriodBelow
<1>0. created \subseteq Timers /\ \A ms \in Periods : ms \in Nat
  BY TimersAssumption DEF SafeInv, TypeOK
<1>1. ASSUME NEW u \in Users, NEW t \in Timers, NEW ms \in Periods,
             NEW rec \in BOOLEAN, NewTimer(u, t, ms, rec)
      PROVE  PeriodBelow'
  BY <1>0, <1>1, NumberTypes DEF NewTimer, SafeInv, TypeOK
<1>2. ASSUME NEW u \in Users, NEW t \in Timers, Refresh(u, t)
      PROVE  PeriodBelow'
  BY <1>0, <1>2, NumberTypes DEF Refresh, SafeInv, TypeOK
<1>3. ASSUME NEW u \in Users, NEW t \in Timers, NEW ms \in Periods,
             NEW from_now \in BOOLEAN, Reset(u, t, ms, from_now)
      PROVE  PeriodBelow'
  BY <1>0, <1>3, NumberTypes DEF Reset, Usable, SafeInv, TypeOK
<1>4. ASSUME NEW p \in Pollers, ListExpired(p) PROVE PeriodBelow'
  BY <1>0, <1>4, NumberTypes DEF ListExpired, SafeInv, TypeOK
<1>5. CASE UNCHANGED <<created, m_ms, m_next>>
  BY <1>5
<1>6. QED
  BY <1>1, <1>2, <1>3, <1>4, <1>5
  DEF Next, vars, UserCall, UserReturn, PollerStep, Tick, InsertTimer,
      InsertedAtFront, Cancel, GetNextTimer, Wake, ListBegin, RunCbs,
      timer_vars

LEMMA SafeStep == SafeInv /\ PeriodBelow /\ [Next]_vars => SafeInv'
<1> SUFFICES ASSUME SafeInv, PeriodBelow, [Next]_vars PROVE SafeInv'
  OBVIOUS
<1>1. CASE UNCHANGED vars
  <2>1. TypeOK' /\ MineInv' /\ PollInv'
    BY <1>1 DEF SafeInv, TypeOK, MineInv, PollInv, vars, timer_vars,
                user_vars, poll_vars
  <2>2. FreshInv' /\ OneShotOnce' /\ CallbackIffQueued'
    BY <1>1, QuietStep DEF vars, timer_vars, user_vars, poll_vars
  <2>3. QED
    BY <2>1, <2>2 DEF SafeInv
<1>2. CASE Tick
  BY <1>2, TickSafe
<1>3. ASSUME NEW u \in Users, UserCall(u) \/ UserReturn(u) PROVE SafeInv'
  BY <1>3, NewTimerSafe, CancelSafe, RefreshSafe, ResetSafe, InsertTimerSafe,
     InsertedAtFrontSafe DEF UserCall, UserReturn
<1>4. ASSUME NEW p \in Pollers, PollerStep(p) PROVE SafeInv'
  BY <1>4, SleepSafe, ListExpiredSafe, RunCbsSafe DEF PollerStep
<1>5. QED
  BY <1>1, <1>2, <1>3, <1>4 DEF Next

LEMMA SafeInvariant == Spec => [](SafeInv /\ PeriodBelow)
<1>1. Init => PeriodBelow
  BY DEF Init, PeriodBelow
<1>2. SafeInv /\ PeriodBelow /\ [Next]_vars => (SafeInv /\ PeriodBelow)'
  BY SafeStep, PeriodBelowStep
<1>3. QED
  BY <1>1, <1>2, InitSafe, PTL DEF Spec

\* Type correctness.
THEOREM TimerTypes == Spec => []TypeOK
<1>1. SafeInv => TypeOK
  BY DEF SafeInv
<1>2. QED
  BY <1>1, SafeInvariant, PTL

\* m_cb and m_timers agree, whatever the clock does.
THEOREM CancelErasesWhatItFinds == Spec => []CallbackIffQueued
<1>1. SafeInv => CallbackIffQueued
  BY DEF SafeInv
<1>2. QED
  BY <1>1, SafeInvariant, PTL

\* A one-shot callback runs once or is cancelled, never both.
THEOREM OneShotCorrect == Spec => []OneShotOnce
<1>1. SafeInv => OneShotOnce
  BY DEF SafeInv
<1>2. QED
  BY <1>1, SafeInvariant, PTL

-----------------------------------------------------------------------------
(* With a clock that never looks turned back, timers are on time *)

\* After an hour of uptime the unsigned subtraction cannot wrap, and a poller
\* that waited for the lock for no more than an hour is not taken for a
\* rollover, because m_previouseTime is never ahead of the clock.
LEMMA NoRollover ==
    ASSUME LongUptime, PromptPollers, SafeInv, NEW p \in Pollers,
           ppc[p] = "lock"
    PROVE  ~Rollover(now_ms[p])
<1>1. /\ now_ms[p] \in StartTime..now /\ m_previouseTime \in StartTime..now
      /\ now \in StartTime..MaxTime
  BY DEF SafeInv, TypeOK
<1>2. {Hour, StartTime, MaxTime} \subseteq Nat
  BY ClockAssumption
<1>3. Minus(m_previouseTime, Hour) = m_previouseTime - Hour
  BY <1>1, <1>2 DEF LongUptime, Minus
<1>4. QED
  BY <1>1, <1>2, <1>3 DEF PromptPollers, Rollover

\* A timer that joins the set either raises m_tickled or is not the first.
LEMMA InsertedHorizon ==
    ASSUME NEW u, NEW S, NEW t \in Nat, S \subseteq Nat, NEW next,
           next[t] \in Nat, \A x \in S : next[x] \in Nat,
           horizon \in Nat, m_tickled \in BOOLEAN,
           ~m_tickled => \A x \in S : horizon <= next[x],
           Inserted(u, next, S, t)
    PROVE  ~m_tickled' => \A x \in S \cup {t} : horizon <= next[x]
<1> SUFFICES ASSUME ~m_tickled' PROVE horizon <= next[t] /\ ~m_tickled
  OBVIOUS
<1>1. ~m_tickled /\ ~First(next, S, t)
  BY DEF Inserted
<1>2. PICK x \in S \ {t} : ~Before(next, t, x)
  BY <1>1 DEF First
<1>3. next[x] <= next[t]
  BY <1>2 DEF Before
<1>4. QED
  BY <1>1, <1>2, <1>3

LEMMA InitClock == Init => ClockInv
  BY InitSafe DEF Init, ClockInv, PeriodInv, NeverEarly, HorizonSound

LEMMA ClockStep ==
    ASSUME LongUptime, PromptPollers, ClockInv, PeriodBelow, [Next]_vars
    PROVE  ClockInv'
<1> USE DEF ClockInv
<1>0. /\ SafeInv' /\ created \subseteq Timers /\ m_timers \subseteq created
      /\ \A ms \in Periods : ms \in Nat
      /\ m_next \in [Timers -> Nat] /\ m_ms \in [Timers -> Periods \cup {0}]
      /\ m_tickled \in BOOLEAN /\ Timers \subseteq Nat
  BY SafeStep, TimersAssumption DEF SafeInv, TypeOK
<1>1. CASE UNCHANGED vars
  BY <1>0, <1>1 DEF PeriodInv, NeverEarly, HorizonSound, vars, timer_vars,
                    poll_vars
<1>2. CASE Tick
  <2>1. now' = now + 1 /\ now \in Nat
    BY <1>2, NumberTypes DEF Tick
  <2>2. PeriodInv'
    BY <1>0, <1>2, <2>1, NumberTypes DEF PeriodInv, Tick, timer_vars
  <2>3. NeverEarly'
    <3>1. \A p \in Pollers : \A c \in cbs[p] : c.due \in Nat
      BY DEF SafeInv, TypeOK, Callbacks
    <3>2. QED
      BY <1>2, <2>1, <3>1 DEF NeverEarly, Tick, poll_vars
  <2>4. HorizonSound'
    BY <1>2 DEF HorizonSound, Tick, timer_vars, poll_vars
  <2>5. QED
    BY <1>0, <2>2, <2>3, <2>4
<1>3. ASSUME NEW u \in Users, NEW t \in Timers, NEW ms \in Periods,
             NEW rec \in BOOLEAN, NewTimer(u, t, ms, rec)
      PROVE  ClockInv'
  <2>1. \A x \in created : m_next'[x] = m_next[x] /\ m_ms'[x] = m_ms[x]
    BY <1>0, <1>3 DEF NewTimer
  <2>2. m_next'[t] = now + ms /\ m_ms'[t] = ms
    BY <1>0, <1>3 DEF NewTimer
  <2>3. PeriodInv'
    BY <1>0, <1>3, <2>1, <2>2, NumberTypes DEF PeriodInv, NewTimer
  <2>4. NeverEarly' /\ HorizonSound'
    BY <1>0, <1>3, <2>1 DEF NeverEarly, HorizonSound, NewTimer, poll_vars
  <2>5. QED
    BY <1>0, <2>3, <2>4
<1>4. ASSUME NEW u \in Users, InsertTimer(u) PROVE ClockInv'
  <2>1. mine[u] \in Timers /\ Inserted(u, m_next, m_timers, mine[u])
    BY <1>0, <1>4 DEF InsertTimer, SafeInv, MineInv
  <2>2. ~m_tickled' => \A x \in m_timers \cup {mine[u]} : horizon <= m_next[x]
    BY ZenonT(60), <1>0, <2>1, InsertedHorizon, NumberTypes DEF HorizonSound
  <2>3. HorizonSound'
    BY <1>4, <2>1, <2>2 DEF HorizonSound, InsertTimer, Inserted, poll_vars
  <2>4. PeriodInv' /\ NeverEarly'
    BY <1>4 DEF PeriodInv, NeverEarly, InsertTimer, poll_vars
  <2>5. QED
    BY <1>0, <2>3, <2>4
<1>5. ASSUME NEW u \in Users, NEW t \in Timers, Refresh(u, t)
      PROVE  ClockInv'
  <2>1. m_next[t] <= now + m_ms[t] /\ m_next'[t] = now + m_ms[t]
    BY <1>0, <1>5 DEF PeriodInv, Refresh, Usable
  <2>2. \A x \in Timers \ {t} : m_next'[x] = m_next[x]
    BY <1>0, <1>5 DEF Refresh
  <2>3. PeriodInv'
    BY <1>0, <1>5, <2>1, <2>2, NumberTypes DEF PeriodInv, Refresh
  <2>4. HorizonSound'
    BY <1>0, <1>5, <2>1, <2>2, NumberTypes DEF HorizonSound, Refresh, poll_vars
  <2>5. NeverEarly'
    BY <1>5 DEF NeverEarly, Refresh, poll_vars
  <2>6. QED
    BY <1>0, <2>3, <2>4, <2>5
<1>6. ASSUME NEW u \in Users, NEW t \in Timers, NEW ms \in Periods,
             NEW from_now \in BOOLEAN, Reset(u, t, ms, from_now)
      PROVE  ClockInv'
  <2>1. /\ t \in created /\ t \in m_timers
        /\ m_next'[t] = (IF from_now THEN now ELSE m_next[t] - m_ms[t]) + ms
        /\ m_ms'[t] = ms
        /\ \A x \in Timers \ {t} : m_next'[x] = m_next[x] /\ m_ms'[x] = m_ms[x]
    BY <1>0, <1>6 DEF Reset, Usable
  <2>2. m_next'[t] <= now + ms /\ m_next'[t] \in Nat
    BY <1>0, <2>1, NumberTypes DEF PeriodInv, PeriodBelow
  <2>3. PeriodInv'
    BY <1>0, <1>6, <2>1, <2>2 DEF PeriodInv, Reset
  <2>4. Inserted(u, m_next', m_timers \ {t}, t)
    BY <1>6 DEF Reset
  <2>5. ~m_tickled' =>
            \A x \in (m_timers \ {t}) \cup {t} : horizon <= m_next'[x]
    <3>1. \A x \in m_timers \ {t} : m_next'[x] \in Nat
      BY <1>0, <2>1
    <3>2. ~m_tickled => \A x \in m_timers \ {t} : horizon <= m_next'[x]
      BY <1>0, <2>1 DEF HorizonSound
    <3>3. horizon \in Nat /\ t \in Nat /\ m_timers \ {t} \subseteq Nat
      BY <1>0, NumberTypes
    <3>4. QED
      BY <1>0, <2>2, <2>4, <3>1, <3>2, <3>3, InsertedHorizon
  <2>6. HorizonSound'
    BY <1>6, <2>4, <2>5 DEF HorizonSound, Reset, Inserted, poll_vars
  <2>7. NeverEarly'
    BY <1>6 DEF NeverEarly, Reset, poll_vars
  <2>8. QED
    BY <1>0, <2>3, <2>6, <2>7
<1>7. ASSUME NEW p \in Pollers, GetNextTimer(p) PROVE ClockInv'
  <2>1. PICK d \in Deadlines : IsNextDeadline(d) /\ horizon' = d
    BY <1>7 DEF GetNextTimer
  <2>2. \A x \in m_timers : d <= m_next[x]
    <3> SUFFICES ASSUME NEW x \in m_timers PROVE d <= m_next[x]
      OBVIOUS
    <3>1. PICK y \in m_timers : First(m_next, m_timers, y) /\ d = m_next[y]
      BY <2>1 DEF IsNextDeadline
    <3>2. QED
      BY <1>0, <3>1, NumberTypes DEF First, Before
  <2>3. HorizonSound'
    BY <1>7, <2>1, <2>2 DEF HorizonSound, GetNextTimer, timer_vars
  <2>4. PeriodInv' /\ NeverEarly'
    BY <1>7 DEF PeriodInv, NeverEarly, GetNextTimer, timer_vars
  <2>5. QED
    BY <1>0, <2>3, <2>4
<1>8. ASSUME NEW p \in Pollers, ListExpired(p) PROVE ClockInv'
  <2> DEFINE expired == Expired(now_ms[p])
  <2>1. \A t \in expired : t \in m_timers /\ m_next[t] <= now_ms[p]
    BY <1>8, NoRollover DEF Expired, ListExpired
  <2>2. now_ms[p] \in Nat /\ now_ms[p] <= now
    BY NumberTypes
  <2>3. NeverEarly'
    <3>1. \A c \in cbs'[p] : c.due <= now
      <4>1. cbs'[p] = {[timer |-> t, due |-> m_next[t]] : t \in expired}
        BY <1>8 DEF ListExpired, SafeInv, TypeOK
      <4> SUFFICES ASSUME NEW c \in cbs'[p] PROVE c.due <= now
        OBVIOUS
      <4>2. PICK t \in expired : c = [timer |-> t, due |-> m_next[t]]
        BY <4>1
      <4>3. t \in Timers /\ m_next[t] <= now_ms[p]
        BY <1>0, <2>1
      <4>4. m_next[t] \in Nat /\ now \in Nat
        BY <4>3, NumberTypes
      <4> HIDE DEF expired
      <4>5. QED
        BY <2>2, <4>2, <4>3, <4>4
    <3>2. \A q \in Pollers \ {p} : cbs'[q] = cbs[q]
      BY <1>8 DEF ListExpired, SafeInv, TypeOK
    <3>3. now' = now
      BY <1>8 DEF ListExpired
    <3>4. QED
      BY <3>1, <3>2, <3>3 DEF NeverEarly
  <2>4. \A t \in Timers :
            \/ m_next'[t] = m_next[t]
            \/ t \in expired /\ m_next'[t] = now_ms[p] + m_ms[t]
    BY <1>8 DEF ListExpired
  <2>5. PeriodInv'
    BY <1>0, <1>8, <2>2, <2>4, NumberTypes DEF PeriodInv, ListExpired
  <2>6. \A t \in m_timers : m_next[t] <= m_next'[t]
    BY <1>0, <2>1, <2>2, <2>4, NumberTypes
  <2>7. m_timers' \subseteq m_timers /\ UNCHANGED <<horizon, m_tickled>>
    BY <1>8 DEF ListExpired, Expired
  <2>8. HorizonSound'
    <3>1. \A t \in m_timers : m_next[t] \in Nat /\ m_next'[t] \in Nat
      BY <1>0 DEF SafeInv, TypeOK
    <3>2. QED
      BY <2>6, <2>7, <3>1, NumberTypes DEF HorizonSound
  <2>9. QED
    BY <1>0, <2>3, <2>5, <2>8
<1>9. ASSUME NEW p \in Pollers, RunCbs(p) PROVE ClockInv'
  <2>1. \A q \in Pollers : cbs'[q] \subseteq cbs[q]
    BY <1>9 DEF RunCbs, SafeInv, TypeOK
  <2>2. QED
    BY <1>0, <1>9, <2>1 DEF PeriodInv, NeverEarly, HorizonSound, RunCbs,
                            timer_vars
<1>10. ASSUME NEW u \in Users, InsertedAtFront(u) PROVE ClockInv'
  BY <1>0, <1>10 DEF PeriodInv, NeverEarly, HorizonSound, InsertedAtFront,
                     timer_vars, poll_vars
<1>11. ASSUME NEW u \in Users, NEW t \in Timers, Cancel(u, t) PROVE ClockInv'
  BY <1>0, <1>11 DEF PeriodInv, NeverEarly, HorizonSound, Cancel, poll_vars
<1>12. ASSUME NEW p \in Pollers, Wake(p) \/ ListBegin(p) PROVE ClockInv'
  BY <1>0, <1>12 DEF PeriodInv, NeverEarly, HorizonSound, Wake, ListBegin,
                     timer_vars
<1>13. QED
  BY <1>1, <1>2, <1>3, <1>4, <1>5, <1>6, <1>7, <1>8, <1>9, <1>10, <1>11, <1>12
  DEF Next, UserCall, UserReturn, PollerStep

LEMMA ClockInvariant == LongUptime /\ Spec /\ []PromptPollers => []ClockInv
<1>1. SafeInv /\ PeriodBelow /\ ClockInv /\ LongUptime /\ PromptPollers
          /\ [Next]_vars => ClockInv'
  BY ClockStep
<1>2. LongUptime => LongUptime'
  BY DEF LongUptime
<1>3. QED
  BY <1>1, <1>2, InitClock, SafeInvariant, PTL DEF Spec

\* No callback runs before its deadline (timer.cc:138-175), however long the
\* program runs, provided the machine had been up for an hour when it started
\* and no poller takes an hour to get the lock.  The run timers_rollover shows
\* what happens without the first; the second is what timer.cc:195 takes for
\* granted of the scheduling.
THEOREM TimersNeverEarly ==
    LongUptime /\ Spec /\ []PromptPollers => []NeverEarly
<1>1. ClockInv => NeverEarly
  BY DEF ClockInv
<1>2. QED
  BY <1>1, ClockInvariant, PTL

\* Under the same two conditions no new first deadline goes unnoticed
\* (timer.cc:121, 181-186).
THEOREM FrontNeverMissed ==
    LongUptime /\ Spec /\ []PromptPollers => []HorizonSound
<1>1. ClockInv => HorizonSound
  BY DEF ClockInv
<1>2. QED
  BY <1>1, ClockInvariant, PTL
=============================================================================
