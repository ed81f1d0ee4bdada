------------------------ MODULE TimerManagerProofs ------------------------
(***************************************************************************)
(* Theorems about TimerManager, for any number of timers and workers, any  *)
(* periods and a clock that may be set back.                               *)
(***************************************************************************)
EXTENDS TimerManager, WellFoundedInduction, TLAPS

\* What cancel() and listExpiredCb() have done to a timer shows in m_cb: a
\* cancelled timer, and a fired one that is not recurring, has no callback.
Spent ==
    /\ cancelled \intersect m_cb = {}
    /\ \A t \in fired : m_recurring[t] \/ t \notin m_cb

\* A timer nobody has constructed has been neither cancelled nor fired, and
\* m_recurring is a function on the timers.
TimerInv ==
    /\ CbIffScheduled
    /\ CancelOrFire
    /\ Spent
    /\ m_recurring \in [Timers -> BOOLEAN]
    /\ m_timers \subseteq Timers

LEMMA TimerInit == Init => TimerInv
  BY DEF Init, TimerInv, CbIffScheduled, CancelOrFire, Spent

\* The only steps that disturb the invariant are those that take a timer out
\* of m_timers, and they clear its callback in the same step.
LEMMA TimerStep == TimerInv /\ [Next]_vars => TimerInv'
  <1> SUFFICES ASSUME TimerInv, [Next]_vars PROVE TimerInv'
    OBVIOUS
  <1> USE DEF TimerInv, CbIffScheduled, CancelOrFire, Spent
  <1>1. ASSUME NEW t \in Timers, NEW ms \in Periods, NEW recurring \in BOOLEAN,
               Construct(t, ms, recurring)
        PROVE  TimerInv'
    <2>1. /\ t \notin m_cb /\ t \notin cancelled /\ t \notin fired
          /\ m_cb' = m_cb \union {t} /\ made' = made \union {t}
          /\ m_recurring' = [m_recurring EXCEPT ![t] = recurring]
          /\ UNCHANGED <<m_timers, cancelled, fired>>
      BY <1>1 DEF Construct, history
    <2>2. \A u \in fired : u # t /\ (u \in Timers => m_recurring'[u] = m_recurring[u])
      BY <2>1
    <2>3. \A u \in fired : m_recurring'[u] = m_recurring[u]
      BY <2>1
    <2> QED  BY <2>1, <2>3
  <1>2. ASSUME NEW t \in Timers, AddTimer(t) \/ OnTimerInsertedAtFront(t) PROVE TimerInv'
    BY <1>2 DEF AddTimer, Insert, OnTimerInsertedAtFront, timers, history
  <1>3. ASSUME NEW t \in Timers, Cancel(t) PROVE TimerInv'
    BY <1>3 DEF Cancel, history
  <1>4. ASSUME NEW t \in Timers, Refresh(t) PROVE TimerInv'
    BY <1>4 DEF Refresh, history
  <1>5. ASSUME NEW t \in Timers, NEW ms \in Periods, NEW from_now \in BOOLEAN,
               Reset(t, ms, from_now)
        PROVE  TimerInv'
    BY <1>5 DEF Reset, Insert, history
  <1>6. ASSUME NEW w \in Workers, ListExpired(w) PROVE TimerInv'
    <2> DEFINE expired == Expired(now_ms[w])
    <2>1. expired \subseteq m_timers
      BY DEF Expired
    <2>2. /\ m_timers' = (m_timers \ expired) \union {t \in expired : m_recurring[t]}
          /\ m_cb' = m_cb \ {t \in expired : ~m_recurring[t]}
          /\ fired' = fired \union expired
          /\ UNCHANGED <<m_recurring, made, cancelled>>
      BY <1>6 DEF ListExpired, Dropped
    <2> HIDE DEF expired
    <2> QED  BY <2>1, <2>2
  <1>7. ASSUME NEW w \in Workers, NEW byPipe \in BOOLEAN,
               GoIdle(w) \/ GetNextTimer(w) \/ EpollWait(w) \/ WakeUp(w, byPipe) \/ HandleEvents(w)
        PROVE  TimerInv'
    BY <1>7 DEF GoIdle, GetNextTimer, EpollWait, WakeUp, HandleEvents, timers, history
  <1>8. ASSUME NEW c \in 0 .. MaxTime, Tick \/ SetBack(c) PROVE TimerInv'
    BY <1>8 DEF Tick, SetBack, timers, history
  <1>9. ASSUME UNCHANGED vars PROVE TimerInv'
    BY <1>9 DEF vars, timers, history
  <1>10. ASSUME Tick PROVE TimerInv'
    BY <1>10 DEF Tick, timers, history
  <1> QED
    BY <1>1, <1>2, <1>3, <1>4, <1>5, <1>6, <1>7, <1>8, <1>9, <1>10 DEF Next, Worker, User

\* cancel() may erase what find() returns: a timer that has a callback is in
\* m_timers, whatever the other threads have done.
THEOREM CbCorrect == Spec => []CbIffScheduled
  <1>1. TimerInv => CbIffScheduled
    BY DEF TimerInv
  <1> QED  BY TimerInit, TimerStep, <1>1, PTL DEF Spec

\* A timer that is not recurring is cancelled or fires, never both.
THEOREM CancelCorrect == Spec => []CancelOrFire
  <1>1. TimerInv => CancelOrFire
    BY DEF TimerInv
  <1> QED  BY TimerInit, TimerStep, <1>1, PTL DEF Spec

\* A cancelled timer never enters m_timers and is never collected again.
THEOREM CancelledCorrect == Spec => CancelledStays
  <1>1. TimerInv /\ [Next]_vars
           => [\A t \in cancelled : t \notin m_timers' /\ (t \in fired' => t \in fired)]_vars
    <2> SUFFICES ASSUME TimerInv, Next, NEW t \in cancelled
                 PROVE  t \notin m_timers' /\ (t \in fired' => t \in fired)
      OBVIOUS
    <2>1. TimerInv'
      BY TimerStep
    <2>2. t \in cancelled'
      BY DEF Next, Worker, User, Construct, AddTimer, Cancel, Refresh, Reset, GoIdle, GetNextTimer,
         EpollWait, WakeUp, ListExpired, HandleEvents, OnTimerInsertedAtFront, Tick, SetBack, history
    <2>3. t \notin m_timers /\ t \notin m_timers'
      BY <2>1, <2>2 DEF TimerInv, CbIffScheduled, Spent
    <2>4. fired' \subseteq fired \union m_timers
      BY DEF Next, Worker, User, Construct, AddTimer, Cancel, Refresh, Reset, GoIdle, GetNextTimer,
         EpollWait, WakeUp, ListExpired, HandleEvents, OnTimerInsertedAtFront, Tick, SetBack, Expired, history
    <2> QED  BY <2>3, <2>4
  <1> QED  BY TimerInit, TimerStep, <1>1, PTL DEF Spec, CancelledStays

-----------------------------------------------------------------------------
(* Times.                                                                  *)

\* A set of times has an earliest one, which is what Min chooses.
LEMMA LeastNat ==
    ASSUME NEW S \in SUBSET Nat, S # {}
    PROVE  \E m \in S : \A n \in S : m <= n
  <1>1. PICK R : R = OpToRel(<, Nat)
    OBVIOUS
  <1>2. \A x, y \in Nat : x < y => <<x, y>> \in R
    BY <1>1, Zenon DEF OpToRel
  <1>3. IsWellFoundedOn(R, Nat)
    BY <1>1, NatLessThanWellFounded, Zenon
  <1>4. PICK m \in S : \A n \in S : ~(<<n, m>> \in R)
    BY <1>3, WFMin, Zenon
  <1>5. \A n \in S : ~(n < m)
    BY <1>2, <1>4
  <1> QED  BY <1>5

LEMMA MinNat ==
    ASSUME NEW S \in SUBSET Nat, S # {}
    PROVE  Min(S) \in S /\ \A n \in S : Min(S) <= n
  BY LeastNat DEF Min

LEMMA MinOfTwo ==
    ASSUME NEW a \in Nat, NEW b \in Nat
    PROVE  Min({a, b}) \in Nat /\ Min({a, b}) <= a /\ Min({a, b}) <= b
  <1>1. PICK S \in SUBSET Nat : S = {a, b}
    OBVIOUS
  <1>2. Min(S) \in S /\ \A n \in S : Min(S) <= n
    BY <1>1, MinNat
  <1> QED  BY <1>1, <1>2

LEMMA MaxOfTwo ==
    ASSUME NEW a \in Nat, NEW b \in Nat
    PROVE  Max({a, b}) \in Nat /\ Max({a, b}) >= a /\ Max({a, b}) >= b
  <1>1. \E m \in {a, b} : \A n \in {a, b} : m >= n
    <2>1. CASE a >= b
      BY <2>1
    <2>2. CASE b >= a
      BY <2>2
    <2> QED  BY <2>1, <2>2
  <1>2. Max({a, b}) \in {a, b} /\ \A n \in {a, b} : Max({a, b}) >= n
    BY <1>1, Zenon DEF Max
  <1> QED  BY <1>2

LEMMA EarliestFacts ==
    ASSUME TypeOK, m_timers # {}
    PROVE  /\ Earliest \in Nat
           /\ \E t \in m_timers : Earliest = m_next[t]
           /\ \A t \in m_timers : Earliest <= m_next[t]
  <1>1. PICK S : S = {m_next[t] : t \in m_timers}
    OBVIOUS
  <1>2. S \in SUBSET Nat /\ S # {}
    BY <1>1 DEF TypeOK
  <1>3. Min(S) \in S /\ \A n \in S : Min(S) <= n
    BY <1>2, MinNat
  <1>4. Earliest = Min(S)
    BY <1>1 DEF Earliest
  <1> QED  BY <1>1, <1>2, <1>3, <1>4

\* epoll_wait sleeps no longer than until the earliest timer.
LEMMA TimeoutFacts ==
    ASSUME TypeOK
    PROVE  /\ Timeout \in Nat
           /\ m_timers # {} => \/ clock + Timeout <= clock
                               \/ \A t \in m_timers : clock + Timeout <= m_next[t]
  <1>1. clock \in Nat /\ MaxTimeout \in Nat
    BY TimerAssumption DEF TypeOK
  <1>2. CASE m_timers = {}
    BY <1>1, <1>2 DEF Timeout
  <1>3. CASE m_timers # {} /\ clock >= Earliest
    <2>1. Timeout = 0
      BY <1>3 DEF Timeout
    <2> QED  BY <1>1, <2>1
  <1>4. CASE m_timers # {} /\ ~(clock >= Earliest)
    <2>1. PICK e \in Nat : e = Earliest /\ \A t \in m_timers : e <= m_next[t]
      BY <1>4, EarliestFacts
    <2>2. PICK d : d = e - clock
      OBVIOUS
    <2>3. d \in Nat /\ clock + d = e
      BY <1>1, <1>4, <2>1, <2>2
    <2>4. Timeout = Min({d, MaxTimeout})
      BY <1>4, <2>1, <2>2 DEF Timeout
    <2>5. Timeout \in Nat /\ Timeout <= d
      BY <1>1, <2>3, <2>4, MinOfTwo
    <2>6. \A t \in m_timers : m_next[t] \in Nat
      BY DEF TypeOK
    <2> QED  BY <1>1, <2>1, <2>3, <2>5, <2>6
  <1> QED  BY <1>2, <1>3, <1>4

\* A scheduled timer is due m_ms after its wait began; and as long as nobody sets
\* the clock back, every time that was read from it is past.
TimesInv ==
    /\ \A t \in m_timers \union made : m_next[t] = start[t] + m_ms[t]
    /\ backs = 0 => /\ m_previousTime <= clock
                    /\ \A w \in Workers : now_ms[w] <= clock
                    /\ \A t \in Timers : start[t] <= clock

\* The worker has asked getNextTimer() and not woken since.
Asleep(w) == pc[w] \in {"wait", "sleep"}

\* When a worker would wake if its epoll_wait had begun as soon as it asked.
Planned(w) == asked[w] + next_timeout[w]

\* Where everybody is asleep and nobody is about to be woken, nothing is left to
\* be told, and one worker planned to sleep no longer than until the first timer.
SleepInv ==
    backs = 0 /\ (\A w \in Workers : Asleep(w)) /\ ~pipe /\ telling = {} =>
        /\ ~m_tickled
        /\ m_timers # {} => \E w \in Workers : \/ Planned(w) <= clock
                                               \/ \A t \in m_timers : Planned(w) <= m_next[t]

ClockInv == TypeOK /\ TimesInv /\ SleepInv /\ TimerInv

LEMMA ClockInit == Init => ClockInv
  <1> SUFFICES ASSUME Init PROVE ClockInv
    OBVIOUS
  <1>1. TypeOK
    <2>1. clock \in 0 .. MaxTime /\ backs \in 0 .. MaxBack /\ m_previousTime \in Nat
      BY TimerAssumption DEF Init
    <2>2. m_tickled \in BOOLEAN /\ pipe \in BOOLEAN
      BY DEF Init
    <2>3. m_recurring \in [Timers -> BOOLEAN]
      BY DEF Init
    <2> QED  BY <2>1, <2>2, <2>3 DEF Init, TypeOK
  <1>2. TimesInv
    BY DEF Init, TimesInv
  <1>3. SleepInv /\ TimerInv
    BY TimerInit DEF Init, SleepInv
  <1> QED  BY <1>1, <1>2, <1>3 DEF ClockInv

\* addTimer(val, lock): a timer that comes to the front is announced, unless
\* somebody was told already and has not slept since.
LEMMA InsertFacts ==
    ASSUME ClockInv, NEW t \in Timers, NEW next \in Nat, Insert(t, next), UNCHANGED <<clock, backs, pc, pipe, asked, next_timeout>>
    PROVE  /\ m_timers' \subseteq Timers /\ m_next' \in [Timers -> Nat]
           /\ m_timers' = m_timers \union {t}
           /\ \A u \in Timers : m_next'[u] = IF u = t THEN next ELSE m_next[u]
           /\ m_tickled' \in BOOLEAN /\ telling' \subseteq Timers
           /\ SleepInv'
  <1> USE DEF ClockInv
  <1>1. /\ m_timers' \subseteq Timers /\ m_next' \in [Timers -> Nat]
        /\ m_timers' = m_timers \union {t}
        /\ \A u \in Timers : m_next'[u] = IF u = t THEN next ELSE m_next[u]
    BY DEF Insert, TypeOK
  <1> DEFINE atFront == ~m_tickled /\ \A u \in m_timers \ {t} : next <= m_next[u]
             before == ~m_tickled /\ \A u \in m_timers \ {t} : next < m_next[u]
  <1>2. PICK front1 \in {atFront, before} :
           /\ m_tickled' = (m_tickled \/ front1)
           /\ telling' = IF front1 THEN telling \union {t} ELSE telling
    BY DEF Insert
  <1>3. CASE front1
    <2>1. m_tickled' = TRUE /\ telling' = telling \union {t}
      BY <1>2, <1>3
    <2>2. telling' # {} /\ telling' \subseteq Timers
      BY <2>1 DEF TypeOK
    <2>4. SleepInv'
      BY <2>2 DEF SleepInv
    <2> QED  BY <1>1, <2>1, <2>2, <2>4
  <1>4. CASE ~front1
    <2>1. m_tickled' = m_tickled /\ telling' = telling
      BY <1>2, <1>4 DEF TypeOK
    <2>2. m_tickled \/ \E u \in m_timers \ {t} : ~(next < m_next[u])
      <3>1. front1 = atFront \/ front1 = before
        BY <1>2
      <3>2. \A u \in m_timers : m_next[u] \in Nat
        BY DEF TypeOK
      <3>3. CASE ~atFront
        BY <3>2, <3>3
      <3>4. CASE ~before
        BY <3>4
      <3> QED  BY <1>4, <3>1, <3>3, <3>4
    <2>3. ASSUME backs = 0, \A w \in Workers : Asleep(w), ~pipe, telling = {}
          PROVE  /\ ~m_tickled
                 /\ \E w \in Workers : Planned(w) <= clock \/ \A u \in m_timers' : Planned(w) <= m_next'[u]
      <3>1. ~m_tickled
        BY <2>3 DEF SleepInv
      <3>2. PICK u \in m_timers \ {t} : ~(next < m_next[u])
        BY <2>2, <3>1
      <3>3. PICK w \in Workers : Planned(w) <= clock \/ \A v \in m_timers : Planned(w) <= m_next[v]
        BY <2>3, <3>2 DEF SleepInv
      <3>4. Planned(w) \in Nat /\ \A v \in m_timers : m_next[v] \in Nat /\ v \in Timers
        BY DEF TypeOK, Planned
      <3>5. CASE \A v \in m_timers : Planned(w) <= m_next[v]
        <4>1. Planned(w) <= next
          BY <3>2, <3>4, <3>5
        <4>2. \A v \in m_timers' : Planned(w) <= m_next'[v]
          BY <1>1, <3>4, <3>5, <4>1
        <4> QED  BY <3>1, <4>2
      <3> QED  BY <3>1, <3>3, <3>5
    <2>4. SleepInv'
      BY <2>1, <2>3 DEF SleepInv, Asleep, Planned
    <2>5. m_tickled' \in BOOLEAN /\ telling' \subseteq Timers
      BY <2>1 DEF TypeOK
    <2> QED  BY <1>1, <2>4, <2>5
  <1> QED  BY <1>3, <1>4

\* Steps that neither touch the timers nor let anybody fall asleep.
LEMMA SleepKeeps ==
    ASSUME ClockInv, TypeOK', m_timers' \subseteq m_timers,
           UNCHANGED <<clock, backs, m_tickled, telling, pipe, pc, asked, next_timeout>>,
           \A t \in m_timers' : m_next[t] <= m_next'[t]
    PROVE  SleepInv'
  <1>0. \A w \in Workers : Planned(w) = Planned(w)' /\ Asleep(w) = Asleep(w)' /\ Planned(w) \in Nat
    BY DEF Planned, Asleep, ClockInv, TypeOK
  <1> SUFFICES ASSUME backs = 0, \A w \in Workers : Asleep(w), ~pipe, telling = {}
               PROVE  /\ ~m_tickled
                      /\ m_timers' # {} => \E w \in Workers : \/ Planned(w) <= clock
                                                              \/ \A t \in m_timers' : Planned(w) <= m_next'[t]
    BY <1>0 DEF SleepInv
  <1>1. /\ ~m_tickled
        /\ m_timers # {} => \E w \in Workers : \/ Planned(w) <= clock
                                               \/ \A t \in m_timers : Planned(w) <= m_next[t]
    BY DEF ClockInv, SleepInv
  <1>2. ASSUME m_timers' # {}
        PROVE  \E w \in Workers : Planned(w) <= clock \/ \A t \in m_timers' : Planned(w) <= m_next'[t]
    <2>1. PICK w \in Workers : Planned(w) <= clock \/ \A t \in m_timers : Planned(w) <= m_next[t]
      BY <1>1, <1>2
    <2>2. \A t \in m_timers' : m_next[t] \in Nat /\ m_next'[t] \in Nat
      BY DEF ClockInv, TypeOK
    <2> QED  BY <1>0, <2>1, <2>2
  <1> QED  BY <1>1, <1>2

\* A step after which some worker is awake.
LEMMA SomebodyAwake ==
    ASSUME NEW w \in Workers, pc'[w] \notin {"wait", "sleep"}
    PROVE  SleepInv'
  BY DEF SleepInv, Asleep

LEMMA ClockStep == ClockInv /\ Next => TypeOK' /\ TimesInv' /\ SleepInv'
  <1> SUFFICES ASSUME ClockInv, Next PROVE TypeOK' /\ TimesInv' /\ SleepInv'
    OBVIOUS
  <1>0. TypeOK /\ TimesInv /\ SleepInv /\ CbIffScheduled /\ clock \in Nat
    BY TimerAssumption DEF ClockInv, TimerInv, TypeOK
  <1>1. ASSUME NEW t \in Timers, NEW ms \in Periods, NEW recurring \in BOOLEAN,
               Construct(t, ms, recurring)
        PROVE  TypeOK' /\ TimesInv' /\ SleepInv'
    <2>1. /\ t \notin m_timers /\ made' = made \union {t} /\ m_cb' = m_cb \union {t}
          /\ m_ms' = [m_ms EXCEPT ![t] = ms] /\ m_next' = [m_next EXCEPT ![t] = clock + ms]
          /\ m_recurring' = [m_recurring EXCEPT ![t] = recurring] /\ start' = [start EXCEPT ![t] = clock]
          /\ UNCHANGED <<clock, backs, m_timers, m_tickled, telling, m_previousTime, pipe,
                         pc, now_ms, next_timeout, until, reported, cbs, asked, cancelled, fired>>
      BY <1>0, <1>1 DEF Construct, CbIffScheduled, front, workers, history
    <2>2. ms \in Nat /\ clock + ms \in Nat
      BY <1>0, TimerAssumption
    <2>3. TypeOK'
      BY <1>0, <2>1, <2>2 DEF TypeOK
    <2>4. \A u \in Timers : /\ m_ms'[u] = IF u = t THEN ms ELSE m_ms[u]
                            /\ m_next'[u] = IF u = t THEN clock + ms ELSE m_next[u]
                            /\ start'[u] = IF u = t THEN clock ELSE start[u]
      BY <1>0, <2>1 DEF TypeOK
    <2>5. TimesInv'
      <3>1. \A u \in m_timers' \union made' : u \in Timers /\ (u = t \/ u \in m_timers \union made)
        BY <1>0, <2>1 DEF TypeOK
      <3>2. \A u \in m_timers' \union made' : m_next'[u] = start'[u] + m_ms'[u]
        BY <1>0, <2>4, <3>1 DEF TimesInv
      <3>3. backs' = 0 => \A u \in Timers : start'[u] <= clock'
        BY <1>0, <2>1, <2>4 DEF TimesInv
      <3> QED  BY <1>0, <2>1, <3>2, <3>3 DEF TimesInv
    <2>6. \A u \in m_timers' : m_next[u] <= m_next'[u]
      BY <1>0, <2>1, <2>4 DEF TypeOK
    <2>7. SleepInv'
      BY <2>1, <2>3, <2>6, SleepKeeps
    <2> QED  BY <2>3, <2>5, <2>7
  <1>2. ASSUME NEW t \in Timers, AddTimer(t) PROVE TypeOK' /\ TimesInv' /\ SleepInv'
    <2>1. /\ t \in made /\ made' = made \ {t}
          /\ UNCHANGED <<clock, backs, m_cb, m_ms, m_recurring, m_previousTime, pipe,
                         pc, now_ms, next_timeout, until, reported, cbs, asked, start, cancelled, fired>>
      BY <1>2 DEF AddTimer, workers, history
    <2>2. PICK next \in Nat : next = m_next[t]
      BY <1>0 DEF TypeOK
    <2>3. Insert(t, next)
      BY <1>2, <2>2 DEF AddTimer
    <2>4. /\ m_timers' \subseteq Timers /\ m_next' \in [Timers -> Nat]
          /\ m_timers' = m_timers \union {t}
          /\ \A u \in Timers : m_next'[u] = IF u = t THEN next ELSE m_next[u]
          /\ m_tickled' \in BOOLEAN /\ telling' \subseteq Timers /\ SleepInv'
      BY <2>1, <2>3, InsertFacts
    <2>5. TypeOK'
      BY <1>0, <2>1, <2>4 DEF TypeOK
    <2>6. \A u \in m_timers' \union made' : m_next'[u] = m_next[u] /\ u \in m_timers \union made
      BY <1>0, <2>1, <2>2, <2>4 DEF TypeOK
    <2>7. TimesInv'
      BY <1>0, <2>1, <2>6 DEF TimesInv
    <2> QED  BY <2>4, <2>5, <2>7
  <1>3. ASSUME NEW t \in Timers, Cancel(t) PROVE TypeOK' /\ TimesInv' /\ SleepInv'
    <2>1. TypeOK'
      BY <1>0, <1>3 DEF Cancel, TypeOK, front, workers
    <2>2. /\ m_timers' \subseteq m_timers
          /\ UNCHANGED <<made, m_next, start, m_ms, clock, backs, m_tickled, telling, pipe,
                         pc, asked, next_timeout, now_ms, m_previousTime>>
      BY <1>3 DEF Cancel, front, workers
    <2>3. TimesInv'
      BY <1>0, <2>2 DEF TimesInv
    <2>4. \A u \in m_timers' : m_next[u] <= m_next'[u]
      BY <1>0, <2>2 DEF TypeOK
    <2>5. SleepInv'
      BY <2>1, <2>2, <2>4, SleepKeeps
    <2> QED  BY <2>1, <2>3, <2>5
  <1>4. ASSUME NEW t \in Timers, Refresh(t) PROVE TypeOK' /\ TimesInv' /\ SleepInv'
    <2>1. /\ t \in m_timers
          /\ m_next' = [m_next EXCEPT ![t] = clock + m_ms[t]] /\ start' = [start EXCEPT ![t] = clock]
          /\ UNCHANGED <<clock, backs, m_timers, m_cb, m_ms, m_recurring, m_tickled, telling, m_previousTime,
                         made, pipe, pc, now_ms, next_timeout, until, reported, cbs, asked, cancelled, fired>>
      BY <1>4 DEF Refresh, front, workers, history
    <2>2. m_ms[t] \in Nat /\ clock + m_ms[t] \in Nat /\ start[t] \in Nat /\ m_next[t] = start[t] + m_ms[t]
      BY <1>0, <2>1 DEF TypeOK, TimesInv
    <2>3. TypeOK'
      BY <1>0, <2>1, <2>2 DEF TypeOK
    <2>4. \A u \in Timers : /\ m_next'[u] = IF u = t THEN clock + m_ms[t] ELSE m_next[u]
                            /\ start'[u] = IF u = t THEN clock ELSE start[u]
      BY <1>0, <2>1 DEF TypeOK
    <2>5. TimesInv'
      <3>1. \A u \in m_timers' \union made' : u \in Timers /\ u \in m_timers \union made
        BY <1>0, <2>1 DEF TypeOK
      <3>2. \A u \in m_timers' \union made' : m_next'[u] = start'[u] + m_ms'[u]
        BY <1>0, <2>1, <2>4, <3>1 DEF TimesInv
      <3>3. backs' = 0 => \A u \in Timers : start'[u] <= clock'
        BY <1>0, <2>1, <2>4 DEF TimesInv
      <3> QED  BY <1>0, <2>1, <3>2, <3>3 DEF TimesInv
    <2>6. SleepInv'
      <3>1. CASE backs = 0
        <4>1. start[t] <= clock
          BY <1>0, <3>1 DEF TimesInv
        <4>2. \A u \in m_timers' : m_next[u] <= m_next'[u]
          <5> TAKE u \in m_timers'
          <5>1. u \in Timers /\ m_next[u] \in Nat
            BY <1>0, <2>1 DEF TypeOK
          <5> QED  BY <1>0, <2>2, <2>4, <4>1, <5>1
        <4> QED  BY <2>1, <2>3, <4>2, SleepKeeps
      <3>2. CASE backs # 0
        BY <2>1, <3>2 DEF SleepInv
      <3> QED  BY <3>1, <3>2
    <2> QED  BY <2>3, <2>5, <2>6
  <1>5. ASSUME NEW t \in Timers, NEW ms \in Periods, NEW from_now \in BOOLEAN, Reset(t, ms, from_now)
        PROVE  TypeOK' /\ TimesInv' /\ SleepInv'
    <2>1. PICK begin : begin = Begin(t, ms, from_now)
      OBVIOUS
    <2>2. /\ t \in m_timers /\ Insert(t, begin + ms)
          /\ m_ms' = [m_ms EXCEPT ![t] = ms] /\ start' = [start EXCEPT ![t] = begin]
          /\ UNCHANGED <<clock, backs, m_cb, m_recurring, m_previousTime, made, pipe,
                         pc, now_ms, next_timeout, until, reported, cbs, asked, cancelled, fired>>
      BY <1>5, <2>1 DEF Reset, workers, history
    <2>3. m_ms[t] \in Nat /\ start[t] \in Nat /\ m_next[t] = start[t] + m_ms[t]
      BY <1>0, <2>2 DEF TypeOK, TimesInv
    <2>4. begin = clock \/ begin = start[t]
      BY <2>1, <2>3 DEF Begin
    <2>5. PICK next \in Nat : next = begin + ms
      BY <1>0, <2>3, <2>4, TimerAssumption
    <2>6. Insert(t, next)
      BY <2>2, <2>5
    <2>7. /\ m_timers' \subseteq Timers /\ m_next' \in [Timers -> Nat]
          /\ m_timers' = m_timers \union {t}
          /\ \A u \in Timers : m_next'[u] = IF u = t THEN next ELSE m_next[u]
          /\ m_tickled' \in BOOLEAN /\ telling' \subseteq Timers /\ SleepInv'
      BY <2>2, <2>6, InsertFacts
    <2>8. begin \in Nat /\ ms \in Nat
      BY <1>0, <2>3, <2>4, TimerAssumption
    <2>9. TypeOK'
      BY <1>0, <2>2, <2>7, <2>8 DEF TypeOK
    <2>10. \A u \in Timers : /\ m_ms'[u] = IF u = t THEN ms ELSE m_ms[u]
                             /\ start'[u] = IF u = t THEN begin ELSE start[u]
      BY <1>0, <2>2 DEF TypeOK
    <2>11. TimesInv'
      <3>1. \A u \in m_timers' \union made' : u \in Timers /\ u \in m_timers \union made
        BY <1>0, <2>2, <2>7 DEF TypeOK
      <3>2. \A u \in m_timers' \union made' : m_next'[u] = start'[u] + m_ms'[u]
        BY <1>0, <2>5, <2>7, <2>10, <3>1 DEF TimesInv
      <3>3. backs' = 0 => \A u \in Timers : start'[u] <= clock'
        BY <1>0, <2>2, <2>4, <2>10 DEF TimesInv
      <3> QED  BY <1>0, <2>2, <3>2, <3>3 DEF TimesInv
    <2> QED  BY <2>7, <2>9, <2>11
  <1>6. ASSUME NEW w \in Workers, GoIdle(w) PROVE TypeOK' /\ TimesInv' /\ SleepInv'
    <2>1. /\ pc' = [pc EXCEPT ![w] = "next"]
          /\ UNCHANGED <<clock, backs, m_timers, m_cb, m_ms, m_next, m_recurring, start, m_tickled, telling, pipe,
                         m_previousTime, made, now_ms, next_timeout, until, reported, cbs, asked, cancelled, fired>>
      BY <1>6 DEF GoIdle, timers, front, history
    <2>2. TypeOK'
      BY <1>0, <2>1 DEF TypeOK
    <2>3. TimesInv'
      BY <1>0, <2>1 DEF TimesInv
    <2>4. pc'[w] \notin {"wait", "sleep"}
      BY <1>0, <2>1 DEF TypeOK
    <2> QED  BY <2>2, <2>3, <2>4, SomebodyAwake
  <1>7. ASSUME NEW w \in Workers, GetNextTimer(w) PROVE TypeOK' /\ TimesInv' /\ SleepInv'
    <2>1. /\ m_tickled' = FALSE /\ next_timeout' = [next_timeout EXCEPT ![w] = Timeout]
          /\ asked' = [asked EXCEPT ![w] = clock] /\ pc' = [pc EXCEPT ![w] = "wait"]
          /\ UNCHANGED <<clock, backs, m_timers, m_cb, m_ms, m_next, m_recurring, start, telling, pipe,
                         m_previousTime, made, now_ms, until, reported, cbs, cancelled, fired>>
      BY <1>7 DEF GetNextTimer, timers, history
    <2>2. PICK d \in Nat : d = Timeout /\ (m_timers # {} => \/ clock + d <= clock
                                                           \/ \A t \in m_timers : clock + d <= m_next[t])
      BY <1>0, TimeoutFacts
    <2>3. TypeOK'
      BY <1>0, <2>1, <2>2 DEF TypeOK
    <2>4. TimesInv'
      BY <1>0, <2>1 DEF TimesInv
    <2>5. asked'[w] = clock /\ next_timeout'[w] = d
      BY <1>0, <2>1, <2>2 DEF TypeOK
    <2>6. SleepInv'
      BY <2>1, <2>2, <2>5 DEF SleepInv, Planned
    <2> QED  BY <2>3, <2>4, <2>6
  <1>8. ASSUME NEW w \in Workers, NEW byPipe \in BOOLEAN, WakeUp(w, byPipe)
        PROVE  TypeOK' /\ TimesInv' /\ SleepInv'
    <2>1. /\ now_ms' = [now_ms EXCEPT ![w] = clock] /\ until' = [until EXCEPT ![w] = 0]
          /\ next_timeout' = [next_timeout EXCEPT ![w] = 0] /\ asked' = [asked EXCEPT ![w] = 0]
          /\ pc' = [pc EXCEPT ![w] = "list"] /\ reported' = [reported EXCEPT ![w] = byPipe]
          /\ UNCHANGED <<clock, backs, m_timers, m_cb, m_ms, m_next, m_recurring, start, m_tickled, telling,
                         m_previousTime, made, cbs, cancelled, fired>>
      BY <1>8 DEF WakeUp, timers, history
    <2>2. pipe' \in BOOLEAN
      BY <1>8 DEF WakeUp
    <2>3. TypeOK'
      <3>1. reported' \in [Workers -> BOOLEAN]
        BY <1>0, <2>1 DEF TypeOK
      <3> QED  BY <1>0, <2>1, <2>2, <3>1 DEF TypeOK
    <2>4. TimesInv'
      <3>1. \A v \in Workers : now_ms'[v] = clock \/ now_ms'[v] = now_ms[v]
        BY <1>0, <2>1 DEF TypeOK
      <3> QED  BY <1>0, <2>1, <3>1 DEF TimesInv
    <2>5. pc'[w] \notin {"wait", "sleep"}
      BY <1>0, <2>1 DEF TypeOK
    <2> QED  BY <2>3, <2>4, <2>5, SomebodyAwake
  <1>9. ASSUME NEW w \in Workers, ListExpired(w) PROVE TypeOK' /\ TimesInv' /\ SleepInv'
    <2>1. PICK now \in Nat : now = now_ms[w]
      BY <1>0 DEF TypeOK
    <2>2. PICK again : again = {t \in Expired(now) : m_recurring[t]}
      OBVIOUS
    <2>3. PICK expired : expired = Expired(now)
      OBVIOUS
    <2>4. again \subseteq m_timers /\ expired \subseteq m_timers /\ m_timers \subseteq Timers
      BY <1>0, <2>2, <2>3 DEF Expired, TypeOK
    <2>5. /\ m_timers' = (m_timers \ expired) \union again
          /\ m_cb' \subseteq m_cb
          /\ m_next' = [t \in Timers |-> IF t \in again THEN now + m_ms[t] ELSE m_next[t]]
          /\ start' = [t \in Timers |-> IF t \in again THEN now ELSE start[t]]
          /\ m_previousTime' \in {m_previousTime, now}
          /\ fired' = fired \union expired
          /\ cbs' = [cbs EXCEPT ![w] = expired]
          /\ now_ms' = [now_ms EXCEPT ![w] = 0]
          /\ pc' = [pc EXCEPT ![w] = "events"]
          /\ UNCHANGED <<clock, backs, m_ms, m_recurring, m_tickled, telling, pipe, made, next_timeout, until,
                         reported, asked, cancelled>>
      BY <1>9, <2>1, <2>2, <2>3 DEF ListExpired, front
    <2>6. TypeOK'
      <3>1. m_next' \in [Timers -> Nat] /\ start' \in [Timers -> Nat]
        BY <1>0, <2>1, <2>5 DEF TypeOK
      <3>2. m_previousTime' \in Nat
        BY <1>0, <2>1, <2>5 DEF TypeOK
      <3>3. m_timers' \subseteq Timers /\ m_cb' \subseteq Timers /\ fired' \subseteq Timers
        BY <1>0, <2>4, <2>5 DEF TypeOK
      <3>4. now_ms' \in [Workers -> Nat] /\ pc' \in [Workers -> {"busy", "next", "wait", "sleep", "list", "events"}]
        BY <1>0, <2>5 DEF TypeOK
      <3>5. cbs' \in [Workers -> SUBSET Timers]
        <4>1. expired \in SUBSET Timers /\ cbs \in [Workers -> SUBSET Timers]
          BY <1>0, <2>4 DEF TypeOK
        <4> QED  BY <2>5, <4>1
      <3> QED  BY <1>0, <2>5, <3>1, <3>2, <3>3, <3>4, <3>5 DEF TypeOK
    <2>7. TimesInv'
      <3>1. \A t \in m_timers' \union made' : t \in m_timers \union made /\ t \in Timers
        BY <1>0, <2>4, <2>5 DEF TypeOK
      <3>2. \A t \in Timers : /\ m_next'[t] = IF t \in again THEN now + m_ms[t] ELSE m_next[t]
                              /\ start'[t] = IF t \in again THEN now ELSE start[t]
        BY <2>5
      <3>3. \A t \in m_timers' \union made' : m_next'[t] = start'[t] + m_ms'[t]
        BY <1>0, <2>5, <3>1, <3>2 DEF TimesInv
      <3>4. backs = 0 => now <= clock
        BY <1>0, <2>1 DEF TimesInv
      <3>5. backs' = 0 => \A t \in Timers : start'[t] <= clock'
        BY <1>0, <2>5, <3>2, <3>4 DEF TimesInv
      <3>6. \A v \in Workers : now_ms'[v] = 0 \/ now_ms'[v] = now_ms[v]
        BY <1>0, <2>5 DEF TypeOK
      <3>7. backs' = 0 => m_previousTime' <= clock' /\ \A v \in Workers : now_ms'[v] <= clock'
        BY <1>0, <2>5, <3>4, <3>6 DEF TimesInv
      <3> QED  BY <3>3, <3>5, <3>7 DEF TimesInv
    <2>8. pc'[w] \notin {"wait", "sleep"}
      BY <1>0, <2>5 DEF TypeOK
    <2> QED  BY <2>6, <2>7, <2>8, SomebodyAwake
  <1>10. ASSUME Tick PROVE TypeOK' /\ TimesInv' /\ SleepInv'
    <2>1. /\ clock < MaxTime /\ clock' = clock + 1
          /\ UNCHANGED <<backs, m_timers, m_cb, m_ms, m_next, m_recurring, start, m_tickled, telling, m_previousTime, made,
                         pipe, pc, now_ms, next_timeout, until, reported, cbs, asked, cancelled, fired>>
      BY <1>10 DEF Tick, timers, front, workers, history
    <2>2. clock' \in 0 .. MaxTime
      BY <1>0, <2>1, TimerAssumption
    <2>3. TypeOK'
      BY <1>0, <2>1, <2>2 DEF TypeOK
    <2>4. TimesInv'
      <3>1. m_previousTime \in Nat /\ (\A w \in Workers : now_ms[w] \in Nat) /\ (\A t \in Timers : start[t] \in Nat)
        BY <1>0 DEF TypeOK
      <3> QED  BY <1>0, <2>1, <3>1 DEF TimesInv
    <2>5. SleepInv'
      <3>1. \A w \in Workers : Planned(w) \in Nat /\ Planned(w)' = Planned(w) /\ Asleep(w)' = Asleep(w)
        BY <1>0, <2>1 DEF TypeOK, Planned, Asleep
      <3>2. \A w \in Workers : Planned(w) <= clock => Planned(w) <= clock'
        BY <1>0, <2>1, <3>1
      <3> QED  BY <1>0, <2>1, <3>1, <3>2 DEF SleepInv
    <2> QED  BY <2>3, <2>4, <2>5
  <1>11. ASSUME NEW c \in 0 .. MaxTime, SetBack(c) PROVE TypeOK' /\ TimesInv' /\ SleepInv'
    <2>1. /\ c < clock /\ backs < MaxBack /\ backs' = backs + 1 /\ clock' = c
          /\ until' = [w \in Workers |-> IF until[w] > clock THEN c + (until[w] - clock) ELSE 0]
          /\ UNCHANGED <<m_timers, m_cb, m_ms, m_next, m_recurring, start, m_tickled, telling, m_previousTime, made,
                         pipe, pc, now_ms, next_timeout, reported, cbs, asked, cancelled, fired>>
      BY <1>11 DEF SetBack, timers, front, history
    <2>2. backs \in Nat /\ backs' \in 0 .. MaxBack /\ backs' # 0
      BY <1>0, <2>1, TimerAssumption DEF TypeOK
    <2>3. until' \in [Workers -> Nat]
      <3>1. c \in Nat /\ \A w \in Workers : until[w] \in Nat
        BY <1>0, TimerAssumption DEF TypeOK
      <3>2. \A w \in Workers : (IF until[w] > clock THEN c + (until[w] - clock) ELSE 0) \in Nat
        BY <1>0, <3>1
      <3> QED  BY <2>1, <3>2
    <2>4. TypeOK'
      BY <1>0, <2>1, <2>2, <2>3 DEF TypeOK
    <2>5. TimesInv' /\ SleepInv'
      BY <1>0, <2>1, <2>2 DEF TimesInv, SleepInv
    <2> QED  BY <2>4, <2>5
  <1>12. ASSUME NEW t \in Timers, OnTimerInsertedAtFront(t) PROVE TypeOK' /\ TimesInv' /\ SleepInv'
    <2>1. /\ telling' = telling \ {t} /\ pipe' = (pipe \/ \E w \in Workers : pc[w] # "busy")
          /\ UNCHANGED <<clock, backs, m_timers, m_cb, m_ms, m_next, m_recurring, start, m_tickled, m_previousTime,
                         made, pc, now_ms, next_timeout, until, reported, cbs, asked, cancelled, fired>>
      BY <1>12 DEF OnTimerInsertedAtFront, Tickle, timers, workers, history
    <2>2. pipe' \in BOOLEAN
      BY <2>1
    <2>3. TypeOK'
      BY <1>0, <2>1, <2>2 DEF TypeOK
    <2>4. TimesInv'
      BY <1>0, <2>1 DEF TimesInv
    <2>5. ~((\A w \in Workers : Asleep(w)') /\ ~pipe')
      <3> SUFFICES ASSUME \A w \in Workers : Asleep(w)', ~pipe' PROVE FALSE
        OBVIOUS
      <3>1. PICK w \in Workers : TRUE
        BY TimerAssumption
      <3>2. pc[w] # "busy"
        BY <2>1, <3>1 DEF Asleep
      <3> QED  BY <2>1, <3>2
    <2>6. SleepInv'
      BY <2>5 DEF SleepInv
    <2> QED  BY <2>3, <2>4, <2>6
  <1>13. ASSUME NEW w \in Workers, EpollWait(w) PROVE TypeOK' /\ TimesInv' /\ SleepInv'
    <2>1. /\ pc[w] \in {"wait", "sleep"} /\ until' = [until EXCEPT ![w] = clock + next_timeout[w]]
          /\ pc' = [pc EXCEPT ![w] = "sleep"]
          /\ UNCHANGED <<clock, backs, m_timers, m_cb, m_ms, m_next, m_recurring, start, m_tickled, telling, pipe,
                         m_previousTime, made, now_ms, next_timeout, reported, cbs, asked, cancelled, fired>>
      BY <1>13 DEF EpollWait, timers, front, history
    <2>2. clock + next_timeout[w] \in Nat
      BY <1>0 DEF TypeOK
    <2>3. TypeOK'
      BY <1>0, <2>1, <2>2 DEF TypeOK
    <2>4. TimesInv'
      BY <1>0, <2>1 DEF TimesInv
    <2>5. \A v \in Workers : Planned(v)' = Planned(v) /\ (Asleep(v)' => Asleep(v))
      BY <1>0, <2>1 DEF TypeOK, Planned, Asleep
    <2>6. SleepInv'
      BY <1>0, <2>1, <2>5 DEF SleepInv
    <2> QED  BY <2>3, <2>4, <2>6
  <1>14. ASSUME NEW w \in Workers, HandleEvents(w) PROVE TypeOK' /\ TimesInv' /\ SleepInv'
    <2>1. /\ pipe' = (pipe /\ ~reported[w]) /\ reported' = [reported EXCEPT ![w] = FALSE]
          /\ cbs' = [cbs EXCEPT ![w] = {}] /\ pc' = [pc EXCEPT ![w] = "busy"]
          /\ UNCHANGED <<clock, backs, m_timers, m_cb, m_ms, m_next, m_recurring, start, m_tickled, telling,
                         m_previousTime, made, now_ms, next_timeout, until, asked, cancelled, fired>>
      BY <1>14 DEF HandleEvents, timers, history
    <2>2. pipe' \in BOOLEAN /\ reported' \in [Workers -> BOOLEAN]
      BY <1>0, <2>1 DEF TypeOK
    <2>3. cbs' \in [Workers -> SUBSET Timers]
      BY <1>0, <2>1 DEF TypeOK
    <2>4. TypeOK'
      BY <1>0, <2>1, <2>2, <2>3 DEF TypeOK
    <2>5. TimesInv'
      BY <1>0, <2>1 DEF TimesInv
    <2>6. pc'[w] \notin {"wait", "sleep"}
      BY <1>0, <2>1 DEF TypeOK
    <2> QED  BY <2>4, <2>5, <2>6, SomebodyAwake
  <1> QED
    BY <1>1, <1>2, <1>3, <1>4, <1>5, <1>6, <1>7, <1>8, <1>9, <1>10, <1>11, <1>12, <1>13, <1>14, Zenon
       DEF Next, Worker, User

LEMMA ClockInvariant == Spec => []ClockInv
  <1>1. ClockInv /\ [Next]_vars => ClockInv'
    <2> SUFFICES ASSUME ClockInv, [Next]_vars PROVE ClockInv'
      OBVIOUS
    <2>1. TimerInv'
      BY TimerStep DEF ClockInv
    <2>2. CASE Next
      BY <2>1, <2>2, ClockStep DEF ClockInv
    <2>3. CASE UNCHANGED vars
      BY <2>1, <2>3 DEF vars, timers, front, workers, history, ClockInv, TypeOK, TimesInv, SleepInv, Asleep, Planned
    <2> QED  BY <2>2, <2>3
  <1> QED  BY ClockInit, <1>1, PTL DEF Spec

\* Every value keeps its type; in particular reset() never computes a start
\* before the beginning of time from m_next - m_ms.
THEOREM TimerTypeCorrect == Spec => []TypeOK
  <1>1. ClockInv => TypeOK
    BY DEF ClockInv
  <1> QED  BY <1>1, ClockInvariant, PTL

\* No insertion at the front is overlooked: while every worker sleeps and nobody
\* is about to be woken, one of them wakes by the time the first timer is due, or
\* as much later as its epoll_wait began late.  The invariant behind it is that
\* m_tickled, which keeps later insertions from tickling, is set only while
\* somebody is awake, about to be woken or about to tickle; a worker that reads
\* somebody's tickle together with its own is awake, and will ask again.
THEOREM NoOversleepCorrect == Spec => []NoOversleep
  <1>1. ClockInv => NoOversleep
    <2> SUFFICES ASSUME ClockInv, backs = 0, \A w \in Workers : pc[w] = "sleep", ~pipe, telling = {}, m_timers # {}
                 PROVE  \E w \in Workers : until[w] <= Max({Earliest, clock}) + Late(w)
      BY DEF NoOversleep
    <2>1. TypeOK /\ clock \in Nat
      BY TimerAssumption DEF ClockInv, TypeOK
    <2>2. PICK w \in Workers : Planned(w) <= clock \/ \A t \in m_timers : Planned(w) <= m_next[t]
      BY DEF ClockInv, SleepInv, Asleep
    <2>3. PICK e \in Nat : e = Earliest /\ \E t \in m_timers : e = m_next[t]
      BY <2>1, EarliestFacts
    <2>4. /\ Planned(w) \in Nat /\ until[w] \in Nat
          /\ Planned(w) <= clock \/ Planned(w) <= e
      <3>1. Planned(w) \in Nat /\ until[w] \in Nat
        BY <2>1 DEF TypeOK, Planned
      <3> QED  BY <2>2, <2>3, <3>1
    <2>5. Max({e, clock}) \in Nat /\ Max({e, clock}) >= e /\ Max({e, clock}) >= clock
      BY <2>1, <2>3, MaxOfTwo
    <2>6. Planned(w) <= Max({e, clock})
      BY <2>1, <2>3, <2>4, <2>5
    <2>7. Late(w) = until[w] - Planned(w)
      BY DEF Late, Planned
    <2>8. until[w] <= Max({e, clock}) + Late(w)
      BY <2>4, <2>5, <2>6, <2>7
    <2> QED  BY <2>3, <2>8
  <1> QED  BY <1>1, ClockInvariant, PTL

\* listExpiredCb() takes the clock for set back only if it was, or if the worker
\* was held up for more than the gap between reading it and taking the lock.
THEOREM RolloverCorrect == Spec => []RolloverMeansSetBack
  <1>1. ClockInv => RolloverMeansSetBack
    <2> SUFFICES ASSUME ClockInv, NEW w \in Workers, Rollover(now_ms[w])
                 PROVE  backs > 0 \/ clock - now_ms[w] > Gap
      BY DEF RolloverMeansSetBack
    <2>1. /\ backs \in Nat /\ clock \in Nat /\ now_ms[w] \in Nat /\ m_previousTime \in Nat /\ Gap \in Nat
          /\ backs = 0 => m_previousTime <= clock
      BY TimerAssumption DEF ClockInv, TypeOK, TimesInv
    <2> QED  BY <2>1 DEF Rollover
  <1> QED  BY <1>1, ClockInvariant, PTL

\* No callback is handed out, the first time or again, before its time has
\* passed since the timer was created, refreshed, reset or last handed out,
\* whichever worker collects it, as long as the clock is not set back and no
\* rollover is detected.
THEOREM NeverEarlyCorrect == Spec => NeverEarly
  <1>1. ClockInv /\ [Next]_vars =>
           [\A w \in Workers : ~Rollover(now_ms[w]) /\ backs = 0 =>
               \A t \in cbs'[w] \ cbs[w] : clock >= start[t] + m_ms[t]]_vars
    <2> SUFFICES ASSUME ClockInv, Next, NEW w \in Workers,
                        ~Rollover(now_ms[w]), backs = 0, NEW t \in cbs'[w] \ cbs[w]
                 PROVE  clock >= start[t] + m_ms[t]
      OBVIOUS
    <2>0. TypeOK
      BY DEF ClockInv
    <2>1. ListExpired(w)
      <3>1. ASSUME NEW v \in Workers, ListExpired(v) PROVE v = w
        <4>1. cbs' = [cbs EXCEPT ![v] = Expired(now_ms[v])]
          BY <3>1 DEF ListExpired
        <4> QED  BY <2>0, <4>1 DEF TypeOK
      <3>2. ASSUME NEW v \in Workers, HandleEvents(v) PROVE FALSE
        <4>1. cbs' = [cbs EXCEPT ![v] = {}]
          BY <3>2 DEF HandleEvents
        <4> QED  BY <2>0, <4>1 DEF TypeOK
      <3>3. ASSUME NEW v \in Workers, NEW byPipe \in BOOLEAN,
                   GoIdle(v) \/ GetNextTimer(v) \/ EpollWait(v) \/ WakeUp(v, byPipe)
            PROVE  UNCHANGED cbs
        BY <3>3 DEF GoIdle, GetNextTimer, EpollWait, WakeUp
      <3>4. ASSUME User PROVE UNCHANGED cbs
        BY <3>4 DEF User, Construct, AddTimer, OnTimerInsertedAtFront, Cancel, Refresh, Reset, workers
      <3>5. ASSUME NEW c \in 0 .. MaxTime, SetBack(c) PROVE UNCHANGED cbs
        BY <3>5 DEF SetBack
      <3>6. ASSUME Tick PROVE UNCHANGED cbs
        BY <3>6 DEF Tick, workers
      <3> QED  BY <3>1, <3>2, <3>3, <3>4, <3>5, <3>6 DEF Next, Worker
    <2>2. cbs'[w] = Expired(now_ms[w])
      BY <2>0, <2>1 DEF ListExpired, TypeOK
    <2>3. t \in m_timers /\ m_next[t] <= now_ms[w]
      BY <2>2 DEF Expired
    <2>4. m_next[t] = start[t] + m_ms[t] /\ now_ms[w] <= clock
      BY <2>3 DEF ClockInv, TimesInv
    <2>5. m_next[t] \in Nat /\ now_ms[w] \in Nat /\ clock \in Nat
      BY <2>0, <2>3, TimerAssumption DEF TypeOK
    <2> QED  BY <2>3, <2>4, <2>5
  <1> QED  BY <1>1, ClockInvariant, PTL DEF Spec, NeverEarly
=============================================================================
