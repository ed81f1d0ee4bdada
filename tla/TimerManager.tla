---------------------------- MODULE TimerManager ----------------------------
(***************************************************************************)
(* The timers of chat/timer.{h,cc}, used from several threads, together    *)
(* with the part of IOManager::idle that sleeps until the next one: every  *)
(* worker asks getNextTimer() how long to wait, waits in epoll_wait, and   *)
(* collects the expired callbacks with listExpiredCb().                    *)
(*                                                                         *)
(* m_timers is a std::set ordered by m_next; the model keeps the set and   *)
(* takes the order from m_next, which the code changes only for a timer    *)
(* it has erased.  Everything under m_mutex is one step; what the code     *)
(* does before it takes the lock (the clock reads of the Timer constructor *)
(* and of listExpiredCb) or after it has released it (the tickle for a     *)
(* timer at the front, the epoll_wait, the reading of the tickle pipe) is  *)
(* a step of its own.  m_next does not wrap around.                        *)
(***************************************************************************)
EXTENDS Integers, FiniteSets, FiniteSetsExt

CONSTANTS
    Timers,      \* the Timer objects
    Workers,     \* the threads that run IOManager::idle
    Periods,     \* the values of ms
    MaxTime,     \* bound: the clock stops here
    MaxBack,     \* bound: how often somebody sets the clock back
    Gap,         \* detectClockRollover's 60 * 60 * 1000
    MaxTimeout   \* MAX_TIMEOUT of IOManager::idle

ASSUME TimerAssumption ==
    /\ Workers # {}
    /\ Periods \subseteq Nat
    /\ MaxTime \in Nat /\ MaxBack \in Nat /\ Gap \in Nat /\ MaxTimeout \in Nat

VARIABLES
    clock,           \* GetCurrentMs()
    backs,           \* how often the clock was set back
    m_timers,
    m_cb,            \* the timers whose m_cb is not null
    m_ms, m_next, m_recurring,
    m_tickled, m_previousTime,
    made,            \* the timers constructed and not yet inserted
    telling,         \* the timers whose inserter has yet to call onTimerInsertedAtFront
    pipe,            \* the tickle pipe has news for one epoll_wait (edge-triggered)
    pc, now_ms,      \* where each worker is, and listExpiredCb's now_ms
    next_timeout,    \* how long each worker lets epoll_wait sleep
    until,           \* when each worker's epoll_wait times out
    reported,        \* whether that epoll_wait reported the tickle pipe
    cbs,             \* the timers whose callbacks listExpiredCb handed the worker
    asked,           \* history: what getNextTimer() read from the clock
    start,           \* history: when the current wait of a timer began
    cancelled,       \* history: the timers whose cancel() returned true
    fired            \* history: the timers whose callback was handed out

timers  == <<m_timers, m_cb, m_ms, m_next, m_recurring, start>>
front   == <<m_tickled, telling, pipe>>
workers == <<pc, now_ms, next_timeout, until, reported, cbs, asked>>
history == <<cancelled, fired>>
vars    == <<clock, backs, timers, front, m_previousTime, made, workers, history>>

TypeOK ==
    /\ clock \in 0 .. MaxTime
    /\ backs \in 0 .. MaxBack
    /\ m_timers \subseteq Timers
    /\ m_cb \subseteq Timers
    /\ m_ms \in [Timers -> Nat]
    /\ m_next \in [Timers -> Nat]
    /\ m_recurring \in [Timers -> BOOLEAN]
    /\ m_tickled \in BOOLEAN
    /\ m_previousTime \in Nat
    /\ made \subseteq Timers
    /\ telling \subseteq Timers
    /\ pipe \in BOOLEAN
    /\ pc \in [Workers -> {"busy", "next", "wait", "sleep", "list", "events"}]
    /\ now_ms \in [Workers -> Nat]
    /\ next_timeout \in [Workers -> Nat]
    /\ until \in [Workers -> Nat]
    /\ reported \in [Workers -> BOOLEAN]
    /\ cbs \in [Workers -> SUBSET Timers]
    /\ asked \in [Workers -> Nat]
    /\ start \in [Timers -> Nat]
    /\ cancelled \subseteq Timers
    /\ fired \subseteq Timers

Init ==
    /\ clock = 0
    /\ backs = 0
    /\ m_timers = {}
    /\ m_cb = {}
    /\ m_ms = [t \in Timers |-> 0]
    /\ m_next = [t \in Timers |-> 0]
    /\ m_recurring = [t \in Timers |-> FALSE]
    /\ m_tickled = FALSE
    /\ m_previousTime = clock
    /\ made = {}
    /\ telling = {}
    /\ pipe = FALSE
    /\ pc = [w \in Workers |-> "busy"]
    /\ now_ms = [w \in Workers |-> 0]
    /\ next_timeout = [w \in Workers |-> 0]
    /\ until = [w \in Workers |-> 0]
    /\ reported = [w \in Workers |-> FALSE]
    /\ cbs = [w \in Workers |-> {}]
    /\ asked = [w \in Workers |-> 0]
    /\ start = [t \in Timers |-> 0]
    /\ cancelled = {}
    /\ fired = {}

\* Mutant of Tickle: nobody is woken.
TickleNobody == UNCHANGED pipe

\* IOManager::tickle wakes an epoll_wait if some thread is in its idle fiber.
Tickle == pipe' = (pipe \/ \E w \in Workers : pc[w] # "busy")

\* addTimer(val, lock) of a timer outside the set, as far as it holds the lock:
\* insert it; if it came to the front and nobody was told yet, the caller will
\* tickle.  Where m_next is equal the addresses decide who is in front.
Insert(t, next) ==
    /\ m_timers' = m_timers \union {t}
    /\ m_next' = [m_next EXCEPT ![t] = next]
    /\ LET first == \A u \in m_timers \ {t} : next <= m_next[u]
           alone == \A u \in m_timers \ {t} : next < m_next[u]
       IN  \E at_front \in {~m_tickled /\ first, ~m_tickled /\ alone} :
              /\ m_tickled' = (m_tickled \/ at_front)
              /\ telling' = IF at_front THEN telling \union {t} ELSE telling

-----------------------------------------------------------------------------
(* The operations of a user of the timers.                                 *)

\* The constructor: m_next is computed before the manager's lock is taken.
Construct(t, ms, recurring) ==
    /\ t \notin made \union m_cb \union cancelled \union fired
    /\ made' = made \union {t}
    /\ m_cb' = m_cb \union {t}
    /\ m_ms' = [m_ms EXCEPT ![t] = ms]
    /\ m_next' = [m_next EXCEPT ![t] = clock + ms]
    /\ m_recurring' = [m_recurring EXCEPT ![t] = recurring]
    /\ start' = [start EXCEPT ![t] = clock]
    /\ UNCHANGED <<clock, backs, m_timers, front, m_previousTime, workers, history>>

\* TimerManager::addTimer after the lock is taken.
AddTimer(t) ==
    /\ t \in made
    /\ made' = made \ {t}
    /\ Insert(t, m_next[t])
    /\ UNCHANGED <<clock, backs, m_cb, m_ms, m_recurring, m_previousTime, pipe, workers, start,
                   history>>

\* ... and after it was released.
OnTimerInsertedAtFront(t) ==
    /\ t \in telling
    /\ telling' = telling \ {t}
    /\ Tickle
    /\ UNCHANGED <<clock, backs, timers, m_tickled, m_previousTime, made, workers, history>>

\* Timer::cancel, when it returns true.
Cancel(t) ==
    /\ t \in m_cb \ made
    /\ m_cb' = m_cb \ {t}
    /\ m_timers' = m_timers \ {t}
    /\ cancelled' = cancelled \union {t}
    /\ UNCHANGED <<clock, backs, m_ms, m_next, m_recurring, front, m_previousTime, made, workers,
                   start, fired>>

\* Timer::refresh, when it returns true; it does not tickle.
Refresh(t) ==
    /\ t \in m_cb \ made
    /\ t \in m_timers
    /\ m_next' = [m_next EXCEPT ![t] = clock + m_ms[t]]
    /\ start' = [start EXCEPT ![t] = clock]
    /\ UNCHANGED <<clock, backs, m_timers, m_cb, m_ms, m_recurring, front, m_previousTime, made,
                   workers, history>>

\* Where the timer's wait began: now, or where it began before.
Begin(t, ms, from_now) == IF from_now THEN clock ELSE m_next[t] - m_ms[t]

\* Timer::reset, when it changes the timer (bound: one thread at a time is
\* inserting a given timer).
Reset(t, ms, from_now) ==
    /\ ms # m_ms[t] \/ from_now
    /\ t \notin telling
    /\ t \in m_cb \ made
    /\ t \in m_timers
    /\ LET begin == Begin(t, ms, from_now)
       IN  /\ Insert(t, begin + ms)
           /\ start' = [start EXCEPT ![t] = begin]
    /\ m_ms' = [m_ms EXCEPT ![t] = ms]
    /\ UNCHANGED <<clock, backs, m_cb, m_recurring, m_previousTime, made, pipe, workers, history>>

-----------------------------------------------------------------------------
(* A worker.                                                               *)

\* The scheduler has nothing to run and resumes the idle fiber.
GoIdle(w) ==
    /\ pc[w] = "busy"
    /\ pc' = [pc EXCEPT ![w] = "next"]
    /\ UNCHANGED <<clock, backs, timers, front, m_previousTime, made, now_ms, next_timeout, until,
                   reported, cbs, asked, history>>

Earliest == Min({m_next[t] : t \in m_timers})

\* How long getNextTimer() lets epoll_wait sleep, capped at MAX_TIMEOUT.
Timeout ==
    CASE m_timers = {}       -> MaxTimeout
      [] clock >= Earliest   -> 0
      [] OTHER               -> Min({Earliest - clock, MaxTimeout})

\* Mutant of GetNextTimer: m_tickled is not reset.
GetNextTimerKeepsTickled(w) ==
    /\ pc[w] = "next"
    /\ next_timeout' = [next_timeout EXCEPT ![w] = Timeout]
    /\ asked' = [asked EXCEPT ![w] = clock]
    /\ pc' = [pc EXCEPT ![w] = "wait"]
    /\ UNCHANGED <<clock, backs, timers, front, m_previousTime, made, now_ms, until, reported, cbs,
                   history>>

\* stopping(next_timeout): a time relative to the clock as it is now.
GetNextTimer(w) ==
    /\ pc[w] = "next"
    /\ m_tickled' = FALSE
    /\ next_timeout' = [next_timeout EXCEPT ![w] = Timeout]
    /\ asked' = [asked EXCEPT ![w] = clock]
    /\ pc' = [pc EXCEPT ![w] = "wait"]
    /\ UNCHANGED <<clock, backs, timers, telling, pipe, m_previousTime, made, now_ms, until, reported,
                   cbs, history>>

\* epoll_wait begins to sleep, for next_timeout from now on; after EINTR it
\* begins again, with the same next_timeout.
EpollWait(w) ==
    /\ pc[w] \in {"wait", "sleep"}
    /\ until' = [until EXCEPT ![w] = clock + next_timeout[w]]
    /\ pc' = [pc EXCEPT ![w] = "sleep"]
    /\ UNCHANGED <<clock, backs, timers, front, m_previousTime, made, now_ms, next_timeout, reported,
                   cbs, asked, history>>

\* epoll_wait returns, because of the pipe (whose news nobody else gets then),
\* its timeout or some other event, and listExpiredCb reads the clock.
WakeUp(w, byPipe) ==
    /\ pc[w] = "sleep"
    /\ byPipe => pipe
    /\ pipe' = (pipe /\ ~byPipe)
    /\ reported' = [reported EXCEPT ![w] = byPipe]
    /\ now_ms' = [now_ms EXCEPT ![w] = clock]
    /\ next_timeout' = [next_timeout EXCEPT ![w] = 0]
    /\ until' = [until EXCEPT ![w] = 0]
    /\ asked' = [asked EXCEPT ![w] = 0]
    /\ pc' = [pc EXCEPT ![w] = "list"]
    /\ UNCHANGED <<clock, backs, timers, m_tickled, telling, m_previousTime, made, cbs, history>>

\* Mutant of Rollover: any reading that does not advance counts.
RolloverAtOnce(now) == now <= m_previousTime

\* detectClockRollover: the clock went back by more than an hour.
Rollover(now) == now + Gap < m_previousTime

\* Mutant of Expired: off by one.
ExpiredSoon(now)   == IF Rollover(now) THEN m_timers ELSE {t \in m_timers : m_next[t] <= now + 1}

\* The timers up to lower_bound(now) and the equal ones after it; all of them
\* after a rollover.
Expired(now) ==
    IF Rollover(now) THEN m_timers ELSE {t \in m_timers : m_next[t] <= now}

\* Mutant of Dropped: an expired timer keeps its callback.
DroppedNone(expired) == {}
\* The expired timers that are not recurring lose their callback.
Dropped(expired) == {t \in expired : ~m_recurring[t]}

\* listExpiredCb under the write lock: hand out the callbacks of the expired
\* timers, insert the recurring ones again, drop the callbacks of the others.
ListExpired(w) ==
    /\ pc[w] = "list"
    /\ LET now     == now_ms[w]
           expired == Expired(now)
           again   == {t \in expired : m_recurring[t]}
       IN  /\ m_timers' = (m_timers \ expired) \union again
           /\ m_cb' = m_cb \ Dropped(expired)
           /\ m_next' = [t \in Timers |-> IF t \in again THEN now + m_ms[t] ELSE m_next[t]]
           /\ start' = [t \in Timers |-> IF t \in again THEN now ELSE start[t]]
           /\ m_previousTime' = IF m_timers = {} THEN m_previousTime ELSE now
           /\ cbs' = [cbs EXCEPT ![w] = expired]
           /\ fired' = fired \union expired
    /\ now_ms' = [now_ms EXCEPT ![w] = 0]
    /\ pc' = [pc EXCEPT ![w] = "events"]
    /\ UNCHANGED <<clock, backs, m_ms, m_recurring, front, made, next_timeout, until, reported, asked,
                   cancelled>>

\* The rest of idle(): the callbacks are scheduled, and what was reported is
\* handled.  The pipe is read until it is empty: a tickle written since
\* epoll_wait returned is taken with it.
HandleEvents(w) ==
    /\ pc[w] = "events"
    /\ pipe' = (pipe /\ ~reported[w])
    /\ reported' = [reported EXCEPT ![w] = FALSE]
    /\ cbs' = [cbs EXCEPT ![w] = {}]
    /\ pc' = [pc EXCEPT ![w] = "busy"]
    /\ UNCHANGED <<clock, backs, timers, m_tickled, telling, m_previousTime, made, now_ms, next_timeout,
                   until, asked, history>>

-----------------------------------------------------------------------------
(* The clock.                                                              *)

Tick ==
    /\ clock < MaxTime
    /\ clock' = clock + 1
    /\ UNCHANGED <<backs, timers, front, m_previousTime, made, workers, history>>

\* Somebody sets the clock back; an epoll_wait still sleeps as long as before.
SetBack(c) ==
    /\ backs < MaxBack
    /\ c < clock
    /\ backs' = backs + 1
    /\ clock' = c
    /\ until' = [w \in Workers |-> IF until[w] > clock THEN c + (until[w] - clock) ELSE 0]
    /\ UNCHANGED <<timers, front, m_previousTime, made, pc, now_ms, next_timeout, reported, cbs, asked,
                   history>>

Worker(w) ==
    \/ GoIdle(w)
    \/ GetNextTimer(w)
    \/ EpollWait(w)
    \/ \E byPipe \in BOOLEAN : WakeUp(w, byPipe)
    \/ ListExpired(w)
    \/ HandleEvents(w)

User ==
    \E t \in Timers :
        \/ \E ms \in Periods, recurring \in BOOLEAN : Construct(t, ms, recurring)
        \/ AddTimer(t)
        \/ OnTimerInsertedAtFront(t)
        \/ Cancel(t)
        \/ Refresh(t)
        \/ \E ms \in Periods, from_now \in BOOLEAN : Reset(t, ms, from_now)

Next ==
    \/ \E w \in Workers : Worker(w)
    \/ User
    \/ Tick
    \/ \E c \in 0 .. MaxTime : SetBack(c)

\* An epoll_wait that has timed out or was tickled returns; the other steps of
\* a worker follow, and whoever inserted a timer at the front tickles.  No
\* fairness for the users' calls, the clock, EINTR or other events.
Proceed(w) ==
    \/ pc[w] = "sleep" /\ (pipe \/ clock >= until[w]) /\ \E byPipe \in BOOLEAN : WakeUp(w, byPipe)
    \/ pc[w] # "sleep" /\ Worker(w)

Fairness ==
    /\ \A w \in Workers : WF_vars(Proceed(w))
    /\ \A t \in Timers : WF_vars(OnTimerInsertedAtFront(t))

Spec == Init /\ [][Next]_vars /\ Fairness

-----------------------------------------------------------------------------
\* A timer has its callback exactly while it is in m_timers (or on its way
\* there): cancel() erases what find() returns without looking at end().
CbIffScheduled == m_cb = m_timers \union made /\ m_timers \intersect made = {}

\* cancel() is decisive: a timer that is not recurring is cancelled or fires,
\* never both, however cancel() and listExpiredCb() interleave.
CancelOrFire == \A t \in cancelled \intersect fired : m_recurring[t]

\* After cancel() has returned true no worker collects the timer again.
CancelledStays == [][\A t \in cancelled : t \notin m_timers' /\ (t \in fired' => t \in fired)]_vars

\* As long as nobody sets the clock back, no callback is handed out, the first
\* time or again, before the timer's time has passed since it was created,
\* refreshed, reset or last handed out, unless the worker takes its own delay
\* for a clock that was set back.
NeverEarly ==
    [][\A w \in Workers : ~Rollover(now_ms[w]) /\ backs = 0 =>
          \A t \in cbs'[w] \ cbs[w] : clock >= start[t] + m_ms[t]]_vars

\* How much later a worker's epoll_wait began, for the last time, than the
\* reading of the clock its timeout was computed from.
Late(w) == until[w] - (asked[w] + next_timeout[w])

\* While every worker sleeps and nobody is about to be woken, one of them wakes
\* by the time the first timer is due, or as much later as its epoll_wait began
\* late (it was held up, or a signal made it begin again): no insertion at the
\* front of m_timers is overlooked, not even if its tickle is read together
\* with an older one (the clock is not set back).
NoOversleep ==
    /\ backs = 0
    /\ \A w \in Workers : pc[w] = "sleep"
    /\ ~pipe /\ telling = {}
    /\ m_timers # {}
    => \E w \in Workers : until[w] <= Max({Earliest, clock}) + Late(w)

\* listExpiredCb() treats every timer as expired only if the clock was set back
\* ("detect whether the server's time was set back", timer.cc 153), or if the
\* worker lost more than the Gap between reading the clock and taking the lock.
RolloverMeansSetBack ==
    \A w \in Workers : pc[w] = "list" /\ Rollover(now_ms[w]) /\ m_timers # {} =>
                           backs > 0 \/ clock - now_ms[w] > Gap

\* A timer that is due is collected (or cancelled, or put off), as long as
\* nobody sets the clock back and no worker's epoll_wait began late: it sleeps
\* that much too long then.
DueIsCollected ==
    \A t \in Timers :
        (t \in m_timers /\ m_next[t] <= clock /\ backs = 0)
            ~> \/ t \notin m_timers \/ m_next[t] > clock
               \/ backs > 0
               \/ \E w \in Workers : pc[w] = "sleep" /\ Late(w) > 0
=============================================================================
