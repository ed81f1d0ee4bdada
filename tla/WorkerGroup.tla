---------------------------- MODULE WorkerGroup ----------------------------
(***************************************************************************)
(* FiberSemaphore (chat/mutex.{h,cc}) and the two classes built on it,     *)
(* WorkerGroup and TimedWorkerGroup (chat/worker.{h,cc}): schedule() waits *)
(* for a permit per job and hands the jobs to the scheduler, a job gives   *)
(* its permit back when its callback returns, and waitAll() collects every *)
(* permit.  A TimedWorkerGroup gives up waiting when its timer fires.      *)
(*                                                                         *)
(* A step of the semaphore is what it does under its mutex.  m_finish,     *)
(* m_timedout and m_timer are plain members read and written by several    *)
(* fibers; a test of one of them and what follows are separate steps.      *)
(***************************************************************************)
EXTENDS Integers, Sequences, FiniteSets

CONSTANTS
    Fibers,      \* the fibers that use the group
    Joiners,     \* those among them that call waitAll()
    BatchSize,   \* m_batchSize
    Sizes,       \* how many callbacks a call of schedule() brings
    Timed,       \* TimedWorkerGroup (TRUE), WorkerGroup (FALSE) or both
    MaxCalls,    \* bound: calls of schedule()
    MaxThrows    \* bound: callbacks that throw

ASSUME GroupAssumption ==
    /\ IsFiniteSet(Fibers)
    /\ Joiners \subseteq Fibers
    /\ BatchSize \in Nat
    /\ Sizes \subseteq Nat
    /\ Timed \subseteq BOOLEAN
    /\ MaxCalls \in Nat /\ MaxThrows \in Nat

VARIABLES
    m_concurrency, m_waiters,          \* the FiberSemaphore m_sem
    m_finish, m_timedout,
    m_timer,                           \* m_timer is not null
    timer,                             \* where the Timer itself is
    pc, op,                            \* where each fiber is, in which call
    want, taken,                       \* permits its loop asks for and has got
    jobs,                              \* scheduled callbacks that have not returned
    kept,                              \* history: permits waitAll() returned with
    calls, throws

sem   == <<m_concurrency, m_waiters>>
group == <<m_finish, m_timedout, m_timer, timer>>
vars  == <<m_concurrency, m_waiters, m_finish, m_timedout, m_timer, timer, pc, op, want, taken,
           jobs, kept, calls, throws>>

TypeOK ==
    /\ m_concurrency \in Nat
    /\ m_waiters \in Seq(Fibers)
    /\ m_finish \in BOOLEAN
    /\ m_timedout \in BOOLEAN
    /\ m_timer \in BOOLEAN
    /\ timer \in {"none", "armed", "collected", "notify", "over"}
    /\ pc \in [Fibers -> {"idle", "finish", "loop", "wait", "blocked", "woken", "submit", "left",
                          "cancel", "crashed"}]
    /\ op \in [Fibers -> {"none", "schedule", "waitAll"}]
    /\ want \in [Fibers -> Nat]
    /\ taken \in [Fibers -> Nat]
    /\ jobs \in Nat
    /\ kept \in Nat
    /\ calls \in 0 .. MaxCalls
    /\ throws \in 0 .. MaxThrows

Init ==
    /\ m_concurrency = BatchSize
    /\ m_waiters = <<>>
    /\ m_finish = FALSE
    /\ m_timedout = FALSE
    /\ m_timer \in Timed
    /\ timer = IF m_timer THEN "armed" ELSE "none"
    /\ pc = [f \in Fibers |-> "idle"]
    /\ op = [f \in Fibers |-> "none"]
    /\ want = [f \in Fibers |-> 0]
    /\ taken = [f \in Fibers |-> 0]
    /\ jobs = 0
    /\ kept = 0
    /\ calls = 0
    /\ throws = 0

Goto(f, label) == pc' = [pc EXCEPT ![f] = label]

-----------------------------------------------------------------------------
(* FiberSemaphore.                                                         *)

\* wait() up to the yield: take a permit, or queue up.
Wait(f) ==
    /\ pc[f] = "wait"
    /\ IF m_concurrency > 0
       THEN /\ m_concurrency' = m_concurrency - 1
            /\ taken' = [taken EXCEPT ![f] = @ + 1]
            /\ Goto(f, "loop")
            /\ UNCHANGED m_waiters
       ELSE /\ m_waiters' = Append(m_waiters, f)
            /\ Goto(f, "blocked")
            /\ UNCHANGED <<m_concurrency, taken>>
    /\ UNCHANGED <<group, op, want, jobs, kept, calls, throws>>

\* The fiber is resumed and wait() returns.
Resume(f) ==
    /\ pc[f] = "woken"
    /\ taken' = [taken EXCEPT ![f] = @ + 1]
    /\ Goto(f, "loop")
    /\ UNCHANGED <<sem, group, op, want, jobs, kept, calls, throws>>

\* Mutant of Notify: the waiter is scheduled and the permit is counted too.
NotifyBoth ==
    /\ m_concurrency' = m_concurrency + 1
    /\ IF m_waiters # <<>>
       THEN /\ m_waiters' = Tail(m_waiters)
            /\ Goto(Head(m_waiters), "woken")
       ELSE UNCHANGED <<m_waiters, pc>>
\* Mutant of Notify: nobody is woken.
NotifyCounts ==
    /\ m_concurrency' = m_concurrency + 1
    /\ UNCHANGED <<m_waiters, pc>>

\* notify(): the permit goes to the first waiter, or becomes free.
Notify ==
    IF m_waiters # <<>>
    THEN /\ m_waiters' = Tail(m_waiters)
         /\ Goto(Head(m_waiters), "woken")
         /\ UNCHANGED m_concurrency
    ELSE /\ m_concurrency' = m_concurrency + 1
         /\ UNCHANGED <<m_waiters, pc>>

\* notifyAll(): every waiter returns from wait(), without a permit.
NotifyAll ==
    /\ m_waiters' = <<>>
    /\ pc' = [f \in Fibers |-> IF pc[f] = "blocked" THEN "woken" ELSE pc[f]]
    /\ UNCHANGED m_concurrency

-----------------------------------------------------------------------------
(* The groups.                                                             *)

\* schedule() with n callbacks; that of a TimedWorkerGroup takes one.
Call(f, n) ==
    /\ pc[f] = "idle"
    /\ timer = "none" \/ n = 1
    /\ calls < MaxCalls
    /\ calls' = calls + 1
    /\ Goto(f, "loop")
    /\ op' = [op EXCEPT ![f] = "schedule"]
    /\ want' = [want EXCEPT ![f] = n]
    /\ taken' = [taken EXCEPT ![f] = 0]
    /\ UNCHANGED <<sem, group, jobs, kept, throws>>

\* waitAll() finds m_finish unset (otherwise it returns at once).
Join(f) ==
    /\ pc[f] = "idle"
    /\ ~m_finish
    /\ Goto(f, "finish")
    /\ op' = [op EXCEPT ![f] = "waitAll"]
    /\ taken' = [taken EXCEPT ![f] = 0]
    /\ want' = [want EXCEPT ![f] = BatchSize]
    /\ UNCHANGED <<sem, group, jobs, kept, calls, throws>>

SetFinish(f) ==
    /\ pc[f] = "finish"
    /\ m_finish' = TRUE
    /\ Goto(f, "loop")
    /\ UNCHANGED <<sem, m_timedout, m_timer, timer, op, want, taken, jobs, kept, calls, throws>>

\* Mutant of Enough: the last permit is not waited for.
EnoughShort(f) == taken[f] + 1 >= want[f]
\* The loop condition: a permit per callback, none after the timeout.
Enough(f) == taken[f] = want[f] \/ m_timedout

Loop(f) ==
    /\ pc[f] = "loop"
    /\ Goto(f, CASE ~Enough(f)                      -> "wait"
                 [] Enough(f) /\ op[f] = "schedule" -> "submit"
                 [] Enough(f) /\ op[f] = "waitAll"  -> "left")
    /\ UNCHANGED <<sem, group, op, want, taken, jobs, kept, calls, throws>>

\* schedule() hands its callbacks to the scheduler, wrapped in doWork.
Submit(f) ==
    /\ pc[f] = "submit"
    /\ jobs' = jobs + want[f]
    /\ Goto(f, "idle")
    /\ op' = [op EXCEPT ![f] = "none"]
    /\ taken' = [taken EXCEPT ![f] = 0]
    /\ UNCHANGED <<sem, group, want, kept, calls, throws>>

\* Mutant of DoWork: notify() is missing.
DoWorkSilent ==
    /\ jobs > 0
    /\ jobs' = jobs - 1
    /\ UNCHANGED <<sem, pc, group, op, want, taken, kept, calls, throws>>

\* doWork: the callback returns, notify().
DoWork ==
    /\ jobs > 0
    /\ jobs' = jobs - 1
    /\ Notify
    /\ UNCHANGED <<group, op, want, taken, kept, calls, throws>>

\* doWork: the callback throws, the exception ends the fiber, no notify().
DoWorkThrows ==
    /\ jobs > 0
    /\ throws < MaxThrows
    /\ jobs' = jobs - 1
    /\ throws' = throws + 1
    /\ UNCHANGED <<sem, group, pc, op, want, taken, kept, calls>>

\* waitAll() returns; it does not give the permits back.
Return(f) ==
    /\ Goto(f, "idle")
    /\ op' = [op EXCEPT ![f] = "none"]
    /\ taken' = [taken EXCEPT ![f] = 0]
    /\ kept' = kept + taken[f]

\* waitAll() after its loop: the test of m_timedout and m_timer ...
Left(f) ==
    /\ pc[f] = "left"
    /\ IF ~m_timedout /\ m_timer
       THEN Goto(f, "cancel") /\ UNCHANGED <<op, taken, kept>>
       ELSE Return(f)
    /\ UNCHANGED <<sem, group, want, jobs, calls, throws>>

\* ... and m_timer->cancel(), on a null pointer if onTimer came between.
CancelTimer(f) ==
    /\ pc[f] = "cancel"
    /\ IF m_timer
       THEN /\ m_timer' = FALSE
            /\ timer' = IF timer = "armed" THEN "over" ELSE timer
            /\ Return(f)
       ELSE Goto(f, "crashed") /\ UNCHANGED <<m_timer, timer, op, taken, kept>>
    /\ UNCHANGED <<sem, m_finish, m_timedout, want, jobs, calls, throws>>

\* listExpiredCb collects the timer: cancel() is too late from now on.
TimerExpires ==
    /\ timer = "armed"
    /\ timer' = "collected"
    /\ UNCHANGED <<sem, m_finish, m_timedout, m_timer, pc, op, want, taken, jobs, kept, calls, throws>>

\* onTimer sets m_timedout and drops m_timer ...
OnTimer ==
    /\ timer = "collected"
    /\ timer' = "notify"
    /\ m_timedout' = TRUE
    /\ m_timer' = FALSE
    /\ UNCHANGED <<sem, m_finish, pc, op, want, taken, jobs, kept, calls, throws>>

\* ... and wakes everybody who waits.
OnTimerNotifies ==
    /\ timer = "notify"
    /\ timer' = "over"
    /\ NotifyAll
    /\ UNCHANGED <<m_finish, m_timedout, m_timer, op, want, taken, jobs, kept, calls, throws>>

Step(f) ==
    Wait(f) \/ Resume(f) \/ SetFinish(f) \/ Loop(f) \/ Submit(f) \/ Left(f) \/ CancelTimer(f)

Next ==
    \/ \E f \in Fibers : Step(f) \/ \E n \in Sizes : Call(f, n)
    \/ \E f \in Joiners : Join(f)
    \/ DoWork
    \/ DoWorkThrows
    \/ TimerExpires
    \/ OnTimer
    \/ OnTimerNotifies

\* The scheduler resumes what is scheduled, and the callbacks return.
Spec ==
    /\ Init
    /\ [][Next]_vars
    /\ \A f \in Fibers : WF_vars(Step(f))
    /\ WF_vars(DoWork)

-----------------------------------------------------------------------------
\* The permits a fiber has taken in its current call, and the one notify()
\* passed to it that it has not seen yet.
Permits(f) == taken[f] + (IF pc[f] = "woken" THEN 1 ELSE 0)

\* All of them, as a set of numbered tokens.
Held == UNION {{f} \X (1 .. Permits(f)) : f \in Fibers}

\* Until the timeout a permit is free, with a fiber, with a job, kept by
\* waitAll() or lost with a callback that threw: none is forged or dropped by
\* the hand-over from notify() to a waiter.
PermitsExact ==
    ~m_timedout =>
        m_concurrency + Cardinality(Held) + jobs + kept + throws = BatchSize

\* Nobody sleeps in FiberSemaphore::wait() while a permit is free, so a late
\* caller cannot overtake the fibers that wait.
NoIdlePermit == m_concurrency > 0 => m_waiters = <<>>

\* A sleeping fiber is in m_waiters once, so one notify() resumes one fiber
\* and resumes it once.
WaitersExact ==
    /\ \A f \in Fibers : pc[f] = "blocked" <=> \E i \in DOMAIN m_waiters : m_waiters[i] = f
    /\ \A i, j \in DOMAIN m_waiters : m_waiters[i] = m_waiters[j] => i = j

\* A group never has more than m_batchSize callbacks under way (until its
\* timer fires).
AtMostBatch == ~m_timedout => jobs <= BatchSize

\* waitAll() is a barrier: when its loop has ended for any other reason than
\* the timeout, no callback is under way and nobody is about to start one.
WaitAllIsBarrier ==
    \A f \in Fibers :
        pc[f] \in {"left", "cancel"} /\ ~m_timedout =>
            jobs = 0 /\ \A g \in Fibers \ {f} : Permits(g) = 0 /\ (want[g] > 0 => pc[g] # "submit")

\* The permits the calls of schedule() under way may hold while each of them
\* still waits for one more, as numbered tokens: a batch holds the ones it has
\* while it waits for the next.
Hoard == UNION {{f} \X (1 .. want[f] - 1) : f \in {g \in Fibers : op[g] = "schedule"}}

\* A call of schedule() returns, unless somebody has called waitAll(), a callback
\* has thrown, or the batches under way may wait for one another: a batch of
\* more than m_batchSize callbacks never returns, and neither do several that
\* have come to hold all the permits before any of them has enough.
CallsReturn ==
    \A f \in Fibers :
        (op[f] = "schedule" /\ ~m_finish) ~>
            op[f] # "schedule" \/ m_finish \/ throws > 0 \/ Cardinality(Hoard) >= BatchSize

\* waitAll() returns, unless it competes with a batch or another waitAll() (each
\* of the two may hold permits the other one waits for), another waitAll() has
\* kept the permits, a callback has thrown, or it has met onTimer at
\* m_timer->cancel().
WaitAllReturns ==
    \A f \in Fibers :
        (op[f] = "waitAll") ~>
            \/ op[f] = "none" \/ pc[f] = "crashed" \/ throws > 0 \/ kept > 0
            \/ \E g \in Fibers \ {f} : op[g] # "none" /\ want[g] > 1
=============================================================================
