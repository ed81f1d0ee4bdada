----------------------------- MODULE Scheduler -----------------------------
(***************************************************************************)
(* The coroutine scheduler of chat/scheduler.{h,cc} and the fiber states   *)
(* of chat/fiber.{h,cc}: a pool of threads, one of which may be the thread *)
(* that built the scheduler (use_caller), runs jobs from one shared list.  *)
(*                                                                         *)
(* A job is one coroutine.  A callback that is scheduled runs in a fiber   *)
(* of its own (cb_fiber, freshly built or reset to INIT) and goes through  *)
(* the same steps as a scheduled fiber, so the model keeps one kind.       *)
(*                                                                         *)
(* What is one step here is what the code does under m_mutex or in one     *)
(* atomic operation.  m_state, m_stopping and m_autoStop are written       *)
(* without m_mutex, and every such write is a step of its own.             *)
(***************************************************************************)
EXTENDS Naturals, Sequences, FiniteSets, SequencesExt

CONSTANTS
    Pool,       \* the threads start() creates
    Caller,     \* the thread that builds the scheduler and calls stop()
    UseCaller,  \* the constructor's use_caller
    Jobs,       \* the coroutines
    Yielders,   \* the jobs that may call YieldToReady
    Holders,    \* the jobs that may hand themselves to a waker and hold
    Switchers,  \* the jobs that may call switchTo
    Pins,       \* the thread arguments given to schedule()
    NoPin,      \* thread == -1
    None        \* a null ft.fiber

Threads == Pool \union (IF UseCaller THEN {Caller} ELSE {})

ASSUME ThreadAssumption ==
    /\ UseCaller \in BOOLEAN
    /\ Caller \notin Pool
    /\ IsFiniteSet(Pool)
    /\ Threads # {}
ASSUME JobAssumption ==
    /\ Yielders \subseteq Jobs
    /\ Holders \subseteq Jobs
    /\ Switchers \subseteq Jobs
    /\ None \notin Jobs
    /\ NoPin \notin Threads
    /\ Pins \subseteq Threads \union {NoPin}

VARIABLES
    m_fibers,             \* the list of [job, thread] waiting to run
    m_state,              \* Fiber::m_state of each job
    m_activeThreadCount,
    m_idleThreadCount,
    m_stopping,
    m_autoStop,
    pc,                   \* where each thread is in Scheduler::run
    ft,                   \* the job each thread has taken
    idle,                 \* the state of each thread's idle_fiber
    armed,                \* the held jobs somebody else promised to schedule
    submitted,            \* the jobs ever given to schedule()
    owner                 \* where the owner is in start() and stop()

queue   == <<m_fibers, submitted, armed>>
counts  == <<m_activeThreadCount, m_idleThreadCount>>
flags   == <<m_stopping, m_autoStop>>
control == <<pc, ft, idle>>
vars    == <<m_fibers, m_state, m_activeThreadCount, m_idleThreadCount, m_stopping,
             m_autoStop, pc, ft, idle, armed, submitted, owner>>

State   == {"INIT", "HOLD", "EXEC", "TERM", "READY", "EXCEPT"}
Ended   == {"TERM", "EXCEPT"}
Entry   == [job : Jobs, thread : Threads \union {NoPin}]

\* Where a thread is in run(): "off" before it enters, "loop" at line 151,
\* "dispatch" at 183 with a job taken, "body" inside the job's function,
\* "hold" after the job handed itself to a waker and before YieldToHold,
\* "swapOut" once the job's state is written and before its context is saved,
\* "back" after swapIn returned, "settle" after --m_activeThreadCount,
\* "idle" inside the idle fiber, "exited" after the loop.
Pc      == {"off", "loop", "dispatch", "body", "hold", "swapOut", "back", "settle",
            "idle", "exited"}
Active  == {"dispatch", "body", "hold", "swapOut", "back"}
OnJob   == Active \union {"settle"}
Owner   == {"built", "running", "autoStop", "stopping", "root", "join", "stopped"}

TypeOK ==
    /\ m_fibers \in Seq(Entry)
    /\ m_state \in [Jobs -> State]
    /\ m_activeThreadCount \in Nat
    /\ m_idleThreadCount \in Nat
    /\ m_stopping \in BOOLEAN
    /\ m_autoStop \in BOOLEAN
    /\ pc \in [Threads -> Pc]
    /\ ft \in [Threads -> Jobs \union {None}]
    /\ idle \in [Threads -> {"INIT", "HOLD", "TERM"}]
    /\ armed \subseteq Jobs
    /\ submitted \subseteq Jobs
    /\ owner \in Owner

Init ==
    /\ m_fibers = <<>>
    /\ m_state = [j \in Jobs |-> "INIT"]
    /\ m_activeThreadCount = 0
    /\ m_idleThreadCount = 0
    /\ m_stopping = TRUE
    /\ m_autoStop = FALSE
    /\ pc = [t \in Threads |-> "off"]
    /\ ft = [t \in Threads |-> None]
    /\ idle = [t \in Threads |-> "INIT"]
    /\ armed = {}
    /\ submitted = {}
    /\ owner = "built"

\* scheduleNoLock: push_back under m_mutex.  (tickle() only logs here.)
Schedule(j, pin) == m_fibers' = Append(m_fibers, [job |-> j, thread |-> pin])

\* Scheduler::stopping(), evaluated under the read lock.
Stopping ==
    /\ m_stopping
    /\ m_autoStop
    /\ m_fibers = <<>>
    /\ m_activeThreadCount = 0

Goto(t, l) == pc' = [pc EXCEPT ![t] = l]
SetState(j, s) == m_state' = [m_state EXCEPT ![j] = s]

-----------------------------------------------------------------------------
(* One iteration of Scheduler::run on thread t.                            *)

\* The test of the search loop: not pinned elsewhere, not executing.
Eligible(t, i) ==
    /\ m_fibers[i].thread \in {NoPin, t}
    /\ m_state[m_fibers[i].job] # "EXEC"

\* The first eligible entry is copied and erased, and the thread is active.
Take(t) ==
    /\ pc[t] = "loop"
    /\ \E i \in DOMAIN m_fibers :
          /\ Eligible(t, i)
          /\ \A k \in 1 .. i - 1 : ~Eligible(t, k)
          /\ m_fibers' = RemoveAt(m_fibers, i)
          /\ ft' = [ft EXCEPT ![t] = m_fibers[i].job]
    /\ m_activeThreadCount' = m_activeThreadCount + 1
    /\ Goto(t, "dispatch")
    /\ UNCHANGED <<m_state, m_idleThreadCount, flags, idle, armed, submitted, owner>>

\* Mutant of EnterIdle: a thread whose idle fiber has ended leaves at once.
EnterIdleLeaves(t) ==
    /\ pc[t] = "loop"
    /\ IF idle[t] = "TERM"
       THEN /\ Goto(t, "exited")
            /\ UNCHANGED m_idleThreadCount
       ELSE /\ \A i \in DOMAIN m_fibers : ~Eligible(t, i)
            /\ Goto(t, "idle")
            /\ m_idleThreadCount' = m_idleThreadCount + 1
    /\ UNCHANGED <<queue, m_state, m_activeThreadCount, flags, ft, idle, owner>>

\* Nothing to take: enter the idle fiber, or leave run() if it has ended.
EnterIdle(t) ==
    /\ pc[t] = "loop"
    /\ \A i \in DOMAIN m_fibers : ~Eligible(t, i)
    /\ IF idle[t] = "TERM"
       THEN /\ Goto(t, "exited")
            /\ UNCHANGED m_idleThreadCount
       ELSE /\ Goto(t, "idle")
            /\ m_idleThreadCount' = m_idleThreadCount + 1
    /\ UNCHANGED <<queue, m_state, m_activeThreadCount, flags, ft, idle, owner>>

\* One pass of Scheduler::idle: end when stopping() holds, else yield.
Idle(t) ==
    /\ pc[t] = "idle"
    /\ idle' = [idle EXCEPT ![t] = IF Stopping THEN "TERM" ELSE "HOLD"]
    /\ m_idleThreadCount' = m_idleThreadCount - 1
    /\ Goto(t, "loop")
    /\ UNCHANGED <<queue, m_state, m_activeThreadCount, flags, ft, owner>>

\* Mutant of Dispatch: swapIn does not write EXEC.
DispatchKeepsState(t) ==
    /\ pc[t] = "dispatch"
    /\ Goto(t, "body")
    /\ UNCHANGED <<queue, m_state, counts, flags, ft, idle, owner>>

\* A live job is swapped in; one that has already ended is dropped.
Dispatch(t) ==
    /\ pc[t] = "dispatch"
    /\ IF m_state[ft[t]] \in Ended
       THEN /\ m_activeThreadCount' = m_activeThreadCount - 1
            /\ ft' = [ft EXCEPT ![t] = None]
            /\ Goto(t, "loop")
            /\ UNCHANGED m_state
       ELSE /\ SetState(ft[t], "EXEC")
            /\ Goto(t, "body")
            /\ UNCHANGED <<m_activeThreadCount, ft>>
    /\ UNCHANGED <<queue, m_idleThreadCount, flags, idle, owner>>

\* swapOut: SetThis(main fiber), then the context is saved.
SwapOut(t) ==
    /\ pc[t] = "swapOut"
    /\ Goto(t, "back")
    /\ UNCHANGED <<queue, m_state, counts, flags, ft, idle, owner>>

\* Mutant of Back: --m_activeThreadCount is missing.
BackUncounted(t) ==
    /\ pc[t] = "back"
    /\ Goto(t, "settle")
    /\ UNCHANGED <<queue, m_state, counts, flags, ft, idle, owner>>

\* --m_activeThreadCount, the first thing after swapIn returns.
Back(t) ==
    /\ pc[t] = "back"
    /\ m_activeThreadCount' = m_activeThreadCount - 1
    /\ Goto(t, "settle")
    /\ UNCHANGED <<queue, m_state, m_idleThreadCount, flags, ft, idle, owner>>

\* The thread is done with the job and starts its next iteration.
SettleTail(t) ==
    /\ ft' = [ft EXCEPT ![t] = None]
    /\ Goto(t, "loop")
    /\ UNCHANGED <<counts, flags, idle, armed, submitted, owner>>
\* Mutant of Settle: a READY job is not scheduled again.
SettleDropsReady(t) ==
    /\ pc[t] = "settle"
    /\ UNCHANGED <<m_fibers, m_state>>
    /\ SettleTail(t)
\* Mutant of Settle: a READY job goes to the front of the list.
SettleReadyFirst(t) ==
    /\ pc[t] = "settle"
    /\ IF m_state[ft[t]] = "READY"
       THEN m_fibers' = <<[job |-> ft[t], thread |-> NoPin]>> \o m_fibers
       ELSE UNCHANGED m_fibers
    /\ UNCHANGED m_state
    /\ SettleTail(t)

\* A READY job is scheduled again, an unfinished one is marked HOLD.
Settle(t) ==
    /\ pc[t] = "settle"
    /\ CASE m_state[ft[t]] = "READY" ->
               Schedule(ft[t], NoPin) /\ UNCHANGED m_state
         [] m_state[ft[t]] \in Ended ->
               UNCHANGED <<m_fibers, m_state>>
         [] OTHER ->
               SetState(ft[t], "HOLD") /\ UNCHANGED m_fibers
    /\ SettleTail(t)

-----------------------------------------------------------------------------
(* What the job running on thread t may do.                                *)

\* The job schedules another one.
Spawn(t, k, pin) ==
    /\ pc[t] = "body"
    /\ k \notin submitted
    /\ Schedule(k, pin)
    /\ submitted' = submitted \union {k}
    /\ UNCHANGED <<m_state, counts, flags, control, armed, owner>>

\* Fiber::YieldToReady; its assertion on m_state guards the step.
YieldToReady(t) ==
    /\ pc[t] = "body"
    /\ ft[t] \in Yielders
    /\ m_state[ft[t]] = "EXEC"
    /\ SetState(ft[t], "READY")
    /\ Goto(t, "swapOut")
    /\ UNCHANGED <<queue, counts, flags, ft, idle, owner>>

\* The job hands itself to whoever will schedule it again: an event context
\* of the IOManager, the waiters of a FiberSemaphore, a timer.
Arm(t) ==
    /\ pc[t] = "body"
    /\ ft[t] \in Holders
    /\ armed' = armed \union {ft[t]}
    /\ Goto(t, "hold")
    /\ UNCHANGED <<m_fibers, submitted, m_state, counts, flags, ft, idle, owner>>

\* Scheduler::switchTo(u), up to its YieldToHold.
SwitchTo(t, u) ==
    /\ pc[t] = "body"
    /\ ft[t] \in Switchers
    /\ u # t
    /\ Schedule(ft[t], u)
    /\ Goto(t, "hold")
    /\ UNCHANGED <<submitted, armed, m_state, counts, flags, ft, idle, owner>>

\* Fiber::YieldToHold up to its swapOut.
YieldToHold(t) ==
    /\ pc[t] = "hold"
    /\ m_state[ft[t]] = "EXEC"
    /\ SetState(ft[t], "HOLD")
    /\ Goto(t, "swapOut")
    /\ UNCHANGED <<queue, counts, flags, ft, idle, owner>>

\* Fiber::MainFunc: the function returns, or an exception leaves it.
Finish(t, s) ==
    /\ pc[t] = "body"
    /\ s \in Ended
    /\ SetState(ft[t], s)
    /\ Goto(t, "swapOut")
    /\ UNCHANGED <<queue, counts, flags, ft, idle, owner>>

-----------------------------------------------------------------------------
(* Everybody else.                                                         *)

\* A thread that is not a worker schedules a new job, before stop().
Submit(j, pin) ==
    /\ owner \in {"built", "running"}
    /\ j \notin submitted
    /\ Schedule(j, pin)
    /\ submitted' = submitted \union {j}
    /\ UNCHANGED <<m_state, counts, flags, control, armed, owner>>

\* The waker of a held job schedules it, once.
Wake(j) ==
    /\ j \in armed
    /\ armed' = armed \ {j}
    /\ Schedule(j, NoPin)
    /\ UNCHANGED <<submitted, m_state, counts, flags, control, owner>>

\* Scheduler::start(): the pool threads enter run().
Start ==
    /\ owner = "built"
    /\ m_stopping
    /\ m_stopping' = FALSE
    /\ pc' = [t \in Threads |-> IF t \in Pool THEN "loop" ELSE pc[t]]
    /\ owner' = "running"
    /\ UNCHANGED <<queue, m_state, counts, m_autoStop, ft, idle>>

\* Scheduler::stop(), one action for each write or test other threads can
\* see: m_autoStop; m_stopping, with the early return of a scheduler that
\* has no pool; the root fiber, unless stopping() holds; the joins.
StopCall ==
    /\ owner = "running"
    /\ m_autoStop' = TRUE
    /\ owner' = "autoStop"
    /\ UNCHANGED <<queue, m_state, counts, m_stopping, control>>

StopFlag ==
    /\ owner = "autoStop"
    /\ m_stopping' = TRUE
    /\ owner' = IF Pool = {} /\ m_fibers = <<>> /\ m_activeThreadCount = 0
                THEN "stopped" ELSE "stopping"
    /\ UNCHANGED <<queue, m_state, counts, m_autoStop, control>>

StopRoot ==
    /\ owner = "stopping"
    /\ IF UseCaller /\ ~Stopping
       THEN Goto(Caller, "loop") /\ owner' = "root"
       ELSE owner' = "join" /\ UNCHANGED pc
    /\ UNCHANGED <<queue, m_state, counts, flags, ft, idle>>

StopRootEnds ==
    /\ owner = "root"
    /\ pc[Caller] = "exited"
    /\ owner' = "join"
    /\ UNCHANGED <<queue, m_state, counts, flags, control>>

StopJoin ==
    /\ owner = "join"
    /\ \A t \in Pool : pc[t] = "exited"
    /\ owner' = "stopped"
    /\ UNCHANGED <<queue, m_state, counts, flags, control>>

Body(t) ==
    \/ \E k \in Jobs, pin \in Pins : Spawn(t, k, pin)
    \/ YieldToReady(t)
    \/ Arm(t)
    \/ \E u \in Threads : SwitchTo(t, u)
    \/ \E s \in Ended : Finish(t, s)

Run(t) ==
    \/ Take(t)
    \/ EnterIdle(t)
    \/ Idle(t)
    \/ Dispatch(t)
    \/ YieldToHold(t)
    \/ SwapOut(t)
    \/ Back(t)
    \/ Settle(t)

Stop == StopFlag \/ StopRoot \/ StopRootEnds \/ StopJoin

\* After stop() has returned the process may end; stuttering stands for it.
Done == owner = "stopped" /\ UNCHANGED vars

Next ==
    \/ \E t \in Threads : Run(t) \/ Body(t)
    \/ \E j \in Jobs, pin \in Pins : Submit(j, pin)
    \/ \E j \in Jobs : Wake(j)
    \/ Start
    \/ StopCall
    \/ Stop
    \/ Done

\* The operating system runs every thread, so each one leaves every place it
\* is in; a job's own code does not loop forever without a yield.  Nobody
\* promises to submit, to wake a held job or to call stop(), but stop() once
\* called goes on.
Spec ==
    /\ Init
    /\ [][Next]_vars
    /\ \A t \in Threads : WF_vars(Run(t)) /\ WF_vars(Body(t))
    /\ WF_vars(Stop)

-----------------------------------------------------------------------------
Queued(j)    == \E i \in DOMAIN m_fibers : m_fibers[i].job = j
OnThread(j)  == \E t \in Threads : ft[t] = j
HasEnded(j)  == m_state[j] \in Ended

\* A submitted job is never lost and never duplicated: it is on at most one
\* thread, at most once in m_fibers, either in m_fibers or with a waker, and
\* in one of these places until it has ended, after which nobody runs it.
JobPlaced ==
    /\ \A t, u \in Threads : ft[t] = ft[u] /\ ft[t] # None => t = u
    /\ \A i, k \in DOMAIN m_fibers : m_fibers[i].job = m_fibers[k].job => i = k
    /\ \A j \in armed : ~Queued(j)
    /\ \A j \in submitted : HasEnded(j) \/ Queued(j) \/ OnThread(j) \/ j \in armed
    /\ \A j \in Jobs : HasEnded(j) => ~Queued(j) /\ j \notin armed

\* CHAT_ASSERT(cur->m_state == State::EXEC) of YieldToReady and YieldToHold
\* (fiber.cc 259 and 265) holds whenever a job's own code is running.
YieldFromExec ==
    \A t \in Threads : pc[t] \in {"body", "hold"} => m_state[ft[t]] = "EXEC"

\* m_activeThreadCount, on which stopping() depends, is the number of threads
\* between taking a job and getting it back, whatever path each one took.
ActiveExact == m_activeThreadCount = Cardinality({t \in Threads : pc[t] \in Active})

\* When stop() has returned no thread is inside run() and every submitted job
\* has ended, even though a job that yields is counted nowhere between lines 188
\* and 191 and an idle fiber may end in between.  What may stay is a job that
\* waits for a waker, and one that switchTo or schedule has queued for a certain
\* thread after that thread had left run().
StopLeavesNothing ==
    owner = "stopped" =>
        /\ \A t \in Threads : pc[t] \in {"off", "exited"}
        /\ \A j \in submitted :
              \/ HasEnded(j)
              \/ j \in Holders
              \/ \E i \in DOMAIN m_fibers : m_fibers[i].job = j /\ m_fibers[i].thread \in Threads

\* A fiber that reached TERM or EXCEPT keeps that state: neither the scheduler's
\* write of HOLD (scheduler.cc 194) nor a second swapIn revives it.
EndedStays == [][\A j \in Jobs : HasEnded(j) => m_state'[j] = m_state[j]]_vars

\* No starvation: a queued job that some running thread may take is run, however
\* often the others yield, or else stop() returns (a job woken after the
\* threads have left is abandoned).
QueuedRuns ==
    \A j \in Jobs :
        (/\ owner = "running"
         /\ \E i \in DOMAIN m_fibers :
               /\ m_fibers[i].job = j
               /\ m_fibers[i].thread \in Pool \union {NoPin}
               /\ Pool # {})
            ~> (OnThread(j) \/ owner = "stopped")

\* A job that is resumed again and again ends at last.
Ends(j) == \E t \in Threads, s \in Ended : ft[t] = j /\ Finish(t, s)
JobsEnd == \A j \in Jobs : SF_vars(Ends(j))

\* If the jobs end, stop() returns: the threads see stopping() and the joins end.
StopReturns == JobsEnd => (owner = "autoStop" ~> owner = "stopped")
=============================================================================
