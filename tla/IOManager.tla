----------------------------- MODULE IOManager -----------------------------
(***************************************************************************)
(* The event contexts of chat/iomanager.{h,cc}: waiters (a fiber or a      *)
(* callback) are registered for READ or WRITE on a file descriptor, and    *)
(* are scheduled when epoll reports the event, when the event is cancelled *)
(* or when everything on the descriptor is cancelled.                      *)
(*                                                                         *)
(* Each operation holds the mutex of the FdContext from its first look at  *)
(* m_events to its end and is one step.  What epoll_wait returned to a     *)
(* worker is a copy that grows old until the worker takes that mutex.      *)
(* The kernel's side (interest list, edge-triggered readiness) is external *)
(* and modelled from how the code uses it.                                 *)
(***************************************************************************)
EXTENDS Integers, FiniteSets, FiniteSetsExt

CONSTANTS
    Fds,        \* the file descriptors
    Events,     \* the event kinds in use, a subset of {"READ", "WRITE"}
    Waiters,    \* the fibers and callbacks
    Workers,    \* the threads in IOManager::idle
    None,       \* a null scheduler/fiber/cb in an EventContext
    MaxCloses,  \* bound: how many descriptors are closed behind our back
    SizeT       \* m_pendingEventCount is a size_t: it counts modulo SizeT

ASSUME IOAssumption ==
    /\ Events \subseteq {"READ", "WRITE"}
    /\ None \notin Waiters
    /\ IsFiniteSet(Fds)
    /\ MaxCloses \in Nat
    /\ SizeT \in Nat \ {0}

VARIABLES
    m_events,             \* FdContext::m_events of each descriptor
    ctx,                  \* the EventContext of each descriptor and event
    m_pendingEventCount,
    fate,                 \* "new", "waiting", "woken" or "deleted" per waiter
    wakes,                \* history: how often each waiter was scheduled
    interest,             \* the kernel's interest list: descriptor -> events
    open,                 \* the open descriptors
    ready,                \* the events that would not block, per descriptor
    edge,                 \* the descriptors epoll has news about
    closes,
    got                   \* what epoll_wait has returned to each worker

context == <<m_events, ctx, m_pendingEventCount, fate, wakes>>
kernel  == <<interest, open, ready, edge, closes>>
vars    == <<m_events, ctx, m_pendingEventCount, fate, wakes, interest, open, ready, edge,
             closes, got>>

\* One entry of the array epoll_wait fills; hup is EPOLLERR | EPOLLHUP.
Report == [fd : Fds, events : SUBSET Events, hup : BOOLEAN]
NoReport == [fd |-> None, events |-> {}, hup |-> FALSE]

TypeOK ==
    /\ m_events \in [Fds -> SUBSET Events]
    /\ ctx \in [Fds -> [Events -> Waiters \union {None}]]
    /\ m_pendingEventCount \in 0 .. SizeT - 1
    /\ fate \in [Waiters -> {"new", "waiting", "woken", "deleted"}]
    /\ wakes \in [Waiters -> Nat]
    /\ DOMAIN interest \subseteq Fds
    /\ \A fd \in DOMAIN interest : interest[fd] \subseteq Events
    /\ open \subseteq Fds
    /\ ready \in [Fds -> SUBSET Events]
    /\ edge \subseteq Fds
    /\ closes \in 0 .. MaxCloses
    /\ got \in [Workers -> Report \union {NoReport}]

Init ==
    /\ m_events = [fd \in Fds |-> {}]
    /\ ctx = [fd \in Fds |-> [ev \in Events |-> None]]
    /\ m_pendingEventCount = 0
    /\ fate = [x \in Waiters |-> "new"]
    /\ wakes = [x \in Waiters |-> 0]
    /\ interest = <<>>
    /\ open = Fds
    /\ ready = [fd \in Fds |-> {}]
    /\ edge = {}
    /\ closes = 0
    /\ got = [w \in Workers |-> NoReport]

-----------------------------------------------------------------------------
(* epoll, as the code uses it.                                             *)

\* EPOLL_CTL_ADD wants an open descriptor that is not in the interest list;
\* EPOLL_CTL_MOD and EPOLL_CTL_DEL want one that is.
CtlWorks(fd, before) ==
    IF before = {} THEN fd \in open /\ fd \notin DOMAIN interest ELSE fd \in DOMAIN interest

\* The interest list gets the new events; news is reported again if one of
\* them is ready (EPOLL_CTL_ADD and EPOLL_CTL_MOD look at the descriptor).
Ctl(fd, events) ==
    /\ interest' = [f \in (DOMAIN interest \ {fd}) \union (IF events = {} THEN {} ELSE {fd}) |->
                       IF f = fd THEN events ELSE interest[f]]
    /\ edge' = IF ready[fd] \intersect events # {} THEN edge \union {fd} ELSE edge \ {fd}
    /\ UNCHANGED <<open, ready, closes>>

-----------------------------------------------------------------------------
(* The operations of FdContext and IOManager.                              *)

\* The counter is a std::atomic<size_t>.
Count(n) == m_pendingEventCount' = (m_pendingEventCount + n) % SizeT

\* Mutant of Trigger: the bit and the context are left as they are.
TriggerKeeps(fd, evs) ==
    LET who == {ctx[fd][ev] : ev \in evs \intersect m_events[fd]}
    IN  /\ fate' = [x \in Waiters |-> IF x \in who THEN "woken" ELSE fate[x]]
        /\ wakes' = [x \in Waiters |-> IF x \in who THEN wakes[x] + 1 ELSE wakes[x]]
        /\ UNCHANGED <<m_events, ctx>>

\* FdContext::triggerEvent for each event of evs that is registered: clear the
\* bit, hand the waiter to its scheduler, empty the context.  For an event that
\* is not registered it only logs.
Trigger(fd, evs) ==
    LET hit == evs \intersect m_events[fd]
        who == {ctx[fd][ev] : ev \in hit}
    IN  /\ m_events' = [m_events EXCEPT ![fd] = @ \ hit]
        /\ ctx' = [ctx EXCEPT ![fd] = [ev \in Events |-> IF ev \in hit THEN None ELSE @[ev]]]
        /\ fate' = [x \in Waiters |-> IF x \in who THEN "woken" ELSE fate[x]]
        /\ wakes' = [x \in Waiters |-> IF x \in who THEN wakes[x] + 1 ELSE wakes[x]]

\* addEvent; its assertion that the event is not registered is the caller's
\* obligation, and the failing epoll_ctl returns -1 and changes nothing.
AddEvent(fd, ev, x) ==
    /\ fate[x] = "new"
    /\ ev \notin m_events[fd]
    /\ CtlWorks(fd, m_events[fd])
    /\ Ctl(fd, m_events[fd] \union {ev})
    /\ Count(1)
    /\ m_events' = [m_events EXCEPT ![fd] = @ \union {ev}]
    /\ ctx' = [ctx EXCEPT ![fd][ev] = x]
    /\ fate' = [fate EXCEPT ![x] = "waiting"]
    /\ UNCHANGED <<wakes, got>>

\* delEvent: the waiter is forgotten, not scheduled.
DelEvent(fd, ev) ==
    /\ ev \in m_events[fd]
    /\ CtlWorks(fd, m_events[fd])
    /\ Ctl(fd, m_events[fd] \ {ev})
    /\ Count(-1)
    /\ m_events' = [m_events EXCEPT ![fd] = @ \ {ev}]
    /\ ctx' = [ctx EXCEPT ![fd][ev] = None]
    /\ fate' = [fate EXCEPT ![ctx[fd][ev]] = "deleted"]
    /\ UNCHANGED <<wakes, got>>

\* cancelEvent: the waiter is scheduled as if the event had happened.
CancelEvent(fd, ev) ==
    /\ ev \in m_events[fd]
    /\ CtlWorks(fd, m_events[fd])
    /\ Ctl(fd, m_events[fd] \ {ev})
    /\ Trigger(fd, {ev})
    /\ Count(-1)
    /\ UNCHANGED got

\* cancelAll: EPOLL_CTL_DEL, then both waiters are scheduled.
CancelAll(fd) ==
    /\ m_events[fd] # {}
    /\ fd \in DOMAIN interest
    /\ Ctl(fd, {})
    /\ Trigger(fd, m_events[fd])
    /\ Count(-Cardinality(m_events[fd]))
    /\ UNCHANGED got

\* epoll_wait in idle(): a copy of the news about one descriptor.
EpollWait(w, fd, hup) ==
    /\ got[w] = NoReport
    /\ fd \in DOMAIN interest
    /\ IF hup THEN UNCHANGED edge ELSE fd \in edge /\ edge' = edge \ {fd}
    /\ got' = [got EXCEPT ![w] = [fd |-> fd, events |-> ready[fd] \intersect interest[fd],
                                  hup |-> hup]]
    /\ UNCHANGED <<context, interest, open, ready, closes>>

\* The events idle() acts on: an error or hang-up stands for all that are
\* registered by now.
RealEvents(w) ==
    got[w].events \union (IF got[w].hup THEN m_events[got[w].fd] ELSE {})

\* Mutant of Handle: EPOLL_CTL_DEL even if events are left.
HandleDeletes(w) ==
    /\ got[w] # NoReport
    /\ LET fd   == got[w].fd
           real == RealEvents(w)
       IN  IF m_events[fd] \intersect real = {} \/ fd \notin DOMAIN interest
           THEN UNCHANGED <<context, kernel>>
           ELSE /\ Ctl(fd, {})
                /\ Trigger(fd, real)
                /\ Count(-Cardinality(real))
    /\ got' = [got EXCEPT ![w] = NoReport]

\* The rest of the loop body, under the FdContext's mutex.  The counter goes
\* down once for every reported event, registered or not.
Handle(w) ==
    /\ got[w] # NoReport
    /\ LET fd   == got[w].fd
           real == RealEvents(w)
       IN  IF m_events[fd] \intersect real = {} \/ fd \notin DOMAIN interest
           THEN UNCHANGED <<context, kernel>>
           ELSE /\ Ctl(fd, m_events[fd] \ real)
                /\ Trigger(fd, real)
                /\ Count(-Cardinality(real))
    /\ got' = [got EXCEPT ![w] = NoReport]

-----------------------------------------------------------------------------
(* The other end of the descriptors, and close().                          *)

\* Data, or room for data, arrives.
Arrive(fd, ev) ==
    /\ fd \in open
    /\ ready' = [ready EXCEPT ![fd] = @ \union {ev}]
    /\ edge' = IF fd \in DOMAIN interest /\ ev \in interest[fd] THEN edge \union {fd} ELSE edge
    /\ UNCHANGED <<context, interest, open, closes, got>>

\* The application reads or writes until EAGAIN.
Drain(fd, ev) ==
    /\ ev \in ready[fd]
    /\ ready' = [ready EXCEPT ![fd] = @ \ {ev}]
    /\ UNCHANGED <<context, interest, open, edge, closes, got>>

\* close(2) without cancelAll: the kernel forgets the descriptor, the
\* FdContext does not (hook.cc's close() when the hooks are enabled).
Close(fd) ==
    /\ fd \in open
    /\ closes < MaxCloses
    /\ closes' = closes + 1
    /\ open' = open \ {fd}
    /\ interest' = [f \in DOMAIN interest \ {fd} |-> interest[f]]
    /\ edge' = edge \ {fd}
    /\ ready' = [ready EXCEPT ![fd] = {}]
    /\ UNCHANGED <<context, got>>

\* socket(2) returns the number of a closed descriptor.
Reopen(fd) ==
    /\ fd \notin open
    /\ open' = open \union {fd}
    /\ UNCHANGED <<context, interest, ready, edge, closes, got>>

Worker(w) == Handle(w) \/ \E fd \in Fds : EpollWait(w, fd, FALSE)

Next ==
    \/ \E w \in Workers : Worker(w)
    \/ \E w \in Workers, fd \in Fds : EpollWait(w, fd, TRUE)
    \/ \E fd \in Fds, ev \in Events :
          \/ \E x \in Waiters : AddEvent(fd, ev, x)
          \/ DelEvent(fd, ev)
          \/ CancelEvent(fd, ev)
          \/ Arrive(fd, ev)
          \/ Drain(fd, ev)
    \/ \E fd \in Fds : CancelAll(fd) \/ Close(fd) \/ Reopen(fd)

\* A thread with nothing to run comes back to epoll_wait and handles what it
\* returns; nothing is promised about the users or the peers.
Spec == Init /\ [][Next]_vars /\ \A w \in Workers : WF_vars(Worker(w))

-----------------------------------------------------------------------------
\* A waiter is scheduled at most once, never after delEvent forgot it, and it
\* is in an EventContext, and in only one, exactly until it is done.
WaiterOnce ==
    /\ \A x \in Waiters : wakes[x] = IF fate[x] = "woken" THEN 1 ELSE 0
    /\ \A x \in Waiters :
          fate[x] = "waiting" <=> \E fd \in Fds, ev \in Events : ctx[fd][ev] = x
    /\ \A f, g \in Fds, d, e \in Events :
          ctx[f][d] = ctx[g][e] /\ ctx[f][d] # None => f = g /\ d = e

\* CHAT_ASSERT(!event_ctx.scheduler && !event_ctx.fiber && !event_ctx.cb) of
\* addEvent (iomanager.cc 134): a context is empty unless its bit is set.
ContextMatchesEvents ==
    \A fd \in Fds, ev \in Events : ev \in m_events[fd] <=> ctx[fd][ev] # None

\* The kernel watches exactly the registered events, so no epoll_ctl call can
\* fail, as long as no descriptor is closed without cancelAll.
KernelAgrees ==
    closes = 0 =>
        \A fd \in Fds :
            IF m_events[fd] = {} THEN fd \notin DOMAIN interest
            ELSE fd \in DOMAIN interest /\ interest[fd] = m_events[fd]

\* No lost wake-up: a waiter whose event is ready and stays ready is woken (or
\* the registration is removed), although epoll is edge-triggered.
ReadyIsDelivered ==
    \A fd \in Fds, ev \in Events :
        (ev \in m_events[fd] /\ ev \in ready[fd] /\ closes = 0)
            ~> (ev \notin m_events[fd] \/ ev \notin ready[fd] \/ closes > 0)

Wait == INSTANCE EventWait WITH
    Slots <- Fds \X Events,
    slot <- [s \in Fds \X Events |-> ctx[s[1]][s[2]]]

\* The whole of addEvent, delEvent, cancelEvent, cancelAll and idle() implements
\* the simple waiting of EventWait: whatever worker acts on whatever old copy of
\* the kernel's news, a waiter leaves its place once and is woken or forgotten.
ImplementsEventWait == Wait!Spec
=============================================================================
