------------------------------ MODULE HookIO ------------------------------
(***************************************************************************)
(* The hooked system calls of chat/hook.cc and the descriptor contexts of  *)
(* chat/fd_manager.{h,cc}: do_io (read, write, accept, ...) and            *)
(* connect_with_timeout turn a call that would block into a timer, a       *)
(* registration with IOManager and a yield.  IOManager is used through     *)
(* what it promises, EventWait; a timer's callback runs on any worker at   *)
(* any time after it is due, and its steps interleave with the call's.     *)
(***************************************************************************)
EXTENDS Integers, FiniteSets, FiniteSetsExt

CONSTANTS
    Fds,        \* the descriptor numbers
    Fibers,     \* the fibers that make calls
    None,       \* no FdCtx, no waiter
    MaxCalls,   \* bound: the calls made
    MaxCloses,  \* bound: the descriptors closed
    MaxOps      \* bound: option changes and cancellations by users, and readiness
                \* that goes away before the fiber runs

ASSUME HookAssumption ==
    /\ None \notin Fibers
    /\ Fds # {}
    /\ {MaxCalls, MaxCloses, MaxOps} \subseteq Nat

Events == {"READ", "WRITE"}
Slots == Fds \X Events

VARIABLES
    fdctx,      \* FdManager::m_datas
    file,       \* what the kernel has behind each number
    slot, fate, \* the registrations (EventWait)
    watched,    \* epoll's interest list, per descriptor and event
    ready,      \* the places where a call would not block
    call,       \* the call each fiber is in, or the result of its last one
    timers,     \* the timers and callbacks of the calls
    aborted,    \* a CHAT_ASSERT of addEvent has ended the process
    closes, ops

IOM == INSTANCE EventWait WITH Waiters <- Fibers

kernel == <<file, watched, ready>>
vars == <<fdctx, file, slot, fate, watched, ready, call, timers, aborted, closes, ops>>

\* FdCtx: m_isSocket, m_userNonblock and the two timeouts (set or -1).
\* m_sysNonblock is never read and m_isClosed never set.
FdCtx == [socket : BOOLEAN, user : BOOLEAN, timed : SUBSET Events]

\* A file: gen tells the users of a number apart; how says which path opened it
\* (fresh: the hook has the number from the kernel and FdManager does not know it
\* yet; then hooked, or stale if an FdCtx was left by the last user; or outside
\* of the hooks); cleared, that a user asked for a blocking descriptor; link is
\* the state of a connection.
File == [open : BOOLEAN, gen : Nat, how : {"fresh", "hooked", "stale", "outside"},
         nonblock : BOOLEAN, cleared : BOOLEAN, link : {"none", "pending", "up", "refused"}]

\* A call: n numbers a fiber's calls, so that a callback can tell whether the
\* timer_info it was made for still exists; gen is the file the caller meant, on
\* the file a blocked thread sleeps on, and missed that the callback of its timer
\* found no registration to cancel.
Call == [pc : {"idle", "try", "arm", "add", "hold", "check", "blocked"},
         kind : {"io", "connect"}, fd : Fds, ev : Events, gen : Nat, on : Nat, raw : BOOLEAN,
         timed : BOOLEAN, n : Nat, cancelled : BOOLEAN, missed : BOOLEAN,
         res : {"none", "ok", "EAGAIN", "EBADF", "ETIMEDOUT", "error"}]

\* armed: in TimerManager; due: taken by listExpiredCb; firing: the callback
\* has set cancelled and is about to call cancelEvent.
Timer == [f : Fibers, n : Nat, fd : Fds, ev : Events, at : {"armed", "due", "firing"}]

TypeOK ==
    /\ fdctx \in [Fds -> FdCtx \union {None}]
    /\ file \in [Fds -> File]
    /\ slot \in [Slots -> Fibers \union {None}]
    /\ fate \in [Fibers -> {"new", "waiting", "woken"}]
    /\ watched \subseteq Slots
    /\ ready \subseteq Slots
    /\ call \in [Fibers -> Call]
    /\ timers \subseteq Timer
    /\ aborted \in BOOLEAN
    /\ closes \in 0 .. MaxCloses
    /\ ops \in 0 .. MaxOps

Init ==
    /\ fdctx = [fd \in Fds |-> None]
    /\ file = [fd \in Fds |-> [open |-> FALSE, gen |-> 0, how |-> "hooked", nonblock |-> FALSE,
                               cleared |-> FALSE, link |-> "none"]]
    /\ IOM!Init
    /\ watched = {}
    /\ ready = {}
    /\ call = [f \in Fibers |->
                  [pc |-> "idle", kind |-> "io", fd |-> CHOOSE fd \in Fds : TRUE, ev |-> "READ",
                   gen |-> 0, on |-> 0, raw |-> FALSE, timed |-> FALSE, n |-> 0, cancelled |-> FALSE,
                   missed |-> FALSE, res |-> "none"]]
    /\ timers = {}
    /\ aborted = FALSE
    /\ closes = 0
    /\ ops = 0

-----------------------------------------------------------------------------
(* FdManager and the calls that only touch a descriptor's context.         *)

\* FdCtx::FdCtx and init on a socket: no timeouts, and the file made O_NONBLOCK.
NewFdCtx == [socket |-> TRUE, user |-> FALSE, timed |-> {}]

\* The kernel gives out a number, for a blocking socket.
NewFile(fd, how) ==
    /\ ~file[fd].open
    /\ file' = [file EXCEPT ![fd] = [open |-> TRUE, gen |-> @.gen + 1, how |-> how, nonblock |-> FALSE,
                                     cleared |-> FALSE, link |-> "none"]]
    /\ UNCHANGED <<fdctx, slot, fate, watched, ready, call, timers, aborted, closes, ops>>

\* socket() and accept() with the hooks enabled, up to the return of the system
\* call: the number is in use, and blocking.
Socket(fd) == NewFile(fd, "fresh")

\* socket() on a thread without hooks: FdManager is not told.
SocketOutside(fd) == NewFile(fd, "outside")

\* Mutant of Open: FdCtx::init leaves the descriptor as it is.
OpenBlocking(fd) ==
    /\ file[fd].open /\ file[fd].how = "fresh"
    /\ file' = [file EXCEPT ![fd].how = "hooked"]
    /\ fdctx' = [fdctx EXCEPT ![fd] = NewFdCtx]
    /\ UNCHANGED <<slot, fate, watched, ready, call, timers, aborted, closes, ops>>

\* The rest of socket() and accept(), FdManager::get(fd, true): an entry that is
\* still there is returned as it is, and the new socket stays blocking.
Open(fd) ==
    /\ file[fd].open /\ file[fd].how = "fresh"
    /\ file' = [file EXCEPT ![fd].nonblock = fdctx[fd] = None,
                            ![fd].how = IF fdctx[fd] = None THEN "hooked" ELSE "stale"]
    /\ fdctx' = [fdctx EXCEPT ![fd] = IF @ = None THEN NewFdCtx ELSE @]
    /\ UNCHANGED <<slot, fate, watched, ready, call, timers, aborted, closes, ops>>

\* Users have the number of an open file once socket() or accept() returned it.
InUse(fd) == file[fd].open /\ file[fd].how # "fresh"

\* The waiters cancelEvent or cancelAll on these places schedules: none when
\* epoll_ctl fails because the kernel no longer watches the descriptor.
Cancelled(S) ==
    LET hit == {s \in S : slot[s] # None} IN IF hit \subseteq watched THEN hit ELSE {}

Schedule(hit) == IF hit = {} THEN UNCHANGED <<slot, fate>> ELSE IOM!Wake(hit)

OfFd(fd) == {s \in Slots : s[1] = fd}

\* close(): a worker (hooks enabled) closes the file and nothing else; the
\* thread that owns a use_caller IOManager and has not entered run() also cancels
\* the events and deletes the FdCtx; any other thread only deletes the FdCtx.
Close(fd, who) ==
    /\ InUse(fd)
    /\ closes < MaxCloses
    /\ closes' = closes + 1
    /\ Schedule(IF who = "caller" /\ fdctx[fd] # None THEN Cancelled(OfFd(fd)) ELSE {})
    /\ fdctx' = IF who = "worker" THEN fdctx ELSE [fdctx EXCEPT ![fd] = None]
    /\ file' = [file EXCEPT ![fd].open = FALSE, ![fd].link = "none"]
    /\ watched' = watched \ OfFd(fd)
    /\ ready' = ready \ OfFd(fd)
    /\ UNCHANGED <<call, timers, aborted, ops>>

Operation == ops < MaxOps /\ ops' = ops + 1

\* fcntl(F_SETFL) and ioctl(FIONBIO): getSysNonblock returns m_userNonblock, so
\* the kernel's flag follows the user's wish in both.
SetNonblock(fd, user) ==
    /\ InUse(fd)
    /\ Operation
    /\ fdctx' = [fdctx EXCEPT ![fd] = IF @ = None THEN None ELSE [@ EXCEPT !.user = user]]
    /\ file' = [file EXCEPT ![fd].nonblock = user, ![fd].cleared = @ \/ ~user]
    /\ UNCHANGED <<slot, fate, watched, ready, call, timers, aborted, closes>>

\* setsockopt(SO_RCVTIMEO / SO_SNDTIMEO) with a finite time.
SetTimeout(fd, ev) ==
    /\ InUse(fd)
    /\ fdctx[fd] # None /\ ev \notin fdctx[fd].timed
    /\ Operation
    /\ fdctx' = [fdctx EXCEPT ![fd].timed = @ \union {ev}]
    /\ UNCHANGED <<file, slot, fate, watched, ready, call, timers, aborted, closes>>

-----------------------------------------------------------------------------
(* The calls.                                                              *)

Goto(f, pc) == call' = [call EXCEPT ![f].pc = pc]
\* The call is over: its timer_info and its locals are gone.
Return(f, res) ==
    call' = [call EXCEPT ![f].pc = "idle", ![f].res = res, ![f].gen = 0, ![f].on = 0, ![f].raw = FALSE,
                         ![f].timed = FALSE, ![f].cancelled = FALSE,
                         ![f].missed = FALSE]
At(f) == <<call[f].fd, call[f].ev>>

\* timer->cancel(): a callback that listExpiredCb has already taken still runs.
Disarmed(f) == timers \ {t \in timers : t.f = f /\ t.at = "armed"}

\* The first half of do_io and connect_with_timeout: find the FdCtx and decide
\* whether the call is hooked.  The user's obligation is not to make two calls
\* at a time that wait for the same event of a file it opened.
Start(f, kind, fd, ev, timed) ==
    /\ call[f].pc = "idle"
    /\ MapThenSumSet(LAMBDA g : call[g].n, Fibers) < MaxCalls
    /\ InUse(fd)
    /\ \A g \in Fibers : ~(/\ call[g].pc # "idle" /\ At(g) = <<fd, ev>>
                           /\ call[g].gen = file[fd].gen)
    /\ kind = "connect" => ev = "WRITE"
    /\ kind = "io" => timed = (fdctx[fd] # None /\ ev \in fdctx[fd].timed)
    /\ call' = [call EXCEPT ![f] =
                   [pc |-> IF kind = "connect" /\ fdctx[fd] = None THEN "idle" ELSE "try",
                    kind |-> kind, fd |-> fd, ev |-> ev, gen |-> file[fd].gen, on |-> 0,
                    raw |-> fdctx[fd] = None \/ fdctx[fd].user,
                    timed |-> timed, n |-> @.n + 1, cancelled |-> FALSE,
                    missed |-> FALSE, res |-> IF kind = "connect" /\ fdctx[fd] = None THEN "EBADF" ELSE "none"]]
    /\ UNCHANGED <<fdctx, file, slot, fate, watched, ready, timers, aborted, closes, ops>>

\* What the kernel does with a call that cannot go on: EAGAIN or EINPROGRESS on a
\* non-blocking descriptor, otherwise the thread sleeps in the kernel.
WouldBlock(f) ==
    IF ~file[call[f].fd].nonblock
    THEN call' = [call EXCEPT ![f].pc = "blocked", ![f].on = file[call[f].fd].gen]
    ELSE IF call[f].raw THEN Return(f, "EAGAIN")
    ELSE Goto(f, IF call[f].timed THEN "arm" ELSE "add")

\* fun(fd, ...) of do_io, EINTR included: it succeeds, and uses up what was
\* ready or not, or fails on a closed descriptor.
TryIO(f) ==
    /\ call[f].pc = "try" /\ call[f].kind = "io"
    /\ \/ At(f) \in ready /\ Return(f, "ok") /\ ready' \in {ready, ready \ {At(f)}}
       \/ At(f) \notin ready /\ UNCHANGED ready
          /\ IF file[call[f].fd].open THEN WouldBlock(f) ELSE Return(f, "EBADF")
    /\ UNCHANGED <<fdctx, file, slot, fate, watched, timers, aborted, closes, ops>>

\* connect_f: done at once, refused at once or in progress; a second connect on
\* the same file fails.
TryConnect(f) ==
    LET fd == call[f].fd IN
    /\ call[f].pc = "try" /\ call[f].kind = "connect"
    /\ \/ /\ file[fd].open /\ file[fd].link = "none"
          /\ \E link \in {"up", "refused", "pending"} :
                /\ file' = [file EXCEPT ![fd].link = link]
                /\ CASE link = "up"      -> Return(f, "ok")
                     [] link = "refused" -> Return(f, "error")
                     [] link = "pending" -> WouldBlock(f)
          /\ ready' = ready \ OfFd(fd)
       \/ /\ ~file[fd].open \/ file[fd].link # "none"
          /\ Return(f, "error")
          /\ UNCHANGED <<file, ready>>
    /\ UNCHANGED <<fdctx, slot, fate, watched, timers, aborted, closes, ops>>

\* A thread that sleeps in the kernel goes on when its file lets it.
Unblock(f) ==
    /\ call[f].pc = "blocked"
    /\ call[f].on = file[call[f].fd].gen
    /\ At(f) \in ready
    /\ IF call[f].kind = "io" THEN Goto(f, "try")
       ELSE Return(f, IF file[call[f].fd].link = "up" THEN "ok" ELSE "error")
    /\ UNCHANGED <<fdctx, kernel, slot, fate, timers, aborted, closes, ops>>

\* addConditionTimer, if there is a timeout, before the event is registered.
Arm(f) ==
    /\ call[f].pc = "arm"
    /\ timers' = timers \union {[f |-> f, n |-> call[f].n, fd |-> call[f].fd,
                                  ev |-> call[f].ev, at |-> "armed"]}
    /\ Goto(f, "add")
    /\ UNCHANGED <<fdctx, kernel, slot, fate, aborted, closes, ops>>

\* EPOLL_CTL_ADD wants an open file that is not watched, EPOLL_CTL_MOD one that is.
CtlWorks(fd) ==
    IF \A s \in OfFd(fd) : slot[s] = None THEN file[fd].open
    ELSE \E s \in OfFd(fd) : s \in watched

\* Mutant of Add: the fiber does not yield.
AddGoesOn(f) ==
    /\ call[f].pc = "add"
    /\ IF slot[At(f)] # None
       THEN aborted' = TRUE /\ UNCHANGED <<slot, fate, watched, call>>
       ELSE /\ IOM!Register(At(f), f)
            /\ watched' = watched \union {At(f)}
            /\ Goto(f, "try")
            /\ UNCHANGED aborted
    /\ UNCHANGED <<fdctx, file, ready, timers, closes, ops>>

\* addEvent: the assertion fails on an event that is registered; when epoll_ctl
\* fails do_io gives up, and connect goes on to ask the socket for its error.
Add(f) ==
    /\ call[f].pc = "add"
    /\ \/ /\ slot[At(f)] # None
          /\ aborted' = TRUE
          /\ UNCHANGED <<slot, fate, watched, timers, call>>
       \/ /\ slot[At(f)] = None /\ CtlWorks(call[f].fd)
          /\ IOM!Register(At(f), f)
          /\ watched' = watched \union {At(f)}
          /\ Goto(f, "hold")
          /\ UNCHANGED <<timers, aborted>>
       \/ /\ slot[At(f)] = None /\ ~CtlWorks(call[f].fd)
          /\ IF call[f].kind = "io" THEN Return(f, "error") ELSE Goto(f, "check")
          /\ timers' = Disarmed(f)
          /\ UNCHANGED <<slot, fate, watched, aborted>>
    /\ UNCHANGED <<fdctx, file, ready, closes, ops>>

\* Mutant of Resume: the timer is left armed.
ResumeArmed(f) ==
    /\ call[f].pc = "hold"
    /\ IOM!Resume(f)
    /\ IF call[f].cancelled THEN Return(f, "ETIMEDOUT")
       ELSE Goto(f, IF call[f].kind = "io" THEN "try" ELSE "check")
    /\ UNCHANGED <<fdctx, kernel, timers, aborted, closes, ops>>

\* After YieldToHold: whoever woke the fiber, it cancels its timer and believes
\* tinfo->cancelled; do_io tries again, with a new timer for the next wait.
Resume(f) ==
    /\ call[f].pc = "hold"
    /\ IOM!Resume(f)
    /\ timers' = Disarmed(f)
    /\ IF call[f].cancelled THEN Return(f, "ETIMEDOUT")
       ELSE Goto(f, IF call[f].kind = "io" THEN "try" ELSE "check")
    /\ UNCHANGED <<fdctx, kernel, aborted, closes, ops>>

\* Mutant of Check: SO_ERROR is not asked for.
CheckNothing(f) ==
    /\ call[f].pc = "check"
    /\ Return(f, "ok")
    /\ UNCHANGED <<fdctx, kernel, slot, fate, timers, aborted, closes, ops>>

\* getsockopt(SO_ERROR): no error also means "not connected yet".
Check(f) ==
    /\ call[f].pc = "check"
    /\ Return(f, IF file[call[f].fd].open /\ file[call[f].fd].link # "refused" THEN "ok" ELSE "error")
    /\ UNCHANGED <<fdctx, kernel, slot, fate, timers, aborted, closes, ops>>

-----------------------------------------------------------------------------
(* The timers' callbacks, IOManager's workers, users and peers.            *)

\* listExpiredCb takes the timer out of TimerManager.
Due(t) ==
    /\ t \in timers /\ t.at = "armed"
    /\ timers' = (timers \ {t}) \union {[t EXCEPT !.at = "due"]}
    /\ UNCHANGED <<fdctx, kernel, slot, fate, call, aborted, closes, ops>>

\* The timer_info of the call the timer was made for, if it still exists.
Alive(t) == call[t.f].n = t.n /\ call[t.f].pc # "idle"

\* The callback up to t->cancelled = ETIMEDOUT.
Fire(t) ==
    /\ t \in timers /\ t.at = "due"
    /\ IF Alive(t) /\ ~call[t.f].cancelled
       THEN /\ call' = [call EXCEPT ![t.f].cancelled = TRUE]
            /\ timers' = (timers \ {t}) \union {[t EXCEPT !.at = "firing"]}
       ELSE timers' = timers \ {t} /\ UNCHANGED call
    /\ UNCHANGED <<fdctx, kernel, slot, fate, aborted, closes, ops>>

\* Mutant of FireCancel: the callback does not cancel the event.
FireNoCancel(t) ==
    /\ t \in timers /\ t.at = "firing"
    /\ timers' = timers \ {t}
    /\ UNCHANGED <<fdctx, kernel, slot, fate, call, aborted, closes, ops>>

\* The rest of it: cancelEvent(fd, event), whoever waits there by now.
FireCancel(t) ==
    /\ t \in timers /\ t.at = "firing"
    /\ timers' = timers \ {t}
    /\ Schedule(Cancelled({<<t.fd, t.ev>>}))
    /\ watched' = watched \ Cancelled({<<t.fd, t.ev>>})
    /\ call' = IF Alive(t) /\ slot[<<t.fd, t.ev>>] # t.f
               THEN [call EXCEPT ![t.f].missed = TRUE] ELSE call
    /\ UNCHANGED <<fdctx, file, ready, aborted, closes, ops>>

\* idle() delivers an event that is ready.
Deliver(s) ==
    /\ s \in watched \intersect ready
    /\ IOM!Wake({s})
    /\ watched' = watched \ {s}
    /\ UNCHANGED <<fdctx, file, ready, call, timers, aborted, closes, ops>>

\* Socket::cancelRead, cancelWrite, cancelAccept and cancelAll.
UserCancel(S) ==
    /\ Operation
    /\ Cancelled(S) # {}
    /\ Schedule(Cancelled(S))
    /\ watched' = watched \ Cancelled(S)
    /\ UNCHANGED <<fdctx, file, ready, call, timers, aborted, closes>>

\* The peer: data or room for data, which another reader of the same file may
\* take; the end of a connection attempt makes the socket writable.
Arrive(s) ==
    /\ file[s[1]].open /\ file[s[1]].link # "pending"
    /\ s \notin ready
    /\ ready' = ready \union {s}
    /\ UNCHANGED <<fdctx, file, slot, fate, watched, call, timers, aborted, closes, ops>>

Drain(s) ==
    /\ Operation
    /\ s \in ready
    /\ ready' = ready \ {s}
    /\ UNCHANGED <<fdctx, file, slot, fate, watched, call, timers, aborted, closes>>

Connected(fd, link) ==
    /\ file[fd].open /\ file[fd].link = "pending"
    /\ file' = [file EXCEPT ![fd].link = link]
    /\ ready' = ready \union {<<fd, "WRITE">>}
    /\ UNCHANGED <<fdctx, slot, fate, watched, call, timers, aborted, closes, ops>>

Runs(f) ==
    TryIO(f) \/ TryConnect(f) \/ Unblock(f) \/ Arm(f) \/ Add(f) \/ Resume(f) \/ Check(f)

Timing(t) == Due(t) \/ Fire(t) \/ FireCancel(t)

Next ==
    /\ ~aborted
    /\ \/ \E f \in Fibers : Runs(f)
       \/ \E f \in Fibers, kind \in {"io", "connect"}, fd \in Fds, ev \in Events, timed \in BOOLEAN :
             Start(f, kind, fd, ev, timed)
       \/ \E t \in timers : Timing(t)
       \/ \E s \in Slots : Deliver(s) \/ UserCancel({s}) \/ Arrive(s) \/ Drain(s)
       \/ \E fd \in Fds :
             \/ Socket(fd) \/ Open(fd) \/ SocketOutside(fd) \/ UserCancel(OfFd(fd))
             \/ \E who \in {"worker", "caller", "main"} : Close(fd, who)
             \/ \E user \in BOOLEAN : SetNonblock(fd, user)
             \/ \E ev \in Events : SetTimeout(fd, ev)
             \/ \E link \in {"up", "refused"} : Connected(fd, link)

\* A fiber that can run is run, timers come due and their callbacks are run; one
\* of them per fiber is all that is needed.  Nothing is promised about peers and
\* users.
Proceeds(f) == ~aborted /\ (Runs(f) \/ \E t \in timers : t.f = f /\ Timing(t))

Spec == Init /\ [][Next]_vars /\ \A f \in Fibers : WF_vars(Proceeds(f))

-----------------------------------------------------------------------------
\* addEvent's assertion that an event is not registered twice (iomanager.cc
\* 115) fails only where a descriptor was closed under a call and its number was
\* given out again; users who wait for one event at a time meet it in no other
\* order of calls, timeouts and cancellations.
AbortsOnlyOnReuse ==
    aborted => \E f \in Fibers : call[f].pc # "idle" /\ call[f].gen # file[call[f].fd].gen

\* A worker thread is never put to sleep in the kernel by a hooked call, unless
\* the user asked for a blocking descriptor, the socket was made outside of the
\* hooks, its number was used before and FdManager still had the old FdCtx, or the
\* call was made on an earlier file of that number and reached the new socket
\* before FdManager made it non-blocking.
NeverSleepsInKernel ==
    \A f \in Fibers :
        call[f].pc = "blocked" /\ call[f].on = file[call[f].fd].gen =>
            \/ file[call[f].fd].how \in {"stale", "outside"} \/ file[call[f].fd].cleared
            \/ call[f].gen # file[call[f].fd].gen

\* A wait owns what it set up: an armed timer belongs to the current call of its
\* fiber, about to wait or waiting, and only a fiber that waits is registered, at
\* the place of its call.  So no timer of a call that is over can still come due;
\* a callback that was taken before, and is past its test of the timer_info, may
\* still cancel a later wait at the same place.
WaitOwnsItsTimer ==
    /\ \A t \in timers : t.at = "armed" => /\ call[t.f].n = t.n
                                           /\ call[t.f].pc \in {"add", "hold"}
    /\ \A s \in Slots : slot[s] # None => call[slot[s]].pc = "hold" /\ At(slot[s]) = s

\* connect() returns 0 only on a connection that is up, as long as no descriptor
\* was closed and nobody else cancelled the wait: whoever wakes the fiber is
\* believed, and SO_ERROR is 0 while the attempt goes on.
ConnectedIsUp ==
    \A f \in Fibers :
        (/\ call[f].kind = "connect" /\ call[f].res = "ok" /\ call[f].pc = "idle"
         /\ closes = 0 /\ ops = 0) => file[call[f].fd].link = "up"

\* A call with a timeout returns, whatever the peer does, unless its timer,
\* which is started before addEvent, fired before it too, its descriptor was
\* closed, or the thread sleeps in the kernel.
TimedCallReturns ==
    \A f \in Fibers :
        (call[f].pc # "idle" /\ call[f].timed)
            ~> (\/ call[f].pc \in {"idle", "blocked"} \/ aborted \/ call[f].missed
                \/ call[f].gen # file[call[f].fd].gen \/ ~file[call[f].fd].open)
=============================================================================
