------------------------- MODULE AsyncSocketStream -------------------------
(***************************************************************************)
(* AsyncSocketStream (chat/streams/async_socket_stream.{h,cc}) under the   *)
(* HTTP/2 client (chat/http2/http2_socket_stream.cc, http2_connection.cc): *)
(* requests put a Ctx in m_ctxs and in the send queue and sleep; doWrite   *)
(* sends the queue, doRead wakes the fiber whose response arrived, a timer *)
(* wakes it when none does, and innerClose() wakes them all.  start() and  *)
(* the two loops share the permits of m_waitSem, and a lost connection is  *)
(* made again by a timer.                                                  *)
(*                                                                         *)
(* doRsp() is one step: its compare-and-swap decides, and what it reads    *)
(* afterwards could as well have been read with it.  reconnect(), a batch  *)
(* of doWrite and onTimeOut() are one step each.  Time is not modelled: an *)
(* armed timer may fire at any moment.  Left out: which error a request    *)
(* returns, and the control frames that doRecv() and the handshake put in  *)
(* the queue, where they are what another request is.                      *)
(***************************************************************************)
EXTENDS Integers, Sequences, FiniteSets

CONSTANTS
    Reqs,          \* the requests; each is made once, by a fiber of its own
    None,          \* no request
    Closed,        \* does somebody call close()?
    MaxConnects    \* bound: calls of reconnect()

ASSUME StreamAssumption ==
    /\ IsFiniteSet(Reqs)
    /\ None \notin Reqs
    /\ Reqs \cap {"reader", "writer", "start", "closer"} = {}
    /\ Closed \in BOOLEAN /\ MaxConnects \in Nat

Loops   == {"reader", "writer", "start", "closer"}
Threads == Loops \cup Reqs
Sns     == 1 .. Cardinality(Reqs)      \* HTTP/2 stream identifiers, 1 for 1, 2 for 3, ...

VARIABLES
    m_isConnected, sock,         \* the Socket's flag; what the kernel has
    m_autoConnect,
    m_sem, m_waitSem,            \* the permits of the two semaphores
    m_queue,                     \* the send queue
    m_ctxs, m_sn, m_streams,     \* contexts by identifier, last identifier, streams
    wire,                        \* requests the peer has got and not answered
    pc,
    taken,                       \* permits of m_waitSem start() holds
    hand, back,                  \* contexts to answer next, and where to go then
    sn, scheduler, timer,        \* the fields of each Ctx
    response,
    woken,                       \* history: how often doRsp scheduled each fiber
    connects                     \* calls of reconnect(), or how many fewer there may be

link  == <<m_isConnected, sock, m_autoConnect>>
sems  == <<m_sem, m_waitSem>>
table == <<m_ctxs, m_sn, m_streams>>
loop  == <<taken, hand, back>>
ctx   == <<sn, scheduler, timer, response, woken>>
vars  == <<m_isConnected, sock, m_autoConnect, m_sem, m_waitSem, m_queue, m_ctxs, m_sn,
           m_streams, wire, pc, taken, hand, back, sn, scheduler, timer,
           response, woken, connects>>

\* Where a thread can be.
Pcs == {"none", "wait", "blocked", "connect", "reset", "notify", "spawn", "retry", "timer", "armed",
        "loop", "recv", "answer", "close", "swap", "drop", "give", "sleep", "take", "clear",
        "switch", "idle", "opened", "added", "hold", "done"}

\* All identifiers have the type they are declared with.
TypeOK ==
    /\ m_isConnected \in BOOLEAN
    /\ sock \in {"none", "open", "lost"}
    /\ m_autoConnect \in BOOLEAN
    /\ m_sem \in Nat /\ m_waitSem \in Nat
    /\ m_queue \in Seq(Reqs)
    /\ m_ctxs \in [Sns -> Reqs \cup {None}]
    /\ m_sn \in {0} \cup Sns
    /\ m_streams \subseteq Sns
    /\ wire \subseteq (Sns \X Reqs)
    /\ pc \in [Threads -> Pcs]
    /\ taken \in 0 .. 2
    /\ hand \subseteq Reqs
    /\ back \in {"loop", "give"}
    /\ sn \in [Reqs -> {0} \cup Sns]
    /\ scheduler \in [Reqs -> BOOLEAN]
    /\ timer \in [Reqs -> {"none", "armed", "fired", "over"}]
    /\ response \in [Reqs -> Reqs \cup {None}]
    /\ woken \in [Reqs -> Nat]
    /\ connects \in 0 .. MaxConnects

\* connect() has succeeded and the user has called start().
Init ==
    /\ m_isConnected = TRUE /\ sock = "open"
    /\ m_autoConnect = TRUE
    /\ m_sem = 0 /\ m_waitSem = 2
    /\ m_queue = <<>>
    /\ m_ctxs = [s \in Sns |-> None] /\ m_sn = 0 /\ m_streams = {}
    /\ wire = {}
    /\ pc = [t \in Threads |-> CASE t = "start" -> "wait"
                                 [] t \in Reqs \cup {"closer"} -> "idle"
                                 [] OTHER -> "none"]
    /\ taken = 0 /\ hand = {} /\ back = "loop"
    /\ sn = [r \in Reqs |-> 0]
    /\ scheduler = [r \in Reqs |-> FALSE]
    /\ timer = [r \in Reqs |-> "none"]
    /\ response = [r \in Reqs |-> None]
    /\ woken = [r \in Reqs |-> 0]
    /\ connects \in 0 .. MaxConnects

Goto(t, label) == pc' = [pc EXCEPT ![t] = label]

-----------------------------------------------------------------------------
(* Shared parts.                                                           *)

\* m_sem.notify() by t, which goes on at label; only doWrite waits on m_sem.
NotifySem(t, label) ==
    IF pc["writer"] = "blocked"
    THEN /\ pc' = [pc EXCEPT ![t] = label, !["writer"] = "take"]
         /\ UNCHANGED m_sem
    ELSE /\ m_sem' = m_sem + 1
         /\ Goto(t, label)

\* m_waitSem.notify() by t; only start() waits on m_waitSem.
GiveWait(t, label) ==
    IF pc["start"] = "blocked"
    THEN /\ pc' = [pc EXCEPT ![t] = label, !["start"] = "wait"]
         /\ taken' = taken + 1
         /\ UNCHANGED m_waitSem
    ELSE /\ m_waitSem' = m_waitSem + 1
         /\ Goto(t, label)
         /\ UNCHANGED taken

\* The locked part of enqueue() by t: only who finds the queue empty will notify.
Push(t, item, label) ==
    /\ m_queue' = Append(m_queue, item)
    /\ Goto(t, IF m_queue = <<>> THEN "notify" ELSE label)

\* Mutant of DoRsp: the compare-and-swap is left out.
DoRspAlways(r) ==
    /\ timer' = [timer EXCEPT ![r] = IF @ = "armed" THEN "over" ELSE @]
    /\ woken' = [woken EXCEPT ![r] = @ + 1]
    /\ UNCHANGED scheduler

\* Ctx::doRsp(): who takes the scheduler out cancels the timer and wakes the fiber.
DoRsp(r) ==
    IF scheduler[r]
    THEN /\ scheduler' = [scheduler EXCEPT ![r] = FALSE]
         /\ timer' = [timer EXCEPT ![r] = IF @ = "armed" THEN "over" ELSE @]
         /\ woken' = [woken EXCEPT ![r] = @ + 1]
    ELSE UNCHANGED <<scheduler, timer, woken>>

-----------------------------------------------------------------------------
(* Http2SocketStream::request().                                           *)

\* newStream() under the test of isConnected().
Request(r) ==
    /\ pc[r] = "idle" /\ m_isConnected
    /\ m_sn' = m_sn + 1
    /\ sn' = [sn EXCEPT ![r] = m_sn + 1]
    /\ m_streams' = m_streams \cup {m_sn + 1}
    /\ Goto(r, "opened")
    /\ UNCHANGED <<link, sems, m_queue, m_ctxs, wire, loop, scheduler, timer, response,
                   woken, connects>>

RequestRefused(r) ==
    /\ pc[r] = "idle" /\ ~m_isConnected
    /\ Goto(r, "done")
    /\ UNCHANGED <<link, sems, m_queue, table, wire, loop, sn, scheduler, timer, response,
                   woken, connects>>

\* insert() leaves an entry with the same identifier alone.
AddCtx(r) ==
    /\ pc[r] = "opened"
    /\ scheduler' = [scheduler EXCEPT ![r] = TRUE]
    /\ m_ctxs' = [m_ctxs EXCEPT ![sn[r]] = IF @ = None THEN r ELSE @]
    /\ Goto(r, "added")
    /\ UNCHANGED <<link, sems, m_queue, m_sn, m_streams, wire, loop, sn, timer, response,
                   woken, connects>>

\* Mutant of Enqueue: no timer.
EnqueueUntimed(r) ==
    /\ pc[r] = "added"
    /\ Push(r, r, "hold")
    /\ UNCHANGED <<link, sems, table, wire, loop, ctx, connects>>

\* addTimer(), which a doRsp() that came before it could not cancel, and enqueue().
Enqueue(r) ==
    /\ pc[r] = "added"
    /\ timer' = [timer EXCEPT ![r] = "armed"]
    /\ Push(r, r, "hold")
    /\ UNCHANGED <<link, sems, table, wire, loop, sn, scheduler, response, woken, connects>>

EnqueueNotify(r) ==
    /\ pc[r] = "notify"
    /\ NotifySem(r, "hold")
    /\ UNCHANGED <<link, m_waitSem, m_queue, table, wire, loop, ctx, connects>>

\* The fiber is resumed and request() returns.
Return(r) ==
    /\ pc[r] = "hold"
    /\ woken[r] > 0
    /\ Goto(r, "done")
    /\ UNCHANGED <<link, sems, m_queue, table, wire, loop, ctx, connects>>

-----------------------------------------------------------------------------
(* The timer of a request: Http2SocketStream::onTimeOut().                 *)

Fire(r) ==
    /\ timer[r] = "armed"
    /\ timer' = [timer EXCEPT ![r] = "fired"]
    /\ UNCHANGED <<link, sems, m_queue, table, wire, pc, loop, sn, scheduler, response,
                   woken, connects>>

\* Whoever is in m_ctxs under this identifier is erased; then doRsp() and delStream().
OnTimeOut(r) ==
    /\ timer[r] = "fired"
    /\ m_ctxs' = [m_ctxs EXCEPT ![sn[r]] = None]
    /\ scheduler' = [scheduler EXCEPT ![r] = FALSE]
    /\ woken' = [woken EXCEPT ![r] = IF scheduler[r] THEN @ + 1 ELSE @]
    /\ timer' = [timer EXCEPT ![r] = "over"]
    /\ m_streams' = m_streams \ {sn[r]}
    /\ UNCHANGED <<link, sems, m_queue, m_sn, wire, pc, loop, sn, response, connects>>

-----------------------------------------------------------------------------
(* innerClose(), by doRead or by start(); it goes on at back.              *)

\* The socket is closed and doWrite notified.
CloseSocket(t) ==
    /\ pc[t] = "close"
    /\ m_isConnected' = FALSE /\ sock' = "none" /\ wire' = {}
    /\ NotifySem(t, "swap")
    /\ UNCHANGED <<m_autoConnect, m_waitSem, m_queue, table, loop, ctx, connects>>

\* m_ctxs is swapped out and m_queue cleared.
SwapCtxs(t) ==
    /\ pc[t] = "swap"
    /\ hand' = {m_ctxs[s] : s \in Sns} \ {None}
    /\ m_ctxs' = [s \in Sns |-> None]
    /\ m_queue' = <<>>
    /\ Goto(t, "drop")
    /\ UNCHANGED <<link, sems, m_sn, m_streams, wire, taken, back, ctx, connects>>

DropCtx(t) ==
    /\ pc[t] = "drop"
    /\ \E r \in hand :
          /\ DoRsp(r)
          /\ hand' = hand \ {r}
    /\ UNCHANGED <<link, sems, m_queue, table, wire, pc, taken, back, sn, response,
                   connects>>

CloseDone(t) ==
    /\ pc[t] = "drop"
    /\ hand = {}
    /\ Goto(t, back)
    /\ UNCHANGED <<link, sems, m_queue, table, wire, loop, ctx, connects>>

InnerClose(t) ==
    \/ CloseSocket(t) \/ SwapCtxs(t) \/ DropCtx(t) \/ CloseDone(t)

-----------------------------------------------------------------------------
(* doRead() and Http2SocketStream::doRecv().                               *)

\* isConnected() is tested; a closed connection ends the loop.  In "recv" the
\* fiber sleeps in the hooked recv().
ReadLoop ==
    /\ pc["reader"] = "loop"
    /\ Goto("reader", IF m_isConnected THEN "recv" ELSE "close")
    /\ back' = IF m_isConnected THEN back ELSE "give"
    /\ UNCHANGED <<link, sems, m_queue, table, wire, taken, hand, ctx, connects>>

\* The last frame of a stream: onStreamClose() takes the context out.  A stream or a
\* context that is gone means that the request has timed out.
RecvResponse ==
    /\ pc["reader"] = "recv" /\ sock # "none"
    /\ \E msg \in wire :
          LET s == msg[1]
              r == m_ctxs[s]
          IN /\ wire' = wire \ {msg}
             /\ m_streams' = m_streams \ {s}
             /\ IF s \in m_streams /\ r # None
                THEN /\ m_ctxs' = [m_ctxs EXCEPT ![s] = None]
                     /\ response' = [response EXCEPT ![r] = msg[2]]
                     /\ hand' = {r}
                     /\ Goto("reader", "answer")
                ELSE /\ Goto("reader", "loop")
                     /\ UNCHANGED <<m_ctxs, response, hand>>
    /\ UNCHANGED <<link, sems, m_queue, m_sn, taken, back, sn, scheduler, timer,
                   woken, connects>>

\* ctx->doRsp() for the context doRecv() returned.
Answer ==
    /\ pc["reader"] = "answer"
    /\ \E r \in hand :
          /\ DoRsp(r)
          /\ hand' = {}
    /\ Goto("reader", "loop")
    /\ UNCHANGED <<link, sems, m_queue, table, wire, taken, back, sn, response, connects>>

\* parseFrom() returns null: the peer has gone.
RecvFail ==
    /\ pc["reader"] = "recv" /\ sock = "lost"
    /\ Goto("reader", "close")
    /\ back' = "loop"
    /\ UNCHANGED <<link, sems, m_queue, table, wire, taken, hand, ctx, connects>>

ReadGive ==
    /\ pc["reader"] = "give"
    /\ GiveWait("reader", "retry")
    /\ UNCHANGED <<link, m_sem, m_queue, table, wire, hand, back, ctx, connects>>

\* The timer of 10 ms that starts again is not kept in m_timer.
ReadRetry ==
    /\ pc["reader"] = "retry"
    /\ pc' = [pc EXCEPT !["reader"] = "none", !["start"] = IF m_autoConnect THEN "timer" ELSE @]
    /\ UNCHANGED <<link, sems, m_queue, table, wire, loop, ctx, connects>>

Reader ==
    \/ ReadLoop \/ RecvResponse \/ Answer \/ RecvFail
    \/ ReadGive \/ ReadRetry \/ InnerClose("reader")

-----------------------------------------------------------------------------
(* doWrite().                                                              *)

WriteLoop ==
    /\ pc["writer"] = "loop"
    /\ Goto("writer", IF m_isConnected THEN "sleep" ELSE "clear")
    /\ UNCHANGED <<link, sems, m_queue, table, wire, loop, ctx, connects>>

WriteWait ==
    /\ pc["writer"] = "sleep"
    /\ IF m_sem > 0
       THEN m_sem' = m_sem - 1 /\ Goto("writer", "take")
       ELSE Goto("writer", "blocked") /\ UNCHANGED m_sem
    /\ UNCHANGED <<link, m_waitSem, m_queue, table, wire, loop, ctx, connects>>

\* Mutant of WriteTake: one item is taken for each permit.
WriteTakeOne ==
    /\ pc["writer"] = "take"
    /\ wire' = wire \cup {<<sn[c], c>> : c \in {m_queue[i] : i \in {j \in DOMAIN m_queue :
                   j = 1 /\ m_isConnected /\ sock = "open" /\ sn[m_queue[j]] \in m_streams}}}
    /\ m_queue' = IF m_queue = <<>> THEN m_queue ELSE Tail(m_queue)
    /\ Goto("writer", "loop")
    /\ UNCHANGED <<link, sems, table, loop, ctx, connects>>

\* The queue is swapped out and sent; doSend() of a request fails when its stream is gone
\* or the socket is.
WriteTake ==
    /\ pc["writer"] = "take"
    /\ wire' = wire \cup {<<sn[c], c>> : c \in {m_queue[i] : i \in {j \in DOMAIN m_queue :
                   m_isConnected /\ sock = "open" /\ sn[m_queue[j]] \in m_streams}}}
    /\ m_queue' = <<>>
    /\ Goto("writer", "loop")
    /\ UNCHANGED <<link, sems, table, loop, ctx, connects>>

WriteClear ==
    /\ pc["writer"] = "clear"
    /\ m_queue' = <<>>
    /\ Goto("writer", "give")
    /\ UNCHANGED <<link, sems, table, wire, loop, ctx, connects>>

WriteGive ==
    /\ pc["writer"] = "give"
    /\ GiveWait("writer", "none")
    /\ UNCHANGED <<link, m_sem, m_queue, table, wire, hand, back, ctx, connects>>

Writer == WriteLoop \/ WriteWait \/ WriteTake \/ WriteClear \/ WriteGive

-----------------------------------------------------------------------------
(* start().                                                                *)

\* One of the two timers runs out: m_timer or the one doRead started.
StartFire ==
    /\ pc["start"] \in {"armed", "timer"}
    /\ Goto("start", "wait")
    /\ UNCHANGED <<link, sems, m_queue, table, wire, loop, ctx, connects>>

\* waitFiber().  m_timer, if it is set, has fired.
StartWait ==
    /\ pc["start"] = "wait"
    /\ IF taken = 2
       THEN Goto("start", "connect") /\ UNCHANGED <<m_waitSem, taken>>
       ELSE IF m_waitSem > 0
            THEN m_waitSem' = m_waitSem - 1 /\ taken' = taken + 1 /\ UNCHANGED pc
            ELSE Goto("start", "blocked") /\ UNCHANGED <<m_waitSem, taken>>
    /\ UNCHANGED <<link, m_sem, m_queue, table, wire, hand, back, ctx, connects>>

StartReconnect ==
    /\ pc["start"] = "connect" /\ ~m_isConnected
    /\ connects < MaxConnects
    /\ connects' = connects + 1
    /\ \/ /\ m_isConnected' = TRUE /\ sock' = "open" /\ wire' = {}
          /\ Goto("start", "reset")
          /\ UNCHANGED back
       \/ /\ Goto("start", "close")
          /\ back' = "give"
          /\ UNCHANGED <<m_isConnected, sock, wire>>
    /\ UNCHANGED <<m_autoConnect, sems, m_queue, table, taken, hand, ctx>>

\* m_connectCb: Http2Connection::reset() and handleShakeClient().  The streams are closed
\* and stay in the table; the preface goes out or does not.
StartReset ==
    /\ pc["start"] = "reset" \/ (pc["start"] = "connect" /\ m_isConnected)
    /\ m_sn' = 0
    /\ \/ m_isConnected /\ Goto("start", "spawn") /\ UNCHANGED back
       \/ /\ ~m_isConnected \/ sock = "lost"
          /\ Goto("start", "close") /\ back' = "give"
    /\ UNCHANGED <<link, sems, m_queue, m_ctxs, m_streams, wire, taken, hand, ctx, connects>>

\* startRead() and startWrite(): the loops take over the two permits.
StartSpawn ==
    /\ pc["start"] = "spawn"
    /\ pc' = [pc EXCEPT !["start"] = "none", !["reader"] = "loop", !["writer"] = "loop"]
    /\ taken' = 0
    /\ UNCHANGED <<link, sems, m_queue, table, wire, hand, back, ctx, connects>>

\* The two m_waitSem.notify() after a failure.
StartGive ==
    /\ pc["start"] = "give"
    /\ IF taken > 0
       THEN m_waitSem' = m_waitSem + 1 /\ taken' = taken - 1 /\ UNCHANGED pc
       ELSE Goto("start", "retry") /\ UNCHANGED <<m_waitSem, taken>>
    /\ UNCHANGED <<link, m_sem, m_queue, table, wire, hand, back, ctx, connects>>

\* Mutant of StartRetry: no timer.
StartRetryNot ==
    /\ pc["start"] = "retry"
    /\ Goto("start", "none")
    /\ UNCHANGED <<link, sems, m_queue, table, wire, loop, ctx, connects>>

\* In "armed" m_timer is set and the timer is armed.
StartRetry ==
    /\ pc["start"] = "retry"
    /\ Goto("start", IF m_autoConnect THEN "armed" ELSE "none")
    /\ UNCHANGED <<link, sems, m_queue, table, wire, loop, ctx, connects>>

Start ==
    \/ StartFire \/ StartWait \/ StartReconnect \/ StartReset \/ StartSpawn \/ StartGive
    \/ StartRetry \/ InnerClose("start")

-----------------------------------------------------------------------------
(* close(), called once by another fiber, and the peer.                    *)

CloseBegin ==
    /\ Closed /\ pc["closer"] = "idle"
    /\ m_autoConnect' = FALSE
    /\ Goto("closer", "switch")
    /\ UNCHANGED <<m_isConnected, sock, sems, m_queue, table, wire, loop, ctx, connects>>

\* On m_iomanager: m_timer is cancelled if it is armed, and the socket closed.  With the
\* hooks on, a fiber asleep in recv() is not woken.
CloseShut ==
    /\ pc["closer"] = "switch"
    /\ pc' = [pc EXCEPT !["closer"] = "done", !["start"] = IF @ = "armed" THEN "none" ELSE @]
    /\ m_isConnected' = FALSE /\ sock' = "none" /\ wire' = {}
    /\ UNCHANGED <<m_autoConnect, sems, m_queue, table, loop, ctx, connects>>

PeerGone ==
    /\ sock = "open"
    /\ sock' = "lost"
    /\ UNCHANGED <<m_isConnected, m_autoConnect, sems, m_queue, table, wire, pc, loop, ctx, connects>>

-----------------------------------------------------------------------------
Next ==
    \/ \E r \in Reqs :
          \/ Request(r) \/ RequestRefused(r) \/ AddCtx(r) \/ Enqueue(r) \/ EnqueueNotify(r) \/ Return(r)
          \/ Fire(r) \/ OnTimeOut(r)
    \/ Reader \/ Writer \/ Start
    \/ CloseBegin \/ CloseShut \/ PeerGone

\* A request that has begun goes on and its timer runs out, the loops and start() are
\* fibers of a scheduler that runs them, and the kernel reports a lost connection.  The
\* peer need not answer, and nobody need call request() or close().
Fairness ==
    /\ \A r \in Reqs :
          /\ WF_vars(AddCtx(r) \/ Enqueue(r) \/ EnqueueNotify(r) \/ Return(r))
          /\ WF_vars(Fire(r) \/ OnTimeOut(r))
    /\ WF_vars(ReadLoop \/ Answer \/ RecvFail \/ ReadGive \/ ReadRetry \/ InnerClose("reader"))
    /\ WF_vars(Writer)
    /\ WF_vars(Start)
    /\ WF_vars(CloseShut)

Spec == Init /\ [][Next]_vars /\ Fairness

-----------------------------------------------------------------------------
(* Properties.                                                             *)

\* doRsp(): a response, a timeout and a lost connection race for one sleeping fiber: doRsp
\* schedules it at most once, and a fiber whose scheduler was taken was scheduled.
WokenOnce ==
    \A r \in Reqs :
       /\ woken[r] <= 1
       /\ pc[r] \in {"added", "notify", "hold"} => (scheduler[r] <=> woken[r] = 0)

\* enqueue() notifies only when it finds the queue empty: whatever is in the queue, a
\* permit, a notify() on its way or a doWrite about to swap will get it out.
NoLostSend ==
    m_queue # <<>> =>
       \/ m_sem > 0
       \/ \E t \in Threads : pc[t] = "notify"
       \/ pc["writer"] = "take"

\* The two permits of m_waitSem are free, with start(), or with a running loop each: no
\* loop of an old connection runs when start() goes on, whatever ended the connection.
WaitSemExact ==
    LET held(t) == IF pc[t] \in {"none", "retry"} THEN 0 ELSE 1
    IN /\ m_waitSem + taken + held("reader") + held("writer") = 2
       /\ pc["start"] \in {"connect", "reset", "spawn", "close", "swap", "drop", "give"} =>
             held("reader") = 0 /\ held("writer") = 0

\* request() returns: by the response, by innerClose() or by its timer.
RequestReturns == \A r \in Reqs : pc[r] = "opened" ~> pc[r] = "done"

\* A lost connection is made again unless close() is called.
LostIsRetried ==
    sock = "lost" ~> (pc["start"] = "connect" /\ ~m_isConnected) \/ ~m_autoConnect
=============================================================================
