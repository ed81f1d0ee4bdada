---------------------- MODULE AsyncSocketStreamProofs ----------------------
(***************************************************************************)
(* Theorems about AsyncSocketStream for any set of requests.               *)
(*                                                                         *)
(* WInv adds to WokenOnce that a request which has not yet added its       *)
(* context has not been woken, and that only a context with a scheduler    *)
(* can be.  SInv adds to WaitSemExact that start() sleeps for good while   *)
(* doRead runs, and how many permits it has at each of its steps.          *)
(***************************************************************************)
EXTENDS AsyncSocketStream, FiniteSetTheorems, TLAPS

\* The permits a loop has.
Held(t) == IF pc[t] \in {"none", "retry"} THEN 0 ELSE 1

\* What the proofs use of the types.
Shape ==
    /\ pc \in [Threads -> Pcs]
    /\ back \in {"loop", "give"}
    /\ m_sem \in Nat
    /\ m_queue \in Seq(Reqs)
    /\ scheduler \in [Reqs -> BOOLEAN]
    /\ woken \in [Reqs -> Nat]

\* Only requests notify between unlock and notify(): the loops' labels.
Labels ==
    /\ pc["reader"] \in {"none", "loop", "recv", "answer", "close", "swap", "drop", "give", "retry"}
    /\ pc["writer"] \in {"none", "loop", "sleep", "blocked", "take", "clear", "give"}
    /\ pc["start"] \in {"none", "timer", "armed", "wait", "blocked", "connect", "reset", "spawn", "close",
                        "swap", "drop", "give", "retry"}

WInv ==
    \A r \in Reqs :
       /\ woken[r] <= 1
       /\ scheduler[r] => woken[r] = 0
       /\ pc[r] \in {"idle", "opened"} => ~scheduler[r] /\ woken[r] = 0
       /\ pc[r] \in {"added", "notify", "hold"} => (scheduler[r] <=> woken[r] = 0)

SInv ==
    /\ m_waitSem \in Nat /\ taken \in Nat
    /\ m_waitSem + taken + Held("reader") + Held("writer") = 2
    /\ pc["reader"] # "none" => pc["start"] = "none"
    /\ pc["start"] \in {"none", "timer", "armed", "retry"} => taken = 0
    /\ pc["start"] \in {"connect", "reset", "spawn", "close", "swap", "drop"} => taken = 2
    /\ pc["start"] \in {"close", "swap", "drop"} => back = "give"
    /\ pc["start"] = "give" => Held("reader") = 0 /\ Held("writer") = 0

-----------------------------------------------------------------------------
\* The names of the loops are no requests, and they are threads.
LEMMA NamesDiffer ==
    /\ "reader" \in Threads /\ "writer" \in Threads /\ "start" \in Threads /\ "closer" \in Threads
    /\ Reqs \subseteq Threads
    /\ \A r \in Reqs : r # "reader" /\ r # "writer" /\ r # "start" /\ r # "closer"
BY StreamAssumption DEF Threads, Loops

\* doRsp() keeps the types of what it changes.
LEMMA RspShape ==
    ASSUME scheduler \in [Reqs -> BOOLEAN], woken \in [Reqs -> Nat], NEW r, DoRsp(r)
    PROVE  scheduler' \in [Reqs -> BOOLEAN] /\ woken' \in [Reqs -> Nat]
<1>1. CASE scheduler[r]
  <2>1. scheduler' \in [Reqs -> BOOLEAN]
    BY <1>1 DEF DoRsp
  <2>2. woken' = [woken EXCEPT ![r] = woken[r] + 1]
    BY <1>1 DEF DoRsp
  <2>3. woken' \in [Reqs -> Nat]
    <3>1. ASSUME NEW x \in Reqs PROVE woken'[x] \in Nat
      <4>1. woken[x] \in Nat
        OBVIOUS
      <4>2. woken'[x] = IF x = r THEN woken[x] + 1 ELSE woken[x]
        BY <2>2
      <4>. QED
        BY <4>1, <4>2
    <3>2. woken' = [x \in Reqs |-> woken'[x]]
      BY <2>2
    <3>. QED
      BY <3>1, <3>2
  <2>. QED
    BY <2>1, <2>3
<1>2. CASE ~scheduler[r]
  BY <1>2 DEF DoRsp
<1>. QED
  BY <1>1, <1>2

\* The shape holds initially, with the labels.
LEMMA ShapeInit == Init => Shape /\ Labels
BY NamesDiffer, StreamAssumption DEF Init, Shape, Labels, Pcs, Threads, Loops, Sns

\* Every step keeps the shape.
LEMMA ShapeStep == Shape /\ [Next]_vars => Shape'
<1>. DEFINE Goal == Shape'
<1>. SUFFICES ASSUME Shape, [Next]_vars PROVE Goal
  OBVIOUS
<1>. USE NamesDiffer
<1>1. ASSUME NEW r \in Reqs, Request(r) PROVE Goal
  BY <1>1 DEF Request, Goto, link, sems, table, loop, ctx, Shape, Pcs
<1>2. ASSUME NEW r \in Reqs, RequestRefused(r) PROVE Goal
  BY <1>2 DEF RequestRefused, Goto, link, sems, table, loop, ctx, Shape, Pcs
<1>3. ASSUME NEW r \in Reqs, AddCtx(r) PROVE Goal
  BY <1>3 DEF AddCtx, Goto, link, sems, table, loop, ctx, Shape, Pcs
<1>4. ASSUME NEW r \in Reqs, Enqueue(r) PROVE Goal
  BY <1>4 DEF Enqueue, Push, Goto, link, sems, table, loop, ctx, Shape, Pcs
<1>5. ASSUME NEW r \in Reqs, EnqueueNotify(r) PROVE Goal
  <2>1. (pc \in [Threads -> Pcs] /\ back \in {"loop", "give"})'
    BY <1>5 DEF EnqueueNotify, Goto, NotifySem, Pcs, link, sems, table, loop, ctx, Shape
  <2>2. (m_sem \in Nat)'
    BY <1>5 DEF EnqueueNotify, NotifySem, Goto, link, sems, table, loop, ctx, Shape
  <2>3. (m_queue \in Seq(Reqs))'
    BY <1>5 DEF EnqueueNotify, link, sems, table, loop, ctx, Shape
  <2>4. (scheduler \in [Reqs -> BOOLEAN])'
    BY <1>5 DEF EnqueueNotify, link, sems, table, loop, ctx, Shape
  <2>5. (woken \in [Reqs -> Nat])'
    BY <1>5 DEF EnqueueNotify, link, sems, table, loop, ctx, Shape
  <2>. QED
    BY <2>1, <2>2, <2>3, <2>4, <2>5 DEF Shape
<1>6. ASSUME NEW r \in Reqs, Return(r) PROVE Goal
  BY <1>6 DEF Return, Goto, link, sems, table, loop, ctx, Shape, Pcs
<1>7. ASSUME NEW r \in Reqs, Fire(r) PROVE Goal
  BY <1>7 DEF Fire, link, sems, table, loop, ctx, Shape, Pcs
<1>8. ASSUME NEW r \in Reqs, OnTimeOut(r) PROVE Goal
  <2>1. (pc \in [Threads -> Pcs] /\ back \in {"loop", "give"})'
    BY <1>8 DEF OnTimeOut, Pcs, link, sems, table, loop, ctx, Shape
  <2>2. (m_sem \in Nat)'
    BY <1>8 DEF OnTimeOut, link, sems, table, loop, ctx, Shape
  <2>3. (m_queue \in Seq(Reqs))'
    BY <1>8 DEF OnTimeOut, link, sems, table, loop, ctx, Shape
  <2>4. (scheduler \in [Reqs -> BOOLEAN])'
    BY <1>8 DEF OnTimeOut, link, sems, table, loop, ctx, Shape
  <2>5. (woken \in [Reqs -> Nat])'
    BY <1>8 DEF OnTimeOut, link, sems, table, loop, ctx, Shape
  <2>. QED
    BY <2>1, <2>2, <2>3, <2>4, <2>5 DEF Shape
<1>9. ASSUME NEW t \in {"reader", "start"}, CloseSocket(t) PROVE Goal
  <2>1. (pc \in [Threads -> Pcs] /\ back \in {"loop", "give"})'
    BY <1>9 DEF CloseSocket, NotifySem, Goto, Pcs, loop, Shape
  <2>2. (m_sem \in Nat)'
    BY <1>9 DEF CloseSocket, NotifySem, Shape
  <2>3. (m_queue \in Seq(Reqs))'
    BY <1>9 DEF CloseSocket, Shape
  <2>4. (scheduler \in [Reqs -> BOOLEAN])'
    BY <1>9 DEF CloseSocket, ctx, Shape
  <2>5. (woken \in [Reqs -> Nat])'
    BY <1>9 DEF CloseSocket, ctx, Shape
  <2>. QED
    BY <2>1, <2>2, <2>3, <2>4, <2>5 DEF Shape
<1>10. ASSUME NEW t \in {"reader", "start"}, SwapCtxs(t) PROVE Goal
  BY <1>10 DEF SwapCtxs, Goto, link, sems, table, loop, ctx, Shape, Pcs
<1>11. ASSUME NEW t \in {"reader", "start"}, DropCtx(t) PROVE Goal
  <2>1. PICK r \in hand : DoRsp(r)
    BY <1>11 DEF DropCtx
  <2>2. (scheduler \in [Reqs -> BOOLEAN] /\ woken \in [Reqs -> Nat])'
    BY <2>1, RspShape DEF Shape
  <2>3. (pc \in [Threads -> Pcs])' /\ back' = back /\ m_sem' = m_sem /\ m_queue' = m_queue
    BY <1>11 DEF DropCtx, Goto, link, sems, table, loop, ctx, Shape, Pcs
  <2>. QED
    BY <2>2, <2>3 DEF Shape
<1>12. ASSUME NEW t \in {"reader", "start"}, CloseDone(t) PROVE Goal
  BY <1>12 DEF CloseDone, Goto, link, sems, table, loop, ctx, Shape, Pcs
<1>13. CASE ReadLoop
  BY <1>13 DEF ReadLoop, Goto, link, sems, table, loop, ctx, Shape, Pcs
<1>14. CASE RecvResponse
  <2>1. (pc \in [Threads -> Pcs] /\ back \in {"loop", "give"})'
    BY <1>14 DEF RecvResponse, Goto, Pcs, link, sems, table, loop, ctx, Shape
  <2>2. (m_sem \in Nat)'
    BY <1>14 DEF RecvResponse, Goto, link, sems, table, loop, ctx, Shape
  <2>3. (m_queue \in Seq(Reqs))'
    BY <1>14 DEF RecvResponse, link, sems, table, loop, ctx, Shape
  <2>4. (scheduler \in [Reqs -> BOOLEAN])'
    BY <1>14 DEF RecvResponse, link, sems, table, loop, ctx, Shape
  <2>5. (woken \in [Reqs -> Nat])'
    BY <1>14 DEF RecvResponse, link, sems, table, loop, ctx, Shape
  <2>. QED
    BY <2>1, <2>2, <2>3, <2>4, <2>5 DEF Shape
<1>15. CASE Answer
  <2>1. PICK r \in hand : DoRsp(r)
    BY <1>15 DEF Answer
  <2>2. (scheduler \in [Reqs -> BOOLEAN] /\ woken \in [Reqs -> Nat])'
    BY <2>1, RspShape DEF Shape
  <2>3. (pc \in [Threads -> Pcs])' /\ back' = back /\ m_sem' = m_sem /\ m_queue' = m_queue
    BY <1>15 DEF Answer, Goto, link, sems, table, loop, ctx, Shape, Pcs
  <2>. QED
    BY <2>2, <2>3 DEF Shape
<1>16. CASE RecvFail
  BY <1>16 DEF RecvFail, Goto, link, sems, table, loop, ctx, Shape, Pcs
<1>17. CASE ReadGive
  BY <1>17 DEF ReadGive, GiveWait, Goto, link, sems, table, loop, ctx, Shape, Pcs
<1>18. CASE ReadRetry
  BY <1>18 DEF ReadRetry, link, sems, table, loop, ctx, Shape, Pcs
<1>19. CASE WriteLoop
  BY <1>19 DEF WriteLoop, Goto, link, sems, table, loop, ctx, Shape, Pcs
<1>20. CASE WriteWait
  <2>1. (pc \in [Threads -> Pcs] /\ back \in {"loop", "give"})'
    BY <1>20 DEF WriteWait, Goto, Pcs, link, sems, table, loop, ctx, Shape
  <2>2. (m_sem \in Nat)'
    BY <1>20 DEF WriteWait, Goto, link, sems, table, loop, ctx, Shape
  <2>3. (m_queue \in Seq(Reqs))'
    BY <1>20 DEF WriteWait, link, sems, table, loop, ctx, Shape
  <2>4. (scheduler \in [Reqs -> BOOLEAN])'
    BY <1>20 DEF WriteWait, link, sems, table, loop, ctx, Shape
  <2>5. (woken \in [Reqs -> Nat])'
    BY <1>20 DEF WriteWait, link, sems, table, loop, ctx, Shape
  <2>. QED
    BY <2>1, <2>2, <2>3, <2>4, <2>5 DEF Shape
<1>21. CASE WriteTake
  BY <1>21 DEF WriteTake, Goto, link, sems, table, loop, ctx, Shape, Pcs
<1>22. CASE WriteClear
  BY <1>22 DEF WriteClear, Goto, link, sems, table, loop, ctx, Shape, Pcs
<1>23. CASE WriteGive
  BY <1>23 DEF WriteGive, GiveWait, Goto, link, sems, table, loop, ctx, Shape, Pcs
<1>24. CASE StartFire
  BY <1>24 DEF StartFire, Goto, link, sems, table, loop, ctx, Shape, Pcs
<1>25. CASE StartWait
  BY <1>25 DEF StartWait, Goto, link, sems, table, loop, ctx, Shape, Pcs
<1>26. CASE StartReconnect
  BY <1>26 DEF StartReconnect, Goto, link, sems, table, loop, ctx, Shape, Pcs
<1>27. CASE StartReset
  BY <1>27 DEF StartReset, Goto, link, sems, table, loop, ctx, Shape, Pcs
<1>28. CASE StartSpawn
  BY <1>28 DEF StartSpawn, link, sems, table, loop, ctx, Shape, Pcs
<1>29. CASE StartGive
  BY <1>29 DEF StartGive, Goto, link, sems, table, loop, ctx, Shape, Pcs
<1>30. CASE StartRetry
  BY <1>30 DEF StartRetry, Goto, link, sems, table, loop, ctx, Shape, Pcs
<1>31. CASE CloseBegin
  BY <1>31 DEF CloseBegin, Goto, link, sems, table, loop, ctx, Shape, Pcs
<1>32. CASE CloseShut
  BY <1>32 DEF CloseShut, link, sems, table, loop, ctx, Shape, Pcs
<1>33. CASE PeerGone
  BY <1>33 DEF PeerGone, link, sems, table, loop, ctx, Shape, Pcs
<1>34. CASE UNCHANGED vars
  BY <1>34 DEF vars, Shape, Pcs
<1>. QED
  BY <1>1, <1>2, <1>3, <1>4, <1>5, <1>6, <1>7, <1>8, <1>9, <1>10, <1>11, <1>12, <1>13, <1>14, <1>15, <1>16, <1>17, <1>18, <1>19, <1>20, <1>21, <1>22, <1>23, <1>24, <1>25, <1>26, <1>27, <1>28, <1>29, <1>30, <1>31, <1>32, <1>33, <1>34 DEF Next, Reader, Writer, Start, InnerClose

\* Every step keeps the loops at their labels.
LEMMA LabelStep == Shape /\ Labels /\ SInv /\ [Next]_vars => Labels'
<1>. DEFINE Goal == Labels'
<1>. SUFFICES ASSUME Shape, Labels, SInv, [Next]_vars PROVE Goal
  OBVIOUS
<1>. USE NamesDiffer
<1>1. ASSUME NEW r \in Reqs, Request(r) PROVE Goal
  BY <1>1 DEF Request, Goto, link, sems, table, loop, ctx, Shape, Labels, SInv
<1>2. ASSUME NEW r \in Reqs, RequestRefused(r) PROVE Goal
  BY <1>2 DEF RequestRefused, Goto, link, sems, table, loop, ctx, Shape, Labels, SInv
<1>3. ASSUME NEW r \in Reqs, AddCtx(r) PROVE Goal
  BY <1>3 DEF AddCtx, Goto, link, sems, table, loop, ctx, Shape, Labels, SInv
<1>4. ASSUME NEW r \in Reqs, Enqueue(r) PROVE Goal
  BY <1>4 DEF Enqueue, Push, Goto, link, sems, table, loop, ctx, Shape, Labels, SInv
<1>5. ASSUME NEW r \in Reqs, EnqueueNotify(r) PROVE Goal
  BY <1>5 DEF EnqueueNotify, NotifySem, Goto, link, sems, table, loop, ctx, Shape, Labels, SInv
<1>6. ASSUME NEW r \in Reqs, Return(r) PROVE Goal
  BY <1>6 DEF Return, Goto, link, sems, table, loop, ctx, Shape, Labels, SInv
<1>7. ASSUME NEW r \in Reqs, Fire(r) PROVE Goal
  BY <1>7 DEF Fire, link, sems, table, loop, ctx, Shape, Labels, SInv
<1>8. ASSUME NEW r \in Reqs, OnTimeOut(r) PROVE Goal
  BY <1>8 DEF OnTimeOut, link, sems, table, loop, ctx, Shape, Labels, SInv
<1>9. ASSUME NEW t \in {"reader", "start"}, CloseSocket(t) PROVE Goal
  BY <1>9 DEF CloseSocket, NotifySem, Goto, link, sems, table, loop, ctx, Shape, Labels, SInv
<1>10. ASSUME NEW t \in {"reader", "start"}, SwapCtxs(t) PROVE Goal
  BY <1>10 DEF SwapCtxs, Goto, link, sems, table, loop, ctx, Shape, Labels, SInv
<1>11. ASSUME NEW t \in {"reader", "start"}, DropCtx(t) PROVE Goal
  BY <1>11 DEF DropCtx, DoRsp, link, sems, table, loop, ctx, Shape, Labels, SInv
<1>12. ASSUME NEW t \in {"reader", "start"}, CloseDone(t) PROVE Goal
  BY <1>12 DEF CloseDone, Goto, link, sems, table, loop, ctx, Shape, Labels, SInv
<1>13. CASE ReadLoop
  BY <1>13 DEF ReadLoop, Goto, link, sems, table, loop, ctx, Shape, Labels, SInv
<1>14. CASE RecvResponse
  BY <1>14 DEF RecvResponse, Goto, link, sems, table, loop, ctx, Shape, Labels, SInv
<1>15. CASE Answer
  BY <1>15 DEF Answer, DoRsp, Goto, link, sems, table, loop, ctx, Shape, Labels, SInv
<1>16. CASE RecvFail
  BY <1>16 DEF RecvFail, Goto, link, sems, table, loop, ctx, Shape, Labels, SInv
<1>17. CASE ReadGive
  BY <1>17 DEF ReadGive, GiveWait, Goto, link, sems, table, loop, ctx, Shape, Labels, SInv
<1>18. CASE ReadRetry
  BY <1>18 DEF ReadRetry, link, sems, table, loop, ctx, Shape, Labels, SInv
<1>19. CASE WriteLoop
  BY <1>19 DEF WriteLoop, Goto, link, sems, table, loop, ctx, Shape, Labels, SInv
<1>20. CASE WriteWait
  BY <1>20 DEF WriteWait, Goto, link, sems, table, loop, ctx, Shape, Labels, SInv
<1>21. CASE WriteTake
  BY <1>21 DEF WriteTake, Goto, link, sems, table, loop, ctx, Shape, Labels, SInv
<1>22. CASE WriteClear
  BY <1>22 DEF WriteClear, Goto, link, sems, table, loop, ctx, Shape, Labels, SInv
<1>23. CASE WriteGive
  BY <1>23 DEF WriteGive, GiveWait, Goto, link, sems, table, loop, ctx, Shape, Labels, SInv
<1>24. CASE StartFire
  BY <1>24 DEF StartFire, Goto, link, sems, table, loop, ctx, Shape, Labels, SInv
<1>25. CASE StartWait
  BY <1>25 DEF StartWait, Goto, link, sems, table, loop, ctx, Shape, Labels, SInv
<1>26. CASE StartReconnect
  BY <1>26 DEF StartReconnect, Goto, link, sems, table, loop, ctx, Shape, Labels, SInv
<1>27. CASE StartReset
  BY <1>27 DEF StartReset, Goto, link, sems, table, loop, ctx, Shape, Labels, SInv
<1>28. CASE StartSpawn
  BY <1>28 DEF StartSpawn, link, sems, table, loop, ctx, Shape, Labels, SInv
<1>29. CASE StartGive
  BY <1>29 DEF StartGive, Goto, link, sems, table, loop, ctx, Shape, Labels, SInv
<1>30. CASE StartRetry
  BY <1>30 DEF StartRetry, Goto, link, sems, table, loop, ctx, Shape, Labels, SInv
<1>31. CASE CloseBegin
  BY <1>31 DEF CloseBegin, Goto, link, sems, table, loop, ctx, Shape, Labels, SInv
<1>32. CASE CloseShut
  BY <1>32 DEF CloseShut, link, sems, table, loop, ctx, Shape, Labels, SInv
<1>33. CASE PeerGone
  BY <1>33 DEF PeerGone, link, sems, table, loop, ctx, Shape, Labels, SInv
<1>34. CASE UNCHANGED vars
  BY <1>34 DEF vars, Shape, Labels, SInv
<1>. QED
  BY <1>1, <1>2, <1>3, <1>4, <1>5, <1>6, <1>7, <1>8, <1>9, <1>10, <1>11, <1>12, <1>13, <1>14, <1>15, <1>16, <1>17, <1>18, <1>19, <1>20, <1>21, <1>22, <1>23, <1>24, <1>25, <1>26, <1>27, <1>28, <1>29, <1>30, <1>31, <1>32, <1>33, <1>34 DEF Next, Reader, Writer, Start, InnerClose

\* Every step keeps the bookkeeping of the woken fibers.
LEMMA WokenStep == Shape /\ Labels /\ WInv /\ [Next]_vars => WInv'
<1>. DEFINE Goal == WInv'
<1>. SUFFICES ASSUME Shape, Labels, WInv, [Next]_vars PROVE Goal
  OBVIOUS
<1>. USE NamesDiffer
<1>1. ASSUME NEW r \in Reqs, Request(r) PROVE Goal
  BY <1>1 DEF Request, Goto, link, sems, table, loop, ctx, Shape, WInv
<1>2. ASSUME NEW r \in Reqs, RequestRefused(r) PROVE Goal
  BY <1>2 DEF RequestRefused, Goto, link, sems, table, loop, ctx, Shape, WInv
<1>3. ASSUME NEW r \in Reqs, AddCtx(r) PROVE Goal
  BY <1>3 DEF AddCtx, Goto, link, sems, table, loop, ctx, Shape, WInv
<1>4. ASSUME NEW r \in Reqs, Enqueue(r) PROVE Goal
  BY <1>4 DEF Enqueue, Push, Goto, link, sems, table, loop, ctx, Shape, WInv
<1>5. ASSUME NEW r \in Reqs, EnqueueNotify(r) PROVE Goal
  BY <1>5 DEF EnqueueNotify, NotifySem, Goto, link, sems, table, loop, ctx, Shape, WInv
<1>6. ASSUME NEW r \in Reqs, Return(r) PROVE Goal
  BY <1>6 DEF Return, Goto, link, sems, table, loop, ctx, Shape, WInv
<1>7. ASSUME NEW r \in Reqs, Fire(r) PROVE Goal
  BY <1>7 DEF Fire, link, sems, table, loop, ctx, Shape, WInv
<1>8. ASSUME NEW r \in Reqs, OnTimeOut(r) PROVE Goal
  BY <1>8 DEF OnTimeOut, link, sems, table, loop, ctx, Shape, WInv
<1>9. ASSUME NEW t \in {"reader", "start"}, CloseSocket(t) PROVE Goal
  BY <1>9 DEF CloseSocket, NotifySem, Goto, link, sems, table, loop, ctx, Shape, WInv
<1>10. ASSUME NEW t \in {"reader", "start"}, SwapCtxs(t) PROVE Goal
  BY <1>10 DEF SwapCtxs, Goto, link, sems, table, loop, ctx, Shape, WInv
<1>11. ASSUME NEW t \in {"reader", "start"}, DropCtx(t) PROVE Goal
  BY <1>11 DEF DropCtx, DoRsp, link, sems, table, loop, ctx, Shape, WInv
<1>12. ASSUME NEW t \in {"reader", "start"}, CloseDone(t) PROVE Goal
  BY <1>12 DEF CloseDone, Goto, link, sems, table, loop, ctx, Shape, WInv
<1>13. CASE ReadLoop
  BY <1>13 DEF ReadLoop, Goto, link, sems, table, loop, ctx, Shape, WInv
<1>14. CASE RecvResponse
  <2>1. UNCHANGED <<scheduler, woken>>
    BY <1>14 DEF RecvResponse
  <2>2. \A r \in Reqs : pc'[r] = pc[r]
    BY <1>14, NamesDiffer DEF RecvResponse, Goto, Shape
  <2>. QED
    BY <2>1, <2>2 DEF WInv
<1>15. CASE Answer
  <2>1. PICK q : DoRsp(q)
    BY <1>15 DEF Answer
  <2>2. \A r \in Reqs : pc'[r] = pc[r]
    BY <1>15, NamesDiffer DEF Answer, Goto, Shape
  <2>3. CASE scheduler[q]
    BY <2>1, <2>2, <2>3 DEF DoRsp, Shape, WInv
  <2>4. CASE ~scheduler[q]
    BY <2>1, <2>2, <2>4 DEF DoRsp, WInv
  <2>. QED
    BY <2>3, <2>4
<1>16. CASE RecvFail
  BY <1>16 DEF RecvFail, Goto, link, sems, table, loop, ctx, Shape, WInv
<1>17. CASE ReadGive
  BY <1>17 DEF ReadGive, GiveWait, Goto, link, sems, table, loop, ctx, Shape, WInv
<1>18. CASE ReadRetry
  BY <1>18 DEF ReadRetry, link, sems, table, loop, ctx, Shape, WInv
<1>19. CASE WriteLoop
  BY <1>19 DEF WriteLoop, Goto, link, sems, table, loop, ctx, Shape, WInv
<1>20. CASE WriteWait
  BY <1>20 DEF WriteWait, Goto, link, sems, table, loop, ctx, Shape, WInv
<1>21. CASE WriteTake
  BY <1>21 DEF WriteTake, Goto, link, sems, table, loop, ctx, Shape, WInv
<1>22. CASE WriteClear
  BY <1>22 DEF WriteClear, Goto, link, sems, table, loop, ctx, Shape, WInv
<1>23. CASE WriteGive
  BY <1>23 DEF WriteGive, GiveWait, Goto, link, sems, table, loop, ctx, Shape, WInv
<1>24. CASE StartFire
  BY <1>24 DEF StartFire, Goto, link, sems, table, loop, ctx, Shape, WInv
<1>25. CASE StartWait
  BY <1>25 DEF StartWait, Goto, link, sems, table, loop, ctx, Shape, WInv
<1>26. CASE StartReconnect
  BY <1>26 DEF StartReconnect, Goto, link, sems, table, loop, ctx, Shape, WInv
<1>27. CASE StartReset
  BY <1>27 DEF StartReset, Goto, link, sems, table, loop, ctx, Shape, WInv
<1>28. CASE StartSpawn
  BY <1>28 DEF StartSpawn, link, sems, table, loop, ctx, Shape, WInv
<1>29. CASE StartGive
  BY <1>29 DEF StartGive, Goto, link, sems, table, loop, ctx, Shape, WInv
<1>30. CASE StartRetry
  BY <1>30 DEF StartRetry, Goto, link, sems, table, loop, ctx, Shape, WInv
<1>31. CASE CloseBegin
  BY <1>31 DEF CloseBegin, Goto, link, sems, table, loop, ctx, Shape, WInv
<1>32. CASE CloseShut
  BY <1>32 DEF CloseShut, link, sems, table, loop, ctx, Shape, WInv
<1>33. CASE PeerGone
  BY <1>33 DEF PeerGone, link, sems, table, loop, ctx, Shape, WInv
<1>34. CASE UNCHANGED vars
  BY <1>34 DEF vars, Shape, WInv
<1>. QED
  BY <1>1, <1>2, <1>3, <1>4, <1>5, <1>6, <1>7, <1>8, <1>9, <1>10, <1>11, <1>12, <1>13, <1>14, <1>15, <1>16, <1>17, <1>18, <1>19, <1>20, <1>21, <1>22, <1>23, <1>24, <1>25, <1>26, <1>27, <1>28, <1>29, <1>30, <1>31, <1>32, <1>33, <1>34 DEF Next, Reader, Writer, Start, InnerClose

\* Every step keeps the permits of m_waitSem.
LEMMA WaitStep == Shape /\ Labels /\ SInv /\ [Next]_vars => SInv'
<1>. DEFINE Goal == SInv'
<1>. SUFFICES ASSUME Shape, Labels, SInv, [Next]_vars PROVE Goal
  OBVIOUS
<1>. USE NamesDiffer
<1>1. ASSUME NEW r \in Reqs, Request(r) PROVE Goal
  BY <1>1 DEF Request, Goto, link, sems, table, loop, ctx, Shape, Labels, SInv, Held
<1>2. ASSUME NEW r \in Reqs, RequestRefused(r) PROVE Goal
  BY <1>2 DEF RequestRefused, Goto, link, sems, table, loop, ctx, Shape, Labels, SInv, Held
<1>3. ASSUME NEW r \in Reqs, AddCtx(r) PROVE Goal
  BY <1>3 DEF AddCtx, Goto, link, sems, table, loop, ctx, Shape, Labels, SInv, Held
<1>4. ASSUME NEW r \in Reqs, Enqueue(r) PROVE Goal
  BY <1>4 DEF Enqueue, Push, Goto, link, sems, table, loop, ctx, Shape, Labels, SInv, Held
<1>5. ASSUME NEW r \in Reqs, EnqueueNotify(r) PROVE Goal
  BY <1>5 DEF EnqueueNotify, NotifySem, Goto, link, sems, table, loop, ctx, Shape, Labels, SInv, Held
<1>6. ASSUME NEW r \in Reqs, Return(r) PROVE Goal
  BY <1>6 DEF Return, Goto, link, sems, table, loop, ctx, Shape, Labels, SInv, Held
<1>7. ASSUME NEW r \in Reqs, Fire(r) PROVE Goal
  BY <1>7 DEF Fire, link, sems, table, loop, ctx, Shape, Labels, SInv, Held
<1>8. ASSUME NEW r \in Reqs, OnTimeOut(r) PROVE Goal
  BY <1>8 DEF OnTimeOut, link, sems, table, loop, ctx, Shape, Labels, SInv, Held
<1>9. ASSUME NEW t \in {"reader", "start"}, CloseSocket(t) PROVE Goal
  BY <1>9 DEF CloseSocket, NotifySem, Goto, link, sems, table, loop, ctx, Shape, Labels, SInv, Held
<1>10. ASSUME NEW t \in {"reader", "start"}, SwapCtxs(t) PROVE Goal
  BY <1>10 DEF SwapCtxs, Goto, link, sems, table, loop, ctx, Shape, Labels, SInv, Held
<1>11. ASSUME NEW t \in {"reader", "start"}, DropCtx(t) PROVE Goal
  BY <1>11 DEF DropCtx, DoRsp, link, sems, table, loop, ctx, Shape, Labels, SInv, Held
<1>12. ASSUME NEW t \in {"reader", "start"}, CloseDone(t) PROVE Goal
  BY <1>12 DEF CloseDone, Goto, link, sems, table, loop, ctx, Shape, Labels, SInv, Held
<1>13. CASE ReadLoop
  BY <1>13 DEF ReadLoop, Goto, link, sems, table, loop, ctx, Shape, Labels, SInv, Held
<1>14. CASE RecvResponse
  BY <1>14 DEF RecvResponse, Goto, link, sems, table, loop, ctx, Shape, Labels, SInv, Held
<1>15. CASE Answer
  BY <1>15 DEF Answer, DoRsp, Goto, link, sems, table, loop, ctx, Shape, Labels, SInv, Held
<1>16. CASE RecvFail
  BY <1>16 DEF RecvFail, Goto, link, sems, table, loop, ctx, Shape, Labels, SInv, Held
<1>17. CASE ReadGive
  BY <1>17 DEF ReadGive, GiveWait, Goto, link, sems, table, loop, ctx, Shape, Labels, SInv, Held
<1>18. CASE ReadRetry
  BY <1>18 DEF ReadRetry, link, sems, table, loop, ctx, Shape, Labels, SInv, Held
<1>19. CASE WriteLoop
  BY <1>19 DEF WriteLoop, Goto, link, sems, table, loop, ctx, Shape, Labels, SInv, Held
<1>20. CASE WriteWait
  BY <1>20 DEF WriteWait, Goto, link, sems, table, loop, ctx, Shape, Labels, SInv, Held
<1>21. CASE WriteTake
  BY <1>21 DEF WriteTake, Goto, link, sems, table, loop, ctx, Shape, Labels, SInv, Held
<1>22. CASE WriteClear
  BY <1>22 DEF WriteClear, Goto, link, sems, table, loop, ctx, Shape, Labels, SInv, Held
<1>23. CASE WriteGive
  BY <1>23 DEF WriteGive, GiveWait, Goto, link, sems, table, loop, ctx, Shape, Labels, SInv, Held
<1>24. CASE StartFire
  BY <1>24 DEF StartFire, Goto, link, sems, table, loop, ctx, Shape, Labels, SInv, Held
<1>25. CASE StartWait
  BY <1>25 DEF StartWait, Goto, link, sems, table, loop, ctx, Shape, Labels, SInv, Held
<1>26. CASE StartReconnect
  BY <1>26 DEF StartReconnect, Goto, link, sems, table, loop, ctx, Shape, Labels, SInv, Held
<1>27. CASE StartReset
  BY <1>27 DEF StartReset, Goto, link, sems, table, loop, ctx, Shape, Labels, SInv, Held
<1>28. CASE StartSpawn
  BY <1>28 DEF StartSpawn, link, sems, table, loop, ctx, Shape, Labels, SInv, Held
<1>29. CASE StartGive
  BY <1>29 DEF StartGive, Goto, link, sems, table, loop, ctx, Shape, Labels, SInv, Held
<1>30. CASE StartRetry
  BY <1>30 DEF StartRetry, Goto, link, sems, table, loop, ctx, Shape, Labels, SInv, Held
<1>31. CASE CloseBegin
  BY <1>31 DEF CloseBegin, Goto, link, sems, table, loop, ctx, Shape, Labels, SInv, Held
<1>32. CASE CloseShut
  BY <1>32 DEF CloseShut, link, sems, table, loop, ctx, Shape, Labels, SInv, Held
<1>33. CASE PeerGone
  BY <1>33 DEF PeerGone, link, sems, table, loop, ctx, Shape, Labels, SInv, Held
<1>34. CASE UNCHANGED vars
  BY <1>34 DEF vars, Shape, Labels, SInv, Held
<1>. QED
  BY <1>1, <1>2, <1>3, <1>4, <1>5, <1>6, <1>7, <1>8, <1>9, <1>10, <1>11, <1>12, <1>13, <1>14, <1>15, <1>16, <1>17, <1>18, <1>19, <1>20, <1>21, <1>22, <1>23, <1>24, <1>25, <1>26, <1>27, <1>28, <1>29, <1>30, <1>31, <1>32, <1>33, <1>34 DEF Next, Reader, Writer, Start, InnerClose

\* Every step keeps the queue covered by a permit, a notify() or doWrite.
LEMMA SendStep == Shape /\ Labels /\ SInv /\ NoLostSend /\ [Next]_vars => NoLostSend'
<1>. DEFINE Goal == NoLostSend'
<1>. SUFFICES ASSUME Shape, Labels, SInv, NoLostSend, [Next]_vars PROVE Goal
  OBVIOUS
<1>. USE NamesDiffer
<1>1. ASSUME NEW r \in Reqs, Request(r) PROVE Goal
  BY <1>1 DEF Request, Goto, link, sems, table, loop, ctx, Shape, Labels, NoLostSend
<1>2. ASSUME NEW r \in Reqs, RequestRefused(r) PROVE Goal
  BY <1>2 DEF RequestRefused, Goto, link, sems, table, loop, ctx, Shape, Labels, NoLostSend
<1>3. ASSUME NEW r \in Reqs, AddCtx(r) PROVE Goal
  BY <1>3 DEF AddCtx, Goto, link, sems, table, loop, ctx, Shape, Labels, NoLostSend
<1>4. ASSUME NEW r \in Reqs, Enqueue(r) PROVE Goal
  BY <1>4 DEF Enqueue, Push, Goto, link, sems, table, loop, ctx, Shape, Labels, NoLostSend
<1>5. ASSUME NEW r \in Reqs, EnqueueNotify(r) PROVE Goal
  BY <1>5 DEF EnqueueNotify, NotifySem, Goto, link, sems, table, loop, ctx, Shape, Labels, NoLostSend
<1>6. ASSUME NEW r \in Reqs, Return(r) PROVE Goal
  BY <1>6 DEF Return, Goto, link, sems, table, loop, ctx, Shape, Labels, NoLostSend
<1>7. ASSUME NEW r \in Reqs, Fire(r) PROVE Goal
  BY <1>7 DEF Fire, link, sems, table, loop, ctx, Shape, Labels, NoLostSend
<1>8. ASSUME NEW r \in Reqs, OnTimeOut(r) PROVE Goal
  BY <1>8 DEF OnTimeOut, link, sems, table, loop, ctx, Shape, Labels, NoLostSend
<1>9. ASSUME NEW t \in {"reader", "start"}, CloseSocket(t) PROVE Goal
  BY <1>9 DEF CloseSocket, NotifySem, Goto, link, sems, table, loop, ctx, Shape, Labels, NoLostSend
<1>10. ASSUME NEW t \in {"reader", "start"}, SwapCtxs(t) PROVE Goal
  BY <1>10 DEF SwapCtxs, Goto, link, sems, table, loop, ctx, Shape, Labels, NoLostSend
<1>11. ASSUME NEW t \in {"reader", "start"}, DropCtx(t) PROVE Goal
  BY <1>11 DEF DropCtx, DoRsp, link, sems, table, loop, ctx, Shape, Labels, NoLostSend
<1>12. ASSUME NEW t \in {"reader", "start"}, CloseDone(t) PROVE Goal
  BY <1>12 DEF CloseDone, Goto, link, sems, table, loop, ctx, Shape, Labels, NoLostSend
<1>13. CASE ReadLoop
  BY <1>13 DEF ReadLoop, Goto, link, sems, table, loop, ctx, Shape, Labels, NoLostSend
<1>14. CASE RecvResponse
  BY <1>14 DEF RecvResponse, Goto, link, sems, table, loop, ctx, Shape, Labels, NoLostSend
<1>15. CASE Answer
  BY <1>15 DEF Answer, DoRsp, Goto, link, sems, table, loop, ctx, Shape, Labels, NoLostSend
<1>16. CASE RecvFail
  BY <1>16 DEF RecvFail, Goto, link, sems, table, loop, ctx, Shape, Labels, NoLostSend
<1>17. CASE ReadGive
  BY <1>17 DEF ReadGive, GiveWait, Goto, link, sems, table, loop, ctx, Shape, Labels, NoLostSend
<1>18. CASE ReadRetry
  BY <1>18 DEF ReadRetry, link, sems, table, loop, ctx, Shape, Labels, NoLostSend
<1>19. CASE WriteLoop
  BY <1>19 DEF WriteLoop, Goto, link, sems, table, loop, ctx, Shape, Labels, NoLostSend
<1>20. CASE WriteWait
  BY <1>20 DEF WriteWait, Goto, link, sems, table, loop, ctx, Shape, Labels, NoLostSend
<1>21. CASE WriteTake
  BY <1>21 DEF WriteTake, Goto, link, sems, table, loop, ctx, Shape, Labels, NoLostSend
<1>22. CASE WriteClear
  BY <1>22 DEF WriteClear, Goto, link, sems, table, loop, ctx, Shape, Labels, NoLostSend
<1>23. CASE WriteGive
  BY <1>23 DEF WriteGive, GiveWait, Goto, link, sems, table, loop, ctx, Shape, Labels, NoLostSend
<1>24. CASE StartFire
  BY <1>24 DEF StartFire, Goto, link, sems, table, loop, ctx, Shape, Labels, NoLostSend
<1>25. CASE StartWait
  BY <1>25 DEF StartWait, Goto, link, sems, table, loop, ctx, Shape, Labels, NoLostSend
<1>26. CASE StartReconnect
  BY <1>26 DEF StartReconnect, Goto, link, sems, table, loop, ctx, Shape, Labels, NoLostSend
<1>27. CASE StartReset
  BY <1>27 DEF StartReset, Goto, link, sems, table, loop, ctx, Shape, Labels, NoLostSend
<1>28. CASE StartSpawn
  <2>1. pc["writer"] # "take"
    BY <1>28 DEF StartSpawn, SInv, Held
  <2>2. ASSUME NEW t \in Threads, pc[t] = "notify" PROVE pc'[t] = "notify"
    BY <1>28, <2>2 DEF StartSpawn, Labels, Shape
  <2>. QED
    BY <1>28, <2>1, <2>2 DEF StartSpawn, sems, NoLostSend
<1>29. CASE StartGive
  BY <1>29 DEF StartGive, Goto, link, sems, table, loop, ctx, Shape, Labels, NoLostSend
<1>30. CASE StartRetry
  BY <1>30 DEF StartRetry, Goto, link, sems, table, loop, ctx, Shape, Labels, NoLostSend
<1>31. CASE CloseBegin
  BY <1>31 DEF CloseBegin, Goto, link, sems, table, loop, ctx, Shape, Labels, NoLostSend
<1>32. CASE CloseShut
  BY <1>32 DEF CloseShut, link, sems, table, loop, ctx, Shape, Labels, NoLostSend
<1>33. CASE PeerGone
  BY <1>33 DEF PeerGone, link, sems, table, loop, ctx, Shape, Labels, NoLostSend
<1>34. CASE UNCHANGED vars
  BY <1>34 DEF vars, Shape, Labels, NoLostSend
<1>. QED
  BY <1>1, <1>2, <1>3, <1>4, <1>5, <1>6, <1>7, <1>8, <1>9, <1>10, <1>11, <1>12, <1>13, <1>14, <1>15, <1>16, <1>17, <1>18, <1>19, <1>20, <1>21, <1>22, <1>23, <1>24, <1>25, <1>26, <1>27, <1>28, <1>29, <1>30, <1>31, <1>32, <1>33, <1>34 DEF Next, Reader, Writer, Start, InnerClose

-----------------------------------------------------------------------------
\* Shape, labels and permits need one another.
LEMMA ShapeAlways == Spec => [](Shape /\ Labels /\ SInv)
<1>1. Init => Shape /\ Labels
  BY ShapeInit
<1>2. Init => SInv
  BY NamesDiffer, StreamAssumption DEF Init, SInv, Held
<1>3. Shape /\ Labels /\ SInv /\ [Next]_vars => (Shape /\ Labels /\ SInv)'
  BY ShapeStep, LabelStep, WaitStep
<1>. QED
  BY <1>1, <1>2, <1>3, PTL DEF Spec

\* doRsp(): for any requests, each sleeping fiber is scheduled at most once, and exactly
\* by who took its scheduler out.
THEOREM WokenCorrect == Spec => []WokenOnce
<1>1. Init => WInv
  BY NamesDiffer DEF Init, WInv
<1>2. WInv => WokenOnce
  BY DEF WInv, WokenOnce
<1>. QED
  BY <1>1, <1>2, ShapeAlways, WokenStep, PTL DEF Spec

\* m_waitSem: for any requests, its two permits are conserved among start(), doRead and
\* doWrite, and start() goes on only when both loops have ended.
THEOREM WaitSemCorrect == Spec => []WaitSemExact
<1>1. SInv => WaitSemExact
  BY DEF SInv, Held, WaitSemExact
<1>. QED
  BY <1>1, ShapeAlways, PTL

\* enqueue(): for any requests, what is in the queue is covered by a permit, a notify() on
\* its way or a doWrite about to swap.
THEOREM SendCorrect == Spec => []NoLostSend
<1>1. Init => NoLostSend
  BY DEF Init, NoLostSend
<1>. QED
  BY <1>1, ShapeAlways, SendStep, PTL DEF Spec

-----------------------------------------------------------------------------
(* The rest of the types.                                                  *)

\* What is not in Shape: the socket, the tables, what is on the wire and the contexts.
Others ==
    /\ m_isConnected \in BOOLEAN /\ sock \in {"none", "open", "lost"} /\ m_autoConnect \in BOOLEAN
    /\ m_ctxs \in [Sns -> Reqs \cup {None}] /\ m_streams \subseteq Sns
    /\ wire \subseteq (Sns \X Reqs) /\ hand \subseteq Reqs
    /\ sn \in [Reqs -> {0} \cup Sns]
    /\ timer \in [Reqs -> {"none", "armed", "fired", "over"}]
    /\ response \in [Reqs -> Reqs \cup {None}]
    /\ connects \in 0 .. MaxConnects

\* Every identifier was given to a request of its own, since the start or since reset().
Begun == {r \in Reqs : pc[r] # "idle"}
Numbered == m_sn \in Nat /\ m_sn <= Cardinality(Begun)

\* There are finitely many requests, and those that have begun are among them.
LEMMA BegunSize ==
    /\ IsFiniteSet(Begun) /\ Cardinality(Begun) \in Nat /\ Cardinality(Reqs) \in Nat
    /\ \A r \in Reqs \ Begun : Cardinality(Begun \cup {r}) = Cardinality(Begun) + 1
                              /\ Cardinality(Begun \cup {r}) <= Cardinality(Reqs)
<1>1. Begun \subseteq Reqs /\ IsFiniteSet(Reqs)
  BY StreamAssumption DEF Begun
<1>2. IsFiniteSet(Begun)
  BY <1>1, FS_Subset
<1>3. Cardinality(Begun) \in Nat /\ Cardinality(Reqs) \in Nat
  BY <1>1, <1>2, FS_CardinalityType
<1>4. ASSUME NEW r \in Reqs \ Begun
      PROVE  Cardinality(Begun \cup {r}) = Cardinality(Begun) + 1 /\ Cardinality(Begun \cup {r}) <= Cardinality(Reqs)
  <2>1. Cardinality(Begun \cup {r}) = Cardinality(Begun) + 1
    BY <1>2, FS_AddElement
  <2>2. Begun \cup {r} \subseteq Reqs
    BY <1>1
  <2>. QED
    BY <1>1, <2>1, <2>2, FS_Subset
<1>. QED
  BY <1>2, <1>3, <1>4

\* There is an identifier left for a request that begins.
LEMMA RoomForOne ==
    ASSUME Numbered, NEW r \in Reqs, pc[r] = "idle"
    PROVE  m_sn + 1 \in Sns
<1>1. r \in Reqs \ Begun
  BY DEF Begun
<1>2. Cardinality(Begun) \in Nat /\ Cardinality(Reqs) \in Nat /\ Cardinality(Begun) + 1 <= Cardinality(Reqs)
  BY <1>1, BegunSize
<1>. QED
  BY <1>2 DEF Numbered, Sns

\* A request that has begun stays so, and reset() alone gives back numbers.
LEMMA NumberedKept ==
    ASSUME Numbered, m_sn' \in {0, m_sn}, \A r \in Reqs : pc[r] # "idle" => pc'[r] # "idle"
    PROVE  Numbered'
<1>1. Begun \subseteq Begun' /\ Begun' \subseteq Reqs /\ IsFiniteSet(Reqs)
  BY StreamAssumption DEF Begun
<1>2. IsFiniteSet(Begun')
  BY <1>1, FS_Subset
<1>3. Cardinality(Begun) <= Cardinality(Begun') /\ Cardinality(Begun) \in Nat /\ Cardinality(Begun') \in Nat
  BY <1>1, <1>2, FS_Subset, FS_CardinalityType
<1>. QED
  BY <1>3 DEF Numbered

\* Every step keeps these types.
LEMMA OthersStep == Shape /\ Numbered /\ Others /\ [Next]_vars => Others'
<1>. DEFINE Goal == Others'
<1>. SUFFICES ASSUME Shape, Numbered, Others, [Next]_vars PROVE Goal
  OBVIOUS
<1>. USE NamesDiffer
<1>1. ASSUME NEW r \in Reqs, Request(r) PROVE Goal
  <2>1. m_sn + 1 \in Sns
    BY <1>1, RoomForOne DEF Request
  <2>2. /\ sn' = [sn EXCEPT ![r] = m_sn + 1] /\ m_streams' = m_streams \cup {m_sn + 1}
        /\ UNCHANGED <<link, m_ctxs, wire, hand, timer, response, connects>>
    BY <1>1 DEF Request, loop
  <2>. QED
    BY <2>1, <2>2 DEF link, Others
<1>2. ASSUME NEW r \in Reqs, RequestRefused(r) PROVE Goal
  BY <1>2 DEF RequestRefused, Goto, link, sems, table, loop, ctx, Shape, Others
<1>3. ASSUME NEW r \in Reqs, AddCtx(r) PROVE Goal
  BY <1>3 DEF AddCtx, Goto, link, sems, table, loop, ctx, Shape, Others
<1>4. ASSUME NEW r \in Reqs, Enqueue(r) PROVE Goal
  BY <1>4 DEF Enqueue, Push, Goto, link, sems, table, loop, ctx, Shape, Others
<1>5. ASSUME NEW r \in Reqs, EnqueueNotify(r) PROVE Goal
  BY <1>5 DEF EnqueueNotify, NotifySem, Goto, link, sems, table, loop, ctx, Shape, Others
<1>6. ASSUME NEW r \in Reqs, Return(r) PROVE Goal
  BY <1>6 DEF Return, Goto, link, sems, table, loop, ctx, Shape, Others
<1>7. ASSUME NEW r \in Reqs, Fire(r) PROVE Goal
  BY <1>7 DEF Fire, link, sems, table, loop, ctx, Shape, Others
<1>8. ASSUME NEW r \in Reqs, OnTimeOut(r) PROVE Goal
  BY <1>8 DEF OnTimeOut, link, sems, table, loop, ctx, Shape, Others
<1>9. ASSUME NEW t \in {"reader", "start"}, CloseSocket(t) PROVE Goal
  BY <1>9 DEF CloseSocket, NotifySem, Goto, link, sems, table, loop, ctx, Shape, Others
<1>10. ASSUME NEW t \in {"reader", "start"}, SwapCtxs(t) PROVE Goal
  <2>1. /\ hand' = {m_ctxs[s] : s \in Sns} \ {None} /\ m_ctxs' = [s \in Sns |-> None]
        /\ UNCHANGED <<link, m_streams, wire, sn, timer, response, connects>>
    BY <1>10 DEF SwapCtxs, ctx
  <2>. QED
    BY <2>1 DEF link, Others
<1>11. ASSUME NEW t \in {"reader", "start"}, DropCtx(t) PROVE Goal
  <2>1. PICK r \in hand : DoRsp(r)
    BY <1>11 DEF DropCtx
  <2>2. timer' \in [Reqs -> {"none", "armed", "fired", "over"}]
    BY <2>1 DEF DoRsp, Others
  <2>3. hand' \subseteq hand /\ UNCHANGED <<link, table, wire, sn, response, connects>>
    BY <1>11 DEF DropCtx
  <2>. QED
    BY <2>2, <2>3 DEF link, table, Others
<1>12. ASSUME NEW t \in {"reader", "start"}, CloseDone(t) PROVE Goal
  BY <1>12 DEF CloseDone, Goto, link, sems, table, loop, ctx, Shape, Others
<1>13. CASE ReadLoop
  BY <1>13 DEF ReadLoop, Goto, link, sems, table, loop, ctx, Shape, Others
<1>14. CASE RecvResponse
  <2>1. PICK msg \in wire :
           /\ wire' = wire \ {msg} /\ m_streams' = m_streams \ {msg[1]}
           /\ \/ /\ m_ctxs[msg[1]] # None
                 /\ m_ctxs' = [m_ctxs EXCEPT ![msg[1]] = None]
                 /\ response' = [response EXCEPT ![m_ctxs[msg[1]]] = msg[2]]
                 /\ hand' = {m_ctxs[msg[1]]}
              \/ UNCHANGED <<m_ctxs, response, hand>>
    BY <1>14 DEF RecvResponse
  <2>2. PICK s \in Sns, q \in Reqs : s = msg[1] /\ q = msg[2]
    BY DEF Others
  <2>3. UNCHANGED <<link, sn, timer, connects>>
    BY <1>14 DEF RecvResponse
  <2>4. PICK x : x = m_ctxs[s] /\ x \in Reqs \cup {None}
    BY DEF Others
  <2>. QED
    BY <2>1, <2>2, <2>3, <2>4 DEF link, Others
<1>15. CASE Answer
  <2>1. PICK r \in hand : DoRsp(r)
    BY <1>15 DEF Answer
  <2>2. timer' \in [Reqs -> {"none", "armed", "fired", "over"}]
    BY <2>1 DEF DoRsp, Others
  <2>3. hand' \subseteq hand /\ UNCHANGED <<link, table, wire, sn, response, connects>>
    BY <1>15 DEF Answer
  <2>. QED
    BY <2>2, <2>3 DEF link, table, Others
<1>16. CASE RecvFail
  BY <1>16 DEF RecvFail, Goto, link, sems, table, loop, ctx, Shape, Others
<1>17. CASE ReadGive
  BY <1>17 DEF ReadGive, GiveWait, Goto, link, sems, table, loop, ctx, Shape, Others
<1>18. CASE ReadRetry
  BY <1>18 DEF ReadRetry, link, sems, table, loop, ctx, Shape, Others
<1>19. CASE WriteLoop
  BY <1>19 DEF WriteLoop, Goto, link, sems, table, loop, ctx, Shape, Others
<1>20. CASE WriteWait
  BY <1>20 DEF WriteWait, Goto, link, sems, table, loop, ctx, Shape, Others
<1>21. CASE WriteTake
  <2>1. PICK new : /\ new = {<<sn[c], c>> : c \in {m_queue[i] : i \in {j \in DOMAIN m_queue :
                             m_isConnected /\ sock = "open" /\ sn[m_queue[j]] \in m_streams}}}
                  /\ wire' = wire \cup new
    BY <1>21 DEF WriteTake
  <2>2. new \subseteq Sns \X Reqs
    <3>1. \A j \in DOMAIN m_queue : m_queue[j] \in Reqs
      BY DEF Shape
    <3>2. m_streams \subseteq Sns
      BY DEF Others
    <3>. SUFFICES ASSUME NEW e \in new PROVE e \in Sns \X Reqs
      OBVIOUS
    <3>3. PICK j \in DOMAIN m_queue : sn[m_queue[j]] \in m_streams /\ e = <<sn[m_queue[j]], m_queue[j]>>
      BY <2>1, Zenon
    <3>4. sn[m_queue[j]] \in Sns /\ m_queue[j] \in Reqs
      BY <3>1, <3>2, <3>3
    <3>. QED
      BY <3>3, <3>4
  <2>3. UNCHANGED <<link, table, hand, sn, timer, response, connects>>
    BY <1>21 DEF WriteTake, loop, ctx
  <2>. QED
    BY <2>1, <2>2, <2>3 DEF link, table, Others
<1>22. CASE WriteClear
  BY <1>22 DEF WriteClear, Goto, link, sems, table, loop, ctx, Shape, Others
<1>23. CASE WriteGive
  BY <1>23 DEF WriteGive, GiveWait, Goto, link, sems, table, loop, ctx, Shape, Others
<1>24. CASE StartFire
  BY <1>24 DEF StartFire, Goto, link, sems, table, loop, ctx, Shape, Others
<1>25. CASE StartWait
  BY <1>25 DEF StartWait, Goto, link, sems, table, loop, ctx, Shape, Others
<1>26. CASE StartReconnect
  <2>1. connects' \in 0 .. MaxConnects
    BY <1>26, StreamAssumption DEF StartReconnect, Others
  <2>2. /\ m_isConnected' \in BOOLEAN /\ sock' \in {"none", "open", "lost"}
        /\ wire' \subseteq (Sns \X Reqs)
    BY <1>26 DEF StartReconnect, Others
  <2>3. UNCHANGED <<m_autoConnect, m_ctxs, m_streams, hand, sn, timer, response>>
    BY <1>26 DEF StartReconnect, table, ctx
  <2>. QED
    BY <2>1, <2>2, <2>3 DEF Others
<1>27. CASE StartReset
  BY <1>27 DEF StartReset, Goto, link, sems, table, loop, ctx, Shape, Others
<1>28. CASE StartSpawn
  BY <1>28 DEF StartSpawn, link, sems, table, loop, ctx, Shape, Others
<1>29. CASE StartGive
  BY <1>29 DEF StartGive, Goto, link, sems, table, loop, ctx, Shape, Others
<1>30. CASE StartRetry
  BY <1>30 DEF StartRetry, Goto, link, sems, table, loop, ctx, Shape, Others
<1>31. CASE CloseBegin
  BY <1>31 DEF CloseBegin, Goto, link, sems, table, loop, ctx, Shape, Others
<1>32. CASE CloseShut
  BY <1>32 DEF CloseShut, link, sems, table, loop, ctx, Shape, Others
<1>33. CASE PeerGone
  BY <1>33 DEF PeerGone, link, sems, table, loop, ctx, Shape, Others
<1>34. CASE UNCHANGED vars
  BY <1>34 DEF vars, Shape, Others
<1>. QED
  BY <1>1, <1>2, <1>3, <1>4, <1>5, <1>6, <1>7, <1>8, <1>9, <1>10, <1>11, <1>12, <1>13, <1>14, <1>15, <1>16, <1>17, <1>18, <1>19, <1>20, <1>21, <1>22, <1>23, <1>24, <1>25, <1>26, <1>27, <1>28, <1>29, <1>30, <1>31, <1>32, <1>33, <1>34 DEF Next, Reader, Writer, Start, InnerClose

\* Every step keeps the numbers within those of the requests that have begun.
LEMMA NumberedStep == Shape /\ Numbered /\ [Next]_vars => Numbered'
<1>. DEFINE Goal == Numbered'
<1>. SUFFICES ASSUME Shape, Numbered, [Next]_vars PROVE Goal
  OBVIOUS
<1>. USE NamesDiffer
<1>1. ASSUME NEW r \in Reqs, Request(r) PROVE Goal
  <2>1. pc[r] = "idle" /\ m_sn' = m_sn + 1 /\ pc' = [pc EXCEPT ![r] = "opened"]
    BY <1>1 DEF Request, Goto
  <2>2. Begun' = Begun \cup {r} /\ r \in Reqs \ Begun
    BY <2>1 DEF Begun, Shape
  <2>3. Cardinality(Begun') = Cardinality(Begun) + 1 /\ Cardinality(Begun) \in Nat
    BY <2>2, BegunSize
  <2>. QED
    BY <2>1, <2>3 DEF Numbered
<1>2. ASSUME NEW r \in Reqs, RequestRefused(r) PROVE Goal
  <2>1. m_sn' \in {0, m_sn} /\ \A q \in Reqs : pc[q] # "idle" => pc'[q] # "idle"
    BY <1>2 DEF RequestRefused, Goto, table, loop, ctx, Shape
  <2>. QED
    BY <2>1, NumberedKept
<1>3. ASSUME NEW r \in Reqs, AddCtx(r) PROVE Goal
  <2>1. m_sn' \in {0, m_sn} /\ \A q \in Reqs : pc[q] # "idle" => pc'[q] # "idle"
    BY <1>3 DEF AddCtx, Goto, table, loop, ctx, Shape
  <2>. QED
    BY <2>1, NumberedKept
<1>4. ASSUME NEW r \in Reqs, Enqueue(r) PROVE Goal
  <2>1. m_sn' \in {0, m_sn} /\ \A q \in Reqs : pc[q] # "idle" => pc'[q] # "idle"
    BY <1>4 DEF Enqueue, Push, Goto, table, loop, ctx, Shape
  <2>. QED
    BY <2>1, NumberedKept
<1>5. ASSUME NEW r \in Reqs, EnqueueNotify(r) PROVE Goal
  <2>1. m_sn' \in {0, m_sn} /\ \A q \in Reqs : pc[q] # "idle" => pc'[q] # "idle"
    BY <1>5 DEF EnqueueNotify, NotifySem, Goto, table, loop, ctx, Shape
  <2>. QED
    BY <2>1, NumberedKept
<1>6. ASSUME NEW r \in Reqs, Return(r) PROVE Goal
  <2>1. m_sn' \in {0, m_sn} /\ \A q \in Reqs : pc[q] # "idle" => pc'[q] # "idle"
    BY <1>6 DEF Return, Goto, table, loop, ctx, Shape
  <2>. QED
    BY <2>1, NumberedKept
<1>7. ASSUME NEW r \in Reqs, Fire(r) PROVE Goal
  <2>1. m_sn' \in {0, m_sn} /\ \A q \in Reqs : pc[q] # "idle" => pc'[q] # "idle"
    BY <1>7 DEF Fire, table, loop, ctx, Shape
  <2>. QED
    BY <2>1, NumberedKept
<1>8. ASSUME NEW r \in Reqs, OnTimeOut(r) PROVE Goal
  <2>1. m_sn' \in {0, m_sn} /\ \A q \in Reqs : pc[q] # "idle" => pc'[q] # "idle"
    BY <1>8 DEF OnTimeOut, table, loop, ctx, Shape
  <2>. QED
    BY <2>1, NumberedKept
<1>9. ASSUME NEW t \in {"reader", "start"}, CloseSocket(t) PROVE Goal
  <2>1. m_sn' \in {0, m_sn} /\ \A q \in Reqs : pc[q] # "idle" => pc'[q] # "idle"
    BY <1>9 DEF CloseSocket, NotifySem, Goto, table, loop, ctx, Shape
  <2>. QED
    BY <2>1, NumberedKept
<1>10. ASSUME NEW t \in {"reader", "start"}, SwapCtxs(t) PROVE Goal
  <2>1. m_sn' \in {0, m_sn} /\ \A q \in Reqs : pc[q] # "idle" => pc'[q] # "idle"
    BY <1>10 DEF SwapCtxs, Goto, table, loop, ctx, Shape
  <2>. QED
    BY <2>1, NumberedKept
<1>11. ASSUME NEW t \in {"reader", "start"}, DropCtx(t) PROVE Goal
  <2>1. m_sn' \in {0, m_sn} /\ \A q \in Reqs : pc[q] # "idle" => pc'[q] # "idle"
    BY <1>11 DEF DropCtx, DoRsp, table, loop, ctx, Shape
  <2>. QED
    BY <2>1, NumberedKept
<1>12. ASSUME NEW t \in {"reader", "start"}, CloseDone(t) PROVE Goal
  <2>1. m_sn' \in {0, m_sn} /\ \A q \in Reqs : pc[q] # "idle" => pc'[q] # "idle"
    BY <1>12 DEF CloseDone, Goto, table, loop, ctx, Shape
  <2>. QED
    BY <2>1, NumberedKept
<1>13. CASE ReadLoop
  <2>1. m_sn' \in {0, m_sn} /\ \A q \in Reqs : pc[q] # "idle" => pc'[q] # "idle"
    BY <1>13 DEF ReadLoop, Goto, table, loop, ctx, Shape
  <2>. QED
    BY <2>1, NumberedKept
<1>14. CASE RecvResponse
  <2>1. m_sn' \in {0, m_sn} /\ \A q \in Reqs : pc[q] # "idle" => pc'[q] # "idle"
    BY <1>14 DEF RecvResponse, Goto, table, loop, ctx, Shape
  <2>. QED
    BY <2>1, NumberedKept
<1>15. CASE Answer
  <2>1. m_sn' \in {0, m_sn} /\ \A q \in Reqs : pc[q] # "idle" => pc'[q] # "idle"
    BY <1>15 DEF Answer, DoRsp, Goto, table, loop, ctx, Shape
  <2>. QED
    BY <2>1, NumberedKept
<1>16. CASE RecvFail
  <2>1. m_sn' \in {0, m_sn} /\ \A q \in Reqs : pc[q] # "idle" => pc'[q] # "idle"
    BY <1>16 DEF RecvFail, Goto, table, loop, ctx, Shape
  <2>. QED
    BY <2>1, NumberedKept
<1>17. CASE ReadGive
  <2>1. m_sn' \in {0, m_sn} /\ \A q \in Reqs : pc[q] # "idle" => pc'[q] # "idle"
    BY <1>17 DEF ReadGive, GiveWait, Goto, table, loop, ctx, Shape
  <2>. QED
    BY <2>1, NumberedKept
<1>18. CASE ReadRetry
  <2>1. m_sn' \in {0, m_sn} /\ \A q \in Reqs : pc[q] # "idle" => pc'[q] # "idle"
    BY <1>18 DEF ReadRetry, table, loop, ctx, Shape
  <2>. QED
    BY <2>1, NumberedKept
<1>19. CASE WriteLoop
  <2>1. m_sn' \in {0, m_sn} /\ \A q \in Reqs : pc[q] # "idle" => pc'[q] # "idle"
    BY <1>19 DEF WriteLoop, Goto, table, loop, ctx, Shape
  <2>. QED
    BY <2>1, NumberedKept
<1>20. CASE WriteWait
  <2>1. m_sn' \in {0, m_sn} /\ \A q \in Reqs : pc[q] # "idle" => pc'[q] # "idle"
    BY <1>20 DEF WriteWait, Goto, table, loop, ctx, Shape
  <2>. QED
    BY <2>1, NumberedKept
<1>21. CASE WriteTake
  <2>1. m_sn' \in {0, m_sn} /\ \A q \in Reqs : pc[q] # "idle" => pc'[q] # "idle"
    BY <1>21 DEF WriteTake, Goto, table, loop, ctx, Shape
  <2>. QED
    BY <2>1, NumberedKept
<1>22. CASE WriteClear
  <2>1. m_sn' \in {0, m_sn} /\ \A q \in Reqs : pc[q] # "idle" => pc'[q] # "idle"
    BY <1>22 DEF WriteClear, Goto, table, loop, ctx, Shape
  <2>. QED
    BY <2>1, NumberedKept
<1>23. CASE WriteGive
  <2>1. m_sn' \in {0, m_sn} /\ \A q \in Reqs : pc[q] # "idle" => pc'[q] # "idle"
    BY <1>23 DEF WriteGive, GiveWait, Goto, table, loop, ctx, Shape
  <2>. QED
    BY <2>1, NumberedKept
<1>24. CASE StartFire
  <2>1. m_sn' \in {0, m_sn} /\ \A q \in Reqs : pc[q] # "idle" => pc'[q] # "idle"
    BY <1>24 DEF StartFire, Goto, table, loop, ctx, Shape
  <2>. QED
    BY <2>1, NumberedKept
<1>25. CASE StartWait
  <2>1. m_sn' \in {0, m_sn} /\ \A q \in Reqs : pc[q] # "idle" => pc'[q] # "idle"
    BY <1>25 DEF StartWait, Goto, table, loop, ctx, Shape
  <2>. QED
    BY <2>1, NumberedKept
<1>26. CASE StartReconnect
  <2>1. m_sn' \in {0, m_sn} /\ \A q \in Reqs : pc[q] # "idle" => pc'[q] # "idle"
    BY <1>26 DEF StartReconnect, Goto, table, loop, ctx, Shape
  <2>. QED
    BY <2>1, NumberedKept
<1>27. CASE StartReset
  <2>1. m_sn' \in {0, m_sn} /\ \A q \in Reqs : pc[q] # "idle" => pc'[q] # "idle"
    BY <1>27 DEF StartReset, Goto, table, loop, ctx, Shape
  <2>. QED
    BY <2>1, NumberedKept
<1>28. CASE StartSpawn
  <2>1. m_sn' \in {0, m_sn} /\ \A q \in Reqs : pc[q] # "idle" => pc'[q] # "idle"
    BY <1>28 DEF StartSpawn, table, loop, ctx, Shape
  <2>. QED
    BY <2>1, NumberedKept
<1>29. CASE StartGive
  <2>1. m_sn' \in {0, m_sn} /\ \A q \in Reqs : pc[q] # "idle" => pc'[q] # "idle"
    BY <1>29 DEF StartGive, Goto, table, loop, ctx, Shape
  <2>. QED
    BY <2>1, NumberedKept
<1>30. CASE StartRetry
  <2>1. m_sn' \in {0, m_sn} /\ \A q \in Reqs : pc[q] # "idle" => pc'[q] # "idle"
    BY <1>30 DEF StartRetry, Goto, table, loop, ctx, Shape
  <2>. QED
    BY <2>1, NumberedKept
<1>31. CASE CloseBegin
  <2>1. m_sn' \in {0, m_sn} /\ \A q \in Reqs : pc[q] # "idle" => pc'[q] # "idle"
    BY <1>31 DEF CloseBegin, Goto, table, loop, ctx, Shape
  <2>. QED
    BY <2>1, NumberedKept
<1>32. CASE CloseShut
  <2>1. m_sn' \in {0, m_sn} /\ \A q \in Reqs : pc[q] # "idle" => pc'[q] # "idle"
    BY <1>32 DEF CloseShut, table, loop, ctx, Shape
  <2>. QED
    BY <2>1, NumberedKept
<1>33. CASE PeerGone
  <2>1. m_sn' \in {0, m_sn} /\ \A q \in Reqs : pc[q] # "idle" => pc'[q] # "idle"
    BY <1>33 DEF PeerGone, table, loop, ctx, Shape
  <2>. QED
    BY <2>1, NumberedKept
<1>34. CASE UNCHANGED vars
  BY <1>34, NumberedKept DEF vars
<1>. QED
  BY <1>1, <1>2, <1>3, <1>4, <1>5, <1>6, <1>7, <1>8, <1>9, <1>10, <1>11, <1>12, <1>13, <1>14, <1>15, <1>16, <1>17, <1>18, <1>19, <1>20, <1>21, <1>22, <1>23, <1>24, <1>25, <1>26, <1>27, <1>28, <1>29, <1>30, <1>31, <1>32, <1>33, <1>34 DEF Next, Reader, Writer, Start, InnerClose

\* Every value of the stream keeps its type, for any set of requests: the identifiers that
\* newStream() gives never run out, although reset() starts them again at every connection.
THEOREM StreamTypeCorrect == Spec => []TypeOK
<1>1. Init => Others
  BY StreamAssumption DEF Init, Others
<1>2. Init => Numbered
  <2>1. Cardinality(Begun) \in Nat
    BY BegunSize
  <2>. QED
    BY <2>1 DEF Init, Numbered
<1>3. Shape /\ SInv /\ Others /\ Numbered => TypeOK
  <2>. SUFFICES ASSUME Shape, SInv, Others, Numbered PROVE TypeOK
    OBVIOUS
  <2>1. m_sn \in {0} \cup Sns
    <3>1. IsFiniteSet(Reqs) /\ Begun \subseteq Reqs
      BY StreamAssumption DEF Begun
    <3>2. Cardinality(Begun) <= Cardinality(Reqs) /\ Cardinality(Begun) \in Nat /\ Cardinality(Reqs) \in Nat
      BY <3>1, BegunSize, FS_Subset
    <3>. QED
      BY <3>2 DEF Numbered, Sns
  <2>2. taken \in 0 .. 2
    <3>1. Held("reader") \in {0, 1} /\ Held("writer") \in {0, 1}
      BY DEF Held
    <3>. QED
      BY <3>1 DEF SInv
  <2>. QED
    BY <2>1, <2>2 DEF Shape, SInv, Others, TypeOK
<1>. QED
  BY <1>1, <1>2, <1>3, ShapeAlways, OthersStep, NumberedStep, PTL DEF Spec
=============================================================================
