------------------------- MODULE WorkerGroupProofs -------------------------
(***************************************************************************)
(* Theorems about WorkerGroup: FiberSemaphore's queue for any number of    *)
(* fibers, and the conservation of permits, from which the limit on the    *)
(* callbacks under way and the barrier of waitAll() follow.                *)
(***************************************************************************)
EXTENDS WorkerGroup, FiniteSetTheorems, SequenceTheorems, TLAPS

\* Which call a fiber is in at each point of its program.
Phase ==
    \A f \in Fibers :
        /\ pc[f] = "idle" => op[f] = "none" /\ taken[f] = 0
        /\ pc[f] = "submit" => op[f] = "schedule"
        /\ pc[f] \in {"finish", "left", "cancel", "crashed"} => op[f] = "waitAll"
        /\ pc[f] \in {"loop", "wait", "blocked", "woken"} => op[f] \in {"schedule", "waitAll"}
        /\ op[f] = "waitAll" => want[f] = BatchSize

QueueInv == TypeOK /\ Phase /\ WaitersExact /\ NoIdlePermit

LEMMA QueueInit == Init => QueueInv
  <1> SUFFICES ASSUME Init PROVE QueueInv
    OBVIOUS
  <1>1. m_waiters = <<>> /\ m_waiters \in Seq(Fibers) /\ DOMAIN m_waiters = {}
    BY EmptySeq DEF Init
  <1>2. TypeOK
    <2>1. m_timer \in BOOLEAN
      BY GroupAssumption, Zenon DEF Init
    <2>2. timer \in {"none", "armed", "collected", "notify", "over"}
      BY DEF Init
    <2>3. /\ m_concurrency = BatchSize
          /\ pc = [f \in Fibers |-> "idle"] /\ op = [f \in Fibers |-> "none"]
          /\ want = [f \in Fibers |-> 0] /\ taken = [f \in Fibers |-> 0]
          /\ jobs = 0 /\ kept = 0 /\ calls = 0 /\ throws = 0
          /\ m_finish \in BOOLEAN /\ m_timedout \in BOOLEAN
      BY Zenon DEF Init
    <2> QED  BY <1>1, <2>1, <2>2, <2>3, GroupAssumption DEF TypeOK
  <1>3. Phase
    BY DEF Init, Phase
  <1>4. WaitersExact /\ NoIdlePermit
    BY <1>1 DEF Init, WaitersExact, NoIdlePermit
  <1> QED  BY <1>2, <1>3, <1>4 DEF QueueInv

\* What notify() does to the queue.
LEMMA NotifyFacts ==
    ASSUME QueueInv, Notify
    PROVE  /\ m_concurrency' \in Nat /\ m_waiters' \in Seq(Fibers)
           /\ WaitersExact' /\ NoIdlePermit'
           /\ \/ /\ pc' = pc
                 /\ m_concurrency' = m_concurrency + 1
              \/ \E h \in Fibers : /\ pc[h] = "blocked"
                                   /\ pc' = [pc EXCEPT ![h] = "woken"]
                                   /\ m_concurrency' = m_concurrency
  <1> USE DEF QueueInv
  <1>1. CASE m_waiters = <<>>
    <2>1. m_waiters' = m_waiters /\ pc' = pc /\ m_concurrency' = m_concurrency + 1
      BY <1>1 DEF Notify
    <2> QED  BY <1>1, <2>1 DEF TypeOK, WaitersExact, NoIdlePermit
  <1>2. CASE m_waiters # <<>>
    <2> DEFINE h == Head(m_waiters)  rest == Tail(m_waiters)
    <2>1. m_waiters' = rest /\ pc' = [pc EXCEPT ![h] = "woken"] /\ m_concurrency' = m_concurrency
      BY <1>2 DEF Notify, Goto
    <2>2. m_waiters \in Seq(Fibers)
      BY DEF TypeOK
    <2>3. /\ h \in Fibers /\ rest \in Seq(Fibers)
          /\ Len(rest) = Len(m_waiters) - 1
          /\ \A i \in 1 .. Len(rest) : rest[i] = m_waiters[i + 1]
      BY <1>2, <2>2, HeadTailProperties
    <2>4. Len(m_waiters) \in Nat \ {0} /\ DOMAIN m_waiters = 1 .. Len(m_waiters)
      BY <1>2, <2>2, EmptySeq, LenProperties
    <2>5. DOMAIN rest = 1 .. Len(rest)
      BY <2>3, LenProperties
    <2>6. h = m_waiters[1]
      BY <2>2, <2>4
    <2> HIDE DEF h, rest
    <2>7. pc[h] = "blocked"
      BY <2>3, <2>4, <2>6 DEF WaitersExact
    <2>8. \A f \in Fibers :
             (\E i \in DOMAIN rest : rest[i] = f) <=> f # h /\ \E i \in DOMAIN m_waiters : m_waiters[i] = f
      <3> TAKE f \in Fibers
      <3>1. ASSUME NEW i \in DOMAIN rest, rest[i] = f
            PROVE  f # h /\ i + 1 \in DOMAIN m_waiters /\ m_waiters[i + 1] = f
        <4>1. i \in Nat /\ i >= 1 /\ i + 1 \in DOMAIN m_waiters /\ m_waiters[i + 1] = f
          BY <3>1, <2>3, <2>4, <2>5
        <4>2. 1 \in DOMAIN m_waiters
          BY <2>4
        <4> QED  BY <4>1, <4>2, <2>6 DEF WaitersExact
      <3>2. ASSUME NEW i \in DOMAIN m_waiters, m_waiters[i] = f, f # h
            PROVE  i - 1 \in DOMAIN rest /\ rest[i - 1] = f
        BY <3>2, <2>3, <2>4, <2>5, <2>6
      <3> QED  BY <3>1, <3>2
    <2>9. \A i, j \in DOMAIN rest : rest[i] = rest[j] => i = j
      <3> SUFFICES ASSUME NEW i \in DOMAIN rest, NEW j \in DOMAIN rest, rest[i] = rest[j]
                   PROVE  i = j
        OBVIOUS
      <3>1. /\ i \in Nat /\ j \in Nat /\ i + 1 \in DOMAIN m_waiters /\ j + 1 \in DOMAIN m_waiters
            /\ m_waiters[i + 1] = m_waiters[j + 1]
        BY <2>3, <2>4, <2>5
      <3>2. i + 1 = j + 1
        BY <3>1 DEF WaitersExact
      <3> QED  BY <3>1, <3>2
    <2>10. \A f \in Fibers : pc'[f] = IF f = h THEN "woken" ELSE pc[f]
      BY <2>1, <2>3 DEF TypeOK
    <2>11. WaitersExact'
      BY <2>1, <2>8, <2>9, <2>10 DEF WaitersExact
    <2>12. m_concurrency = 0
      BY <1>2 DEF NoIdlePermit, TypeOK
    <2>13. m_concurrency' \in Nat /\ m_waiters' \in Seq(Fibers) /\ NoIdlePermit'
      BY <2>1, <2>3, <2>12 DEF NoIdlePermit
    <2>14. \E g \in Fibers : /\ pc[g] = "blocked"
                             /\ pc' = [pc EXCEPT ![g] = "woken"]
                             /\ m_concurrency' = m_concurrency
      BY <2>1, <2>3, <2>7, Zenon
    <2> QED  BY <2>11, <2>13, <2>14, Zenon
  <1> QED  BY <1>1, <1>2

\* A step that leaves the semaphore alone and neither puts a fiber to sleep
\* nor wakes one keeps the queue as it is.
LEMMA QueueUntouched ==
    ASSUME QueueInv, UNCHANGED sem,
           \A f \in Fibers : pc'[f] = "blocked" <=> pc[f] = "blocked"
    PROVE  WaitersExact' /\ NoIdlePermit'
  BY DEF QueueInv, sem, WaitersExact, NoIdlePermit

LEMMA QueueStep == QueueInv /\ [Next]_vars => QueueInv'
  <1> SUFFICES ASSUME QueueInv, [Next]_vars PROVE QueueInv'
    OBVIOUS
  <1>1. TypeOK /\ Phase /\ WaitersExact /\ NoIdlePermit
    BY DEF QueueInv
  <1>2. ASSUME NEW f \in Fibers, Wait(f) PROVE QueueInv'
    <2>1. CASE m_concurrency > 0
      <3>1. /\ pc[f] = "wait" /\ pc' = [pc EXCEPT ![f] = "loop"]
            /\ m_concurrency' = m_concurrency - 1
            /\ taken' = [taken EXCEPT ![f] = @ + 1]
            /\ UNCHANGED <<m_waiters, group, op, want, jobs, kept, calls, throws>>
        BY <1>2, <2>1 DEF Wait, Goto
      <3>2. TypeOK' /\ Phase'
        BY <1>1, <2>1, <3>1 DEF TypeOK, Phase, group
      <3>3. WaitersExact' /\ NoIdlePermit'
        BY <1>1, <2>1, <3>1 DEF TypeOK, WaitersExact, NoIdlePermit
      <3> QED  BY <3>2, <3>3 DEF QueueInv
    <2>2. CASE ~(m_concurrency > 0)
      <3>1. /\ pc[f] = "wait" /\ pc' = [pc EXCEPT ![f] = "blocked"]
            /\ m_waiters' = Append(m_waiters, f)
            /\ UNCHANGED <<m_concurrency, taken, group, op, want, jobs, kept, calls, throws>>
        BY <1>2, <2>2 DEF Wait, Goto
      <3>2. m_waiters \in Seq(Fibers) /\ Len(m_waiters) \in Nat
        BY <1>1, LenProperties DEF TypeOK
      <3>3. /\ m_waiters' \in Seq(Fibers)
            /\ DOMAIN m_waiters = 1 .. Len(m_waiters)
            /\ DOMAIN m_waiters' = 1 .. Len(m_waiters) + 1
            /\ \A i \in 1 .. Len(m_waiters) : m_waiters'[i] = m_waiters[i]
            /\ m_waiters'[Len(m_waiters) + 1] = f
        BY <3>1, <3>2
      <3>4. TypeOK' /\ Phase'
        BY <1>1, <3>1, <3>3 DEF TypeOK, Phase, group
      <3>5. NoIdlePermit'
        BY <1>1, <2>2, <3>1 DEF NoIdlePermit, TypeOK
      <3>6. \A i \in DOMAIN m_waiters : m_waiters[i] # f
        BY <1>1, <3>1 DEF WaitersExact
      <3>7. \A g \in Fibers : pc'[g] = IF g = f THEN "blocked" ELSE pc[g]
        BY <1>1, <3>1 DEF TypeOK
      <3>8. \A g \in Fibers :
               (\E i \in DOMAIN m_waiters' : m_waiters'[i] = g)
                   <=> g = f \/ \E i \in DOMAIN m_waiters : m_waiters[i] = g
        BY <3>2, <3>3
      <3>9. \A i, j \in DOMAIN m_waiters' : m_waiters'[i] = m_waiters'[j] => i = j
        BY <1>1, <3>2, <3>3, <3>6 DEF WaitersExact
      <3>10. WaitersExact'
        BY <1>1, <3>7, <3>8, <3>9 DEF WaitersExact
      <3> QED  BY <3>4, <3>5, <3>10 DEF QueueInv
    <2> QED  BY <2>1, <2>2
  <1>3. ASSUME NEW f \in Fibers, Resume(f) PROVE QueueInv'
    <2>1. TypeOK' /\ Phase'
      BY <1>1, <1>3 DEF Resume, Goto, TypeOK, Phase, group, sem
    <2> QED  BY <1>1, <1>3, <2>1, QueueUntouched DEF Resume, Goto, TypeOK, QueueInv
  <1>4. ASSUME NEW f \in Fibers, NEW n \in Sizes, Call(f, n) PROVE QueueInv'
    <2>1. TypeOK' /\ Phase'
      BY <1>1, <1>4, GroupAssumption DEF Call, Goto, TypeOK, Phase, group, sem
    <2> QED  BY <1>1, <1>4, <2>1, QueueUntouched DEF Call, Goto, TypeOK, QueueInv
  <1>5. ASSUME NEW f \in Fibers, Join(f) PROVE QueueInv'
    <2>1. TypeOK' /\ Phase'
      BY <1>1, <1>5, GroupAssumption DEF Join, Goto, TypeOK, Phase, group, sem
    <2> QED  BY <1>1, <1>5, <2>1, QueueUntouched DEF Join, Goto, TypeOK, QueueInv
  <1>6. ASSUME NEW f \in Fibers, SetFinish(f) PROVE QueueInv'
    <2>1. TypeOK' /\ Phase'
      BY <1>1, <1>6 DEF SetFinish, Goto, TypeOK, Phase, sem
    <2> QED  BY <1>1, <1>6, <2>1, QueueUntouched DEF SetFinish, Goto, TypeOK, QueueInv
  <1>7. ASSUME NEW f \in Fibers, Loop(f) PROVE QueueInv'
    <2>1. /\ pc[f] = "loop"
          /\ \/ pc' = [pc EXCEPT ![f] = "wait"]
             \/ pc' = [pc EXCEPT ![f] = "submit"] /\ op[f] = "schedule"
             \/ pc' = [pc EXCEPT ![f] = "left"] /\ op[f] = "waitAll"
          /\ UNCHANGED <<sem, group, op, want, taken, jobs, kept, calls, throws>>
      BY <1>1, <1>7 DEF Loop, Goto, Phase
    <2>2. TypeOK' /\ Phase'
      BY <1>1, <2>1 DEF TypeOK, Phase, group, sem
    <2> QED  BY <1>1, <2>1, <2>2, QueueUntouched DEF TypeOK, QueueInv
  <1>8. ASSUME NEW f \in Fibers, Submit(f) PROVE QueueInv'
    <2>1. TypeOK' /\ Phase'
      BY <1>1, <1>8 DEF Submit, Goto, TypeOK, Phase, group, sem
    <2> QED  BY <1>1, <1>8, <2>1, QueueUntouched DEF Submit, Goto, TypeOK, QueueInv
  <1>9. ASSUME NEW f \in Fibers, Left(f) PROVE QueueInv'
    <2>1. /\ pc[f] = "left" /\ UNCHANGED <<sem, group, want, jobs, calls, throws>>
          /\ \/ Goto(f, "cancel") /\ UNCHANGED <<op, taken, kept>>
             \/ Return(f)
      BY <1>9, Zenon DEF Left
    <2>2. TypeOK' /\ Phase'
      <3>1. CASE Goto(f, "cancel") /\ UNCHANGED <<op, taken, kept>>
        BY <1>1, <2>1, <3>1 DEF Goto, TypeOK, Phase, group, sem
      <3>2. CASE Return(f)
        <4>1. kept' \in Nat
          BY <1>1, <3>2 DEF Return, TypeOK
        <4>2. TypeOK'
          BY <1>1, <2>1, <3>2, <4>1 DEF Return, Goto, TypeOK, group, sem
        <4>3. Phase'
          BY <1>1, <2>1, <3>2 DEF Return, Goto, TypeOK, Phase
        <4> QED  BY <4>2, <4>3
      <3> QED  BY <2>1, <3>1, <3>2
    <2> QED  BY <1>1, <2>1, <2>2, QueueUntouched DEF Return, Goto, TypeOK, QueueInv
  <1>10. ASSUME NEW f \in Fibers, CancelTimer(f) PROVE QueueInv'
    <2>1. /\ pc[f] = "cancel" /\ UNCHANGED <<sem, m_finish, m_timedout, want, jobs, calls, throws>>
          /\ \/ Return(f)
             \/ Goto(f, "crashed") /\ UNCHANGED <<op, taken, kept>>
      BY <1>10, Zenon DEF CancelTimer
    <2>2. m_timer' \in BOOLEAN
      BY <1>1, <1>10, Zenon DEF CancelTimer, TypeOK
    <2>3. timer' \in {"over", timer}
      BY <1>10, Zenon DEF CancelTimer
    <2>4. TypeOK' /\ Phase'
      <3>1. CASE Goto(f, "crashed") /\ UNCHANGED <<op, taken, kept>>
        BY <1>1, <2>1, <2>2, <2>3, <3>1 DEF Goto, TypeOK, Phase, sem
      <3>2. CASE Return(f)
        <4>1. kept' \in Nat
          BY <1>1, <3>2 DEF Return, TypeOK
        <4>2. TypeOK'
          BY <1>1, <2>1, <2>2, <2>3, <3>2, <4>1 DEF Return, Goto, TypeOK, sem
        <4>3. Phase'
          BY <1>1, <2>1, <3>2 DEF Return, Goto, TypeOK, Phase
        <4> QED  BY <4>2, <4>3
      <3> QED  BY <2>1, <3>1, <3>2
    <2> QED  BY <1>1, <2>1, <2>4, QueueUntouched DEF Return, Goto, TypeOK, QueueInv
  <1>11. CASE DoWork
    <2>1. /\ m_concurrency' \in Nat /\ m_waiters' \in Seq(Fibers)
          /\ WaitersExact' /\ NoIdlePermit'
          /\ pc' = pc \/ \E h \in Fibers : pc[h] = "blocked" /\ pc' = [pc EXCEPT ![h] = "woken"]
      BY <1>11, NotifyFacts DEF DoWork
    <2>2. jobs' \in Nat /\ UNCHANGED <<group, op, want, taken, kept, calls, throws>>
      BY <1>1, <1>11 DEF DoWork, TypeOK
    <2>3. TypeOK' /\ Phase'
      BY <1>1, <2>1, <2>2 DEF TypeOK, Phase, group
    <2> QED  BY <2>1, <2>3 DEF QueueInv
  <1>12. CASE DoWorkThrows
    <2>1. TypeOK' /\ Phase'
      BY <1>1, <1>12, GroupAssumption DEF DoWorkThrows, TypeOK, Phase, group, sem
    <2> QED  BY <1>1, <1>12, <2>1, QueueUntouched DEF DoWorkThrows, QueueInv
  <1>13. CASE TimerExpires \/ OnTimer
    <2>1. TypeOK' /\ Phase'
      BY <1>1, <1>13 DEF TimerExpires, OnTimer, TypeOK, Phase, sem
    <2> QED  BY <1>1, <1>13, <2>1, QueueUntouched DEF TimerExpires, OnTimer, QueueInv
  <1>14. CASE OnTimerNotifies
    <2>1. /\ m_waiters' = <<>> /\ m_waiters' \in Seq(Fibers) /\ DOMAIN m_waiters' = {}
          /\ pc' = [f \in Fibers |-> IF pc[f] = "blocked" THEN "woken" ELSE pc[f]]
          /\ m_concurrency' = m_concurrency
      BY <1>14, EmptySeq DEF OnTimerNotifies, NotifyAll
    <2>2. TypeOK' /\ Phase'
      BY <1>1, <1>14, <2>1 DEF OnTimerNotifies, TypeOK, Phase
    <2>3. WaitersExact' /\ NoIdlePermit'
      BY <2>1 DEF WaitersExact, NoIdlePermit
    <2> QED  BY <2>2, <2>3 DEF QueueInv
  <1>15. CASE UNCHANGED vars
    BY <1>1, <1>15 DEF vars, QueueInv, TypeOK, Phase, WaitersExact, NoIdlePermit
  <1> QED
    BY <1>2, <1>3, <1>4, <1>5, <1>6, <1>7, <1>8, <1>9, <1>10, <1>11, <1>12, <1>13, <1>14, <1>15,
       GroupAssumption DEF Next, Step

\* No fiber sleeps in FiberSemaphore::wait() while a permit is free, whatever
\* the callers, the callbacks and the timer do.
THEOREM NoIdleCorrect == Spec => []NoIdlePermit
  <1>1. QueueInv => NoIdlePermit
    BY DEF QueueInv
  <1> QED  BY QueueInit, QueueStep, <1>1, PTL DEF Spec

\* A sleeping fiber is in m_waiters exactly once: it is resumed once for its
\* wait(), by notify() or by notifyAll().
THEOREM WaitersCorrect == Spec => []WaitersExact
  <1>1. QueueInv => WaitersExact
    BY DEF QueueInv
  <1> QED  BY QueueInit, QueueStep, <1>1, PTL DEF Spec

\* The types: m_waiters holds fibers, m_concurrency is a natural number, whatever the
\* threads of schedule() and waitAll() do.
THEOREM GroupTypeCorrect == Spec => []TypeOK
  <1>1. QueueInv => TypeOK
    BY DEF QueueInv
  <1> QED  BY QueueInit, QueueStep, <1>1, PTL DEF Spec

-----------------------------------------------------------------------------
(* The conservation of permits.                                            *)

\* Held for an arbitrary number of permits per fiber.
Tokens(p) == UNION {{f} \X (1 .. p[f]) : f \in Fibers}

Counts == [f \in Fibers |-> Permits(f)]

LEMMA HeldIsTokens == Held = Tokens(Counts)
  BY DEF Held, Tokens, Counts

LEMMA TokensMember ==
    ASSUME NEW p \in [Fibers -> Nat], NEW x
    PROVE  x \in Tokens(p) <=> \E f \in Fibers : \E i \in 1 .. p[f] : x = <<f, i>>
  BY DEF Tokens

\* k more permits for one fiber are k more tokens.
LEMMA TokensGrow ==
    ASSUME NEW p \in [Fibers -> Nat], NEW q \in [Fibers -> Nat],
           NEW f \in Fibers, NEW k \in Nat,
           q[f] = p[f] + k, \A g \in Fibers \ {f} : q[g] = p[g],
           IsFiniteSet(Tokens(p))
    PROVE  IsFiniteSet(Tokens(q)) /\ Cardinality(Tokens(q)) = Cardinality(Tokens(p)) + k
  <1> DEFINE I == (p[f] + 1) .. (p[f] + k)
             N == {f} \X I
  <1>1. IsFiniteSet(I) /\ Cardinality(I) = k
    <2>1. p[f] + 1 \in Int /\ p[f] + k \in Int
      OBVIOUS
    <2>2. /\ IsFiniteSet(I)
          /\ Cardinality(I) = IF p[f] + 1 > p[f] + k THEN 0 ELSE (p[f] + k) - (p[f] + 1) + 1
      BY <2>1, FS_Interval
    <2> QED  BY <2>2
  <1>2. IsFiniteSet({f}) /\ Cardinality({f}) = 1
    BY FS_Singleton
  <1> HIDE DEF I
  <1>3. IsFiniteSet(N) /\ Cardinality(N) = k
    <2>1. IsFiniteSet({f} \X I) /\ Cardinality({f} \X I) = Cardinality({f}) * Cardinality(I)
      BY <1>1, <1>2, FS_Product
    <2> QED  BY <1>1, <1>2, <2>1
  <1>4. Tokens(q) = Tokens(p) \union N
    <2>1. ASSUME NEW x PROVE x \in Tokens(q) <=> x \in Tokens(p) \union N
      <3>1. x \in N <=> \E i \in I : x = <<f, i>>
        OBVIOUS
      <3>2. \A g \in Fibers : q[g] = IF g = f THEN p[f] + k ELSE p[g]
        OBVIOUS
      <3>3. x \in Tokens(q) => x \in Tokens(p) \union N
        <4> SUFFICES ASSUME x \in Tokens(q) PROVE x \in Tokens(p) \union N
          OBVIOUS
        <4>1. PICK g \in Fibers : \E i \in 1 .. q[g] : x = <<g, i>>
          BY TokensMember
        <4>2. PICK i \in 1 .. q[g] : x = <<g, i>>
          BY <4>1
        <4>3. CASE g = f /\ i > p[f]
          BY <3>1, <3>2, <4>2, <4>3 DEF I
        <4>4. CASE ~(g = f /\ i > p[f])
          <5>1. i \in 1 .. p[g]
            BY <3>2, <4>4
          <5> QED  BY <4>2, <5>1, TokensMember
        <4> QED  BY <4>3, <4>4
      <3>4. x \in Tokens(p) => x \in Tokens(q)
        <4> SUFFICES ASSUME x \in Tokens(p) PROVE x \in Tokens(q)
          OBVIOUS
        <4>1. PICK g \in Fibers : \E i \in 1 .. p[g] : x = <<g, i>>
          BY TokensMember
        <4>2. PICK i \in 1 .. p[g] : x = <<g, i>>
          BY <4>1
        <4>3. i \in 1 .. q[g]
          BY <3>2
        <4> QED  BY <4>2, <4>3, TokensMember
      <3>5. x \in N => x \in Tokens(q)
        <4> SUFFICES ASSUME x \in N PROVE x \in Tokens(q)
          OBVIOUS
        <4>1. PICK i \in I : x = <<f, i>>
          BY <3>1
        <4>2. i \in 1 .. q[f]
          BY <3>2 DEF I
        <4> QED  BY <4>1, <4>2, TokensMember
      <3> QED  BY <3>3, <3>4, <3>5
    <2> QED  BY <2>1
  <1>5. Tokens(p) \intersect N = {}
    <2> SUFFICES ASSUME NEW x \in Tokens(p), x \in N PROVE FALSE
      OBVIOUS
    <2>1. PICK g \in Fibers : \E i \in 1 .. p[g] : x = <<g, i>>
      BY TokensMember
    <2>2. PICK i \in 1 .. p[g] : x = <<g, i>>
      BY <2>1
    <2>3. PICK j \in I : x = <<f, j>>
      OBVIOUS
    <2>4. g = f /\ i = j
      BY <2>2, <2>3
    <2> QED  BY <2>2, <2>3, <2>4 DEF I
  <1> HIDE DEF N
  <1>6. Cardinality(Tokens(p)) \in Nat /\ Cardinality({}) = 0
    BY FS_CardinalityType, FS_EmptySet
  <1>7. /\ IsFiniteSet(Tokens(p) \union N)
        /\ Cardinality(Tokens(p) \union N)
              = Cardinality(Tokens(p)) + Cardinality(N) - Cardinality(Tokens(p) \intersect N)
    BY <1>3, FS_Union
  <1>8. Cardinality(Tokens(p) \intersect N) = 0
    BY <1>5, <1>6, Zenon
  <1>9. IsFiniteSet(Tokens(q)) /\ Cardinality(Tokens(q)) = Cardinality(Tokens(p) \union N)
    BY <1>4, <1>7, Zenon
  <1> QED  BY <1>3, <1>6, <1>7, <1>8, <1>9

\* k permits less are k tokens less.
LEMMA TokensShrink ==
    ASSUME NEW p \in [Fibers -> Nat], NEW q \in [Fibers -> Nat],
           NEW f \in Fibers, NEW k \in Nat,
           p[f] = q[f] + k, \A g \in Fibers \ {f} : p[g] = q[g],
           IsFiniteSet(Tokens(p))
    PROVE  IsFiniteSet(Tokens(q)) /\ Cardinality(Tokens(q)) = Cardinality(Tokens(p)) - k
  <1>1. Tokens(q) \subseteq Tokens(p)
    <2> SUFFICES ASSUME NEW x \in Tokens(q) PROVE x \in Tokens(p)
      OBVIOUS
    <2>1. PICK g \in Fibers : \E i \in 1 .. q[g] : x = <<g, i>>
      BY TokensMember
    <2>2. PICK i \in 1 .. q[g] : x = <<g, i>>
      BY <2>1
    <2>3. i \in 1 .. p[g]
      OBVIOUS
    <2> QED  BY <2>2, <2>3, TokensMember
  <1>2. IsFiniteSet(Tokens(q))
    BY <1>1, FS_Subset
  <1>3. Cardinality(Tokens(p)) = Cardinality(Tokens(q)) + k
    BY <1>2, TokensGrow, SMTT(30)
  <1>4. Cardinality(Tokens(q)) \in Nat
    BY <1>2, FS_CardinalityType
  <1> QED  BY <1>2, <1>3, <1>4

\* A fiber past its loop has got what it asked for.
Settled ==
    \A f \in Fibers : pc[f] \in {"submit", "left", "cancel", "crashed"} => taken[f] = want[f]

PermitInv ==
    /\ QueueInv
    /\ ~m_timedout => IsFiniteSet(Held) /\ Settled /\ timer # "notify"
    /\ PermitsExact

\* How the tokens follow the permits of one fiber in a step.
LEMMA HeldGrows ==
    ASSUME TypeOK, TypeOK', IsFiniteSet(Held), NEW f \in Fibers, NEW k \in Nat,
           Permits(f)' = Permits(f) + k,
           \A g \in Fibers \ {f} : Permits(g)' = Permits(g)
    PROVE  IsFiniteSet(Held)' /\ Cardinality(Held)' = Cardinality(Held) + k
  <1>0. \A g \in Fibers : Permits(g) \in Nat /\ Permits(g)' \in Nat
    <2>1. \A g \in Fibers : taken[g] \in Nat /\ taken'[g] \in Nat
      BY DEF TypeOK
    <2> QED  BY <2>1 DEF Permits
  <1>1. Counts \in [Fibers -> Nat] /\ Counts' \in [Fibers -> Nat]
    BY <1>0 DEF Counts
  <1>2. Counts'[f] = Counts[f] + k /\ \A g \in Fibers \ {f} : Counts'[g] = Counts[g]
    BY DEF Counts
  <1>3. Held = Tokens(Counts) /\ Held' = Tokens(Counts')
    BY DEF Held, Tokens, Counts
  <1> HIDE DEF Counts, Held, Tokens
  <1> QED  BY <1>1, <1>2, <1>3, TokensGrow

LEMMA HeldShrinks ==
    ASSUME TypeOK, TypeOK', IsFiniteSet(Held), NEW f \in Fibers, NEW k \in Nat,
           Permits(f) = Permits(f)' + k,
           \A g \in Fibers \ {f} : Permits(g)' = Permits(g)
    PROVE  IsFiniteSet(Held)' /\ Cardinality(Held)' = Cardinality(Held) - k
  <1>0. \A g \in Fibers : Permits(g) \in Nat /\ Permits(g)' \in Nat
    <2>1. \A g \in Fibers : taken[g] \in Nat /\ taken'[g] \in Nat
      BY DEF TypeOK
    <2> QED  BY <2>1 DEF Permits
  <1>1. Counts \in [Fibers -> Nat] /\ Counts' \in [Fibers -> Nat]
    BY <1>0 DEF Counts
  <1>2. Counts[f] = Counts'[f] + k /\ \A g \in Fibers \ {f} : Counts[g] = Counts'[g]
    BY DEF Counts
  <1>3. Held = Tokens(Counts) /\ Held' = Tokens(Counts')
    BY DEF Held, Tokens, Counts
  <1> QED  BY <1>1, <1>2, <1>3, TokensShrink

LEMMA HeldStays ==
    ASSUME \A g \in Fibers : Permits(g)' = Permits(g)
    PROVE  Held' = Held
  BY DEF Held

LEMMA PermitInit == Init => PermitInv
  <1> SUFFICES ASSUME Init PROVE PermitInv
    OBVIOUS
  <1>1. QueueInv
    BY QueueInit
  <1>2. pc = [f \in Fibers |-> "idle"] /\ taken = [f \in Fibers |-> 0]
    BY Zenon DEF Init
  <1>3. m_concurrency = BatchSize /\ jobs = 0 /\ kept = 0 /\ throws = 0
    BY Zenon DEF Init
  <1>4. \A f \in Fibers : Permits(f) = 0
    BY <1>2 DEF Permits
  <1>5. Held = {}
    BY <1>4 DEF Held
  <1>6. IsFiniteSet(Held) /\ Cardinality(Held) = 0
    BY <1>5, FS_EmptySet, Zenon
  <1>7. Settled
    BY <1>2 DEF Settled
  <1>8. PermitsExact
    BY <1>3, <1>6, GroupAssumption DEF PermitsExact
  <1>9. timer # "notify"
    BY DEF Init
  <1> QED  BY <1>1, <1>6, <1>7, <1>8, <1>9 DEF PermitInv

LEMMA PermitStep == PermitInv /\ [Next]_vars => PermitInv'
  <1> SUFFICES ASSUME PermitInv, [Next]_vars PROVE PermitInv'
    OBVIOUS
  <1>1. QueueInv' /\ TypeOK /\ TypeOK' /\ Phase
    BY QueueStep DEF PermitInv, QueueInv
  <1>2. CASE m_timedout'
    BY <1>1, <1>2 DEF PermitInv, PermitsExact
  <1>3. CASE ~m_timedout'
    <2>1. ~m_timedout
      BY <1>3 DEF Next, vars, Step, Wait, Resume, SetFinish, Loop, Submit, Left, CancelTimer, Call,
                  Join, DoWork, DoWorkThrows, TimerExpires, OnTimer, OnTimerNotifies, group
    <2>2. /\ IsFiniteSet(Held) /\ Settled /\ timer # "notify"
          /\ m_concurrency + Cardinality(Held) + jobs + kept + throws = BatchSize
          /\ Cardinality(Held) \in Nat
      BY <2>1, FS_CardinalityType DEF PermitInv, PermitsExact
    <2>0. timer' # "notify" /\ ~OnTimerNotifies
      BY <1>3, <2>2 DEF Next, vars, Step, Wait, Resume, SetFinish, Loop, Submit, Left, CancelTimer,
                  Call, Join, DoWork, DoWorkThrows, TimerExpires, OnTimer, OnTimerNotifies, group
    <2>3. SUFFICES /\ IsFiniteSet(Held)' /\ Settled'
                   /\ m_concurrency' + Cardinality(Held)' + jobs' + kept' + throws' = BatchSize
      BY <1>1, <2>0 DEF PermitInv, PermitsExact
    <2>4. \A f \in Fibers : taken[f] \in Nat /\ want[f] \in Nat
      BY <1>1 DEF TypeOK
    <2>5. ASSUME UNCHANGED <<m_concurrency, jobs, kept, throws>>,
                 \A g \in Fibers : Permits(g)' = Permits(g)
          PROVE  /\ IsFiniteSet(Held)'
                 /\ m_concurrency' + Cardinality(Held)' + jobs' + kept' + throws' = BatchSize
      <3>1. Held' = Held
        BY <2>5, HeldStays
      <3>2. IsFiniteSet(Held)' /\ Cardinality(Held)' = Cardinality(Held)
        BY <2>2, <3>1, Zenon
      <3> QED  BY <2>2, <2>5, <3>2
    <2>6. ASSUME NEW f \in Fibers, Wait(f)
          PROVE  /\ IsFiniteSet(Held)' /\ Settled'
                 /\ m_concurrency' + Cardinality(Held)' + jobs' + kept' + throws' = BatchSize
      <3>1. Settled'
        BY <1>1, <2>2, <2>6 DEF Wait, Goto, Settled, TypeOK
      <3>2. CASE m_concurrency > 0
        <4>1. /\ m_concurrency' = m_concurrency - 1 /\ UNCHANGED <<jobs, kept, throws>>
              /\ pc[f] = "wait" /\ pc' = [pc EXCEPT ![f] = "loop"]
              /\ taken' = [taken EXCEPT ![f] = @ + 1]
          BY <2>6, <3>2 DEF Wait, Goto
        <4>2. Permits(f)' = Permits(f) + 1 /\ \A g \in Fibers \ {f} : Permits(g)' = Permits(g)
          BY <1>1, <4>1 DEF Permits, TypeOK
        <4>3. IsFiniteSet(Held)' /\ Cardinality(Held)' = Cardinality(Held) + 1
          BY <1>1, <2>2, <4>2, HeldGrows
        <4> QED  BY <1>1, <2>2, <3>1, <4>1, <4>3 DEF TypeOK
      <3>3. CASE ~(m_concurrency > 0)
        <4>1. /\ UNCHANGED <<m_concurrency, taken, jobs, kept, throws>>
              /\ pc[f] = "wait" /\ pc' = [pc EXCEPT ![f] = "blocked"]
          BY <2>6, <3>3 DEF Wait, Goto
        <4>2. \A g \in Fibers : Permits(g)' = Permits(g)
          BY <1>1, <4>1 DEF Permits, TypeOK
        <4> QED  BY <2>5, <3>1, <4>1, <4>2
      <3> QED  BY <3>2, <3>3
    <2>7. ASSUME NEW f \in Fibers, Resume(f)
          PROVE  /\ IsFiniteSet(Held)' /\ Settled'
                 /\ m_concurrency' + Cardinality(Held)' + jobs' + kept' + throws' = BatchSize
      <3>1. Settled'
        BY <1>1, <2>2, <2>7 DEF Resume, Goto, Settled, TypeOK
      <3>2. \A g \in Fibers : Permits(g)' = Permits(g)
        BY <1>1, <2>7 DEF Resume, Goto, Permits, TypeOK
      <3> QED  BY <2>5, <2>7, <3>1, <3>2 DEF Resume, sem
    <2>8. ASSUME NEW f \in Fibers,
                 SetFinish(f) \/ Loop(f) \/ Join(f) \/ \E n \in Sizes : Call(f, n)
          PROVE  /\ IsFiniteSet(Held)' /\ Settled'
                 /\ m_concurrency' + Cardinality(Held)' + jobs' + kept' + throws' = BatchSize
      <3>1. CASE SetFinish(f)
        <4>1. Settled'
          BY <1>1, <2>2, <3>1 DEF SetFinish, Goto, Settled, TypeOK
        <4>2. \A g \in Fibers : Permits(g)' = Permits(g)
          BY <1>1, <3>1 DEF SetFinish, Goto, Permits, TypeOK
        <4> QED  BY <2>5, <3>1, <4>1, <4>2 DEF SetFinish, sem
      <3>2. CASE Loop(f)
        <4>1. /\ pc[f] = "loop"
              /\ \/ pc' = [pc EXCEPT ![f] = "wait"]
                 \/ pc' = [pc EXCEPT ![f] = "submit"] /\ taken[f] = want[f]
                 \/ pc' = [pc EXCEPT ![f] = "left"] /\ taken[f] = want[f]
              /\ UNCHANGED <<sem, want, taken, jobs, kept, throws>>
          BY <1>1, <2>1, <3>2 DEF Loop, Goto, Phase, Enough
        <4>2. Settled'
          BY <1>1, <2>2, <4>1 DEF Settled, TypeOK
        <4>3. \A g \in Fibers : Permits(g)' = Permits(g)
          BY <1>1, <4>1 DEF Permits, TypeOK
        <4> QED  BY <2>5, <4>1, <4>2, <4>3 DEF sem
      <3>3. CASE Join(f) \/ \E n \in Sizes : Call(f, n)
        <4>1. /\ pc[f] = "idle" /\ taken[f] = 0
              /\ taken' = [taken EXCEPT ![f] = 0]
              /\ pc' = [pc EXCEPT ![f] = "finish"] \/ pc' = [pc EXCEPT ![f] = "loop"]
              /\ \A g \in Fibers \ {f} : want'[g] = want[g]
              /\ UNCHANGED <<sem, jobs, kept, throws>>
          BY <1>1, <3>3 DEF Join, Call, Goto, Phase, TypeOK
        <4>2. Settled'
          BY <1>1, <2>2, <4>1 DEF Settled, TypeOK
        <4>3. \A g \in Fibers : Permits(g)' = Permits(g)
          BY <1>1, <4>1 DEF Permits, TypeOK
        <4> QED  BY <2>5, <4>1, <4>2, <4>3 DEF sem
      <3> QED  BY <2>8, <3>1, <3>2, <3>3
    <2>9. ASSUME NEW f \in Fibers, Submit(f)
          PROVE  /\ IsFiniteSet(Held)' /\ Settled'
                 /\ m_concurrency' + Cardinality(Held)' + jobs' + kept' + throws' = BatchSize
      <3>1. /\ pc[f] = "submit" /\ pc' = [pc EXCEPT ![f] = "idle"] /\ taken[f] = want[f]
            /\ taken' = [taken EXCEPT ![f] = 0]
            /\ jobs' = jobs + taken[f] /\ UNCHANGED <<m_concurrency, want, kept, throws>>
        BY <2>2, <2>9 DEF Submit, Goto, Settled, sem
      <3>2. Settled'
        BY <1>1, <2>2, <3>1 DEF Settled, TypeOK
      <3>3. Permits(f) = Permits(f)' + taken[f] /\ \A g \in Fibers \ {f} : Permits(g)' = Permits(g)
        BY <1>1, <3>1 DEF Permits, TypeOK
      <3>4. IsFiniteSet(Held)' /\ Cardinality(Held)' = Cardinality(Held) - taken[f]
        BY <1>1, <2>2, <2>4, <3>3, HeldShrinks
      <3> QED  BY <1>1, <2>2, <2>4, <3>1, <3>2, <3>4 DEF TypeOK
    <2>10. ASSUME NEW f \in Fibers, pc[f] \in {"left", "cancel"}, Return(f),
                  UNCHANGED <<m_concurrency, want, jobs, throws>>
           PROVE  /\ IsFiniteSet(Held)' /\ Settled'
                  /\ m_concurrency' + Cardinality(Held)' + jobs' + kept' + throws' = BatchSize
      <3>1. /\ pc' = [pc EXCEPT ![f] = "idle"] /\ taken' = [taken EXCEPT ![f] = 0]
            /\ kept' = kept + taken[f]
        BY <2>10 DEF Return, Goto
      <3>2. Settled'
        BY <1>1, <2>2, <2>10, <3>1 DEF Settled, TypeOK
      <3>3. Permits(f) = Permits(f)' + taken[f] /\ \A g \in Fibers \ {f} : Permits(g)' = Permits(g)
        BY <1>1, <2>10, <3>1 DEF Permits, TypeOK
      <3>4. IsFiniteSet(Held)' /\ Cardinality(Held)' = Cardinality(Held) - taken[f]
        BY <1>1, <2>2, <2>4, <3>3, HeldShrinks
      <3> QED  BY <1>1, <2>2, <2>4, <2>10, <3>1, <3>2, <3>4 DEF TypeOK
    <2>11. ASSUME NEW f \in Fibers, Left(f) \/ CancelTimer(f)
           PROVE  /\ IsFiniteSet(Held)' /\ Settled'
                  /\ m_concurrency' + Cardinality(Held)' + jobs' + kept' + throws' = BatchSize
      <3>1. /\ pc[f] \in {"left", "cancel"} /\ UNCHANGED <<m_concurrency, want, jobs, throws>>
            /\ \/ Return(f)
               \/ Goto(f, "cancel") /\ UNCHANGED <<taken, kept>>
               \/ Goto(f, "crashed") /\ UNCHANGED <<taken, kept>>
        BY <2>11, Zenon DEF Left, CancelTimer, sem
      <3>2. CASE Return(f)
        BY <2>10, <3>1, <3>2
      <3>3. CASE ~Return(f)
        <4>1. Settled'
          BY <1>1, <2>2, <3>1, <3>3 DEF Goto, Settled, TypeOK
        <4>2. \A g \in Fibers : Permits(g)' = Permits(g)
          BY <1>1, <3>1, <3>3 DEF Goto, Permits, TypeOK
        <4> QED  BY <2>5, <3>1, <3>3, <4>1, <4>2
      <3> QED  BY <3>2, <3>3
    <2>12. ASSUME DoWork
           PROVE  /\ IsFiniteSet(Held)' /\ Settled'
                  /\ m_concurrency' + Cardinality(Held)' + jobs' + kept' + throws' = BatchSize
      <3>1. /\ jobs' = jobs - 1 /\ UNCHANGED <<want, taken, kept, throws>>
            /\ \/ pc' = pc /\ m_concurrency' = m_concurrency + 1
               \/ \E h \in Fibers : /\ pc[h] = "blocked"
                                    /\ pc' = [pc EXCEPT ![h] = "woken"]
                                    /\ m_concurrency' = m_concurrency
        BY <2>12, NotifyFacts DEF DoWork, PermitInv
      <3>2. CASE pc' = pc /\ m_concurrency' = m_concurrency + 1
        <4>1. Settled' /\ \A g \in Fibers : Permits(g)' = Permits(g)
          BY <2>2, <3>1, <3>2 DEF Settled, Permits
        <4>2. Held' = Held
          BY <4>1, HeldStays
        <4>3. IsFiniteSet(Held)' /\ Cardinality(Held)' = Cardinality(Held)
          BY <2>2, <4>2, Zenon
        <4> QED  BY <1>1, <2>2, <3>1, <3>2, <4>1, <4>3 DEF TypeOK
      <3>3. ASSUME NEW h \in Fibers, pc[h] = "blocked", pc' = [pc EXCEPT ![h] = "woken"],
                   m_concurrency' = m_concurrency
            PROVE  /\ IsFiniteSet(Held)' /\ Settled'
                   /\ m_concurrency' + Cardinality(Held)' + jobs' + kept' + throws' = BatchSize
        <4>1. Settled'
          BY <1>1, <2>2, <3>1, <3>3 DEF Settled, TypeOK
        <4>2. Permits(h)' = Permits(h) + 1 /\ \A g \in Fibers \ {h} : Permits(g)' = Permits(g)
          BY <1>1, <3>1, <3>3 DEF Permits, TypeOK
        <4>3. IsFiniteSet(Held)' /\ Cardinality(Held)' = Cardinality(Held) + 1
          BY <1>1, <2>2, <4>2, HeldGrows
        <4> QED  BY <1>1, <2>2, <3>1, <3>3, <4>1, <4>3 DEF TypeOK
      <3> QED  BY <3>1, <3>2, <3>3
    <2>13. ASSUME DoWorkThrows
           PROVE  /\ IsFiniteSet(Held)' /\ Settled'
                  /\ m_concurrency' + Cardinality(Held)' + jobs' + kept' + throws' = BatchSize
      <3>1. /\ jobs' = jobs - 1 /\ throws' = throws + 1
            /\ UNCHANGED <<m_concurrency, pc, want, taken, kept>>
        BY <2>13 DEF DoWorkThrows, sem
      <3>2. Settled' /\ \A g \in Fibers : Permits(g)' = Permits(g)
        BY <2>2, <3>1 DEF Settled, Permits
      <3>3. Held' = Held
        BY <3>2, HeldStays
      <3>4. IsFiniteSet(Held)' /\ Cardinality(Held)' = Cardinality(Held)
        BY <2>2, <3>3, Zenon
      <3>5. /\ m_concurrency \in Nat /\ jobs \in Nat /\ kept \in Nat /\ throws \in Nat
        BY <1>1, GroupAssumption DEF TypeOK
      <3>6. m_concurrency' + Cardinality(Held)' + jobs' + kept' + throws' = BatchSize
        BY <2>2, <3>1, <3>4, <3>5
      <3> QED  BY <3>2, <3>4, <3>6
    <2>14. ASSUME TimerExpires \/ OnTimer \/ UNCHANGED vars
           PROVE  /\ IsFiniteSet(Held)' /\ Settled'
                  /\ m_concurrency' + Cardinality(Held)' + jobs' + kept' + throws' = BatchSize
      <3>1. UNCHANGED <<m_concurrency, pc, want, taken, jobs, kept, throws>>
        BY <2>14, Zenon DEF TimerExpires, OnTimer, vars, sem
      <3>2. Settled' /\ \A g \in Fibers : Permits(g)' = Permits(g)
        BY <2>2, <3>1 DEF Settled, Permits
      <3> QED  BY <2>5, <3>1, <3>2
    <2> QED
      BY <2>0, <2>6, <2>7, <2>8, <2>9, <2>11, <2>12, <2>13, <2>14, GroupAssumption
         DEF Next, Step
  <1> QED  BY <1>2, <1>3

\* Permits are neither forged nor dropped between wait(), notify(), doWork()
\* and waitAll() until the timer of a TimedWorkerGroup fires.
THEOREM PermitsCorrect == Spec => []PermitsExact
  <1>1. PermitInv => PermitsExact
    BY DEF PermitInv
  <1> QED  BY PermitInit, PermitStep, <1>1, PTL DEF Spec

\* A group has at most m_batchSize callbacks under way.
THEOREM BatchCorrect == Spec => []AtMostBatch
  <1>1. PermitInv => AtMostBatch
    <2> SUFFICES ASSUME PermitInv, ~m_timedout PROVE jobs <= BatchSize
      BY DEF AtMostBatch
    <2>1. Cardinality(Held) \in Nat
      BY FS_CardinalityType DEF PermitInv
    <2> QED  BY <2>1, GroupAssumption DEF PermitInv, PermitsExact, QueueInv, TypeOK
  <1> QED  BY PermitInit, PermitStep, <1>1, PTL DEF Spec

\* waitAll() leaves its loop, without the timeout, only when no callback is
\* under way and no other fiber has a permit to start one.
THEOREM BarrierCorrect == Spec => []WaitAllIsBarrier
  <1>1. PermitInv => WaitAllIsBarrier
    <2> SUFFICES ASSUME PermitInv, ~m_timedout, NEW f \in Fibers, pc[f] \in {"left", "cancel"}
                 PROVE  /\ jobs = 0
                        /\ \A g \in Fibers \ {f} :
                              Permits(g) = 0 /\ (want[g] > 0 => pc[g] # "submit")
      BY DEF WaitAllIsBarrier
    <2>1. TypeOK /\ Phase /\ Settled /\ IsFiniteSet(Held)
      BY DEF PermitInv, QueueInv
    <2>2. Permits(f) = BatchSize
      BY <2>1, GroupAssumption DEF Phase, Settled, Permits, TypeOK
    <2> DEFINE Mine == {f} \X (1 .. BatchSize)
    <2>3. IsFiniteSet(Mine) /\ Cardinality(Mine) = BatchSize
      <3>1. IsFiniteSet(1 .. BatchSize) /\ Cardinality(1 .. BatchSize) = BatchSize
        BY FS_Interval, GroupAssumption
      <3>2. IsFiniteSet({f}) /\ Cardinality({f}) = 1
        BY FS_Singleton
      <3>3. /\ IsFiniteSet({f} \X (1 .. BatchSize))
            /\ Cardinality({f} \X (1 .. BatchSize)) = Cardinality({f}) * Cardinality(1 .. BatchSize)
        BY <3>1, <3>2, FS_Product
      <3> QED  BY <3>1, <3>2, <3>3, GroupAssumption
    <2>4. Mine \subseteq Held
      BY <2>2 DEF Held
    <2> HIDE DEF Mine
    <2>5. /\ Cardinality(Held) \in Nat /\ BatchSize <= Cardinality(Held)
          /\ Cardinality(Held) = BatchSize => Held = Mine
      BY <2>1, <2>3, <2>4, FS_Subset, FS_CardinalityType
    <2>6. m_concurrency + Cardinality(Held) + jobs + kept + throws = BatchSize
      BY DEF PermitInv, PermitsExact
    <2>7. jobs = 0 /\ Cardinality(Held) = BatchSize
      BY <2>1, <2>5, <2>6, GroupAssumption DEF TypeOK
    <2>8. Held = Mine
      BY <2>5, <2>7
    <2>9. ASSUME NEW g \in Fibers \ {f} PROVE Permits(g) = 0
      <3>1. Permits(g) \in Nat
        BY <2>1 DEF Permits, TypeOK
      <3>2. CASE Permits(g) >= 1
        <4>1. <<g, 1>> \in Held
          BY <3>1, <3>2 DEF Held
        <4>2. <<g, 1>> \notin Mine
          BY DEF Mine
        <4> QED  BY <2>8, <4>1, <4>2, Zenon
      <3> QED  BY <3>1, <3>2
    <2>10. ASSUME NEW g \in Fibers \ {f}, pc[g] = "submit" PROVE ~(want[g] > 0)
      <3>1. taken[g] = want[g] /\ taken[g] \in Nat
        BY <2>1, <2>10 DEF Settled, TypeOK
      <3>2. Permits(g) = taken[g]
        BY <2>10, <3>1 DEF Permits
      <3> QED  BY <2>9, <3>1, <3>2
    <2> QED  BY <2>7, <2>9, <2>10
  <1> QED  BY PermitInit, PermitStep, <1>1, PTL DEF Spec
=============================================================================
