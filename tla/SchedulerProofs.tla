-------------------------- MODULE SchedulerProofs --------------------------
(***************************************************************************)
(* Theorems about Scheduler, for every pool, every set of jobs and every   *)
(* choice of the constants.                                                *)
(***************************************************************************)
EXTENDS Scheduler, FiniteSetTheorems, SequenceTheorems, TLAPS

(***************************************************************************)
(* Lemmas on the data the model is built from.                             *)
(***************************************************************************)

\* Erasing entry i of a list keeps the other entries, in order.
LEMMA RemoveAtFacts ==
    ASSUME NEW S, NEW s \in Seq(S), NEW i \in DOMAIN s
    PROVE  /\ RemoveAt(s, i) \in Seq(S)
           /\ Len(RemoveAt(s, i)) = Len(s) - 1
           /\ \A k \in 1 .. Len(s) - 1 :
                 RemoveAt(s, i)[k] = IF k < i THEN s[k] ELSE s[k + 1]
  <1> DEFINE a == SubSeq(s, 1, i - 1)
             b == SubSeq(s, i + 1, Len(s))
  <1>1. /\ a \in Seq(S)
        /\ Len(a) = i - 1
        /\ \A k \in 1 .. i - 1 : a[k] = s[k]
    OBVIOUS
  <1>2. /\ b \in Seq(S)
        /\ Len(b) = Len(s) - i
        /\ \A k \in 1 .. Len(s) - i : b[k] = s[i + k]
    OBVIOUS
  <1>3. RemoveAt(s, i) = a \o b
    BY DEF RemoveAt
  <1>4. i \in 1 .. Len(s) /\ Len(s) \in Nat
    OBVIOUS
  <1> HIDE DEF a, b
  <1>5. /\ a \o b \in Seq(S)
        /\ Len(a \o b) = Len(s) - 1
        /\ \A k \in 1 .. Len(s) - 1 :
              (a \o b)[k] = IF k < i THEN a[k] ELSE b[k - (i - 1)]
    <2>1. /\ a \o b \in Seq(S)
          /\ Len(a \o b) = Len(a) + Len(b)
          /\ \A k \in 1 .. Len(a) + Len(b) :
                (a \o b)[k] = IF k <= Len(a) THEN a[k] ELSE b[k - Len(a)]
      BY <1>1, <1>2, ConcatProperties, Zenon
    <2>2. Len(a) + Len(b) = Len(s) - 1
      BY <1>1, <1>2, <1>4
    <2>3. ASSUME NEW k \in 1 .. Len(s) - 1
          PROVE  (a \o b)[k] = IF k < i THEN a[k] ELSE b[k - (i - 1)]
      <3>1. (a \o b)[k] = IF k <= i - 1 THEN a[k] ELSE b[k - (i - 1)]
        BY <2>1, <2>2, <1>1
      <3>2. (k <= i - 1) <=> (k < i)
        BY <1>4
      <3> QED  BY <3>1, <3>2, Zenon
    <2> QED  BY <2>1, <2>2, <2>3
  <1>6. ASSUME NEW k \in 1 .. Len(s) - 1
        PROVE  (a \o b)[k] = IF k < i THEN s[k] ELSE s[k + 1]
    <2>1. CASE k < i
      BY <1>1, <1>4, <1>5, <2>1
    <2>2. CASE ~(k < i)
      <3>1. k - (i - 1) \in 1 .. Len(s) - i /\ i + (k - (i - 1)) = k + 1
        BY <1>4, <2>2
      <3>2. b[k - (i - 1)] = s[i + (k - (i - 1))]
        BY <1>2, <3>1
      <3> QED  BY <1>5, <2>2, <3>1, <3>2
    <2> QED  BY <2>1, <2>2
  <1> QED  BY <1>3, <1>5, <1>6

-----------------------------------------------------------------------------
(***************************************************************************)
(* Type correctness and exact counters.  The counters are naturals only    *)
(* because each decrement follows an increment of the same thread, so the  *)
(* type invariant is proved together with what the counters count.         *)
(***************************************************************************)

\* m_idleThreadCount is the number of threads inside their idle fiber.
IdleExact == m_idleThreadCount = Cardinality({t \in Threads : pc[t] \in {"idle"}})

\* A thread holds a job exactly while it is between taking and settling it.
JobHeld ==
    \A t \in Threads : IF pc[t] \in OnJob THEN ft[t] \in Jobs ELSE ft[t] = None

\* No thread is in run() before start(), nor the caller before stop().
OwnerPc ==
    /\ owner = "built" => \A t \in Threads : pc[t] = "off"
    /\ UseCaller /\ owner \in {"built", "running", "autoStop", "stopping"}
          => pc[Caller] = "off"

BaseInv == TypeOK /\ ActiveExact /\ IdleExact /\ JobHeld /\ OwnerPc

LEMMA ThreadsFinite == IsFiniteSet(Threads)
  <1>1. IsFiniteSet(Pool) /\ IsFiniteSet({Caller}) /\ IsFiniteSet({})
    BY ThreadAssumption, FS_Singleton, FS_EmptySet
  <1> QED  BY <1>1, FS_Union DEF Threads

\* A thread that goes from one place to another keeps the counters exact if
\* it counts itself in and out.
LEMMA GotoCounts ==
    ASSUME TypeOK, ActiveExact, IdleExact,
           NEW t \in Threads, NEW l \in Pc, Goto(t, l),
           m_activeThreadCount' = m_activeThreadCount
               + (IF l \in Active THEN 1 ELSE 0) - (IF pc[t] \in Active THEN 1 ELSE 0),
           m_idleThreadCount' = m_idleThreadCount
               + (IF l = "idle" THEN 1 ELSE 0) - (IF pc[t] = "idle" THEN 1 ELSE 0)
    PROVE  ActiveExact' /\ IdleExact' /\ m_activeThreadCount' \in Nat
               /\ m_idleThreadCount' \in Nat
  <1>1. pc \in [Threads -> Pc] /\ pc' = [pc EXCEPT ![t] = l]
    BY DEF TypeOK, Goto
  <1>2. Active \in SUBSET Pc /\ {"idle"} \in SUBSET Pc
    BY DEF Active, Pc
  <1> DEFINE B(A) == {u \in Threads : pc[u] \in A}
             C(A) == {u \in Threads : pc'[u] \in A}
  <1>3. ASSUME NEW A \in SUBSET Pc
        PROVE  /\ Cardinality(B(A)) \in Nat
               /\ (pc[t] \in A <=> l \in A) => Cardinality(C(A)) = Cardinality(B(A))
               /\ pc[t] \notin A /\ l \in A =>
                     Cardinality(C(A)) = Cardinality(B(A)) + 1
               /\ pc[t] \in A /\ l \notin A =>
                     /\ Cardinality(C(A)) = Cardinality(B(A)) - 1
                     /\ Cardinality(B(A)) > 0
    <2>1. IsFiniteSet(B(A))
      BY ThreadsFinite, FS_Subset
    <2>2. Cardinality(B(A)) \in Nat
      BY <2>1, FS_CardinalityType
    <2>3. (pc[t] \in A <=> l \in A) => B(A) = C(A)
      BY <1>1
    <2>4. pc[t] \notin A /\ l \in A => C(A) = B(A) \union {t} /\ t \notin B(A)
      BY <1>1
    <2>5. pc[t] \in A /\ l \notin A => C(A) = B(A) \ {t} /\ t \in B(A)
      BY <1>1
    <2> HIDE DEF B, C
    <2>6. pc[t] \notin A /\ l \in A => Cardinality(C(A)) = Cardinality(B(A)) + 1
      BY <2>1, <2>4, FS_AddElement
    <2>7. pc[t] \in A /\ l \notin A =>
             Cardinality(C(A)) = Cardinality(B(A)) - 1 /\ Cardinality(B(A)) > 0
      BY <2>1, <2>2, <2>5, FS_RemoveElement, FS_EmptySet
    <2> QED  BY <2>2, <2>3, <2>6, <2>7
  <1>4. /\ m_activeThreadCount = Cardinality(B(Active))
        /\ m_idleThreadCount = Cardinality(B({"idle"}))
    BY DEF ActiveExact, IdleExact
  <1> HIDE DEF B, C
  <1>5. m_activeThreadCount' = Cardinality(C(Active)) /\ m_activeThreadCount' \in Nat
    BY <1>2, <1>3, <1>4
  <1>6. m_idleThreadCount' = Cardinality(C({"idle"})) /\ m_idleThreadCount' \in Nat
    BY <1>2, <1>3, <1>4
  <1> QED  BY <1>5, <1>6 DEF ActiveExact, IdleExact, C

\* start() and the creation of the scheduler establish the invariant.
LEMMA BaseInit == Init => BaseInv
  <1> SUFFICES ASSUME Init PROVE BaseInv
    OBVIOUS
  <1>1. TypeOK
    <2>1. m_fibers \in Seq(Entry)
      BY DEF Init
    <2>2. m_state \in [Jobs -> State] /\ pc \in [Threads -> Pc] /\ owner \in Owner
      BY DEF Init, State, Pc, Owner
    <2> QED  BY <2>1, <2>2 DEF Init, TypeOK
  <1>2. {t \in Threads : pc[t] \in Active} = {} /\ {t \in Threads : pc[t] \in {"idle"}} = {}
    BY DEF Init, Active
  <1>3. ActiveExact /\ IdleExact
    BY <1>2, FS_EmptySet DEF Init, ActiveExact, IdleExact
  <1>4. JobHeld /\ OwnerPc
    BY ThreadAssumption DEF Init, JobHeld, OwnerPc, OnJob, Active, Threads
  <1> QED  BY <1>1, <1>3, <1>4 DEF BaseInv

\* Every step of every action keeps it.
LEMMA BaseStep == BaseInv /\ [Next]_vars => BaseInv'
  <1> SUFFICES ASSUME BaseInv, [Next]_vars PROVE BaseInv'
    OBVIOUS
  <1> USE DEF BaseInv
  <1>c. UseCaller => Caller \in Threads
    BY DEF Threads
  <1>1. ASSUME NEW t \in Threads, Take(t) PROVE BaseInv'
    <2>1. PICK i \in DOMAIN m_fibers :
             m_fibers' = RemoveAt(m_fibers, i) /\ ft' = [ft EXCEPT ![t] = m_fibers[i].job]
      BY <1>1 DEF Take
    <2>2. m_fibers' \in Seq(Entry) /\ m_fibers[i] \in Entry
      BY <2>1, RemoveAtFacts DEF TypeOK
    <2>3. ActiveExact' /\ IdleExact' /\ m_activeThreadCount' \in Nat /\ m_idleThreadCount' \in Nat
      <3>1. /\ Goto(t, "dispatch") /\ "dispatch" \in Pc
            /\ m_activeThreadCount' = m_activeThreadCount
                  + (IF "dispatch" \in Active THEN 1 ELSE 0) - (IF pc[t] \in Active THEN 1 ELSE 0)
            /\ m_idleThreadCount' = m_idleThreadCount
                  + (IF "dispatch" = "idle" THEN 1 ELSE 0) - (IF pc[t] = "idle" THEN 1 ELSE 0)
        BY <1>1 DEF Take, Pc, Active, TypeOK
      <3> QED  BY <3>1, GotoCounts
    <2>4. TypeOK' /\ JobHeld'
      BY <1>1, <2>1, <2>2, <2>3 DEF Take, Goto, flags, TypeOK, JobHeld, Entry, Pc, OnJob, Active
    <2>5. OwnerPc'
      BY <1>1, <1>c DEF Take, Goto, OwnerPc, TypeOK
    <2> QED  BY <2>3, <2>4, <2>5
  <1>2. ASSUME NEW t \in Threads, EnterIdle(t) PROVE BaseInv'
    <2>1. PICK l \in {"exited", "idle"} :
             /\ Goto(t, l)
             /\ m_activeThreadCount' = m_activeThreadCount
                   + (IF l \in Active THEN 1 ELSE 0) - (IF pc[t] \in Active THEN 1 ELSE 0)
             /\ m_idleThreadCount' = m_idleThreadCount
                   + (IF l = "idle" THEN 1 ELSE 0) - (IF pc[t] = "idle" THEN 1 ELSE 0)
      BY <1>2 DEF EnterIdle, Active, TypeOK
    <2>2. ActiveExact' /\ IdleExact' /\ m_activeThreadCount' \in Nat /\ m_idleThreadCount' \in Nat
      BY <2>1, GotoCounts DEF Pc
    <2>3. TypeOK' /\ JobHeld'
      BY <1>2, <2>1, <2>2 DEF EnterIdle, Goto, queue, flags, TypeOK, JobHeld, Pc, OnJob, Active
    <2>4. OwnerPc'
      BY <1>2, <1>c DEF EnterIdle, Goto, OwnerPc, TypeOK
    <2> QED  BY <2>2, <2>3, <2>4
  <1>3. ASSUME NEW t \in Threads, Idle(t) PROVE BaseInv'
    <2>1. /\ Goto(t, "loop") /\ "loop" \in Pc
          /\ m_activeThreadCount' = m_activeThreadCount
                + (IF "loop" \in Active THEN 1 ELSE 0) - (IF pc[t] \in Active THEN 1 ELSE 0)
          /\ m_idleThreadCount' = m_idleThreadCount
                + (IF "loop" = "idle" THEN 1 ELSE 0) - (IF pc[t] = "idle" THEN 1 ELSE 0)
      BY <1>3 DEF Idle, Pc, Active, TypeOK
    <2>2. ActiveExact' /\ IdleExact' /\ m_activeThreadCount' \in Nat /\ m_idleThreadCount' \in Nat
      BY <2>1, GotoCounts
    <2>3. TypeOK' /\ JobHeld'
      BY <1>3, <2>2 DEF Idle, Goto, queue, flags, TypeOK, JobHeld, Pc, OnJob, Active
    <2>4. OwnerPc'
      BY <1>3, <1>c DEF Idle, Goto, OwnerPc, TypeOK
    <2> QED  BY <2>2, <2>3, <2>4
  <1>4. ASSUME NEW t \in Threads, Dispatch(t) PROVE BaseInv'
    <2>1. PICK l \in {"loop", "body"} :
             /\ Goto(t, l)
             /\ m_activeThreadCount' = m_activeThreadCount
                   + (IF l \in Active THEN 1 ELSE 0) - (IF pc[t] \in Active THEN 1 ELSE 0)
             /\ m_idleThreadCount' = m_idleThreadCount
                   + (IF l = "idle" THEN 1 ELSE 0) - (IF pc[t] = "idle" THEN 1 ELSE 0)
             /\ ft' = IF l = "loop" THEN [ft EXCEPT ![t] = None] ELSE ft
      BY <1>4 DEF Dispatch, Active, TypeOK
    <2>2. ActiveExact' /\ IdleExact' /\ m_activeThreadCount' \in Nat /\ m_idleThreadCount' \in Nat
      BY <2>1, GotoCounts DEF Pc
    <2>3. TypeOK' /\ JobHeld'
      BY <1>4, <2>1, <2>2 DEF Dispatch, Goto, SetState, queue, flags, TypeOK, JobHeld, State,
         Pc, OnJob, Active
    <2>4. OwnerPc'
      BY <1>4, <2>1, <1>c DEF Dispatch, Goto, OwnerPc, TypeOK
    <2> QED  BY <2>2, <2>3, <2>4
  <1>5. ASSUME NEW t \in Threads, YieldToReady(t) PROVE BaseInv'
    <2>1. /\ Goto(t, "swapOut") /\ "swapOut" \in Pc
          /\ m_activeThreadCount' = m_activeThreadCount
                + (IF "swapOut" \in Active THEN 1 ELSE 0) - (IF pc[t] \in Active THEN 1 ELSE 0)
          /\ m_idleThreadCount' = m_idleThreadCount
                + (IF "swapOut" = "idle" THEN 1 ELSE 0) - (IF pc[t] = "idle" THEN 1 ELSE 0)
      BY <1>5 DEF YieldToReady, counts, Pc, Active, TypeOK
    <2>2. ActiveExact' /\ IdleExact' /\ m_activeThreadCount' \in Nat /\ m_idleThreadCount' \in Nat
      BY <2>1, GotoCounts
    <2>3. ft[t] \in Jobs
      BY <1>5 DEF YieldToReady, JobHeld, OnJob, Active
    <2>4. TypeOK' /\ JobHeld'
      BY <1>5, <2>2, <2>3 DEF YieldToReady, Goto, SetState, Schedule, queue, flags, counts, TypeOK, JobHeld, Entry,
         State, Ended, Pc, OnJob, Active
    <2>5. OwnerPc'
      BY <1>5, <1>c DEF YieldToReady, Goto, OwnerPc, TypeOK
    <2> QED  BY <2>2, <2>4, <2>5
  <1>6. ASSUME NEW t \in Threads, SwapOut(t) PROVE BaseInv'
    <2>1. /\ Goto(t, "back") /\ "back" \in Pc
          /\ m_activeThreadCount' = m_activeThreadCount
                + (IF "back" \in Active THEN 1 ELSE 0) - (IF pc[t] \in Active THEN 1 ELSE 0)
          /\ m_idleThreadCount' = m_idleThreadCount
                + (IF "back" = "idle" THEN 1 ELSE 0) - (IF pc[t] = "idle" THEN 1 ELSE 0)
      BY <1>6 DEF SwapOut, counts, Pc, Active, TypeOK
    <2>2. ActiveExact' /\ IdleExact' /\ m_activeThreadCount' \in Nat /\ m_idleThreadCount' \in Nat
      BY <2>1, GotoCounts
    <2>3. ft[t] \in Jobs
      BY <1>6 DEF SwapOut, JobHeld, OnJob, Active
    <2>4. TypeOK' /\ JobHeld'
      BY <1>6, <2>2, <2>3 DEF SwapOut, Goto, SetState, Schedule, queue, flags, counts, TypeOK, JobHeld, Entry,
         State, Ended, Pc, OnJob, Active
    <2>5. OwnerPc'
      BY <1>6, <1>c DEF SwapOut, Goto, OwnerPc, TypeOK
    <2> QED  BY <2>2, <2>4, <2>5
  <1>7. ASSUME NEW t \in Threads, Back(t) PROVE BaseInv'
    <2>1. /\ Goto(t, "settle") /\ "settle" \in Pc
          /\ m_activeThreadCount' = m_activeThreadCount
                + (IF "settle" \in Active THEN 1 ELSE 0) - (IF pc[t] \in Active THEN 1 ELSE 0)
          /\ m_idleThreadCount' = m_idleThreadCount
                + (IF "settle" = "idle" THEN 1 ELSE 0) - (IF pc[t] = "idle" THEN 1 ELSE 0)
      BY <1>7 DEF Back, counts, Pc, Active, TypeOK
    <2>2. ActiveExact' /\ IdleExact' /\ m_activeThreadCount' \in Nat /\ m_idleThreadCount' \in Nat
      BY <2>1, GotoCounts
    <2>3. ft[t] \in Jobs
      BY <1>7 DEF Back, JobHeld, OnJob, Active
    <2>4. TypeOK' /\ JobHeld'
      BY <1>7, <2>2, <2>3 DEF Back, Goto, SetState, Schedule, queue, flags, counts, TypeOK, JobHeld, Entry,
         State, Ended, Pc, OnJob, Active
    <2>5. OwnerPc'
      BY <1>7, <1>c DEF Back, Goto, OwnerPc, TypeOK
    <2> QED  BY <2>2, <2>4, <2>5
  <1>8. ASSUME NEW t \in Threads, Settle(t) PROVE BaseInv'
    <2>1. /\ Goto(t, "loop") /\ "loop" \in Pc
          /\ m_activeThreadCount' = m_activeThreadCount
                + (IF "loop" \in Active THEN 1 ELSE 0) - (IF pc[t] \in Active THEN 1 ELSE 0)
          /\ m_idleThreadCount' = m_idleThreadCount
                + (IF "loop" = "idle" THEN 1 ELSE 0) - (IF pc[t] = "idle" THEN 1 ELSE 0)
      BY <1>8 DEF Settle, SettleTail, counts, Pc, Active, TypeOK
    <2>2. ActiveExact' /\ IdleExact' /\ m_activeThreadCount' \in Nat /\ m_idleThreadCount' \in Nat
      BY <2>1, GotoCounts
    <2>3. ft[t] \in Jobs
      BY <1>8 DEF Settle, JobHeld, OnJob, Active
    <2>4. m_fibers' \in Seq(Entry) /\ m_state' \in [Jobs -> State]
      <3>1. CASE m_state[ft[t]] = "READY"
        <4>1. Schedule(ft[t], NoPin) /\ m_state' = m_state
          BY <1>8, <3>1 DEF Settle, Ended
        <4>2. [job |-> ft[t], thread |-> NoPin] \in Entry
          BY <2>3 DEF Entry
        <4> QED  BY <4>1, <4>2 DEF Schedule, TypeOK
      <3>2. CASE m_state[ft[t]] \in Ended
        BY <1>8, <3>2 DEF Settle, Ended, TypeOK
      <3>3. CASE m_state[ft[t]] # "READY" /\ m_state[ft[t]] \notin Ended
        BY <1>8, <2>3, <3>3 DEF Settle, SetState, State, TypeOK
      <3> QED  BY <3>1, <3>2, <3>3
    <2>5. TypeOK' /\ JobHeld'
      BY <1>8, <2>2, <2>4 DEF Settle, SettleTail, Goto, flags, TypeOK, JobHeld, Pc, OnJob, Active
    <2>6. OwnerPc'
      BY <1>8, <1>c DEF Settle, SettleTail, Goto, OwnerPc, TypeOK
    <2> QED  BY <2>2, <2>5, <2>6
  <1>9. ASSUME NEW t \in Threads, YieldToHold(t) PROVE BaseInv'
    <2>1. /\ Goto(t, "swapOut") /\ "swapOut" \in Pc
          /\ m_activeThreadCount' = m_activeThreadCount
                + (IF "swapOut" \in Active THEN 1 ELSE 0) - (IF pc[t] \in Active THEN 1 ELSE 0)
          /\ m_idleThreadCount' = m_idleThreadCount
                + (IF "swapOut" = "idle" THEN 1 ELSE 0) - (IF pc[t] = "idle" THEN 1 ELSE 0)
      BY <1>9 DEF YieldToHold, counts, Pc, Active, TypeOK
    <2>2. ActiveExact' /\ IdleExact' /\ m_activeThreadCount' \in Nat /\ m_idleThreadCount' \in Nat
      BY <2>1, GotoCounts
    <2>3. ft[t] \in Jobs
      BY <1>9 DEF YieldToHold, JobHeld, OnJob, Active
    <2>4. TypeOK' /\ JobHeld'
      BY <1>9, <2>2, <2>3 DEF YieldToHold, Goto, SetState, Schedule, queue, flags, counts, TypeOK, JobHeld, Entry,
         State, Ended, Pc, OnJob, Active
    <2>5. OwnerPc'
      BY <1>9, <1>c DEF YieldToHold, Goto, OwnerPc, TypeOK
    <2> QED  BY <2>2, <2>4, <2>5
  <1>10. ASSUME NEW t \in Threads, Arm(t) PROVE BaseInv'
    <2>1. /\ Goto(t, "hold") /\ "hold" \in Pc
          /\ m_activeThreadCount' = m_activeThreadCount
                + (IF "hold" \in Active THEN 1 ELSE 0) - (IF pc[t] \in Active THEN 1 ELSE 0)
          /\ m_idleThreadCount' = m_idleThreadCount
                + (IF "hold" = "idle" THEN 1 ELSE 0) - (IF pc[t] = "idle" THEN 1 ELSE 0)
      BY <1>10 DEF Arm, counts, Pc, Active, TypeOK
    <2>2. ActiveExact' /\ IdleExact' /\ m_activeThreadCount' \in Nat /\ m_idleThreadCount' \in Nat
      BY <2>1, GotoCounts
    <2>3. ft[t] \in Jobs
      BY <1>10 DEF Arm, JobHeld, OnJob, Active
    <2>4. TypeOK' /\ JobHeld'
      BY <1>10, <2>2, <2>3 DEF Arm, Goto, SetState, Schedule, queue, flags, counts, TypeOK, JobHeld, Entry,
         State, Ended, Pc, OnJob, Active
    <2>5. OwnerPc'
      BY <1>10, <1>c DEF Arm, Goto, OwnerPc, TypeOK
    <2> QED  BY <2>2, <2>4, <2>5
  <1>11. ASSUME NEW t \in Threads, NEW u \in Threads, SwitchTo(t, u) PROVE BaseInv'
    <2>1. /\ Goto(t, "hold") /\ "hold" \in Pc
          /\ m_activeThreadCount' = m_activeThreadCount
                + (IF "hold" \in Active THEN 1 ELSE 0) - (IF pc[t] \in Active THEN 1 ELSE 0)
          /\ m_idleThreadCount' = m_idleThreadCount
                + (IF "hold" = "idle" THEN 1 ELSE 0) - (IF pc[t] = "idle" THEN 1 ELSE 0)
      BY <1>11 DEF SwitchTo, counts, Pc, Active, TypeOK
    <2>2. ActiveExact' /\ IdleExact' /\ m_activeThreadCount' \in Nat /\ m_idleThreadCount' \in Nat
      BY <2>1, GotoCounts
    <2>3. ft[t] \in Jobs
      BY <1>11 DEF SwitchTo, JobHeld, OnJob, Active
    <2>4. TypeOK' /\ JobHeld'
      BY <1>11, <2>2, <2>3 DEF SwitchTo, Goto, SetState, Schedule, queue, flags, counts, TypeOK, JobHeld, Entry,
         State, Ended, Pc, OnJob, Active
    <2>5. OwnerPc'
      BY <1>11, <1>c DEF SwitchTo, Goto, OwnerPc, TypeOK
    <2> QED  BY <2>2, <2>4, <2>5
  <1>12. ASSUME NEW t \in Threads, NEW e \in Ended, Finish(t, e) PROVE BaseInv'
    <2>1. /\ Goto(t, "swapOut") /\ "swapOut" \in Pc
          /\ m_activeThreadCount' = m_activeThreadCount
                + (IF "swapOut" \in Active THEN 1 ELSE 0) - (IF pc[t] \in Active THEN 1 ELSE 0)
          /\ m_idleThreadCount' = m_idleThreadCount
                + (IF "swapOut" = "idle" THEN 1 ELSE 0) - (IF pc[t] = "idle" THEN 1 ELSE 0)
      BY <1>12 DEF Finish, counts, Pc, Active, TypeOK
    <2>2. ActiveExact' /\ IdleExact' /\ m_activeThreadCount' \in Nat /\ m_idleThreadCount' \in Nat
      BY <2>1, GotoCounts
    <2>3. ft[t] \in Jobs
      BY <1>12 DEF Finish, JobHeld, OnJob, Active
    <2>4. TypeOK' /\ JobHeld'
      BY <1>12, <2>2, <2>3 DEF Finish, Goto, SetState, Schedule, queue, flags, counts, TypeOK, JobHeld, Entry,
         State, Ended, Pc, OnJob, Active
    <2>5. OwnerPc'
      BY <1>12, <1>c DEF Finish, Goto, OwnerPc, TypeOK
    <2> QED  BY <2>2, <2>4, <2>5
  <1>13. ASSUME NEW j \in Jobs, NEW pin \in Pins,
                Submit(j, pin) \/ \E t \in Threads : Spawn(t, j, pin) PROVE BaseInv'
    <2>1. pin \in Threads \union {NoPin}
      BY JobAssumption
    <2>2. /\ Schedule(j, pin) /\ submitted' = submitted \union {j}
          /\ UNCHANGED <<m_state, counts, flags, control, armed, owner>>
      BY <1>13 DEF Submit, Spawn
    <2> QED
      BY <2>1, <2>2 DEF Schedule, counts, flags, control, TypeOK, Entry, ActiveExact, IdleExact,
         JobHeld, OwnerPc
  <1>14. ASSUME NEW j \in Jobs, Wake(j) PROVE BaseInv'
    BY <1>14 DEF Wake, Schedule, counts, flags, control, TypeOK, Entry, ActiveExact, IdleExact,
       JobHeld, OwnerPc
  <1>15. ASSUME Start PROVE BaseInv'
    <2>1. \A t \in Threads : pc[t] = "off" /\ pc'[t] \in {"off", "loop"}
      BY <1>15 DEF Start, OwnerPc
    <2>2. /\ {t \in Threads : pc[t] \in Active} = {t \in Threads : pc'[t] \in Active}
          /\ {t \in Threads : pc[t] \in {"idle"}} = {t \in Threads : pc'[t] \in {"idle"}}
      BY <2>1 DEF Active
    <2>3. ActiveExact' /\ IdleExact'
      BY <1>15, <2>2 DEF Start, counts, ActiveExact, IdleExact
    <2>4. TypeOK' /\ JobHeld' /\ OwnerPc'
      BY <1>15, <2>1, <1>c, ThreadAssumption
      DEF Start, queue, counts, TypeOK, JobHeld, OwnerPc, OnJob, Active, Pc, Owner
    <2> QED  BY <2>3, <2>4
  <1>16. ASSUME StopCall \/ StopFlag PROVE BaseInv'
    BY <1>16 DEF StopCall, StopFlag, queue, counts, control, TypeOK, Owner, ActiveExact, IdleExact,
       JobHeld, OwnerPc
  <1>17. ASSUME StopRoot PROVE BaseInv'
    <2>1. CASE UseCaller /\ ~Stopping
      <3> DEFINE t == Caller
      <3>1. t \in Threads /\ pc[t] = "off"
        BY <1>17, <2>1, <1>c DEF StopRoot, OwnerPc
      <3> HIDE DEF t
      <3>2. /\ Goto(t, "loop") /\ "loop" \in Pc
            /\ m_activeThreadCount' = m_activeThreadCount
                  + (IF "loop" \in Active THEN 1 ELSE 0) - (IF pc[t] \in Active THEN 1 ELSE 0)
            /\ m_idleThreadCount' = m_idleThreadCount
                  + (IF "loop" = "idle" THEN 1 ELSE 0) - (IF pc[t] = "idle" THEN 1 ELSE 0)
        BY <1>17, <2>1, <3>1 DEF StopRoot, counts, Pc, Active, TypeOK, t
      <3>3. ActiveExact' /\ IdleExact'
        BY <3>1, <3>2, GotoCounts
      <3> QED
        BY <1>17, <2>1, <3>1, <3>3
        DEF StopRoot, Goto, queue, counts, flags, TypeOK, JobHeld, OwnerPc, OnJob, Active, Pc,
            Owner, t
    <2>2. CASE ~(UseCaller /\ ~Stopping)
      BY <1>17, <2>2 DEF StopRoot, queue, counts, flags, TypeOK, Owner, ActiveExact, IdleExact,
         JobHeld, OwnerPc
    <2> QED  BY <2>1, <2>2
  <1>18. ASSUME StopRootEnds \/ StopJoin PROVE BaseInv'
    BY <1>18 DEF StopRootEnds, StopJoin, queue, counts, flags, control, TypeOK, Owner, ActiveExact,
       IdleExact, JobHeld, OwnerPc
  <1>19. ASSUME UNCHANGED vars PROVE BaseInv'
    BY <1>19 DEF vars, TypeOK, ActiveExact, IdleExact, JobHeld, OwnerPc
  <1> QED
    BY <1>1, <1>2, <1>3, <1>4, <1>5, <1>6, <1>7, <1>8, <1>9, <1>10, <1>11, <1>12, <1>13, <1>14,
       <1>15, <1>16, <1>17, <1>18, <1>19 DEF Next, Run, Body, Stop, Done

\* Type correctness of the scheduler, for every pool and every set of jobs.
THEOREM TypeCorrect == Spec => []TypeOK
  <1>1. BaseInv => TypeOK
    BY DEF BaseInv
  <1> QED  BY BaseInit, BaseStep, <1>1, PTL DEF Spec

\* The active count on which stopping() relies is exact in every state of
\* every scheduler, also when a held job is taken too early.
THEOREM ActiveCorrect == Spec => []ActiveExact
  <1>1. BaseInv => ActiveExact
    BY DEF BaseInv
  <1> QED  BY BaseInit, BaseStep, <1>1, PTL DEF Spec

-----------------------------------------------------------------------------
(***************************************************************************)
(* Where the jobs are.  The scheduler keeps every job in one place as long *)
(* as a job that holds cannot be taken by a second thread: either no job   *)
(* holds, or there is one thread.  SchedulerRace.cfg shows that the        *)
(* condition is needed.                                                    *)
(***************************************************************************)
SafeUse == (Holders = {} /\ Switchers = {}) \/ \A t, u \in Threads : t = u

DistinctQueue ==
    \A i, k \in DOMAIN m_fibers : m_fibers[i].job = m_fibers[k].job => i = k

\* schedule() adds its job to the waiting ones and no other.
LEMMA ScheduleFacts ==
    ASSUME TypeOK, NEW j \in Jobs, NEW pin \in Threads \union {NoPin}, Schedule(j, pin)
    PROVE  /\ \A k \in Jobs : Queued(k)' <=> Queued(k) \/ k = j
           /\ DistinctQueue /\ ~Queued(j) => DistinctQueue'
  <1> DEFINE e == [job |-> j, thread |-> pin]
  <1>1. e \in Entry /\ m_fibers \in Seq(Entry) /\ m_fibers' = Append(m_fibers, e)
    BY DEF TypeOK, Entry, Schedule
  <1> HIDE DEF e
  <1>2. /\ DOMAIN m_fibers = 1 .. Len(m_fibers) /\ DOMAIN m_fibers' = 1 .. Len(m_fibers) + 1
        /\ Len(m_fibers) \in Nat
        /\ \A i \in 1 .. Len(m_fibers) : m_fibers'[i] = m_fibers[i]
        /\ m_fibers'[Len(m_fibers) + 1] = e
    BY <1>1
  <1>3. e.job = j
    BY DEF e
  <1>4. \A k \in Jobs : Queued(k)' <=> Queued(k) \/ k = j
    BY <1>2, <1>3 DEF Queued
  <1>5. DistinctQueue /\ ~Queued(j) => DistinctQueue'
    BY <1>2, <1>3 DEF Queued, DistinctQueue
  <1> QED  BY <1>4, <1>5

\* Taking a job removes it, and only it, from the waiting ones.
LEMMA TakeFacts ==
    ASSUME TypeOK, DistinctQueue, NEW i \in DOMAIN m_fibers, m_fibers' = RemoveAt(m_fibers, i)
    PROVE  /\ \A k \in Jobs : Queued(k)' <=> Queued(k) /\ k # m_fibers[i].job
           /\ DistinctQueue'
  <1> DEFINE n == Len(m_fibers)
  <1>1. /\ n \in Nat /\ DOMAIN m_fibers = 1 .. n /\ i \in 1 .. n
        /\ DOMAIN m_fibers' = 1 .. n - 1
        /\ \A k \in 1 .. n - 1 : m_fibers'[k] = IF k < i THEN m_fibers[k] ELSE m_fibers[k + 1]
    <2>1. m_fibers \in Seq(Entry)
      BY DEF TypeOK
    <2>2. /\ m_fibers' \in Seq(Entry)
          /\ Len(m_fibers') = n - 1
          /\ \A k \in 1 .. n - 1 : m_fibers'[k] = IF k < i THEN m_fibers[k] ELSE m_fibers[k + 1]
      BY <2>1, RemoveAtFacts, Zenon
    <2> QED  BY <2>1, <2>2
  <1> HIDE DEF n
  <1>2. ASSUME NEW k \in Jobs PROVE Queued(k)' <=> Queued(k) /\ k # m_fibers[i].job
    <2>1. ASSUME Queued(k)' PROVE Queued(k) /\ k # m_fibers[i].job
      <3>1. PICK a \in 1 .. n - 1 : m_fibers'[a].job = k
        BY <1>1, <2>1 DEF Queued
      <3>2. PICK b \in 1 .. n : b # i /\ m_fibers[b].job = k
        BY <1>1, <3>1
      <3> QED  BY <1>1, <3>2 DEF Queued, DistinctQueue
    <2>2. ASSUME Queued(k), k # m_fibers[i].job PROVE Queued(k)'
      <3>1. PICK b \in 1 .. n : m_fibers[b].job = k /\ b # i
        BY <1>1, <2>2 DEF Queued
      <3>2. CASE b < i
        BY <1>1, <3>1, <3>2 DEF Queued
      <3>3. CASE b > i
        <4>1. b - 1 \in 1 .. n - 1 /\ ~(b - 1 < i) /\ (b - 1) + 1 = b
          BY <1>1, <3>3
        <4> QED  BY <1>1, <3>1, <4>1 DEF Queued
      <3> QED  BY <1>1, <3>1, <3>2, <3>3
    <2> QED  BY <2>1, <2>2
  <1>3. DistinctQueue'
    <2> SUFFICES ASSUME NEW a \in 1 .. n - 1, NEW b \in 1 .. n - 1,
                        m_fibers'[a].job = m_fibers'[b].job
                 PROVE  a = b
      BY <1>1 DEF DistinctQueue
    <2> DEFINE old(x) == IF x < i THEN x ELSE x + 1
    <2>1. /\ old(a) \in 1 .. n /\ old(b) \in 1 .. n
          /\ m_fibers'[a] = m_fibers[old(a)] /\ m_fibers'[b] = m_fibers[old(b)]
      BY <1>1
    <2>2. old(a) = old(b)
      BY <1>1, <2>1 DEF DistinctQueue
    <2> QED  BY <1>1, <2>2
  <1> QED  BY <1>2, <1>3

\* What is known of the job a thread holds, at each place of run().
JobPhase ==
    \A t \in Threads :
        /\ pc[t] = "dispatch" =>
              ft[t] \notin armed /\ ~Queued(ft[t]) /\ m_state[ft[t]] \notin Ended
        /\ pc[t] = "body" =>
              ft[t] \notin armed /\ ~Queued(ft[t]) /\ m_state[ft[t]] = "EXEC"
        /\ pc[t] = "hold" =>
              /\ ft[t] \in Holders /\ m_state[ft[t]] = "EXEC"
              /\ ft[t] \in armed \/ Queued(ft[t])
        /\ pc[t] \in {"swapOut", "back", "settle"} =>
              \/ /\ m_state[ft[t]] \in Ended \union {"READY"}
                 /\ ft[t] \notin armed /\ ~Queued(ft[t])
              \/ /\ m_state[ft[t]] = "HOLD" /\ ft[t] \in Holders
                 /\ ft[t] \in armed \/ Queued(ft[t])

\* A job nobody has scheduled yet is nowhere.
Fresh ==
    \A j \in Jobs \ submitted :
        j \notin armed /\ ~Queued(j) /\ ~OnThread(j) /\ m_state[j] = "INIT"

PlaceInv == JobPlaced /\ JobPhase /\ Fresh

\* Under SafeUse no other thread holds a job that is waiting in the list.
LEMMA QueuedIsFree ==
    ASSUME SafeUse, BaseInv, PlaceInv, NEW t \in Threads, pc[t] = "loop",
           NEW k \in Jobs, Queued(k)
    PROVE  \A u \in Threads : ft[u] # k
  <1> SUFFICES ASSUME NEW u \in Threads, ft[u] = k PROVE FALSE
    OBVIOUS
  <1>1. pc[u] \in OnJob /\ u # t
    BY JobAssumption DEF BaseInv, JobHeld, OnJob, Active
  <1>2. Holders = {}
    BY <1>1 DEF SafeUse
  <1> QED  BY <1>1, <1>2 DEF PlaceInv, JobPhase, OnJob, Active

LEMMA PlaceInit == Init => PlaceInv
  BY JobAssumption DEF Init, PlaceInv, JobPlaced, JobPhase, Fresh, Queued, OnThread, HasEnded, Ended

\* Under SafeUse every step keeps every job in its place.
LEMMA PlaceStep ==
    ASSUME SafeUse, BaseInv, PlaceInv, [Next]_vars
    PROVE  PlaceInv'
  <1> USE JobAssumption DEF BaseInv, PlaceInv
  <1>0. DistinctQueue
    BY DEF JobPlaced, DistinctQueue
  <1>1. ASSUME NEW t \in Threads, Take(t) PROVE PlaceInv'
    <2>1. PICK i \in DOMAIN m_fibers :
             m_fibers' = RemoveAt(m_fibers, i) /\ ft' = [ft EXCEPT ![t] = m_fibers[i].job]
      BY <1>1 DEF Take
    <2> DEFINE j == m_fibers[i].job
    <2>2. j \in Jobs /\ Queued(j)
      <3>1. m_fibers[i] \in Entry
        BY DEF TypeOK
      <3> QED  BY <3>1 DEF Entry, Queued
    <2>3. DistinctQueue' /\ \A k \in Jobs : Queued(k)' <=> Queued(k) /\ k # j
      BY <1>0, <2>1, TakeFacts
    <2>4. \A u \in Threads : ft[u] # j
      BY <1>1, <2>2, QueuedIsFree DEF Take
    <2> HIDE DEF j
    <2>5. pc[t] = "loop" /\ pc' = [pc EXCEPT ![t] = "dispatch"] /\ ft' = [ft EXCEPT ![t] = j]
          /\ UNCHANGED <<m_state, armed, submitted>>
      BY <1>1, <2>1 DEF Take, Goto, j
    <2>6. JobPlaced'
      BY <2>2, <2>3, <2>4, <2>5 DEF JobPlaced, TypeOK, DistinctQueue, OnThread, HasEnded, JobHeld, OnJob, Active
    <2>7. JobPhase' /\ Fresh'
      BY <2>2, <2>3, <2>4, <2>5 DEF JobPlaced, JobPhase, Fresh, TypeOK, OnThread, HasEnded, JobHeld, OnJob, Active
    <2> QED  BY <2>6, <2>7
  <1>2. ASSUME NEW t \in Threads, EnterIdle(t) PROVE PlaceInv'
    <2>1. \A k \in Jobs : Queued(k)' <=> Queued(k)
      BY <1>2 DEF EnterIdle, queue, Queued
    <2>2. DistinctQueue'
      BY <1>0, <1>2 DEF EnterIdle, queue, DistinctQueue
    <2> QED
      BY <1>2, <2>1, <2>2 DEF EnterIdle, JobPlaced, JobPhase, Fresh, OnThread, HasEnded, Goto, SetState, queue, TypeOK, JobHeld, OnJob, Active, DistinctQueue, Pc
  <1>3. ASSUME NEW t \in Threads, Idle(t) PROVE PlaceInv'
    <2>1. \A k \in Jobs : Queued(k)' <=> Queued(k)
      BY <1>3 DEF Idle, queue, Queued
    <2>2. DistinctQueue'
      BY <1>0, <1>3 DEF Idle, queue, DistinctQueue
    <2> QED
      BY <1>3, <2>1, <2>2 DEF Idle, JobPlaced, JobPhase, Fresh, OnThread, HasEnded, Goto, SetState, queue, TypeOK, JobHeld, OnJob, Active, DistinctQueue, Pc
  <1>4. ASSUME NEW t \in Threads, Dispatch(t) PROVE PlaceInv'
    <2>1. \A k \in Jobs : Queued(k)' <=> Queued(k)
      BY <1>4 DEF Dispatch, queue, Queued
    <2>2. DistinctQueue'
      BY <1>0, <1>4 DEF Dispatch, queue, DistinctQueue
    <2>3. ft[t] \in Jobs
      BY <1>4 DEF Dispatch, JobHeld, OnJob, Active
    <2>4. JobPlaced'
      BY <1>4, <2>1, <2>2, <2>3 DEF Dispatch, JobPlaced, JobPhase, Fresh, OnThread, HasEnded, Goto, SetState, queue, TypeOK, JobHeld, OnJob, Active, DistinctQueue, Ended
    <2>5. JobPhase' /\ Fresh'
      BY <1>4, <2>1, <2>3 DEF Dispatch, JobPlaced, JobPhase, Fresh, OnThread, HasEnded, Goto, SetState, queue, TypeOK, JobHeld, OnJob, Active, Ended
    <2> QED  BY <2>4, <2>5
  <1>5. ASSUME NEW t \in Threads, YieldToReady(t) PROVE PlaceInv'
    <2>1. \A k \in Jobs : Queued(k)' <=> Queued(k)
      BY <1>5 DEF YieldToReady, queue, Queued
    <2>2. DistinctQueue'
      BY <1>0, <1>5 DEF YieldToReady, queue, DistinctQueue
    <2>3. ft[t] \in Jobs
      BY <1>5 DEF YieldToReady, JobHeld, OnJob, Active
    <2>4. JobPlaced'
      BY <1>5, <2>1, <2>2, <2>3 DEF YieldToReady, JobPlaced, JobPhase, Fresh, OnThread, HasEnded, Goto, SetState, queue, TypeOK, JobHeld, OnJob, Active, DistinctQueue, Ended
    <2>5. JobPhase' /\ Fresh'
      BY <1>5, <2>1, <2>3 DEF YieldToReady, JobPlaced, JobPhase, Fresh, OnThread, HasEnded, Goto, SetState, queue, TypeOK, JobHeld, OnJob, Active, Ended
    <2> QED  BY <2>4, <2>5
  <1>6. ASSUME NEW t \in Threads, SwapOut(t) PROVE PlaceInv'
    <2>1. \A k \in Jobs : Queued(k)' <=> Queued(k)
      BY <1>6 DEF SwapOut, queue, Queued
    <2>2. DistinctQueue'
      BY <1>0, <1>6 DEF SwapOut, queue, DistinctQueue
    <2>3. ft[t] \in Jobs
      BY <1>6 DEF SwapOut, JobHeld, OnJob, Active
    <2>4. JobPlaced'
      BY <1>6, <2>1, <2>2, <2>3 DEF SwapOut, JobPlaced, JobPhase, Fresh, OnThread, HasEnded, Goto, SetState, queue, TypeOK, JobHeld, OnJob, Active, DistinctQueue, Ended
    <2>5. JobPhase' /\ Fresh'
      BY <1>6, <2>1, <2>3 DEF SwapOut, JobPlaced, JobPhase, Fresh, OnThread, HasEnded, Goto, SetState, queue, TypeOK, JobHeld, OnJob, Active, Ended
    <2> QED  BY <2>4, <2>5
  <1>7. ASSUME NEW t \in Threads, Back(t) PROVE PlaceInv'
    <2>1. \A k \in Jobs : Queued(k)' <=> Queued(k)
      BY <1>7 DEF Back, queue, Queued
    <2>2. DistinctQueue'
      BY <1>0, <1>7 DEF Back, queue, DistinctQueue
    <2>3. ft[t] \in Jobs
      BY <1>7 DEF Back, JobHeld, OnJob, Active
    <2>4. JobPlaced'
      BY <1>7, <2>1, <2>2, <2>3 DEF Back, JobPlaced, JobPhase, Fresh, OnThread, HasEnded, Goto, SetState, queue, TypeOK, JobHeld, OnJob, Active, DistinctQueue, Ended
    <2>5. JobPhase' /\ Fresh'
      BY <1>7, <2>1, <2>3 DEF Back, JobPlaced, JobPhase, Fresh, OnThread, HasEnded, Goto, SetState, queue, TypeOK, JobHeld, OnJob, Active, Ended
    <2> QED  BY <2>4, <2>5
  <1>9. ASSUME NEW t \in Threads, YieldToHold(t) PROVE PlaceInv'
    <2>1. \A k \in Jobs : Queued(k)' <=> Queued(k)
      BY <1>9 DEF YieldToHold, queue, Queued
    <2>2. DistinctQueue'
      BY <1>0, <1>9 DEF YieldToHold, queue, DistinctQueue
    <2>3. ft[t] \in Jobs
      BY <1>9 DEF YieldToHold, JobHeld, OnJob, Active
    <2>4. JobPlaced'
      BY <1>9, <2>1, <2>2, <2>3 DEF YieldToHold, JobPlaced, JobPhase, Fresh, OnThread, HasEnded, Goto, SetState, queue, TypeOK, JobHeld, OnJob, Active, DistinctQueue, Ended
    <2>5. JobPhase' /\ Fresh'
      BY <1>9, <2>1, <2>3 DEF YieldToHold, JobPlaced, JobPhase, Fresh, OnThread, HasEnded, Goto, SetState, queue, TypeOK, JobHeld, OnJob, Active, Ended
    <2> QED  BY <2>4, <2>5
  <1>10. ASSUME NEW t \in Threads, Arm(t) PROVE PlaceInv'
    <2>1. \A k \in Jobs : Queued(k)' <=> Queued(k)
      BY <1>10 DEF Arm, queue, Queued
    <2>2. DistinctQueue'
      BY <1>0, <1>10 DEF Arm, queue, DistinctQueue
    <2>3. ft[t] \in Jobs
      BY <1>10 DEF Arm, JobHeld, OnJob, Active
    <2>4. JobPlaced'
      BY <1>10, <2>1, <2>2, <2>3 DEF Arm, JobPlaced, JobPhase, Fresh, OnThread, HasEnded, Goto, SetState, queue, TypeOK, JobHeld, OnJob, Active, DistinctQueue, Ended
    <2>5. JobPhase' /\ Fresh'
      BY <1>10, <2>1, <2>3 DEF Arm, JobPlaced, JobPhase, Fresh, OnThread, HasEnded, Goto, SetState, queue, TypeOK, JobHeld, OnJob, Active, Ended
    <2> QED  BY <2>4, <2>5
  <1>12. ASSUME NEW t \in Threads, NEW e \in Ended, Finish(t, e) PROVE PlaceInv'
    <2>1. \A k \in Jobs : Queued(k)' <=> Queued(k)
      BY <1>12 DEF Finish, queue, Queued
    <2>2. DistinctQueue'
      BY <1>0, <1>12 DEF Finish, queue, DistinctQueue
    <2>3. ft[t] \in Jobs
      BY <1>12 DEF Finish, JobHeld, OnJob, Active
    <2>4. JobPlaced'
      BY <1>12, <2>1, <2>2, <2>3 DEF Finish, JobPlaced, JobPhase, Fresh, OnThread, HasEnded, Goto, SetState, queue, TypeOK, JobHeld, OnJob, Active, DistinctQueue, Ended
    <2>5. JobPhase' /\ Fresh'
      BY <1>12, <2>1, <2>3 DEF Finish, JobPlaced, JobPhase, Fresh, OnThread, HasEnded, Goto, SetState, queue, TypeOK, JobHeld, OnJob, Active, Ended
    <2> QED  BY <2>4, <2>5
  <1>8. ASSUME NEW t \in Threads, Settle(t) PROVE PlaceInv'
    <2> DEFINE j == ft[t]
    <2>1. j \in Jobs
      BY <1>8 DEF Settle, JobHeld, OnJob, Active
    <2>2. pc[t] = "settle" /\ pc' = [pc EXCEPT ![t] = "loop"] /\ ft' = [ft EXCEPT ![t] = None]
          /\ UNCHANGED <<armed, submitted>>
      BY <1>8 DEF Settle, SettleTail, Goto
    <2>3. \A u \in Threads : u # t => ft[u] # j
      BY <2>1 DEF JobPlaced
    <2>4. \A u \in Threads : ft[u] = j => u = t
      BY <2>3
    <2>5. CASE m_state[j] = "READY"
      <3>1. Schedule(j, NoPin) /\ m_state' = m_state
        BY <1>8, <2>5 DEF Settle, Ended
      <3>2. ~Queued(j) /\ j \notin armed
        BY <2>2, <2>5 DEF JobPhase
      <3>3. DistinctQueue' /\ \A k \in Jobs : Queued(k)' <=> Queued(k) \/ k = j
        BY <1>0, <2>1, <3>1, <3>2, ScheduleFacts
      <3> HIDE DEF j
      <3>4. JobPlaced'
        BY <2>1, <2>2, <2>4, <2>5, <3>1, <3>2, <3>3 DEF JobPlaced, JobPhase, Fresh, OnThread, HasEnded, TypeOK, JobHeld, OnJob, Active, DistinctQueue, Ended, j
      <3>5. JobPhase' /\ Fresh'
        BY <2>1, <2>2, <2>4, <2>5, <3>1, <3>2, <3>3 DEF JobPlaced, JobPhase, Fresh, OnThread, HasEnded, TypeOK, JobHeld, OnJob, Active, Ended, j
      <3> QED  BY <3>4, <3>5
    <2>6. CASE m_state[j] \in Ended
      <3>1. UNCHANGED <<m_fibers, m_state>>
        BY <1>8, <2>6 DEF Settle, Ended
      <3>2. DistinctQueue' /\ \A k \in Jobs : Queued(k)' <=> Queued(k)
        BY <1>0, <3>1 DEF Queued, DistinctQueue
      <3> QED
        BY <2>1, <2>2, <2>3, <2>6, <3>1, <3>2 DEF JobPlaced, JobPhase, Fresh, OnThread, HasEnded, TypeOK, JobHeld, OnJob, Active, DistinctQueue, Ended
    <2>7. CASE m_state[j] # "READY" /\ m_state[j] \notin Ended
      <3>1. m_state[j] = "HOLD"
        BY <2>2, <2>7 DEF JobPhase
      <3>2. m_state' = m_state /\ m_fibers' = m_fibers
        BY <1>8, <2>1, <2>7, <3>1 DEF Settle, SetState, TypeOK
      <3>3. DistinctQueue' /\ \A k \in Jobs : Queued(k)' <=> Queued(k)
        BY <1>0, <3>2 DEF Queued, DistinctQueue
      <3>4. j \in armed \/ Queued(j)
        BY <2>2, <3>1 DEF JobPhase, Ended
      <3> QED
        BY <2>1, <2>2, <2>3, <3>1, <3>2, <3>3, <3>4 DEF JobPlaced, JobPhase, Fresh, OnThread, HasEnded, TypeOK, JobHeld, OnJob, Active, DistinctQueue, Ended
    <2> QED  BY <2>5, <2>6, <2>7
  <1>11. ASSUME NEW t \in Threads, NEW u \in Threads, SwitchTo(t, u) PROVE PlaceInv'
    BY <1>11 DEF SwitchTo, SafeUse
  <1>13. ASSUME NEW j \in Jobs, NEW pin \in Pins,
                Submit(j, pin) \/ \E t \in Threads : Spawn(t, j, pin) PROVE PlaceInv'
    <2>1. /\ Schedule(j, pin) /\ submitted' = submitted \union {j} /\ j \notin submitted
          /\ UNCHANGED <<m_state, pc, ft, armed>>
      BY <1>13 DEF Submit, Spawn, control
    <2>2. j \notin armed /\ ~Queued(j) /\ ~OnThread(j) /\ m_state[j] = "INIT"
      BY <2>1 DEF Fresh
    <2>3. DistinctQueue' /\ \A k \in Jobs : Queued(k)' <=> Queued(k) \/ k = j
      <3>1. pin \in Threads \union {NoPin}
        OBVIOUS
      <3> QED  BY <1>0, <2>1, <2>2, <3>1, ScheduleFacts
    <2>4. JobPlaced'
      BY <2>1, <2>2, <2>3 DEF JobPlaced, OnThread, HasEnded, Ended, DistinctQueue, TypeOK
    <2>5. JobPhase' /\ Fresh'
      BY <2>1, <2>2, <2>3 DEF JobPhase, Fresh, OnThread, JobHeld, OnJob, Active, TypeOK
    <2> QED  BY <2>4, <2>5
  <1>14. ASSUME NEW j \in Jobs, Wake(j) PROVE PlaceInv'
    <2>1. /\ Schedule(j, NoPin) /\ armed' = armed \ {j} /\ j \in armed
          /\ UNCHANGED <<m_state, pc, ft, submitted>>
      BY <1>14 DEF Wake, control
    <2>2. ~Queued(j) /\ j \in submitted /\ m_state[j] \notin Ended
      BY <2>1 DEF JobPlaced, Fresh, HasEnded
    <2>3. DistinctQueue' /\ \A k \in Jobs : Queued(k)' <=> Queued(k) \/ k = j
      BY <1>0, <2>1, <2>2, ScheduleFacts
    <2>4. JobPlaced'
      BY <2>1, <2>2, <2>3 DEF JobPlaced, OnThread, HasEnded, DistinctQueue, TypeOK
    <2>5. JobPhase' /\ Fresh'
      BY <2>1, <2>2, <2>3 DEF JobPhase, Fresh, OnThread, JobHeld, OnJob, Active, TypeOK
    <2> QED  BY <2>4, <2>5
  <1>15. ASSUME Start \/ StopCall \/ Stop \/ UNCHANGED vars PROVE PlaceInv'
    <2>1. /\ UNCHANGED <<m_fibers, submitted, armed, m_state, ft>>
          /\ \A t \in Threads : pc'[t] \in OnJob => pc'[t] = pc[t]
      <3>1. CASE Start
        BY <3>1 DEF Start, queue, OnJob, Active
      <3>2. CASE StopCall \/ StopFlag \/ StopRootEnds \/ StopJoin \/ UNCHANGED vars
        BY <3>2 DEF StopCall, StopFlag, StopRootEnds, StopJoin, queue, control, vars
      <3>3. CASE StopRoot
        BY <3>3 DEF StopRoot, Goto, queue, OnJob, Active, TypeOK
      <3> QED  BY <1>15, <3>1, <3>2, <3>3 DEF Stop
    <2>2. DistinctQueue' /\ \A k \in Jobs : Queued(k)' <=> Queued(k)
      BY <1>0, <2>1 DEF Queued, DistinctQueue
    <2> QED
      BY <2>1, <2>2 DEF JobPlaced, JobPhase, Fresh, OnThread, HasEnded, TypeOK, JobHeld, OnJob, Active, DistinctQueue
  <1> QED
    BY <1>1, <1>2, <1>3, <1>4, <1>5, <1>6, <1>7, <1>8, <1>9, <1>10, <1>11, <1>12, <1>13, <1>14,
       <1>15 DEF Next, Run, Body, Done

\* No job is lost, duplicated or run after it has ended, whatever the number
\* of threads if no job holds, and whatever the jobs do if there is one thread.
THEOREM PlacedCorrect == SafeUse => (Spec => []JobPlaced)
  <1> SUFFICES ASSUME SafeUse PROVE Spec => []JobPlaced
    OBVIOUS
  <1>1. BaseInv /\ PlaceInv /\ [Next]_vars => PlaceInv'
    BY PlaceStep
  <1>2. PlaceInv => JobPlaced
    BY DEF PlaceInv
  <1> QED  BY BaseInit, BaseStep, PlaceInit, <1>1, <1>2, PTL DEF Spec

\* Under the same condition the state assertion of the yields never fails.
THEOREM YieldCorrect == SafeUse => (Spec => []YieldFromExec)
  <1> SUFFICES ASSUME SafeUse PROVE Spec => []YieldFromExec
    OBVIOUS
  <1>1. BaseInv /\ PlaceInv /\ [Next]_vars => PlaceInv'
    BY PlaceStep
  <1>2. PlaceInv => YieldFromExec
    BY DEF PlaceInv, JobPhase, YieldFromExec
  <1> QED  BY BaseInit, BaseStep, PlaceInit, <1>1, <1>2, PTL DEF Spec

\* A fiber that has ended keeps its state: nothing runs or holds it again.
THEOREM EndedCorrect == SafeUse => (Spec => EndedStays)
  <1> SUFFICES ASSUME SafeUse PROVE Spec => EndedStays
    OBVIOUS
  <1>1. BaseInv /\ PlaceInv /\ [Next]_vars => PlaceInv'
    BY PlaceStep
  <1>2. BaseInv /\ PlaceInv /\ [Next]_vars
            => [\A j \in Jobs : HasEnded(j) => m_state'[j] = m_state[j]]_vars
    <2> SUFFICES ASSUME BaseInv, PlaceInv, Next, NEW j \in Jobs, m_state[j] \in Ended
                 PROVE  m_state'[j] = m_state[j]
      BY DEF HasEnded
    <2> USE DEF BaseInv, PlaceInv
    <2>1. ASSUME NEW t \in Threads, Dispatch(t) PROVE m_state'[j] = m_state[j]
      BY <2>1 DEF Dispatch, SetState, TypeOK
    <2>2. ASSUME NEW t \in Threads, Settle(t) PROVE m_state'[j] = m_state[j]
      <3>1. m_state' = m_state \/ (m_state[ft[t]] \notin Ended /\ SetState(ft[t], "HOLD"))
        BY <2>2 DEF Settle
      <3> QED  BY <3>1 DEF SetState, TypeOK
    <2>3. ASSUME NEW t \in Threads, NEW e \in Ended,
                 YieldToReady(t) \/ YieldToHold(t) \/ Finish(t, e)
          PROVE  m_state'[j] = m_state[j]
      <3>1. m_state[ft[t]] = "EXEC"
        BY <2>3 DEF YieldToReady, YieldToHold, Finish, JobPhase
      <3> QED  BY <2>3, <3>1 DEF YieldToReady, YieldToHold, Finish, SetState, Ended, TypeOK
    <2>4. ASSUME NEW t \in Threads,
                 Take(t) \/ EnterIdle(t) \/ Idle(t) \/ SwapOut(t) \/ Back(t) \/ Arm(t)
          PROVE  m_state'[j] = m_state[j]
      BY <2>4 DEF Take, EnterIdle, Idle, SwapOut, Back, Arm
    <2>5. ASSUME NEW t \in Threads, NEW u \in Threads, SwitchTo(t, u)
          PROVE  m_state'[j] = m_state[j]
      BY <2>5 DEF SwitchTo
    <2>6. ASSUME NEW k \in Jobs, NEW pin \in Pins, NEW t \in Threads, Spawn(t, k, pin)
          PROVE  m_state'[j] = m_state[j]
      BY <2>6 DEF Spawn
    <2>7. ASSUME Start \/ StopCall \/ Stop \/ Done PROVE m_state'[j] = m_state[j]
      BY <2>7 DEF Start, StopCall, Stop, StopFlag, StopRoot, StopRootEnds, StopJoin, Done, vars
    <2>8. ASSUME NEW k \in Jobs, NEW pin \in Pins, Submit(k, pin)
          PROVE  m_state'[j] = m_state[j]
      BY <2>8 DEF Submit
    <2>9. ASSUME NEW k \in Jobs, Wake(k) PROVE m_state'[j] = m_state[j]
      BY <2>9 DEF Wake
    <2> QED
      BY <2>1, <2>2, <2>3, <2>4, <2>5, <2>6, <2>7, <2>8, <2>9 DEF Next, Run, Body, Ended
  <1> QED  BY BaseInit, BaseStep, PlaceInit, <1>1, <1>2, PTL DEF Spec, EndedStays

-----------------------------------------------------------------------------
(***************************************************************************)
(* What stop() leaves behind.  A job that neither holds nor switches stays *)
(* in its place whatever the other jobs do, and when it waits for any      *)
(* thread then some thread is still in run(): the one that put it back     *)
(* looks at the list again before it leaves.                               *)
(***************************************************************************)
Plain == Jobs \ (Holders \union Switchers)

Unpinned(j) ==
    \E i \in DOMAIN m_fibers : m_fibers[i].job = j /\ m_fibers[i].thread = NoPin

OnceQueued(j) ==
    \A i, k \in DOMAIN m_fibers : m_fibers[i].job = j /\ m_fibers[k].job = j => i = k

\* One job as the list sees it, across a schedule() of any job.
LEMMA ScheduleOne ==
    ASSUME TypeOK, NEW k \in Jobs, NEW pin \in Threads \union {NoPin}, Schedule(k, pin),
           NEW j \in Jobs
    PROVE  /\ Queued(j)' <=> Queued(j) \/ j = k
           /\ Unpinned(j)' <=> Unpinned(j) \/ (j = k /\ pin = NoPin)
           /\ OnceQueued(j) /\ ~(j = k /\ Queued(j)) => OnceQueued(j)'
  <1> DEFINE e == [job |-> k, thread |-> pin]
  <1>1. e \in Entry /\ m_fibers \in Seq(Entry) /\ m_fibers' = Append(m_fibers, e)
    BY DEF TypeOK, Entry, Schedule
  <1>3. e.job = k /\ e.thread = pin
    OBVIOUS
  <1> HIDE DEF e
  <1>2. /\ DOMAIN m_fibers = 1 .. Len(m_fibers) /\ DOMAIN m_fibers' = 1 .. Len(m_fibers) + 1
        /\ Len(m_fibers) \in Nat
        /\ \A i \in 1 .. Len(m_fibers) : m_fibers'[i] = m_fibers[i]
        /\ m_fibers'[Len(m_fibers) + 1] = e
    BY <1>1
  <1>4. Queued(j)' <=> Queued(j) \/ j = k
    BY <1>2, <1>3 DEF Queued
  <1>5. Unpinned(j)' <=> Unpinned(j) \/ (j = k /\ pin = NoPin)
    BY <1>2, <1>3 DEF Unpinned
  <1>6. OnceQueued(j) /\ ~(j = k /\ Queued(j)) => OnceQueued(j)'
    BY <1>2, <1>3 DEF Queued, OnceQueued
  <1> QED  BY <1>4, <1>5, <1>6

\* One job as the list sees it, when the entry of any job is erased.
LEMMA TakeOne ==
    ASSUME TypeOK, NEW i \in DOMAIN m_fibers, m_fibers' = RemoveAt(m_fibers, i),
           NEW j \in Jobs, OnceQueued(j)
    PROVE  /\ Queued(j)' <=> Queued(j) /\ j # m_fibers[i].job
           /\ Unpinned(j)' => Unpinned(j)
           /\ OnceQueued(j)'
  <1> DEFINE n == Len(m_fibers)
             old(x) == IF x < i THEN x ELSE x + 1
  <1>1. /\ n \in Nat /\ DOMAIN m_fibers = 1 .. n /\ i \in 1 .. n
        /\ DOMAIN m_fibers' = 1 .. n - 1
        /\ \A k \in 1 .. n - 1 : m_fibers'[k] = IF k < i THEN m_fibers[k] ELSE m_fibers[k + 1]
    <2>1. m_fibers \in Seq(Entry)
      BY DEF TypeOK
    <2>2. /\ m_fibers' \in Seq(Entry)
          /\ Len(m_fibers') = n - 1
          /\ \A k \in 1 .. n - 1 : m_fibers'[k] = IF k < i THEN m_fibers[k] ELSE m_fibers[k + 1]
      BY <2>1, RemoveAtFacts, Zenon
    <2> QED  BY <2>1, <2>2
  <1> HIDE DEF n
  <1>2. \A a \in 1 .. n - 1 : old(a) \in 1 .. n /\ old(a) # i /\ m_fibers'[a] = m_fibers[old(a)]
    BY <1>1
  <1>3. \A a, b \in 1 .. n - 1 : old(a) = old(b) => a = b
    BY <1>1
  <1>4. \A b \in 1 .. n : b # i => \E a \in 1 .. n - 1 : old(a) = b
    <2> SUFFICES ASSUME NEW b \in 1 .. n, b # i PROVE \E a \in 1 .. n - 1 : old(a) = b
      OBVIOUS
    <2>1. CASE b < i
      BY <1>1, <2>1
    <2>2. CASE b > i
      <3>1. b - 1 \in 1 .. n - 1 /\ ~(b - 1 < i) /\ (b - 1) + 1 = b
        BY <1>1, <2>2
      <3> QED  BY <3>1
    <2> QED  BY <1>1, <2>1, <2>2
  <1> HIDE DEF old
  <1>5. Queued(j)' <=> Queued(j) /\ j # m_fibers[i].job
    <2>1. ASSUME Queued(j)' PROVE Queued(j) /\ j # m_fibers[i].job
      <3>1. PICK a \in 1 .. n - 1 : m_fibers'[a].job = j
        BY <1>1, <2>1 DEF Queued
      <3>2. old(a) \in 1 .. n /\ old(a) # i /\ m_fibers[old(a)].job = j
        BY <1>2, <3>1
      <3> QED  BY <1>1, <3>2 DEF Queued, OnceQueued
    <2>2. ASSUME Queued(j), j # m_fibers[i].job PROVE Queued(j)'
      <3>1. PICK b \in 1 .. n : m_fibers[b].job = j /\ b # i
        BY <1>1, <2>2 DEF Queued
      <3>2. PICK a \in 1 .. n - 1 : old(a) = b
        BY <1>4, <3>1
      <3> QED  BY <1>1, <1>2, <3>1, <3>2 DEF Queued
    <2> QED  BY <2>1, <2>2
  <1>6. Unpinned(j)' => Unpinned(j)
    BY <1>1, <1>2 DEF Unpinned
  <1>7. OnceQueued(j)'
    BY <1>1, <1>2, <1>3 DEF OnceQueued
  <1> QED  BY <1>5, <1>6, <1>7

\* What is known of a job that neither holds nor switches.
PlainPlaced(j) ==
    /\ OnceQueued(j)
    /\ j \notin armed
    /\ \A t, u \in Threads : ft[t] = j /\ ft[u] = j => t = u
    /\ \A t \in Threads : ft[t] = j =>
          /\ ~Queued(j)
          /\ pc[t] = "dispatch" => m_state[j] \notin Ended
          /\ pc[t] = "body" => m_state[j] = "EXEC"
          /\ pc[t] # "hold"
          /\ pc[t] \in {"swapOut", "back", "settle"} => m_state[j] \in Ended \union {"READY"}
    /\ Queued(j) => m_state[j] \notin Ended \union {"EXEC"}
    /\ j \in submitted => HasEnded(j) \/ Queued(j) \/ OnThread(j)
    /\ j \notin submitted => ~Queued(j) /\ ~OnThread(j) /\ m_state[j] = "INIT"

InRun(t) == pc[t] \notin {"off", "exited"}

\* Nobody leaves run() before stop() is called, and stop() returns after all.
Leaving ==
    /\ owner \in {"built", "running"} => ~m_autoStop
    /\ \A t \in Threads : idle[t] = "TERM" \/ pc[t] = "exited" => m_autoStop
    /\ owner # "built" => \A t \in Pool : pc[t] # "off"
    /\ UseCaller /\ owner \in {"join", "stopped"} => ~InRun(Caller)
    /\ owner = "stopped" => \A t \in Pool : pc[t] = "exited"

\* A job that waits for any thread will be looked at.
Watched ==
    \A j \in Plain : Unpinned(j) =>
        \/ owner = "built"
        \/ Pool = {} /\ owner \in {"running", "autoStop", "stopping"}
        \/ \E t \in Threads : InRun(t)

AllPlaced == \A j \in Plain : PlainPlaced(j)

LeftInv == AllPlaced /\ Leaving /\ Watched

LEMMA LeftInit == Init => LeftInv
  <1> SUFFICES ASSUME Init PROVE LeftInv
    OBVIOUS
  <1>1. AllPlaced
    BY JobAssumption DEF Init, AllPlaced, Plain, PlainPlaced, OnceQueued, Queued, OnThread, HasEnded, Ended
  <1>2. Leaving
    BY DEF Init, Leaving, Threads
  <1>3. Watched
    BY DEF Init, Watched
  <1> QED  BY <1>1, <1>2, <1>3 DEF LeftInv

\* Every step keeps such a job in its place.
LEMMA PlainStep ==
    ASSUME BaseInv, NEW j \in Plain, PlainPlaced(j), [Next]_vars
    PROVE  PlainPlaced(j)'
  <1> USE JobAssumption DEF BaseInv
  <1>0. j \in Jobs /\ j \notin Holders /\ j \notin Switchers /\ OnceQueued(j)
    BY DEF Plain, PlainPlaced
  <1>1. ASSUME NEW t \in Threads, Take(t) PROVE PlainPlaced(j)'
    <2>1. PICK i \in DOMAIN m_fibers :
             m_fibers' = RemoveAt(m_fibers, i) /\ ft' = [ft EXCEPT ![t] = m_fibers[i].job]
      BY <1>1 DEF Take
    <2>2. PICK k \in Jobs : k = m_fibers[i].job /\ Queued(k)
      <3>1. m_fibers[i] \in Entry
        BY DEF TypeOK
      <3> QED  BY <3>1 DEF Entry, Queued
    <2>3. OnceQueued(j)' /\ (Queued(j)' <=> Queued(j) /\ j # k)
      BY <1>0, <2>1, <2>2, TakeOne
    <2>4. pc[t] = "loop" /\ pc' = [pc EXCEPT ![t] = "dispatch"] /\ ft' = [ft EXCEPT ![t] = k]
          /\ UNCHANGED <<m_state, armed, submitted>> /\ ft[t] = None
      BY <1>1, <2>1, <2>2 DEF Take, Goto, JobHeld, OnJob, Active
    <2> QED
      BY <1>0, <2>2, <2>3, <2>4 DEF PlainPlaced, TypeOK, OnThread, HasEnded
  <1>2. ASSUME NEW t \in Threads, EnterIdle(t) \/ Idle(t) \/ SwapOut(t) \/ Back(t)
        PROVE  PlainPlaced(j)'
    <2>1. (Queued(j)' <=> Queued(j)) /\ OnceQueued(j)'
          /\ UNCHANGED <<m_state, armed, submitted, ft>>
      BY <1>0, <1>2 DEF EnterIdle, Idle, SwapOut, Back, queue, Queued, OnceQueued
    <2>2. PICK l \in Pc : /\ pc' = [pc EXCEPT ![t] = l]
                          /\ \/ l \in {"loop", "idle", "exited"} /\ pc[t] \in {"loop", "idle"}
                             \/ l \in {"back", "settle"} /\ pc[t] \in {"swapOut", "back"}
      BY <1>2 DEF EnterIdle, Idle, SwapOut, Back, Goto, Pc
    <2>3. l \in {"loop", "idle", "exited"} => ft[t] = None
      BY <2>2 DEF JobHeld, OnJob, Active
    <2> QED
      BY <1>0, <2>1, <2>2, <2>3 DEF PlainPlaced, TypeOK, OnThread, HasEnded
  <1>4. ASSUME NEW t \in Threads, Dispatch(t) PROVE PlainPlaced(j)'
    <2>1. (Queued(j)' <=> Queued(j)) /\ OnceQueued(j)' /\ UNCHANGED <<armed, submitted>>
      BY <1>0, <1>4 DEF Dispatch, queue, Queued, OnceQueued
    <2>2. ft[t] \in Jobs /\ pc[t] = "dispatch"
      BY <1>4 DEF Dispatch, JobHeld, OnJob, Active
    <2>3. CASE m_state[ft[t]] \in Ended
      <3>1. ft' = [ft EXCEPT ![t] = None] /\ pc' = [pc EXCEPT ![t] = "loop"] /\ m_state' = m_state
        BY <1>4, <2>3 DEF Dispatch, Goto
      <3> QED
        BY <1>0, <2>1, <2>2, <2>3, <3>1 DEF PlainPlaced, TypeOK, OnThread, HasEnded
    <2>4. CASE m_state[ft[t]] \notin Ended
      <3>1. ft' = ft /\ pc' = [pc EXCEPT ![t] = "body"]
            /\ m_state' = [m_state EXCEPT ![ft[t]] = "EXEC"]
        BY <1>4, <2>4 DEF Dispatch, Goto, SetState
      <3> QED
        BY <1>0, <2>1, <2>2, <2>4, <3>1 DEF PlainPlaced, TypeOK, OnThread, HasEnded, Ended
    <2> QED  BY <2>3, <2>4
  <1>5. ASSUME NEW t \in Threads, NEW e \in Ended,
               YieldToReady(t) \/ YieldToHold(t) \/ Finish(t, e)
        PROVE  PlainPlaced(j)'
    <2>1. (Queued(j)' <=> Queued(j)) /\ OnceQueued(j)' /\ UNCHANGED <<armed, submitted, ft>>
      BY <1>0, <1>5 DEF YieldToReady, YieldToHold, Finish, queue, Queued, OnceQueued
    <2>2. ft[t] \in Jobs
      BY <1>5 DEF YieldToReady, YieldToHold, Finish, JobHeld, OnJob, Active
    <2>3. PICK s \in State : /\ m_state' = [m_state EXCEPT ![ft[t]] = s]
                             /\ pc' = [pc EXCEPT ![t] = "swapOut"]
                             /\ (s \in Ended \union {"READY"} /\ pc[t] = "body") \/ pc[t] = "hold"
      BY <1>5 DEF YieldToReady, YieldToHold, Finish, SetState, Goto, State, Ended
    <2>4. pc[t] = "hold" => ft[t] # j
      BY DEF PlainPlaced
    <2> QED
      BY <1>0, <2>1, <2>2, <2>3, <2>4 DEF PlainPlaced, TypeOK, OnThread, HasEnded, Ended
  <1>6. ASSUME NEW t \in Threads, Arm(t) PROVE PlainPlaced(j)'
    <2>1. (Queued(j)' <=> Queued(j)) /\ OnceQueued(j)'
          /\ UNCHANGED <<m_state, submitted, ft>> /\ armed' = armed \union {ft[t]}
          /\ pc' = [pc EXCEPT ![t] = "hold"] /\ ft[t] # j /\ pc[t] = "body"
      BY <1>0, <1>6 DEF Arm, Goto, Queued, OnceQueued
    <2> QED
      BY <1>0, <2>1 DEF PlainPlaced, TypeOK, OnThread, HasEnded
  <1>7. ASSUME NEW t \in Threads, NEW u \in Threads, SwitchTo(t, u) PROVE PlainPlaced(j)'
    <2>1. /\ UNCHANGED <<m_state, submitted, ft, armed>>
          /\ pc' = [pc EXCEPT ![t] = "hold"] /\ ft[t] # j /\ pc[t] = "body"
          /\ ft[t] \in Jobs /\ Schedule(ft[t], u)
      BY <1>0, <1>7 DEF SwitchTo, Goto
    <2>2. PICK k \in Jobs : k = ft[t]
      BY <2>1
    <2>3. (Queued(j)' <=> Queued(j)) /\ OnceQueued(j)'
      BY <1>0, <2>1, <2>2, ScheduleOne
    <2> QED
      BY <1>0, <2>1, <2>3 DEF PlainPlaced, TypeOK, OnThread, HasEnded
  <1>8. ASSUME NEW t \in Threads, Settle(t) PROVE PlainPlaced(j)'
    <2>1. ft[t] \in Jobs
      BY <1>8 DEF Settle, JobHeld, OnJob, Active
    <2>2. pc[t] = "settle" /\ pc' = [pc EXCEPT ![t] = "loop"] /\ ft' = [ft EXCEPT ![t] = None]
          /\ UNCHANGED <<armed, submitted>>
      BY <1>8 DEF Settle, SettleTail, Goto
    <2>3. PICK k \in Jobs : k = ft[t]
      BY <2>1
    <2>5. CASE m_state[k] = "READY"
      <3>1. Schedule(k, NoPin) /\ m_state' = m_state
        BY <1>8, <2>3, <2>5 DEF Settle, Ended
      <3>2. j = k => ~Queued(j)
        BY <2>3 DEF PlainPlaced
      <3>3. OnceQueued(j)' /\ (Queued(j)' <=> Queued(j) \/ j = k)
        BY <1>0, <3>1, <3>2, ScheduleOne
      <3> QED
        BY <1>0, <2>2, <2>3, <2>5, <3>1, <3>2, <3>3 DEF PlainPlaced, TypeOK, OnThread, HasEnded, Ended
    <2>6. CASE m_state[k] # "READY"
      <3>1. m_fibers' = m_fibers
            /\ IF m_state[k] \in Ended THEN m_state' = m_state
               ELSE m_state' = [m_state EXCEPT ![k] = "HOLD"]
        BY <1>8, <2>3, <2>6 DEF Settle, SetState
      <3>2. j = k => m_state[k] \in Ended
        BY <2>2, <2>3, <2>6 DEF PlainPlaced
      <3>3. (Queued(j)' <=> Queued(j)) /\ OnceQueued(j)' /\ m_state'[j] = m_state[j]
        BY <1>0, <3>1, <3>2 DEF Queued, OnceQueued, TypeOK
      <3> QED
        BY <1>0, <2>2, <2>3, <3>2, <3>3 DEF PlainPlaced, TypeOK, OnThread, HasEnded
    <2> QED  BY <2>5, <2>6
  <1>9. ASSUME NEW k \in Jobs, NEW pin \in Pins,
               Submit(k, pin) \/ \E t \in Threads : Spawn(t, k, pin) PROVE PlainPlaced(j)'
    <2>1. /\ Schedule(k, pin) /\ submitted' = submitted \union {k} /\ k \notin submitted
          /\ UNCHANGED <<m_state, pc, ft, armed>>
      BY <1>9 DEF Submit, Spawn, control
    <2>2. j = k => ~Queued(j) /\ ~OnThread(j) /\ m_state[j] = "INIT"
      BY <2>1 DEF PlainPlaced
    <2>3. OnceQueued(j)' /\ (Queued(j)' <=> Queued(j) \/ j = k)
      BY <1>0, <2>1, <2>2, ScheduleOne
    <2> QED
      BY <1>0, <2>1, <2>2, <2>3 DEF PlainPlaced, OnThread, HasEnded, Ended
  <1>10. ASSUME NEW k \in Jobs, Wake(k) PROVE PlainPlaced(j)'
    <2>1. /\ Schedule(k, NoPin) /\ armed' = armed \ {k} /\ k # j
          /\ UNCHANGED <<m_state, pc, ft, submitted>>
      BY <1>10 DEF Wake, control, PlainPlaced
    <2>2. OnceQueued(j)' /\ (Queued(j)' <=> Queued(j))
      BY <1>0, <2>1, ScheduleOne
    <2> QED
      BY <1>0, <2>1, <2>2 DEF PlainPlaced, OnThread, HasEnded
  <1>11. ASSUME Start \/ StopCall \/ Stop \/ UNCHANGED vars PROVE PlainPlaced(j)'
    <2>1. /\ UNCHANGED <<m_fibers, submitted, armed, m_state, ft>>
          /\ \A t \in Threads : pc'[t] \in OnJob => pc'[t] = pc[t]
      <3>1. CASE Start
        BY <3>1 DEF Start, queue, OnJob, Active
      <3>2. CASE StopCall \/ StopFlag \/ StopRootEnds \/ StopJoin \/ UNCHANGED vars
        BY <3>2 DEF StopCall, StopFlag, StopRootEnds, StopJoin, queue, control, vars
      <3>3. CASE StopRoot
        BY <3>3 DEF StopRoot, Goto, queue, OnJob, Active, TypeOK
      <3> QED  BY <1>11, <3>1, <3>2, <3>3 DEF Stop
    <2>2. OnceQueued(j)' /\ (Queued(j)' <=> Queued(j))
      BY <1>0, <2>1 DEF Queued, OnceQueued
    <2> QED
      BY <1>0, <2>1, <2>2 DEF PlainPlaced, OnThread, HasEnded, OnJob, Active
  <1> QED
    BY <1>1, <1>2, <1>4, <1>5, <1>6, <1>7, <1>8, <1>9, <1>10, <1>11 DEF Next, Run, Body, Done, Ended

\* Every step of stop() and of the threads keeps the order of their leaving.
LEMMA LeavingStep ==
    ASSUME BaseInv, Leaving, [Next]_vars
    PROVE  Leaving'
  <1> USE ThreadAssumption DEF BaseInv
  <1>0. Pool \subseteq Threads /\ (UseCaller => Caller \in Threads)
    BY DEF Threads
  <1>1. ASSUME NEW t \in Threads, UNCHANGED <<m_autoStop, owner, idle>>,
               NEW l \in Pc, InRun(t), pc' = [pc EXCEPT ![t] = l], l # "off",
               l = "exited" => idle[t] = "TERM"
        PROVE  Leaving'
    BY <1>0, <1>1 DEF Leaving, InRun, TypeOK
  <1>2. ASSUME NEW t \in Threads, Run(t) \/ Body(t) PROVE Leaving'
    <2>1. CASE Idle(t)
      <3>1. /\ idle' = [idle EXCEPT ![t] = IF Stopping THEN "TERM" ELSE "HOLD"]
            /\ UNCHANGED <<m_autoStop, owner>> /\ pc[t] = "idle"
            /\ pc' = [pc EXCEPT ![t] = "loop"]
        BY <2>1 DEF Idle, Goto, flags
      <3>2. Stopping => m_autoStop
        BY DEF Stopping
      <3> QED  BY <1>0, <3>1, <3>2 DEF Leaving, InRun, TypeOK
    <2>2. CASE EnterIdle(t)
      BY <1>1, <2>2 DEF EnterIdle, Goto, flags, InRun, Pc
    <2>3. CASE \E k \in Jobs, pin \in Pins : Spawn(t, k, pin)
      BY <2>3 DEF Spawn, control, flags, Leaving, InRun
    <2>4. CASE Take(t) \/ Dispatch(t) \/ SwapOut(t) \/ Back(t) \/ Settle(t)
      BY <1>1, <2>4 DEF Take, Dispatch, SwapOut, Back, Settle, SettleTail, Goto, flags, InRun, Pc
    <2>5. CASE \/ YieldToReady(t) \/ YieldToHold(t) \/ Arm(t)
               \/ \E u \in Threads : SwitchTo(t, u) \/ \E s \in Ended : Finish(t, s)
      BY <1>1, <2>5 DEF YieldToReady, YieldToHold, Arm, SwitchTo, Finish, Goto, flags, InRun, Pc
    <2> QED
      BY <1>2, <2>1, <2>2, <2>3, <2>4, <2>5 DEF Run, Body
  <1>3. ASSUME NEW k \in Jobs, Wake(k) \/ \E pin \in Pins : Submit(k, pin) PROVE Leaving'
    BY <1>3 DEF Wake, Submit, control, flags, Leaving, InRun
  <1>4. ASSUME Start PROVE Leaving'
    BY <1>0, <1>4 DEF Start, Leaving, InRun, OwnerPc, TypeOK
  <1>5. ASSUME StopCall \/ StopFlag \/ StopRootEnds \/ StopJoin \/ UNCHANGED vars PROVE Leaving'
    BY <1>0, <1>5 DEF StopCall, StopFlag, StopRootEnds, StopJoin, vars, control, flags, Leaving,
       InRun, OwnerPc
  <1>6. ASSUME StopRoot PROVE Leaving'
    <2>1. CASE UseCaller /\ ~Stopping
      <3>1. pc' = [pc EXCEPT ![Caller] = "loop"] /\ owner' = "root" /\ owner = "stopping"
            /\ UNCHANGED <<m_autoStop, idle>>
        BY <1>6, <2>1 DEF StopRoot, Goto, flags
      <3> QED  BY <1>0, <2>1, <3>1 DEF Leaving, InRun, TypeOK
    <2>2. CASE ~(UseCaller /\ ~Stopping)
      <3>1. UNCHANGED <<m_autoStop, idle, pc>> /\ owner' = "join" /\ owner = "stopping"
        BY <1>6, <2>2 DEF StopRoot, flags
      <3> QED  BY <1>0, <3>1 DEF Leaving, InRun, OwnerPc
    <2> QED  BY <2>1, <2>2
  <1> QED
    BY <1>2, <1>3, <1>4, <1>5, <1>6 DEF Next, Stop, Done

\* Every step keeps a thread in run() as long as a job waits for any of them.
LEMMA WatchedStep ==
    ASSUME BaseInv, LeftInv, [Next]_vars
    PROVE  Watched'
  <1> USE ThreadAssumption, JobAssumption DEF BaseInv, LeftInv
  <1> SUFFICES ASSUME NEW j \in Plain, Unpinned(j)'
               PROVE  (\/ owner = "built"
                       \/ Pool = {} /\ owner \in {"running", "autoStop", "stopping"}
                       \/ \E t \in Threads : InRun(t))'
    BY DEF Watched
  <1>0. /\ j \in Jobs /\ j \notin Holders /\ j \notin Switchers /\ PlainPlaced(j) /\ OnceQueued(j)
        /\ Pool \subseteq Threads /\ (UseCaller => Caller \in Threads)
        /\ Pool # {} \/ UseCaller
    BY DEF Plain, AllPlaced, PlainPlaced, Threads
  <1>1. ASSUME NEW t \in Threads, InRun(t)' PROVE (\E u \in Threads : InRun(u))'
    BY <1>1
  <1>2. ASSUME NEW t \in Threads, EnterIdle(t) PROVE (\E u \in Threads : InRun(u))'
    <2>1. m_fibers' = m_fibers
      BY <1>2 DEF EnterIdle, queue
    <2>2. PICK i \in DOMAIN m_fibers : m_fibers[i].job = j /\ m_fibers[i].thread = NoPin
      BY <2>1 DEF Unpinned
    <2>3. m_state[j] # "EXEC"
      BY <1>0, <2>2 DEF PlainPlaced, Queued
    <2>4. Eligible(t, i)
      BY <2>2, <2>3 DEF Eligible
    <2> QED  BY <1>2, <2>4 DEF EnterIdle
  <1>3. ASSUME NEW t \in Threads, Run(t) \/ Body(t) PROVE (\E u \in Threads : InRun(u))'
    <2>1. CASE EnterIdle(t)
      BY <1>2, <2>1
    <2>2. CASE Take(t) \/ Idle(t) \/ Dispatch(t) \/ SwapOut(t) \/ Back(t) \/ Settle(t)
      BY <1>1, <2>2 DEF Take, Idle, Dispatch, SwapOut, Back, Settle, SettleTail, Goto, InRun, TypeOK
    <2>3. CASE \/ YieldToReady(t) \/ YieldToHold(t) \/ Arm(t)
               \/ \E u \in Threads : SwitchTo(t, u) \/ \E s \in Ended : Finish(t, s)
      BY <1>1, <2>3 DEF YieldToReady, YieldToHold, Arm, SwitchTo, Finish, Goto, InRun, TypeOK
    <2>4. CASE \E k \in Jobs, pin \in Pins : Spawn(t, k, pin)
      BY <1>1, <2>4 DEF Spawn, control, InRun
    <2> QED  BY <1>3, <2>1, <2>2, <2>3, <2>4 DEF Run, Body
  <1>4. ASSUME NEW k \in Jobs, Wake(k) PROVE Unpinned(j) /\ UNCHANGED <<owner, pc>>
    <2>1. Schedule(k, NoPin) /\ k # j
      BY <1>0, <1>4 DEF Wake, PlainPlaced
    <2>2. Unpinned(j)
      BY <1>0, <2>1, ScheduleOne
    <2> QED  BY <1>4, <2>2 DEF Wake, control
  <1>5. ASSUME NEW k \in Jobs, NEW pin \in Pins, Submit(k, pin)
        PROVE  /\ UNCHANGED <<owner, pc>> /\ owner \in {"built", "running"}
    BY <1>5 DEF Submit, control
  <1>6. ASSUME owner = "running", Pool # {} PROVE \E t \in Threads : InRun(t)
    <2>1. PICK t \in Pool : TRUE
      BY <1>6
    <2>2. InRun(t)
      BY <1>0, <1>6 DEF Leaving, InRun
    <2> QED  BY <1>0, <2>2
  <1>7. ASSUME Start PROVE (\/ Pool = {} /\ owner \in {"running", "autoStop", "stopping"}
                            \/ \E t \in Threads : InRun(t))'
    BY <1>0, <1>7 DEF Start, InRun
  <1>8. ASSUME StopCall \/ Stop \/ UNCHANGED vars PROVE Unpinned(j) /\ m_fibers' = m_fibers
                                                        /\ m_fibers # <<>>
    <2>1. m_fibers' = m_fibers
      BY <1>8 DEF StopCall, Stop, StopFlag, StopRoot, StopRootEnds, StopJoin, queue, vars
    <2> QED  BY <2>1 DEF Unpinned
  <1>9. ASSUME StopCall \/ UNCHANGED vars
        PROVE  (\/ owner = "built"
                \/ Pool = {} /\ owner \in {"running", "autoStop", "stopping"}
                \/ \E t \in Threads : InRun(t))'
    BY <1>8, <1>9 DEF StopCall, vars, control, Watched, InRun
  <1>10. ASSUME StopFlag
         PROVE  (\/ Pool = {} /\ owner \in {"running", "autoStop", "stopping"}
                 \/ \E t \in Threads : InRun(t))'
    BY <1>8, <1>10 DEF StopFlag, Stop, control, Watched, InRun
  <1>11. ASSUME StopRoot PROVE (\E t \in Threads : InRun(t))'
    <2>1. CASE UseCaller /\ ~Stopping
      BY <1>0, <1>11, <2>1 DEF StopRoot, Goto, InRun, TypeOK
    <2>2. CASE ~UseCaller
      BY <1>0, <1>8, <1>11, <2>2 DEF StopRoot, Stop, Watched, InRun
    <2>3. CASE UseCaller /\ Stopping
      BY <1>8, <1>11, <2>3 DEF Stopping, Stop
    <2> QED  BY <2>1, <2>2, <2>3
  <1>12. ASSUME StopRootEnds \/ StopJoin PROVE (\E t \in Threads : InRun(t))'
    BY <1>8, <1>12 DEF StopRootEnds, StopJoin, Stop, control, Watched, InRun
  <1>13. ASSUME NEW k \in Jobs, Wake(k) \/ \E pin \in Pins : Submit(k, pin)
         PROVE  (\/ owner = "built"
                 \/ Pool = {} /\ owner \in {"running", "autoStop", "stopping"}
                 \/ \E t \in Threads : InRun(t))'
    <2>1. CASE Wake(k)
      BY <1>4, <2>1 DEF Watched, InRun
    <2>2. CASE \E pin \in Pins : Submit(k, pin)
      BY <1>5, <1>6, <2>2 DEF InRun
    <2> QED  BY <1>13, <2>1, <2>2
  <1> QED
    BY <1>3, <1>7, <1>9, <1>10, <1>11, <1>12, <1>13 DEF Next, Stop, Done

\* switchTo ends in YieldToHold: a job that may switch is one that may hold.
SwitchersHold == Switchers \subseteq Holders

\* When stop() has returned no thread is in run(), and a job that never holds
\* has ended or waits for a certain thread that had left, for every pool, with
\* or without the caller, and whatever the jobs that hold do to each other.
THEOREM StopCorrect == SwitchersHold => (Spec => []StopLeavesNothing)
  <1> SUFFICES ASSUME SwitchersHold PROVE Spec => []StopLeavesNothing
    OBVIOUS
  <1>1. BaseInv /\ LeftInv /\ [Next]_vars => LeftInv'
    <2> SUFFICES ASSUME BaseInv, LeftInv, [Next]_vars PROVE LeftInv'
      OBVIOUS
    <2>1. AllPlaced'
      BY PlainStep DEF LeftInv, AllPlaced
    <2> QED  BY <2>1, LeavingStep, WatchedStep DEF LeftInv
  <1>2. BaseInv /\ LeftInv => StopLeavesNothing
    <2> SUFFICES ASSUME BaseInv, LeftInv, owner = "stopped" PROVE StopLeavesNothing
      BY DEF StopLeavesNothing
    <2>1. \A t \in Threads : pc[t] \in {"off", "exited"}
      BY DEF LeftInv, Leaving, InRun, Threads
    <2>2. ASSUME NEW j \in submitted, ~HasEnded(j), j \notin Holders
          PROVE  \E i \in DOMAIN m_fibers : m_fibers[i].job = j /\ m_fibers[i].thread \in Threads
      <3>1. j \in Plain /\ j \in Jobs
        BY <2>2 DEF BaseInv, TypeOK, Plain, SwitchersHold
      <3>2. ~OnThread(j)
        BY <2>1, <3>1, JobAssumption DEF BaseInv, JobHeld, OnJob, Active, OnThread
      <3>3. PICK i \in DOMAIN m_fibers : m_fibers[i].job = j
        BY <2>2, <3>1, <3>2 DEF LeftInv, AllPlaced, PlainPlaced, Queued
      <3>4. m_fibers[i].thread # NoPin
        BY <2>1, <3>1, <3>3 DEF LeftInv, Watched, Unpinned, InRun
      <3>5. m_fibers[i] \in Entry
        BY DEF BaseInv, TypeOK
      <3> QED  BY <3>3, <3>4, <3>5 DEF Entry
    <2> QED  BY <2>1, <2>2 DEF StopLeavesNothing
  <1> QED  BY BaseInit, BaseStep, LeftInit, <1>1, <1>2, PTL DEF Spec
=============================================================================
