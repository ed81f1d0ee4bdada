-------------------------- MODULE IOManagerProofs --------------------------
(***************************************************************************)
(* Theorems about IOManager, for any number of descriptors, waiters and    *)
(* workers, with reports of epoll_wait that may be arbitrarily old.        *)
(***************************************************************************)
EXTENDS IOManager, FiniteSetTheorems, TLAPS

\* The part of the type invariant the proofs need.
Shape ==
    /\ m_events \in [Fds -> SUBSET Events]
    /\ ctx \in [Fds -> [Events -> Waiters \union {None}]]
    /\ fate \in [Waiters -> {"new", "waiting", "woken", "deleted"}]
    /\ wakes \in [Waiters -> Nat]
    /\ ready \in [Fds -> SUBSET Events]
    /\ got \in [Workers -> Report \union {NoReport}]

ContextInv == Shape /\ ContextMatchesEvents /\ WaiterOnce

LEMMA ContextInit == Init => ContextInv
  BY IOAssumption DEF Init, ContextInv, Shape, ContextMatchesEvents, WaiterOnce

\* triggerEvent keeps the waiters and the contexts consistent, also for events
\* that are not registered.
LEMMA TriggerKeepsContext ==
    ASSUME ContextInv, NEW fd \in Fds, NEW evs \in SUBSET Events, Trigger(fd, evs),
           UNCHANGED ready, got' \in [Workers -> Report \union {NoReport}]
    PROVE  ContextInv'
  <1> DEFINE hit == evs \intersect m_events[fd]
             who == {ctx[fd][ev] : ev \in hit}
  <1>1. /\ m_events' = [m_events EXCEPT ![fd] = @ \ hit]
        /\ ctx' = [ctx EXCEPT ![fd] = [ev \in Events |-> IF ev \in hit THEN None ELSE @[ev]]]
        /\ fate' = [x \in Waiters |-> IF x \in who THEN "woken" ELSE fate[x]]
        /\ wakes' = [x \in Waiters |-> IF x \in who THEN wakes[x] + 1 ELSE wakes[x]]
    BY DEF Trigger
  <1>2. hit \subseteq Events /\ hit \subseteq m_events[fd]
    BY DEF ContextInv, Shape
  <1>3. \A ev \in hit : ctx[fd][ev] \in Waiters /\ fate[ctx[fd][ev]] = "waiting"
    BY <1>2 DEF ContextInv, Shape, ContextMatchesEvents, WaiterOnce
  <1>4. \A x \in who : x \in Waiters /\ fate[x] = "waiting" /\ wakes[x] = 0
    BY <1>3 DEF ContextInv, WaiterOnce
  <1>5. \A f \in Fds, d \in Events : ctx[f][d] \in who => f = fd /\ d \in hit
    BY <1>2, <1>3, IOAssumption DEF ContextInv, WaiterOnce
  <1>6. \A f \in Fds, d \in Events :
           ctx'[f][d] = IF f = fd /\ d \in hit THEN None ELSE ctx[f][d]
    BY <1>1 DEF ContextInv, Shape
  <1>7. Shape'
    BY <1>1, <1>2 DEF ContextInv, Shape
  <1>8. ContextMatchesEvents'
    BY <1>1, <1>2, <1>6 DEF ContextInv, Shape, ContextMatchesEvents
  <1> HIDE DEF hit, who
  <1>9. \A x \in Waiters : wakes'[x] = IF fate'[x] = "woken" THEN 1 ELSE 0
    BY <1>1, <1>4 DEF ContextInv, WaiterOnce, Shape
  <1>10. ASSUME NEW x \in Waiters
         PROVE  fate'[x] = "waiting" <=> \E f \in Fds, d \in Events : ctx'[f][d] = x
    <2>1. CASE x \in who
      <3>1. fate'[x] = "woken"
        BY <1>1, <2>1
      <3>2. \A f \in Fds, d \in Events : ctx'[f][d] # x
        BY <1>5, <1>6, <2>1, IOAssumption
      <3> QED  BY <3>1, <3>2
    <2>2. CASE x \notin who
      <3>1. fate'[x] = fate[x]
        BY <1>1, <2>2
      <3>2. \A f \in Fds, d \in Events : f = fd /\ d \in hit => ctx[f][d] # x
        BY <2>2 DEF who
      <3>3. \A f \in Fds, d \in Events : ctx'[f][d] = x <=> ctx[f][d] = x
        BY <1>6, <3>2, IOAssumption
      <3> QED  BY <3>1, <3>3 DEF ContextInv, WaiterOnce
    <2> QED  BY <2>1, <2>2
  <1>11. \A f, g \in Fds, d, e \in Events :
            ctx'[f][d] = ctx'[g][e] /\ ctx'[f][d] # None => f = g /\ d = e
    BY <1>6 DEF ContextInv, WaiterOnce
  <1> QED  BY <1>7, <1>8, <1>9, <1>10, <1>11 DEF ContextInv, WaiterOnce

\* Every step keeps the contexts consistent.
LEMMA ContextStep == ContextInv /\ [Next]_vars => ContextInv'
  <1> SUFFICES ASSUME ContextInv, [Next]_vars PROVE ContextInv'
    OBVIOUS
  <1>1. ASSUME NEW fd \in Fds, NEW ev \in Events, NEW x \in Waiters, AddEvent(fd, ev, x)
        PROVE  ContextInv'
    <2>1. /\ fate[x] = "new" /\ ev \notin m_events[fd]
          /\ m_events' = [m_events EXCEPT ![fd] = @ \union {ev}]
          /\ ctx' = [ctx EXCEPT ![fd][ev] = x]
          /\ fate' = [fate EXCEPT ![x] = "waiting"]
          /\ UNCHANGED <<wakes, ready, got>>
      BY <1>1 DEF AddEvent, Ctl
    <2>2. ctx[fd][ev] = None /\ \A f \in Fds, d \in Events : ctx[f][d] # x
      BY <2>1 DEF ContextInv, ContextMatchesEvents, WaiterOnce
    <2>3. \A f \in Fds, d \in Events : ctx'[f][d] = IF f = fd /\ d = ev THEN x ELSE ctx[f][d]
      BY <2>1 DEF ContextInv, Shape
    <2>4. Shape' /\ ContextMatchesEvents'
      BY <2>1, <2>3, IOAssumption DEF ContextInv, Shape, ContextMatchesEvents
    <2>5. WaiterOnce'
      BY <2>1, <2>2, <2>3, IOAssumption DEF ContextInv, Shape, WaiterOnce
    <2> QED  BY <2>4, <2>5 DEF ContextInv
  <1>2. ASSUME NEW fd \in Fds, NEW ev \in Events, DelEvent(fd, ev) PROVE ContextInv'
    <2> DEFINE x == ctx[fd][ev]
    <2>1. /\ ev \in m_events[fd]
          /\ m_events' = [m_events EXCEPT ![fd] = @ \ {ev}]
          /\ ctx' = [ctx EXCEPT ![fd][ev] = None]
          /\ fate' = [fate EXCEPT ![x] = "deleted"]
          /\ UNCHANGED <<wakes, ready, got>>
      BY <1>2 DEF DelEvent, Ctl
    <2>2. x \in Waiters /\ fate[x] = "waiting"
      BY <2>1, IOAssumption DEF ContextInv, Shape, ContextMatchesEvents, WaiterOnce
    <2>3. \A f \in Fds, d \in Events : ctx'[f][d] = IF f = fd /\ d = ev THEN None ELSE ctx[f][d]
      BY <2>1 DEF ContextInv, Shape
    <2>4. Shape' /\ ContextMatchesEvents'
      BY <2>1, <2>2, <2>3 DEF ContextInv, Shape, ContextMatchesEvents
    <2>5. \A f \in Fds, d \in Events : ctx[f][d] = x => f = fd /\ d = ev
      BY <2>2, IOAssumption DEF ContextInv, WaiterOnce
    <2> HIDE DEF x
    <2>6. WaiterOnce'
      BY <2>1, <2>2, <2>3, <2>5, IOAssumption DEF ContextInv, Shape, WaiterOnce
    <2> QED  BY <2>4, <2>6 DEF ContextInv
  <1>3. ASSUME NEW fd \in Fds, NEW ev \in Events, CancelEvent(fd, ev) PROVE ContextInv'
    BY <1>3, TriggerKeepsContext DEF CancelEvent, Ctl, ContextInv, Shape
  <1>4. ASSUME NEW fd \in Fds, CancelAll(fd) PROVE ContextInv'
    <2>1. m_events[fd] \in SUBSET Events /\ got \in [Workers -> Report \union {NoReport}]
      BY DEF ContextInv, Shape
    <2> QED  BY <1>4, <2>1, TriggerKeepsContext DEF CancelAll, Ctl
  <1>5. ASSUME NEW w \in Workers, Handle(w) PROVE ContextInv'
    <2>1. got' \in [Workers -> Report \union {NoReport}]
      BY <1>5 DEF Handle, ContextInv, Shape
    <2>0. UNCHANGED ready
      BY <1>5 DEF Handle, Ctl, kernel
    <2>2. CASE UNCHANGED context
      BY <2>0, <2>1, <2>2 DEF context, ContextInv, Shape, ContextMatchesEvents, WaiterOnce
    <2>3. CASE ~UNCHANGED context
      <3>1. Trigger(got[w].fd, RealEvents(w)) /\ got[w] \in Report
        BY <1>5, <2>3 DEF Handle, ContextInv, Shape
      <3>2. got[w].fd \in Fds /\ RealEvents(w) \in SUBSET Events
        BY <3>1 DEF Report, RealEvents, ContextInv, Shape
      <3> QED  BY <2>0, <2>1, <3>1, <3>2, TriggerKeepsContext
    <2> QED  BY <2>2, <2>3
  <1>6. ASSUME NEW w \in Workers, NEW fd \in Fds, NEW hup \in BOOLEAN, EpollWait(w, fd, hup)
        PROVE  ContextInv'
    <2>1. ready[fd] \intersect interest[fd] \in SUBSET Events
      BY DEF ContextInv, Shape
    <2>2. [fd |-> fd, events |-> ready[fd] \intersect interest[fd], hup |-> hup] \in Report
      BY <2>1 DEF Report
    <2>3. UNCHANGED <<m_events, ctx, fate, wakes, ready>>
      BY <1>6 DEF EpollWait, context
    <2>4. got' \in [Workers -> Report \union {NoReport}]
      BY <1>6, <2>2 DEF EpollWait, ContextInv, Shape
    <2> QED  BY <2>3, <2>4 DEF ContextInv, Shape, ContextMatchesEvents, WaiterOnce
  <1>7. ASSUME UNCHANGED <<context, got>>, ready' \in [Fds -> SUBSET Events]
        PROVE  ContextInv'
    BY <1>7 DEF context, ContextInv, Shape, ContextMatchesEvents, WaiterOnce
  <1>8. ready \in [Fds -> SUBSET Events]
    BY DEF ContextInv, Shape
  <1>9. ASSUME NEW fd \in Fds, NEW ev \in Events, Arrive(fd, ev) \/ Drain(fd, ev)
        PROVE  ContextInv'
    BY <1>7, <1>8, <1>9 DEF Arrive, Drain
  <1>10. ASSUME NEW fd \in Fds, Close(fd) \/ Reopen(fd) PROVE ContextInv'
    BY <1>7, <1>8, <1>10 DEF Close, Reopen
  <1>11. CASE UNCHANGED vars
    BY <1>7, <1>8, <1>11 DEF vars, context
  <1> QED
    BY <1>1, <1>2, <1>3, <1>4, <1>5, <1>6, <1>9, <1>10, <1>11 DEF Next, Worker

\* A waiter of addEvent is scheduled at most once and never after delEvent
\* forgot it, however old the report is that idle() acts on.
THEOREM WaiterCorrect == Spec => []WaiterOnce
  <1>1. ContextInv => WaiterOnce
    BY DEF ContextInv
  <1> QED  BY ContextInit, ContextStep, <1>1, PTL DEF Spec

\* The assertion of addEvent (iomanager.cc 134) cannot fail: a context whose
\* bit in m_events is clear is empty, also for descriptors that were closed
\* behind the IOManager's back.
THEOREM ContextCorrect == Spec => []ContextMatchesEvents
  <1>1. ContextInv => ContextMatchesEvents
    BY DEF ContextInv
  <1> QED  BY ContextInit, ContextStep, <1>1, PTL DEF Spec

-----------------------------------------------------------------------------
\* m_events and the kernel's interest list.  Only a close() that is not
\* preceded by cancelAll() can make them differ.
KernelInv == ContextInv /\ closes \in Nat /\ KernelAgrees

\* One epoll_ctl call brings the interest list to the events it is given.
LEMMA CtlAgrees ==
    ASSUME KernelInv, NEW fd \in Fds, NEW events \in SUBSET Events, Ctl(fd, events),
           m_events' = [m_events EXCEPT ![fd] = events]
    PROVE  closes' = closes /\ KernelAgrees'
  <1>1. closes' = closes
    BY DEF Ctl
  <1>2. SUFFICES ASSUME closes = 0, NEW f \in Fds
                 PROVE  IF m_events'[f] = {} THEN f \notin DOMAIN interest'
                        ELSE f \in DOMAIN interest' /\ interest'[f] = m_events'[f]
    BY <1>1 DEF KernelAgrees
  <1>3. m_events'[f] = IF f = fd THEN events ELSE m_events[f]
    BY DEF KernelInv, ContextInv, Shape
  <1>4. /\ DOMAIN interest' = (DOMAIN interest \ {fd}) \union (IF events = {} THEN {} ELSE {fd})
        /\ \A g \in DOMAIN interest' : interest'[g] = IF g = fd THEN events ELSE interest[g]
    BY DEF Ctl
  <1> QED  BY <1>2, <1>3, <1>4 DEF KernelInv, KernelAgrees

LEMMA KernelInit == Init => KernelInv
  BY ContextInit DEF Init, KernelInv, KernelAgrees

LEMMA KernelStep == KernelInv /\ [Next]_vars => KernelInv'
  <1> SUFFICES ASSUME KernelInv, [Next]_vars PROVE KernelInv'
    OBVIOUS
  <1>0. ContextInv' /\ Shape
    BY ContextStep DEF KernelInv, ContextInv
  <1>1. ASSUME NEW fd \in Fds, NEW events \in SUBSET Events, Ctl(fd, events),
               m_events' = [m_events EXCEPT ![fd] = events]
        PROVE  KernelInv'
    BY <1>0, <1>1, CtlAgrees DEF KernelInv
  <1>2. ASSUME NEW fd \in Fds, NEW evs, Trigger(fd, evs)
        PROVE  m_events' = [m_events EXCEPT ![fd] = m_events[fd] \ evs]
    BY <1>0, <1>2 DEF Trigger, Shape
  <1>3. ASSUME NEW fd \in Fds, NEW ev \in Events, NEW x \in Waiters, AddEvent(fd, ev, x)
        PROVE  KernelInv'
    <2>1. m_events[fd] \union {ev} \in SUBSET Events
      BY <1>0 DEF Shape
    <2> QED  BY <1>1, <1>3, <2>1 DEF AddEvent
  <1>4. ASSUME NEW fd \in Fds, NEW ev \in Events, DelEvent(fd, ev) \/ CancelEvent(fd, ev)
        PROVE  KernelInv'
    <2>1. m_events[fd] \ {ev} \in SUBSET Events
      BY <1>0 DEF Shape
    <2> QED  BY <1>1, <1>2, <1>4, <2>1 DEF DelEvent, CancelEvent
  <1>5. ASSUME NEW fd \in Fds, CancelAll(fd) PROVE KernelInv'
    <2>1. m_events[fd] \ m_events[fd] = {} /\ {} \in SUBSET Events
      OBVIOUS
    <2> QED  BY <1>1, <1>2, <1>5, <2>1 DEF CancelAll
  <1>6. ASSUME UNCHANGED <<m_events, interest, closes>> PROVE KernelInv'
    BY <1>0, <1>6 DEF KernelInv, KernelAgrees
  <1>7. ASSUME NEW w \in Workers, Handle(w) PROVE KernelInv'
    <2>1. CASE UNCHANGED <<context, kernel>>
      BY <1>6, <2>1 DEF context, kernel
    <2>2. CASE ~UNCHANGED <<context, kernel>>
      <3> DEFINE fd == got[w].fd  real == RealEvents(w)
      <3>1. Ctl(fd, m_events[fd] \ real) /\ Trigger(fd, real) /\ got[w] \in Report
        BY <1>0, <1>7, <2>2 DEF Handle, Shape
      <3>2. fd \in Fds
        BY <3>1 DEF Report
      <3>3. m_events[fd] \ real \in SUBSET Events
        BY <1>0, <3>2 DEF Shape
      <3> HIDE DEF fd, real
      <3> QED  BY <1>1, <1>2, <3>1, <3>2, <3>3
    <2> QED  BY <2>1, <2>2
  <1>8. ASSUME NEW fd \in Fds, Close(fd) PROVE KernelInv'
    BY <1>0, <1>8 DEF Close, KernelInv, KernelAgrees
  <1>9. ASSUME NEW w \in Workers, NEW fd \in Fds, NEW hup \in BOOLEAN, EpollWait(w, fd, hup)
        PROVE  KernelInv'
    BY <1>6, <1>9 DEF EpollWait, context
  <1>10. ASSUME NEW fd \in Fds, NEW ev \in Events, Arrive(fd, ev) \/ Drain(fd, ev)
         PROVE  KernelInv'
    BY <1>6, <1>10 DEF Arrive, Drain, context
  <1>11. ASSUME NEW fd \in Fds, Reopen(fd) PROVE KernelInv'
    BY <1>6, <1>11 DEF Reopen, context
  <1>12. CASE UNCHANGED vars
    BY <1>6, <1>12 DEF vars
  <1> QED
    BY <1>3, <1>4, <1>5, <1>7, <1>8, <1>9, <1>10, <1>11, <1>12 DEF Next, Worker

\* The kernel watches exactly the registered events as long as no descriptor
\* is closed without cancelAll, so epoll_ctl gets the right operation (ADD,
\* MOD or DEL) in addEvent, delEvent, cancelEvent and idle.
THEOREM KernelCorrect == Spec => []KernelAgrees
  <1>1. KernelInv => KernelAgrees
    BY DEF KernelInv
  <1> QED  BY KernelInit, KernelStep, <1>1, PTL DEF Spec

-----------------------------------------------------------------------------
(* IOManager implements EventWait.                                          *)

\* The places to wait, and who waits there.
Places == Fds \X Events
SlotOf == [s \in Places |-> ctx[s[1]][s[2]]]

\* triggerEvent of at least one registered event is one Wake of EventWait.
LEMMA TriggerIsWake ==
    ASSUME ContextInv, NEW fd \in Fds, NEW evs \in SUBSET Events, Trigger(fd, evs),
           evs \intersect m_events[fd] # {}
    PROVE  Wait!Next
  <1> DEFINE hit == evs \intersect m_events[fd]
             S == {s \in Places : s[1] = fd /\ s[2] \in hit}
  <1>1. hit \subseteq Events
    OBVIOUS
  <1>2. S # {} /\ S \in SUBSET Places
    <2>1. PICK ev \in hit : TRUE
      OBVIOUS
    <2>2. <<fd, ev>> \in S
      BY <1>1, <2>1 DEF Places
    <2> QED  BY <2>2
  <1>3. \A s \in S : ctx[s[1]][s[2]] # None
    BY DEF Places, ContextInv, ContextMatchesEvents
  <1>4. \A s \in Places : ctx'[s[1]][s[2]] = IF s \in S THEN None ELSE ctx[s[1]][s[2]]
    BY <1>1 DEF Trigger, Places, ContextInv, Shape
  <1>5. \A x \in Waiters : x \in {ctx[fd][ev] : ev \in hit} <=> \E s \in S : ctx[s[1]][s[2]] = x
    <2>1. \A ev \in hit : <<fd, ev>> \in S
      BY <1>1 DEF Places
    <2>2. \A s \in S : s[1] = fd /\ s[2] \in hit
      OBVIOUS
    <2> HIDE DEF S, hit
    <2> QED  BY <2>1, <2>2
  <1>6. fate' = [x \in Waiters |-> IF \E s \in S : SlotOf[s] = x THEN "woken" ELSE fate[x]]
    <2>1. fate' = [x \in Waiters |-> IF x \in {ctx[fd][ev] : ev \in hit} THEN "woken" ELSE fate[x]]
      BY DEF Trigger
    <2>2. \A s \in S : SlotOf[s] = ctx[s[1]][s[2]]
      BY DEF SlotOf
    <2> HIDE DEF S, hit
    <2> QED  BY <1>5, <2>1, <2>2
  <1>7. SlotOf' = [s \in Places |-> IF s \in S THEN None ELSE SlotOf[s]]
    BY <1>4 DEF SlotOf, Places
  <1>8. \A s \in S : SlotOf[s] # None
    BY <1>3 DEF SlotOf
  <1> HIDE DEF S
  <1>9. PICK T \in SUBSET (Fds \X Events) : T = S
    BY <1>2 DEF Places
  <1>10. Wait!Wake(T)
    BY <1>2, <1>6, <1>7, <1>8, <1>9 DEF Wait!Wake, SlotOf, Places
  <1> QED  BY <1>10, Zenon DEF Wait!Next

\* Every step of IOManager is a step of EventWait or leaves its variables alone.
LEMMA StepImplements ==
    ContextInv /\ [Next]_vars => [Wait!Next]_<<SlotOf, fate>>
  <1> SUFFICES ASSUME ContextInv, [Next]_vars PROVE [Wait!Next]_<<SlotOf, fate>>
    OBVIOUS
  <1>1. ASSUME UNCHANGED <<ctx, fate>> PROVE UNCHANGED <<SlotOf, fate>>
    BY <1>1 DEF SlotOf
  <1>2. ASSUME NEW fd \in Fds, NEW ev \in Events, NEW x \in Waiters, AddEvent(fd, ev, x)
        PROVE  Wait!Next
    <2>1. ctx' = [ctx EXCEPT ![fd][ev] = x] /\ fate' = [fate EXCEPT ![x] = "waiting"]
          /\ fate[x] = "new"
      BY <1>2 DEF AddEvent
    <2>2. SlotOf[<<fd, ev>>] = None
      BY <1>2 DEF AddEvent, SlotOf, Places, ContextInv, ContextMatchesEvents
    <2>3. SlotOf' = [SlotOf EXCEPT ![<<fd, ev>>] = x]
      <3>1. \A s \in Places : ctx'[s[1]][s[2]] = IF s = <<fd, ev>> THEN x ELSE ctx[s[1]][s[2]]
        <4> SUFFICES ASSUME NEW f \in Fds, NEW e \in Events
                     PROVE  ctx'[f][e] = IF <<f, e>> = <<fd, ev>> THEN x ELSE ctx[f][e]
          BY DEF Places
        <4> QED  BY <2>1 DEF ContextInv, Shape
      <3>2. SlotOf' = [s \in Places |-> IF s = <<fd, ev>> THEN x ELSE SlotOf[s]]
        BY <3>1 DEF SlotOf
      <3>3. DOMAIN SlotOf = Places /\ <<fd, ev>> \in Places
        BY DEF SlotOf, Places
      <3> QED  BY <3>2, <3>3
    <2>4. Wait!Register(<<fd, ev>>, x)
      BY <2>1, <2>2, <2>3 DEF Wait!Register, SlotOf, Places
    <2> QED  BY <2>4 DEF Wait!Next
  <1>3. ASSUME NEW fd \in Fds, NEW ev \in Events, DelEvent(fd, ev) PROVE Wait!Next
    <2>1. ctx' = [ctx EXCEPT ![fd][ev] = None] /\ fate' = [fate EXCEPT ![ctx[fd][ev]] = "deleted"]
      BY <1>3 DEF DelEvent
    <2>2. SlotOf[<<fd, ev>>] = ctx[fd][ev] /\ SlotOf[<<fd, ev>>] # None
      BY <1>3 DEF DelEvent, SlotOf, Places, ContextInv, ContextMatchesEvents
    <2>3. SlotOf' = [SlotOf EXCEPT ![<<fd, ev>>] = None]
      <3>1. \A s \in Places : ctx'[s[1]][s[2]] = IF s = <<fd, ev>> THEN None ELSE ctx[s[1]][s[2]]
        <4> SUFFICES ASSUME NEW f \in Fds, NEW e \in Events
                     PROVE  ctx'[f][e] = IF <<f, e>> = <<fd, ev>> THEN None ELSE ctx[f][e]
          BY DEF Places
        <4> QED  BY <2>1 DEF ContextInv, Shape
      <3>2. SlotOf' = [s \in Places |-> IF s = <<fd, ev>> THEN None ELSE SlotOf[s]]
        BY <3>1 DEF SlotOf
      <3>3. DOMAIN SlotOf = Places /\ <<fd, ev>> \in Places
        BY DEF SlotOf, Places
      <3> QED  BY <3>2, <3>3
    <2>4. Wait!Forget(<<fd, ev>>)
      BY <2>1, <2>2, <2>3 DEF Wait!Forget, SlotOf, Places
    <2> QED  BY <2>4 DEF Wait!Next
  <1>4. ASSUME NEW fd \in Fds, NEW ev \in Events, CancelEvent(fd, ev) PROVE Wait!Next
    BY <1>4, TriggerIsWake DEF CancelEvent
  <1>5. ASSUME NEW fd \in Fds, CancelAll(fd) PROVE Wait!Next
    <2>1. m_events[fd] \in SUBSET Events
      BY DEF ContextInv, Shape
    <2> QED  BY <1>5, <2>1, TriggerIsWake DEF CancelAll
  <1>6. ASSUME NEW w \in Workers, Handle(w) PROVE Wait!Next \/ UNCHANGED <<ctx, fate>>
    <2> DEFINE fd == got[w].fd  real == RealEvents(w)
    <2>1. CASE m_events[fd] \intersect real = {} \/ fd \notin DOMAIN interest
      BY <1>6, <2>1 DEF Handle, context
    <2>2. CASE ~(m_events[fd] \intersect real = {} \/ fd \notin DOMAIN interest)
      <3>1. Trigger(fd, real) /\ got[w] \in Report
        BY <1>6, <2>2 DEF Handle, ContextInv, Shape
      <3>2. fd \in Fds /\ real \in SUBSET Events
        BY <3>1 DEF Report, RealEvents, ContextInv, Shape
      <3>3. real \intersect m_events[fd] # {}
        BY <2>2
      <3> HIDE DEF fd, real
      <3> QED  BY <3>1, <3>2, <3>3, TriggerIsWake
    <2> QED  BY <2>1, <2>2
  <1>7. ASSUME NEW w \in Workers, NEW fd \in Fds, NEW hup \in BOOLEAN, EpollWait(w, fd, hup)
        PROVE  UNCHANGED <<ctx, fate>>
    BY <1>7 DEF EpollWait, context
  <1>8. ASSUME NEW fd \in Fds, NEW ev \in Events, Arrive(fd, ev) \/ Drain(fd, ev)
        PROVE  UNCHANGED <<ctx, fate>>
    BY <1>8 DEF Arrive, Drain, context
  <1>9. ASSUME NEW fd \in Fds, Close(fd) \/ Reopen(fd) PROVE UNCHANGED <<ctx, fate>>
    BY <1>9 DEF Close, Reopen, context
  <1>10. CASE UNCHANGED vars
    BY <1>1, <1>10 DEF vars
  <1> HIDE DEF SlotOf
  <1> QED
    BY <1>1, <1>2, <1>3, <1>4, <1>5, <1>6, <1>7, <1>8, <1>9, <1>10 DEF Next, Worker

\* addEvent, delEvent, cancelEvent, cancelAll and idle() together implement the
\* waiting that EventWait describes, for any descriptors, waiters and workers:
\* whatever worker acts on whatever old report, a waiter leaves its place once.
THEOREM Implements == Spec => ImplementsEventWait
  <1>1. Init => Wait!Init
    BY DEF Init, Wait!Init
  <1>2. ContextInv /\ [Next]_vars => [Wait!Next]_<<[s \in Fds \X Events |-> ctx[s[1]][s[2]]], fate>>
    BY StepImplements DEF SlotOf, Places
  <1> QED
    BY ContextInit, ContextStep, <1>1, <1>2, PTL DEF Spec, ImplementsEventWait, Wait!Spec

-----------------------------------------------------------------------------
(* The rest of the types: the kernel's side and the counter.               *)

\* The interest list of epoll, the descriptors that are open, the edges not yet reported and the
\* number of events that are waited for.
Outside ==
    /\ DOMAIN interest \subseteq Fds /\ \A fd \in DOMAIN interest : interest[fd] \subseteq Events
    /\ open \subseteq Fds /\ edge \subseteq Fds
    /\ closes \in 0 .. MaxCloses
    /\ m_pendingEventCount \in 0 .. SizeT - 1

\* epoll_ctl, with whatever it is asked, leaves a state of the kernel.
LEMMA CtlTypes ==
    ASSUME Outside, NEW fd \in Fds, NEW events \in SUBSET Events, Ctl(fd, events),
           m_pendingEventCount' \in 0 .. SizeT - 1
    PROVE  Outside'
  <1>1. /\ interest' = [f \in (DOMAIN interest \ {fd}) \union (IF events = {} THEN {} ELSE {fd}) |->
                           IF f = fd THEN events ELSE interest[f]]
        /\ edge' \in {edge \union {fd}, edge \ {fd}} /\ open' = open /\ closes' = closes
    BY DEF Ctl
  <1>2. DOMAIN interest' = (DOMAIN interest \ {fd}) \union (IF events = {} THEN {} ELSE {fd})
    BY <1>1
  <1>3. DOMAIN interest' \subseteq Fds
    BY <1>2 DEF Outside
  <1>4. ASSUME NEW f \in DOMAIN interest' PROVE interest'[f] \subseteq Events
    <2>1. interest'[f] = IF f = fd THEN events ELSE interest[f]
      BY <1>1, <1>2
    <2>2. f # fd => f \in DOMAIN interest
      BY <1>2
    <2> QED  BY <2>1, <2>2 DEF Outside
  <1> QED  BY <1>1, <1>3, <1>4 DEF Outside

\* A size_t stays one, whatever is added.
LEMMA CountTypes ==
    ASSUME m_pendingEventCount \in 0 .. SizeT - 1, NEW n \in Int, Count(n)
    PROVE  m_pendingEventCount' \in 0 .. SizeT - 1
  <1>1. PICK m \in Int : m = m_pendingEventCount + n /\ m_pendingEventCount' = m % SizeT
    <2>1. m_pendingEventCount + n \in Int
      BY IOAssumption
    <2> QED  BY <2>1 DEF Count
  <1>2. m % SizeT \in 0 .. SizeT - 1
    BY IOAssumption
  <1> QED  BY <1>1, <1>2

\* The number of events of a set is an integer.
LEMMA EventsCount == \A evs \in SUBSET Events : -Cardinality(evs) \in Int
  <1>1. IsFiniteSet({"READ", "WRITE"})
    <2>1. IsFiniteSet({} \union {"READ"}) /\ IsFiniteSet(({} \union {"READ"}) \union {"WRITE"})
      BY FS_EmptySet, FS_AddElement
    <2>2. ({} \union {"READ"}) \union {"WRITE"} = {"READ", "WRITE"}
      OBVIOUS
    <2> QED  BY <2>1, <2>2
  <1>2. ASSUME NEW evs \in SUBSET Events PROVE -Cardinality(evs) \in Int
    <2>1. evs \subseteq {"READ", "WRITE"}
      BY IOAssumption
    <2>2. Cardinality(evs) \in Nat
      BY <1>1, <2>1, FS_Subset, FS_CardinalityType
    <2> QED  BY <2>2
  <1> QED  BY <1>2

\* Every step keeps these types.
LEMMA OutsideStep == ContextInv /\ Outside /\ [Next]_vars => Outside'
  <1> SUFFICES ASSUME ContextInv, Outside, [Next]_vars PROVE Outside'
    OBVIOUS
  <1>0. /\ \A fd \in Fds : m_events[fd] \in SUBSET Events
        /\ m_pendingEventCount \in 0 .. SizeT - 1
    BY DEF ContextInv, Shape, Outside
  <1>1. ASSUME NEW fd \in Fds, NEW ev \in Events, NEW x \in Waiters, AddEvent(fd, ev, x)
        PROVE  Outside'
    <2>1. m_events[fd] \union {ev} \in SUBSET Events /\ 1 \in Int
      BY <1>0
    <2>2. Count(1) /\ Ctl(fd, m_events[fd] \union {ev})
      BY <1>1 DEF AddEvent
    <2>3. m_pendingEventCount' \in 0 .. SizeT - 1
      BY <1>0, <2>1, <2>2, CountTypes
    <2> QED  BY <2>1, <2>2, <2>3, CtlTypes
  <1>2. ASSUME NEW fd \in Fds, NEW ev \in Events, DelEvent(fd, ev) \/ CancelEvent(fd, ev) PROVE Outside'
    <2>1. m_events[fd] \ {ev} \in SUBSET Events /\ -1 \in Int
      BY <1>0
    <2>2. Count(-1) /\ Ctl(fd, m_events[fd] \ {ev})
      BY <1>2 DEF DelEvent, CancelEvent
    <2>3. m_pendingEventCount' \in 0 .. SizeT - 1
      BY <1>0, <2>1, <2>2, CountTypes
    <2> QED  BY <2>1, <2>2, <2>3, CtlTypes
  <1>3. ASSUME NEW fd \in Fds, CancelAll(fd) PROVE Outside'
    <2>1. {} \in SUBSET Events /\ -Cardinality(m_events[fd]) \in Int
      BY <1>0, EventsCount
    <2>2. Count(-Cardinality(m_events[fd])) /\ Ctl(fd, {})
      BY <1>3 DEF CancelAll
    <2>3. m_pendingEventCount' \in 0 .. SizeT - 1
      BY <1>0, <2>1, <2>2, CountTypes
    <2> QED  BY <2>1, <2>2, <2>3, CtlTypes
  <1>4. ASSUME NEW w \in Workers, Handle(w) PROVE Outside'
    <2>1. got[w] \in Report
      BY <1>4 DEF Handle, ContextInv, Shape
    <2>2. got[w].fd \in Fds /\ RealEvents(w) \in SUBSET Events
      BY <1>0, <2>1 DEF Report, RealEvents
    <2>3. CASE UNCHANGED <<context, kernel>>
      BY <2>3 DEF context, kernel, Outside
    <2>4. CASE ~UNCHANGED <<context, kernel>>
      <3>1. Count(-Cardinality(RealEvents(w))) /\ Ctl(got[w].fd, m_events[got[w].fd] \ RealEvents(w))
        BY <1>4, <2>4, Zenon DEF Handle
      <3>2. -Cardinality(RealEvents(w)) \in Int /\ m_events[got[w].fd] \ RealEvents(w) \in SUBSET Events
        BY <1>0, <2>2, EventsCount
      <3>3. m_pendingEventCount' \in 0 .. SizeT - 1
        BY <1>0, <3>1, <3>2, CountTypes
      <3> QED  BY <2>2, <3>1, <3>2, <3>3, CtlTypes
    <2> QED  BY <2>3, <2>4
  <1>5. ASSUME NEW w \in Workers, NEW fd \in Fds, NEW hup \in BOOLEAN, EpollWait(w, fd, hup) PROVE Outside'
    <2>1. edge' \in {edge, edge \ {fd}} /\ UNCHANGED <<interest, open, closes, m_pendingEventCount>>
      BY <1>5 DEF EpollWait, context
    <2> QED  BY <2>1 DEF Outside
  <1>6. ASSUME NEW fd \in Fds, NEW ev \in Events, Arrive(fd, ev) \/ Drain(fd, ev) PROVE Outside'
    <2>1. edge' \in {edge, edge \union {fd}} /\ UNCHANGED <<interest, open, closes, m_pendingEventCount>>
      BY <1>6 DEF Arrive, Drain, context
    <2> QED  BY <2>1 DEF Outside
  <1>7. ASSUME NEW fd \in Fds, Close(fd) PROVE Outside'
    <2>1. /\ interest' = [f \in DOMAIN interest \ {fd} |-> interest[f]]
          /\ open' = open \ {fd} /\ edge' = edge \ {fd} /\ m_pendingEventCount' = m_pendingEventCount
          /\ closes < MaxCloses /\ closes' = closes + 1
      BY <1>7 DEF Close, context
    <2>2. closes' \in 0 .. MaxCloses
      BY <2>1, IOAssumption DEF Outside
    <2>3. DOMAIN interest' \subseteq Fds /\ \A f \in DOMAIN interest' : interest'[f] \subseteq Events
      BY <2>1 DEF Outside
    <2> QED  BY <2>1, <2>2, <2>3 DEF Outside
  <1>8. ASSUME NEW fd \in Fds, Reopen(fd) PROVE Outside'
    BY <1>8 DEF Reopen, context, Outside
  <1>9. CASE UNCHANGED vars
    BY <1>9 DEF vars, Outside
  <1> QED
    BY <1>1, <1>2, <1>3, <1>4, <1>5, <1>6, <1>7, <1>8, <1>9 DEF Next, Worker

\* Every value of IOManager and of the kernel's side keeps its type; m_pendingEventCount, which idle()
\* takes down once for every event that epoll reports, wraps around and stays a size_t.
THEOREM IOTypeCorrect == Spec => []TypeOK
  <1>1. Init => Outside
    BY IOAssumption DEF Init, Outside
  <1>2. ContextInv /\ Outside => TypeOK
    BY DEF ContextInv, Shape, Outside, TypeOK
  <1> QED  BY ContextInit, ContextStep, OutsideStep, <1>1, <1>2, PTL DEF Spec
=============================================================================
