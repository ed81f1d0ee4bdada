--------------------------- MODULE HookIOProofs ---------------------------
(***************************************************************************)
(* Theorems about HookIO: what a hooked call leaves behind, when it puts   *)
(* its thread to sleep, when addEvent's assertion fails and what a         *)
(* successful connect() means, for any descriptors, fibers and bounds.     *)
(***************************************************************************)
EXTENDS HookIO, TLAPS

Results == {"none", "ok", "EAGAIN", "EBADF", "ETIMEDOUT", "error"}
Points == {"idle", "try", "arm", "add", "hold", "check", "blocked"}

\* A step that changes the call of one fiber at most, and not what it is about.
Moves(f) ==
    /\ call' \in [Fibers -> Call]
    /\ \A g \in Fibers : g # f => call'[g] = call[g]
    /\ call'[f].kind = call[f].kind /\ call'[f].fd = call[f].fd
    /\ call'[f].ev = call[f].ev /\ call'[f].n = call[f].n

\* ... and leaves the other locals of the call alone too.
MovesTo(f, pc) ==
    /\ Moves(f)
    /\ call'[f].pc = pc /\ call'[f].res = call[f].res
    /\ call'[f].gen = call[f].gen /\ call'[f].timed = call[f].timed
    /\ call'[f].cancelled = call[f].cancelled

LEMMA ReturnFacts ==
    ASSUME TypeOK, NEW f \in Fibers, NEW res \in Results, Return(f, res)
    PROVE  Moves(f) /\ call'[f].pc = "idle" /\ call'[f].res = res
  <1>1. call \in [Fibers -> Call] /\ call[f] \in Call
    BY DEF TypeOK
  <1> DEFINE c == [call[f] EXCEPT !.pc = "idle", !.res = res, !.gen = 0, !.on = 0, !.raw = FALSE,
                                  !.timed = FALSE, !.cancelled = FALSE, !.missed = FALSE]
  <1>2. c \in Call /\ c.pc = "idle" /\ c.res = res /\ c.kind = call[f].kind /\ c.fd = call[f].fd
        /\ c.ev = call[f].ev /\ c.n = call[f].n
    BY <1>1 DEF Call, Results
  <1>3. call' = [call EXCEPT ![f] = c]
    BY <1>1 DEF Return
  <1> HIDE DEF c
  <1> QED  BY <1>1, <1>2, <1>3 DEF Moves

LEMMA GotoFacts ==
    ASSUME TypeOK, NEW f \in Fibers, NEW pc \in Points, Goto(f, pc)
    PROVE  MovesTo(f, pc)
  <1>1. call \in [Fibers -> Call] /\ call[f] \in Call
    BY DEF TypeOK
  <1> DEFINE c == [call[f] EXCEPT !.pc = pc]
  <1>2. c \in Call /\ c.pc = pc /\ c.res = call[f].res /\ c.kind = call[f].kind /\ c.fd = call[f].fd
        /\ c.ev = call[f].ev /\ c.n = call[f].n /\ c.gen = call[f].gen /\ c.timed = call[f].timed
        /\ c.cancelled = call[f].cancelled
    BY <1>1 DEF Call, Points
  <1>3. call' = [call EXCEPT ![f] = c]
    BY <1>1 DEF Goto
  <1> HIDE DEF c
  <1> QED  BY <1>1, <1>2, <1>3 DEF Moves, MovesTo

\* A call that cannot go on: it sleeps in the kernel, returns EAGAIN, or goes on
\* to wait.
LEMMA WouldBlockFacts ==
    ASSUME TypeOK, NEW f \in Fibers, WouldBlock(f)
    PROVE  \/ /\ MovesTo(f, "blocked") /\ call'[f].on = file[call[f].fd].gen
              /\ ~file[call[f].fd].nonblock
           \/ Moves(f) /\ call'[f].pc = "idle" /\ call'[f].res = "EAGAIN"
           \/ call[f].timed /\ MovesTo(f, "arm")
           \/ MovesTo(f, "add")
  <1>1. call \in [Fibers -> Call] /\ call[f] \in Call /\ file[call[f].fd].gen \in Nat
    BY DEF TypeOK, Call, File
  <1>2. CASE ~file[call[f].fd].nonblock
    <2> DEFINE g == file[call[f].fd].gen  c == [call[f] EXCEPT !.pc = "blocked", !.on = g]
    <2> HIDE DEF g
    <2>1. g \in Nat
      BY <1>1 DEF g
    <2>2. c \in Call /\ c.pc = "blocked" /\ c.res = call[f].res /\ c.kind = call[f].kind
          /\ c.fd = call[f].fd /\ c.ev = call[f].ev /\ c.n = call[f].n /\ c.gen = call[f].gen
          /\ c.timed = call[f].timed /\ c.cancelled = call[f].cancelled /\ c.on = g
      BY <1>1, <2>1 DEF Call
    <2>3. call' = [call EXCEPT ![f] = c]
      BY <1>1, <1>2 DEF WouldBlock, g
    <2> HIDE DEF c
    <2>4. MovesTo(f, "blocked") /\ call'[f].on = g
      BY <1>1, <2>2, <2>3 DEF Moves, MovesTo
    <2> QED  BY <1>2, <2>4 DEF g
  <1>3. CASE file[call[f].fd].nonblock /\ call[f].raw
    <2>1. Return(f, "EAGAIN")
      BY <1>3 DEF WouldBlock
    <2> QED  BY <2>1, ReturnFacts DEF Results
  <1>4. CASE file[call[f].fd].nonblock /\ ~call[f].raw /\ call[f].timed
    <2>1. Goto(f, "arm")
      BY <1>4 DEF WouldBlock
    <2> QED  BY <1>4, <2>1, GotoFacts DEF Points
  <1>5. CASE file[call[f].fd].nonblock /\ ~call[f].raw /\ ~call[f].timed
    <2>1. Goto(f, "add")
      BY <1>5 DEF WouldBlock
    <2> QED  BY <2>1, GotoFacts DEF Points
  <1> QED  BY <1>2, <1>3, <1>4, <1>5

\* What cancelEvent, cancelAll and idle() do to the registrations.
LEMMA ScheduleFacts ==
    ASSUME TypeOK, NEW hit \in SUBSET Slots, \A s \in hit : slot[s] # None, Schedule(hit)
    PROVE  /\ slot' \in [Slots -> Fibers \union {None}]
           /\ fate' \in [Fibers -> {"new", "waiting", "woken"}]
           /\ \A s \in Slots : slot'[s] = IF s \in hit THEN None ELSE slot[s]
           /\ \A f \in Fibers : fate'[f] = IF \E s \in hit : slot[s] = f THEN "woken" ELSE fate[f]
  <1>1. CASE hit = {}
    BY <1>1 DEF Schedule, TypeOK
  <1>2. CASE hit # {}
    <2>1. IOM!Wake(hit)
      BY <1>2 DEF Schedule
    <2> QED  BY <2>1 DEF IOM!Wake, TypeOK
  <1> QED  BY <1>1, <1>2

LEMMA CancelledFacts ==
    ASSUME NEW S \in SUBSET Slots
    PROVE  /\ Cancelled(S) \in SUBSET S /\ Cancelled(S) \in SUBSET Slots
           /\ \A s \in Cancelled(S) : slot[s] # None /\ s \in watched
  BY DEF Cancelled

LEMMA RegisterFacts ==
    ASSUME TypeOK, NEW s \in Slots, NEW f \in Fibers, IOM!Register(s, f)
    PROVE  /\ slot' \in [Slots -> Fibers \union {None}]
           /\ fate' \in [Fibers -> {"new", "waiting", "woken"}]
           /\ slot[s] = None
           /\ \A r \in Slots : slot'[r] = IF r = s THEN f ELSE slot[r]
           /\ \A g \in Fibers : fate'[g] = IF g = f THEN "waiting" ELSE fate[g]
  BY DEF IOM!Register, TypeOK

LEMMA AtType ==
    ASSUME TypeOK, NEW f \in Fibers
    PROVE  /\ At(f) \in Slots /\ call[f].fd \in Fds /\ call[f].ev \in Events
           /\ At(f) = <<call[f].fd, call[f].ev>>
  BY DEF TypeOK, Call, At, Slots

LEMMA OfFdType == \A fd \in Fds : OfFd(fd) \in SUBSET Slots
  BY DEF OfFd

\* A call is over.
Done(f, res) == Moves(f) /\ call'[f].pc = "idle" /\ call'[f].res = res

\* A call that found nothing to do and may have to wait.
Waiting(f) ==
    \/ /\ MovesTo(f, "blocked") /\ call'[f].on = file[call[f].fd].gen
       /\ ~file[call[f].fd].nonblock
    \/ Done(f, "EAGAIN")
    \/ call[f].timed /\ MovesTo(f, "arm")
    \/ MovesTo(f, "add")

LEMMA TryIOFacts ==
    ASSUME TypeOK, NEW f \in Fibers, TryIO(f)
    PROVE  /\ call[f].pc = "try" /\ call[f].kind = "io"
           /\ ready' \in SUBSET ready
           /\ \/ \E res \in Results : Done(f, res)
              \/ file[call[f].fd].open /\ Waiting(f)
  <1>1. CASE /\ At(f) \in ready /\ Return(f, "ok")
             /\ ready' \in {ready, ready \ {At(f)}}
    BY <1>1, ReturnFacts DEF Results, Done, TryIO
  <1>2. CASE UNCHANGED ready /\ file[call[f].fd].open /\ WouldBlock(f)
    BY <1>2, WouldBlockFacts DEF TryIO, Waiting, Done
  <1>3. CASE UNCHANGED ready /\ Return(f, "EBADF")
    BY <1>3, ReturnFacts DEF Results, Done, TryIO
  <1> QED  BY <1>1, <1>2, <1>3 DEF TryIO

\* connect_f: either it fails, or the attempt this call started is over at once
\* or goes on, and then the call waits.
LEMMA TryConnectFacts ==
    ASSUME TypeOK, NEW f \in Fibers, TryConnect(f)
    PROVE  /\ call[f].pc = "try" /\ call[f].kind = "connect"
           /\ \/ Done(f, "error") /\ UNCHANGED <<file, ready>>
              \/ /\ file[call[f].fd].open /\ file[call[f].fd].link = "none"
                 /\ ready' = ready \ OfFd(call[f].fd)
                 /\ \E link \in {"up", "refused", "pending"} :
                       /\ file' = [file EXCEPT ![call[f].fd].link = link]
                       /\ \/ link = "up" /\ Done(f, "ok")
                          \/ link = "refused" /\ Done(f, "error")
                          \/ link = "pending" /\ Waiting(f)
  <1>1. call[f].pc = "try" /\ call[f].kind = "connect"
    BY DEF TryConnect
  <1>2. CASE Return(f, "error") /\ UNCHANGED <<file, ready>>
    BY <1>1, <1>2, ReturnFacts DEF Results, Done
  <1>3. CASE /\ file[call[f].fd].open /\ file[call[f].fd].link = "none"
             /\ \E link \in {"up", "refused", "pending"} :
                   /\ file' = [file EXCEPT ![call[f].fd].link = link]
                   /\ CASE link = "up"      -> Return(f, "ok")
                        [] link = "refused" -> Return(f, "error")
                        [] link = "pending" -> WouldBlock(f)
             /\ ready' = ready \ OfFd(call[f].fd)
    <2>1. PICK link \in {"up", "refused", "pending"} :
             /\ file' = [file EXCEPT ![call[f].fd].link = link]
             /\ CASE link = "up"      -> Return(f, "ok")
                  [] link = "refused" -> Return(f, "error")
                  [] link = "pending" -> WouldBlock(f)
      BY <1>3
    <2>2. \/ link = "up" /\ Return(f, "ok")
          \/ link = "refused" /\ Return(f, "error")
          \/ link = "pending" /\ WouldBlock(f)
      BY <2>1
    <2>3. \/ link = "up" /\ Done(f, "ok")
          \/ link = "refused" /\ Done(f, "error")
          \/ link = "pending" /\ Waiting(f)
      BY <2>2, ReturnFacts, WouldBlockFacts DEF Results, Done, Waiting
    <2> QED  BY <1>1, <1>3, <2>1, <2>3
  <1> QED  BY <1>2, <1>3 DEF TryConnect

Links == {"none", "pending", "up", "refused"}

\* A step on which every number keeps its file, apart from its link.
SameFiles ==
    /\ file' \in [Fds -> File]
    /\ \A d \in Fds : /\ file'[d].open = file[d].open /\ file'[d].gen = file[d].gen
                      /\ file'[d].how = file[d].how /\ file'[d].nonblock = file[d].nonblock
                      /\ file'[d].cleared = file[d].cleared

LEMMA LinkFacts ==
    ASSUME TypeOK, NEW fd \in Fds, NEW link \in Links, file' = [file EXCEPT ![fd].link = link]
    PROVE  SameFiles /\ \A d \in Fds : file'[d].link = IF d = fd THEN link ELSE file[d].link
  <1>1. file \in [Fds -> File] /\ file[fd] \in File
    BY DEF TypeOK
  <1> DEFINE r == [file[fd] EXCEPT !.link = link]
  <1>2. r \in File /\ r.open = file[fd].open /\ r.gen = file[fd].gen /\ r.how = file[fd].how
        /\ r.nonblock = file[fd].nonblock /\ r.cleared = file[fd].cleared /\ r.link = link
    BY <1>1 DEF File, Links
  <1>3. file' = [file EXCEPT ![fd] = r]
    BY <1>1
  <1> HIDE DEF r
  <1> QED  BY <1>1, <1>2, <1>3 DEF SameFiles

\* A step that gives a number a new file.
Opened(fd) ==
    /\ file' \in [Fds -> File]
    /\ \A d \in Fds : d # fd => file'[d] = file[d]
    /\ file'[fd].open /\ file'[fd].gen = file[fd].gen + 1 /\ file'[fd].link = "none"
    /\ file'[fd].how = "hooked" => file'[fd].nonblock

LEMMA NewFileFacts ==
    ASSUME TypeOK, NEW fd \in Fds, NEW how \in {"fresh", "outside"}, NewFile(fd, how)
    PROVE  Opened(fd) /\ ~file[fd].open /\ UNCHANGED fdctx
  <1>1. file \in [Fds -> File] /\ file[fd] \in File
    BY DEF TypeOK
  <1> DEFINE r == [open |-> TRUE, gen |-> file[fd].gen + 1, how |-> how, nonblock |-> FALSE,
                   cleared |-> FALSE, link |-> "none"]
  <1>2. r \in File /\ r.open = TRUE /\ r.gen = file[fd].gen + 1 /\ r.link = "none"
        /\ r.how # "hooked"
    BY <1>1 DEF File
  <1>3. file' = [file EXCEPT ![fd] = r]
    BY <1>1 DEF NewFile
  <1> HIDE DEF r
  <1> QED  BY <1>1, <1>2, <1>3 DEF Opened, NewFile

LEMMA SocketFacts ==
    ASSUME TypeOK, NEW fd \in Fds, Socket(fd) \/ SocketOutside(fd)
    PROVE  /\ Opened(fd) /\ ~file[fd].open
           /\ UNCHANGED <<fdctx, slot, fate, watched, ready, call, timers, aborted, closes, ops>>
  <1>1. PICK how \in {"fresh", "outside"} : NewFile(fd, how)
    BY DEF Socket, SocketOutside
  <1> QED  BY <1>1, NewFileFacts DEF NewFile

\* FdManager::get: the same file, hooked and non-blocking, or stale.
LEMMA OpenFacts ==
    ASSUME TypeOK, NEW fd \in Fds, Open(fd)
    PROVE  /\ file' \in [Fds -> File]
           /\ \A d \in Fds : d # fd => file'[d] = file[d]
           /\ file[fd].how = "fresh" /\ file[fd].open /\ file'[fd].open = file[fd].open
           /\ file'[fd].gen = file[fd].gen /\ file'[fd].link = file[fd].link
           /\ file'[fd].cleared = file[fd].cleared
           /\ file'[fd].how \in {"hooked", "stale"}
           /\ file'[fd].how = "hooked" => file'[fd].nonblock
           /\ fdctx' \in [Fds -> FdCtx \union {None}]
           /\ \A d \in Fds : fdctx'[d] = fdctx[d] \/ fdctx'[d] = NewFdCtx
           /\ UNCHANGED <<slot, fate, watched, ready, call, timers, aborted, closes, ops>>
  <1>1. file \in [Fds -> File] /\ file[fd] \in File /\ fdctx \in [Fds -> FdCtx \union {None}]
    BY DEF TypeOK
  <1> DEFINE new == fdctx[fd] = None
             how == IF fdctx[fd] = None THEN "hooked" ELSE "stale"
             r == [file[fd] EXCEPT !.nonblock = new, !.how = how]
  <1>2. /\ r \in File /\ r.open = file[fd].open /\ r.gen = file[fd].gen /\ r.link = file[fd].link
        /\ r.cleared = file[fd].cleared /\ r.how \in {"hooked", "stale"} /\ (r.how = "hooked" => r.nonblock)
    <2>1. new \in BOOLEAN /\ how \in {"hooked", "stale"} /\ (how = "hooked" => new)
      OBVIOUS
    <2> HIDE DEF new, how
    <2> QED  BY <1>1, <2>1 DEF File
  <1>3. file' = [file EXCEPT ![fd] = r]
    BY <1>1 DEF Open
  <1> HIDE DEF r
  <1>4. NewFdCtx \in FdCtx
    BY DEF NewFdCtx, FdCtx, Events
  <1>5. fdctx' = [fdctx EXCEPT ![fd] = IF fdctx[fd] = None THEN NewFdCtx ELSE fdctx[fd]]
    BY <1>1 DEF Open
  <1>6. file[fd].how = "fresh" /\ file[fd].open
    BY DEF Open
  <1>7. UNCHANGED <<slot, fate, watched, ready, call, timers, aborted, closes, ops>>
    BY DEF Open
  <1>8. /\ fdctx' \in [Fds -> FdCtx \union {None}]
        /\ \A d \in Fds : fdctx'[d] = fdctx[d] \/ fdctx'[d] = NewFdCtx
    BY <1>1, <1>4, <1>5
  <1>9. file'[fd] = r /\ file' \in [Fds -> File] /\ \A d \in Fds : d # fd => file'[d] = file[d]
    BY <1>1, <1>2, <1>3
  <1> QED  BY <1>2, <1>6, <1>7, <1>8, <1>9

\* close(): the number keeps the traces of its file.
LEMMA CloseFacts ==
    ASSUME TypeOK, NEW fd \in Fds, NEW who, Close(fd, who)
    PROVE  /\ file' \in [Fds -> File]
           /\ \A d \in Fds : /\ file'[d].open = (d # fd /\ file[d].open)
                             /\ file'[d].link = IF d = fd THEN "none" ELSE file[d].link
                             /\ file'[d].gen = file[d].gen /\ file'[d].how = file[d].how
                             /\ file'[d].nonblock = file[d].nonblock
                             /\ file'[d].cleared = file[d].cleared
           /\ fdctx' \in [Fds -> FdCtx \union {None}]
           /\ \E hit \in SUBSET Slots : (\A s \in hit : slot[s] # None) /\ Schedule(hit)
           /\ closes' \in 0 .. MaxCloses /\ closes' > 0
  <1>1. file \in [Fds -> File] /\ file[fd] \in File /\ fdctx \in [Fds -> FdCtx \union {None}]
    BY DEF TypeOK
  <1> DEFINE r == [file[fd] EXCEPT !.open = FALSE, !.link = "none"]
  <1>2. r \in File /\ r.open = FALSE /\ r.gen = file[fd].gen /\ r.how = file[fd].how
        /\ r.nonblock = file[fd].nonblock /\ r.cleared = file[fd].cleared /\ r.link = "none"
    BY <1>1 DEF File
  <1>3. file' = [file EXCEPT ![fd] = r]
    BY <1>1 DEF Close
  <1> HIDE DEF r
  <1>4. \A d \in Fds : /\ file'[d].open = (d # fd /\ file[d].open)
                       /\ file'[d].link = IF d = fd THEN "none" ELSE file[d].link
                       /\ file'[d].gen = file[d].gen /\ file'[d].how = file[d].how
                       /\ file'[d].nonblock = file[d].nonblock
                       /\ file'[d].cleared = file[d].cleared
    <2> TAKE d \in Fds
    <2>1. file[d].open \in BOOLEAN
      BY <1>1 DEF File
    <2>2. CASE d = fd
      BY <1>1, <1>2, <1>3, <2>2
    <2>3. CASE d # fd
      BY <1>1, <1>3, <2>1, <2>3
    <2> QED  BY <2>2, <2>3
  <1>5. file' \in [Fds -> File]
    BY <1>1, <1>2, <1>3
  <1>6. fdctx' \in [Fds -> FdCtx \union {None}]
    BY <1>1 DEF Close
  <1>7. \E hit \in SUBSET Slots : (\A s \in hit : slot[s] # None) /\ Schedule(hit)
    <2>1. PICK T : T = IF who = "caller" /\ fdctx[fd] # None THEN Cancelled(OfFd(fd)) ELSE {}
      OBVIOUS
    <2>2. PICK O : O = OfFd(fd)
      OBVIOUS
    <2>3. O \in SUBSET Slots
      BY <2>2, OfFdType
    <2>4. T \in SUBSET Slots /\ \A s \in T : slot[s] # None
      BY <2>1, <2>2, <2>3, CancelledFacts
    <2> QED  BY <2>1, <2>4 DEF Close
  <1>8. closes' \in 0 .. MaxCloses /\ closes' > 0
    BY HookAssumption DEF Close, TypeOK
  <1> QED  BY <1>4, <1>5, <1>6, <1>7, <1>8

LEMMA SetNonblockFacts ==
    ASSUME TypeOK, NEW fd \in Fds, NEW user \in BOOLEAN, SetNonblock(fd, user)
    PROVE  /\ file' \in [Fds -> File]
           /\ \A d \in Fds : d # fd => file'[d] = file[d]
           /\ file'[fd].open = file[fd].open /\ file'[fd].gen = file[fd].gen
           /\ file'[fd].how = file[fd].how /\ file'[fd].link = file[fd].link
           /\ file'[fd].nonblock \/ file'[fd].cleared
           /\ file[fd].cleared => file'[fd].cleared
           /\ fdctx' \in [Fds -> FdCtx \union {None}]
           /\ ops' \in 0 .. MaxOps /\ ops' > 0
  <1>1. file \in [Fds -> File] /\ file[fd] \in File /\ fdctx \in [Fds -> FdCtx \union {None}]
    BY DEF TypeOK
  <1> DEFINE r == [file[fd] EXCEPT !.nonblock = user, !.cleared = file[fd].cleared \/ ~user]
  <1>2. r \in File /\ r.open = file[fd].open /\ r.gen = file[fd].gen /\ r.how = file[fd].how
        /\ r.link = file[fd].link /\ (r.nonblock \/ r.cleared) /\ (file[fd].cleared => r.cleared)
    BY <1>1 DEF File
  <1>3. file' = [file EXCEPT ![fd] = r]
    BY <1>1 DEF SetNonblock
  <1> HIDE DEF r
  <1>4. fdctx[fd] # None => [fdctx[fd] EXCEPT !.user = user] \in FdCtx
    BY <1>1 DEF FdCtx
  <1>5. fdctx' = [fdctx EXCEPT ![fd] = IF fdctx[fd] = None THEN None ELSE [fdctx[fd] EXCEPT !.user = user]]
    BY <1>1 DEF SetNonblock
  <1>6. fdctx' \in [Fds -> FdCtx \union {None}]
    BY <1>1, <1>4, <1>5
  <1>7. ops' \in 0 .. MaxOps /\ ops' > 0
    BY HookAssumption DEF SetNonblock, Operation, TypeOK
  <1> QED  BY <1>1, <1>2, <1>3, <1>6, <1>7

LEMMA SetTimeoutFacts ==
    ASSUME TypeOK, NEW fd \in Fds, NEW ev \in Events, SetTimeout(fd, ev)
    PROVE  /\ fdctx' \in [Fds -> FdCtx \union {None}]
           /\ ops' \in 0 .. MaxOps /\ ops' > 0
  <1>1. fdctx \in [Fds -> FdCtx \union {None}] /\ fdctx[fd] \in FdCtx
    BY DEF TypeOK, SetTimeout
  <1>2. fdctx' = [fdctx EXCEPT ![fd] = [fdctx[fd] EXCEPT !.timed = fdctx[fd].timed \union {ev}]]
    BY <1>1 DEF SetTimeout
  <1>3. [fdctx[fd] EXCEPT !.timed = fdctx[fd].timed \union {ev}] \in FdCtx
    BY <1>1 DEF FdCtx
  <1>4. ops' \in 0 .. MaxOps /\ ops' > 0
    BY HookAssumption DEF SetTimeout, Operation, TypeOK
  <1> QED  BY <1>1, <1>2, <1>3, <1>4

\* The call that begins: its user waits for no other event of this place.
LEMMA StartFacts ==
    ASSUME TypeOK, NEW f \in Fibers, NEW kind \in {"io", "connect"}, NEW fd \in Fds,
           NEW ev \in Events, NEW timed \in BOOLEAN, Start(f, kind, fd, ev, timed)
    PROVE  /\ call[f].pc = "idle" /\ call[f].n \in Nat
           /\ call' \in [Fibers -> Call]
           /\ \A g \in Fibers : g # f => call'[g] = call[g]
           /\ call'[f].n = call[f].n + 1 /\ call'[f].kind = kind
           /\ call'[f].fd = fd /\ call'[f].ev = ev
           /\ call'[f].gen = file[fd].gen /\ call'[f].timed = timed
           /\ call'[f].pc \in {"idle", "try"} /\ call'[f].res \in {"none", "EBADF"}
           /\ kind = "io" => timed = (fdctx[fd] # None /\ ev \in fdctx[fd].timed)
           /\ \A g \in Fibers : call[g].pc # "idle" /\ At(g) = <<fd, ev>> => call[g].gen # file[fd].gen
  <1>1. call \in [Fibers -> Call] /\ call[f] \in Call /\ file[fd].gen \in Nat
        /\ fdctx \in [Fds -> FdCtx \union {None}] /\ fdctx[fd] \in FdCtx \union {None}
    BY DEF TypeOK, File
  <1> DEFINE none == kind = "connect" /\ fdctx[fd] = None
             c == [pc |-> IF none THEN "idle" ELSE "try",
                   kind |-> kind, fd |-> fd, ev |-> ev, gen |-> file[fd].gen, on |-> 0,
                   raw |-> fdctx[fd] = None \/ fdctx[fd].user,
                   timed |-> timed, n |-> call[f].n + 1, cancelled |-> FALSE,
                   missed |-> FALSE, res |-> IF none THEN "EBADF" ELSE "none"]
  <1>2. call' = [call EXCEPT ![f] = c]
    BY <1>1 DEF Start
  <1>3. (fdctx[fd] = None \/ fdctx[fd].user) \in BOOLEAN /\ call[f].n \in Nat /\ call[f].n + 1 \in Nat
    BY <1>1 DEF Call
  <1>4. /\ c.pc = (IF none THEN "idle" ELSE "try") /\ c.kind = kind /\ c.fd = fd /\ c.ev = ev
        /\ c.gen = file[fd].gen /\ c.timed = timed /\ c.n = call[f].n + 1
        /\ c.res = (IF none THEN "EBADF" ELSE "none")
    OBVIOUS
  <1>5. c \in Call
    <2> HIDE DEF none
    <2>1. (IF none THEN "idle" ELSE "try") \in {"idle", "try"}
          /\ (IF none THEN "EBADF" ELSE "none") \in {"none", "EBADF"}
      OBVIOUS
    <2> QED  BY <1>1, <1>3, <2>1 DEF Call
  <1>6. c.pc \in {"idle", "try"} /\ c.res \in {"none", "EBADF"}
    BY <1>4
  <1> HIDE DEF c
  <1>7. /\ call' \in [Fibers -> Call]
        /\ \A g \in Fibers : g # f => call'[g] = call[g]
        /\ call'[f] = c
    BY <1>1, <1>2, <1>5
  <1>8. /\ call[f].pc = "idle"
        /\ kind = "io" => timed = (fdctx[fd] # None /\ ev \in fdctx[fd].timed)
        /\ \A g \in Fibers : call[g].pc # "idle" /\ At(g) = <<fd, ev>> => call[g].gen # file[fd].gen
    BY DEF Start
  <1> QED  BY <1>3, <1>4, <1>6, <1>7, <1>8

LEMMA ResumeFacts ==
    ASSUME TypeOK, NEW f \in Fibers, Resume(f)
    PROVE  /\ call[f].pc = "hold" /\ fate[f] = "woken" /\ slot' = slot
           /\ fate' \in [Fibers -> {"new", "waiting", "woken"}]
           /\ \A g \in Fibers : fate'[g] = IF g = f THEN "new" ELSE fate[g]
           /\ timers' = Disarmed(f)
           /\ \/ call[f].cancelled /\ Done(f, "ETIMEDOUT")
              \/ ~call[f].cancelled /\ call[f].kind = "io" /\ MovesTo(f, "try")
              \/ ~call[f].cancelled /\ call[f].kind = "connect" /\ MovesTo(f, "check")
  <1>1. call[f].kind \in {"io", "connect"}
    BY DEF TypeOK, Call
  <1>2. /\ call[f].pc = "hold" /\ fate[f] = "woken" /\ slot' = slot /\ timers' = Disarmed(f)
        /\ fate' \in [Fibers -> {"new", "waiting", "woken"}]
        /\ \A g \in Fibers : fate'[g] = IF g = f THEN "new" ELSE fate[g]
    BY DEF Resume, IOM!Resume, TypeOK
  <1>3. CASE call[f].cancelled
    <2>1. Return(f, "ETIMEDOUT")
      BY <1>3 DEF Resume
    <2> QED  BY <1>2, <1>3, <2>1, ReturnFacts DEF Results, Done
  <1>4. CASE ~call[f].cancelled /\ call[f].kind = "io"
    <2>1. Goto(f, "try")
      BY <1>4 DEF Resume
    <2> QED  BY <1>2, <1>4, <2>1, GotoFacts DEF Points
  <1>5. CASE ~call[f].cancelled /\ call[f].kind = "connect"
    <2>1. Goto(f, "check")
      BY <1>5 DEF Resume
    <2> QED  BY <1>2, <1>5, <2>1, GotoFacts DEF Points
  <1> QED  BY <1>1, <1>3, <1>4, <1>5

LEMMA AddFacts ==
    ASSUME TypeOK, NEW f \in Fibers, Add(f)
    PROVE  /\ call[f].pc = "add"
           /\ \/ /\ slot[At(f)] # None /\ aborted' = TRUE
                 /\ UNCHANGED <<slot, fate, watched, timers, call>>
              \/ /\ IOM!Register(At(f), f)
                 /\ watched' = watched \union {At(f)}
                 /\ MovesTo(f, "hold") /\ UNCHANGED <<timers, aborted>>
              \/ /\ ~CtlWorks(call[f].fd)
                 /\ \/ call[f].kind = "io" /\ Done(f, "error")
                    \/ call[f].kind = "connect" /\ MovesTo(f, "check")
                 /\ timers' = Disarmed(f)
                 /\ UNCHANGED <<slot, fate, watched, aborted>>
  <1>1. call[f].kind \in {"io", "connect"}
    BY DEF TypeOK, Call
  <1>2. CASE Goto(f, "hold") /\ IOM!Register(At(f), f) /\ watched' = watched \union {At(f)}
             /\ UNCHANGED <<timers, aborted>>
    BY <1>2, GotoFacts DEF Points, Add
  <1>3. CASE /\ ~CtlWorks(call[f].fd) /\ timers' = Disarmed(f) /\ UNCHANGED <<slot, fate, watched, aborted>>
             /\ call[f].kind = "io" /\ Return(f, "error")
    BY <1>3, ReturnFacts DEF Results, Done, Add
  <1>4. CASE /\ ~CtlWorks(call[f].fd) /\ timers' = Disarmed(f) /\ UNCHANGED <<slot, fate, watched, aborted>>
             /\ call[f].kind = "connect" /\ Goto(f, "check")
    BY <1>4, GotoFacts DEF Points, Add
  <1> QED  BY <1>1, <1>2, <1>3, <1>4 DEF Add

LEMMA CheckFacts ==
    ASSUME TypeOK, NEW f \in Fibers, Check(f)
    PROVE  /\ call[f].pc = "check"
           /\ \/ Done(f, "ok") /\ file[call[f].fd].link # "refused"
              \/ Done(f, "error")
  <1>1. Return(f, IF file[call[f].fd].open /\ file[call[f].fd].link # "refused" THEN "ok" ELSE "error")
    BY DEF Check
  <1>2. CASE file[call[f].fd].open /\ file[call[f].fd].link # "refused"
    <2>1. Return(f, "ok")
      BY <1>1, <1>2
    <2> QED  BY <1>2, <2>1, ReturnFacts DEF Results, Done, Check
  <1>3. CASE ~(file[call[f].fd].open /\ file[call[f].fd].link # "refused")
    <2>1. Return(f, "error")
      BY <1>1, <1>3
    <2> QED  BY <2>1, ReturnFacts DEF Results, Done, Check
  <1> QED  BY <1>2, <1>3

LEMMA UnblockFacts ==
    ASSUME TypeOK, NEW f \in Fibers, Unblock(f)
    PROVE  /\ call[f].pc = "blocked"
           /\ \/ call[f].kind = "io" /\ MovesTo(f, "try")
              \/ Done(f, "ok") /\ file[call[f].fd].link = "up"
              \/ Done(f, "error")
  <1>1. CASE call[f].kind = "io"
    <2>1. Goto(f, "try")
      BY <1>1 DEF Unblock
    <2> QED  BY <1>1, <2>1, GotoFacts DEF Points, Unblock
  <1>2. CASE call[f].kind # "io" /\ file[call[f].fd].link = "up"
    <2>1. Return(f, "ok")
      BY <1>2 DEF Unblock
    <2> QED  BY <1>2, <2>1, ReturnFacts DEF Results, Done, Unblock
  <1>3. CASE call[f].kind # "io" /\ file[call[f].fd].link # "up"
    <2>1. Return(f, "error")
      BY <1>3 DEF Unblock
    <2> QED  BY <1>3, <2>1, ReturnFacts DEF Results, Done, Unblock
  <1> QED  BY <1>1, <1>2, <1>3

LEMMA ArmFacts ==
    ASSUME TypeOK, NEW f \in Fibers, Arm(f)
    PROVE  /\ call[f].pc = "arm" /\ MovesTo(f, "add")
           /\ \E t \in Timer : /\ t.f = f /\ t.n = call[f].n /\ t.fd = call[f].fd
                               /\ t.ev = call[f].ev /\ t.at = "armed"
                               /\ timers' = timers \union {t}
  <1>1. call[f].pc = "arm" /\ MovesTo(f, "add")
    BY GotoFacts DEF Arm, Points
  <1> DEFINE t == [f |-> f, n |-> call[f].n, fd |-> call[f].fd, ev |-> call[f].ev, at |-> "armed"]
  <1>2. call[f] \in Call
    BY DEF TypeOK
  <1>3. t \in Timer
    BY <1>2 DEF Call, Timer
  <1>4. timers' = timers \union {t}
    BY DEF Arm
  <1> QED  BY <1>1, <1>3, <1>4

\* A timer that goes on to its next stage.
LEMMA StageFacts ==
    ASSUME NEW t \in Timer, NEW at \in {"armed", "due", "firing"}
    PROVE  LET u == [t EXCEPT !.at = at] IN
              u \in Timer /\ u.f = t.f /\ u.n = t.n /\ u.fd = t.fd /\ u.ev = t.ev /\ u.at = at
  BY DEF Timer

\* What a callback does to the call it was made for: it raises a flag at most.
Flagged(f) ==
    /\ Moves(f)
    /\ call'[f].pc = call[f].pc /\ call'[f].res = call[f].res /\ call'[f].on = call[f].on
    /\ call'[f].gen = call[f].gen /\ call'[f].timed = call[f].timed
    /\ call[f].cancelled => call'[f].cancelled

LEMMA FireFacts ==
    ASSUME TypeOK, NEW t \in timers, Fire(t)
    PROVE  /\ t.f \in Fibers /\ Flagged(t.f) /\ t.at = "due"
           /\ \/ timers' = timers \ {t}
              \/ /\ timers' = (timers \ {t}) \union {[t EXCEPT !.at = "firing"]}
                 /\ call'[t.f].cancelled
  <1>1. t \in Timer /\ t.f \in Fibers /\ call \in [Fibers -> Call] /\ call[t.f] \in Call
    BY DEF TypeOK, Timer
  <1>2. CASE UNCHANGED call /\ timers' = timers \ {t}
    BY <1>1, <1>2 DEF Fire, Flagged, Moves
  <1>3. CASE /\ call' = [call EXCEPT ![t.f].cancelled = TRUE]
             /\ timers' = (timers \ {t}) \union {[t EXCEPT !.at = "firing"]}
    <2> DEFINE c == [call[t.f] EXCEPT !.cancelled = TRUE]
    <2>1. c \in Call /\ c.pc = call[t.f].pc /\ c.res = call[t.f].res /\ c.kind = call[t.f].kind
          /\ c.fd = call[t.f].fd /\ c.ev = call[t.f].ev /\ c.n = call[t.f].n /\ c.gen = call[t.f].gen
          /\ c.timed = call[t.f].timed /\ c.on = call[t.f].on /\ c.cancelled = TRUE
      BY <1>1 DEF Call
    <2>2. call' = [call EXCEPT ![t.f] = c]
      BY <1>1, <1>3
    <2> HIDE DEF c
    <2>3. Flagged(t.f) /\ call'[t.f].cancelled
      BY <1>1, <2>1, <2>2 DEF Flagged, Moves
    <2> QED  BY <1>1, <1>3, <2>3 DEF Fire
  <1> QED  BY <1>2, <1>3 DEF Fire

LEMMA FireCancelFacts ==
    ASSUME TypeOK, NEW t \in timers, FireCancel(t)
    PROVE  /\ t.f \in Fibers /\ <<t.fd, t.ev>> \in Slots /\ Flagged(t.f) /\ t.at = "firing"
           /\ timers' = timers \ {t}
           /\ \E hit \in SUBSET {<<t.fd, t.ev>>} :
                 (\A s \in hit : slot[s] # None) /\ Schedule(hit) /\ watched' = watched \ hit
  <1>1. t \in Timer /\ t.f \in Fibers /\ call \in [Fibers -> Call] /\ call[t.f] \in Call
        /\ <<t.fd, t.ev>> \in Slots
    BY DEF TypeOK, Timer, Slots
  <1>2. Flagged(t.f)
    <2>1. CASE call' = call
      BY <1>1, <2>1 DEF Flagged, Moves
    <2>2. CASE call' = [call EXCEPT ![t.f].missed = TRUE]
      <3> DEFINE c == [call[t.f] EXCEPT !.missed = TRUE]
      <3>1. c \in Call /\ c.pc = call[t.f].pc /\ c.res = call[t.f].res /\ c.kind = call[t.f].kind
            /\ c.fd = call[t.f].fd /\ c.ev = call[t.f].ev /\ c.n = call[t.f].n /\ c.gen = call[t.f].gen
            /\ c.timed = call[t.f].timed /\ c.on = call[t.f].on /\ c.cancelled = call[t.f].cancelled
        BY <1>1 DEF Call
      <3>2. call' = [call EXCEPT ![t.f] = c]
        BY <1>1, <2>2
      <3> HIDE DEF c
      <3> QED  BY <1>1, <3>1, <3>2 DEF Flagged, Moves
    <2> QED  BY <2>1, <2>2 DEF FireCancel
  <1>3. PICK S : S = {<<t.fd, t.ev>>}
    OBVIOUS
  <1>4. S \in SUBSET Slots
    BY <1>1, <1>3
  <1>5. Schedule(Cancelled(S)) /\ watched' = watched \ Cancelled(S) /\ timers' = timers \ {t} /\ t.at = "firing"
    BY <1>3 DEF FireCancel
  <1>6. Cancelled(S) \in SUBSET S /\ \A s \in Cancelled(S) : slot[s] # None
    BY <1>4, CancelledFacts
  <1> QED  BY <1>1, <1>2, <1>3, <1>5, <1>6

LEMMA DeliverFacts ==
    ASSUME TypeOK, NEW s \in Slots, Deliver(s)
    PROVE  /\ slot[s] # None /\ s \in ready /\ s \in watched /\ Schedule({s}) /\ watched' = watched \ {s}
  BY DEF Deliver, Schedule, IOM!Wake

LEMMA UserCancelFacts ==
    ASSUME TypeOK, NEW S \in SUBSET Slots, UserCancel(S)
    PROVE  /\ \E hit \in SUBSET Slots :
                 (\A s \in hit : slot[s] # None) /\ Schedule(hit) /\ watched' = watched \ hit
           /\ ops' \in 0 .. MaxOps /\ ops' > 0
  <1>1. Cancelled(S) \in SUBSET Slots /\ \A s \in Cancelled(S) : slot[s] # None
    BY CancelledFacts
  <1>2. ops' \in 0 .. MaxOps /\ ops' > 0
    BY HookAssumption DEF UserCancel, Operation, TypeOK
  <1> QED  BY <1>1, <1>2 DEF UserCancel

LEMMA TypeInit == Init => TypeOK
  <1> SUFFICES ASSUME Init PROVE TypeOK
    OBVIOUS
  <1>1. PICK fd : fd = CHOOSE d \in Fds : TRUE
    OBVIOUS
  <1>2. fd \in Fds
    BY <1>1, HookAssumption
  <1>3. call = [f \in Fibers |->
                  [pc |-> "idle", kind |-> "io", fd |-> fd, ev |-> "READ",
                   gen |-> 0, on |-> 0, raw |-> FALSE, timed |-> FALSE, n |-> 0, cancelled |-> FALSE,
                   missed |-> FALSE, res |-> "none"]]
    BY <1>1 DEF Init
  <1>4. call \in [Fibers -> Call]
    BY <1>2, <1>3 DEF Call, Events
  <1>5. file \in [Fds -> File]
    BY DEF Init, File
  <1>6. slot \in [Slots -> Fibers \union {None}] /\ fate \in [Fibers -> {"new", "waiting", "woken"}]
    BY DEF Init, IOM!Init
  <1>7. fdctx \in [Fds -> FdCtx \union {None}]
    BY DEF Init
  <1>8. watched = {} /\ ready = {} /\ timers = {} /\ aborted = FALSE /\ closes = 0 /\ ops = 0
    BY DEF Init
  <1>9. closes \in 0 .. MaxCloses /\ ops \in 0 .. MaxOps
    BY <1>8, HookAssumption
  <1> QED  BY <1>4, <1>5, <1>6, <1>7, <1>8, <1>9 DEF TypeOK

\* What a step of Next is.
LEMMA NextSteps ==
    ASSUME Next
    PROVE  /\ ~aborted
           /\ \/ \E f \in Fibers : \/ TryIO(f) \/ TryConnect(f) \/ Unblock(f) \/ Arm(f)
                                   \/ Add(f) \/ Resume(f) \/ Check(f)
              \/ \E f \in Fibers, kind \in {"io", "connect"}, fd \in Fds, ev \in Events,
                    timed \in BOOLEAN : Start(f, kind, fd, ev, timed)
              \/ \E t \in timers : Due(t) \/ Fire(t) \/ FireCancel(t)
              \/ \E s \in Slots : Deliver(s) \/ Arrive(s) \/ Drain(s)
              \/ \E S \in SUBSET Slots : UserCancel(S)
              \/ \E fd \in Fds :
                    \/ Socket(fd) \/ SocketOutside(fd) \/ Open(fd)
                    \/ \E who \in {"worker", "caller", "main"} : Close(fd, who)
                    \/ \E user \in BOOLEAN : SetNonblock(fd, user)
                    \/ \E ev \in Events : SetTimeout(fd, ev)
                    \/ \E link \in {"up", "refused"} : Connected(fd, link)
  <1>1. ASSUME NEW s \in Slots, UserCancel({s}) PROVE \E S \in SUBSET Slots : UserCancel(S)
    <2>1. PICK S : S = {s}
      OBVIOUS
    <2> QED  BY <1>1, <2>1
  <1>2. ASSUME NEW fd \in Fds, UserCancel(OfFd(fd)) PROVE \E S \in SUBSET Slots : UserCancel(S)
    <2>1. PICK S : S = OfFd(fd)
      OBVIOUS
    <2> QED  BY <1>2, <2>1, OfFdType
  <1>3. ~aborted
    BY DEF Next
  <1> QED  BY <1>1, <1>2, <1>3, ZenonT(60) DEF Next, Runs, Timing

LEMMA TypeStep == TypeOK /\ Next => TypeOK'
  <1> SUFFICES ASSUME TypeOK, Next PROVE TypeOK'
    OBVIOUS
  <1>1. ASSUME NEW f \in Fibers, TryIO(f) PROVE TypeOK'
    <2>1. ready' \subseteq Slots /\ call' \in [Fibers -> Call]
      BY <1>1, TryIOFacts DEF TypeOK, Done, Waiting, MovesTo, Moves
    <2> QED  BY <1>1, <2>1 DEF TypeOK, TryIO
  <1>2. ASSUME NEW f \in Fibers, TryConnect(f) PROVE TypeOK'
    <2>1. call' \in [Fibers -> Call] /\ ready' \subseteq Slots
      BY <1>2, TryConnectFacts DEF TypeOK, Done, Waiting, MovesTo, Moves
    <2>2. file' \in [Fds -> File]
      <3>1. CASE UNCHANGED file
        BY <3>1 DEF TypeOK
      <3>2. ASSUME NEW link \in {"up", "refused", "pending"},
                   file' = [file EXCEPT ![call[f].fd].link = link]
            PROVE  file' \in [Fds -> File]
        <4>1. PICK fd : fd = call[f].fd
          OBVIOUS
        <4>2. fd \in Fds
          BY <4>1, AtType
        <4> QED  BY <3>2, <4>1, <4>2, LinkFacts DEF Links, SameFiles
      <3> QED  BY <1>2, <3>1, <3>2, TryConnectFacts
    <2> QED  BY <1>2, <2>1, <2>2 DEF TypeOK, TryConnect
  <1>3. ASSUME NEW f \in Fibers, Unblock(f) PROVE TypeOK'
    <2>1. call' \in [Fibers -> Call]
      BY <1>3, UnblockFacts DEF Done, MovesTo, Moves
    <2> QED  BY <1>3, <2>1 DEF TypeOK, Unblock, kernel
  <1>4. ASSUME NEW f \in Fibers, Arm(f) PROVE TypeOK'
    <2>1. call' \in [Fibers -> Call] /\ timers' \subseteq Timer
      BY <1>4, ArmFacts DEF TypeOK, MovesTo, Moves
    <2> QED  BY <1>4, <2>1 DEF TypeOK, Arm, kernel
  <1>5. ASSUME NEW f \in Fibers, Add(f) PROVE TypeOK'
    <2>1. At(f) \in Slots
      BY AtType
    <2>2. slot' \in [Slots -> Fibers \union {None}] /\ fate' \in [Fibers -> {"new", "waiting", "woken"}]
      <3>1. CASE UNCHANGED <<slot, fate>>
        BY <3>1 DEF TypeOK
      <3>2. CASE IOM!Register(At(f), f)
        <4>1. PICK s : s = At(f)
          OBVIOUS
        <4> QED  BY <2>1, <3>2, <4>1, RegisterFacts
      <3> QED  BY <1>5, <3>1, <3>2, AddFacts
    <2>3. call' \in [Fibers -> Call]
      BY <1>5, AddFacts DEF TypeOK, Done, MovesTo, Moves
    <2>4. timers' \subseteq Timer
      BY <1>5, AddFacts DEF TypeOK, Disarmed
    <2>5. watched' \subseteq Slots
      BY <1>5, <2>1, AddFacts DEF TypeOK
    <2>6. aborted' \in BOOLEAN
      BY <1>5, AddFacts, Zenon DEF TypeOK
    <2> QED  BY <1>5, <2>2, <2>3, <2>4, <2>5, <2>6 DEF TypeOK, Add
  <1>6. ASSUME NEW f \in Fibers, Resume(f) PROVE TypeOK'
    <2>1. call' \in [Fibers -> Call] /\ timers' \subseteq Timer
      BY <1>6, ResumeFacts DEF TypeOK, Done, MovesTo, Moves, Disarmed
    <2> QED  BY <1>6, <2>1, ResumeFacts DEF TypeOK, Resume, kernel
  <1>7. ASSUME NEW f \in Fibers, Check(f) PROVE TypeOK'
    <2>1. call' \in [Fibers -> Call]
      BY <1>7, CheckFacts DEF Done, Moves
    <2> QED  BY <1>7, <2>1 DEF TypeOK, Check, kernel
  <1>8. ASSUME NEW f \in Fibers, NEW kind \in {"io", "connect"}, NEW fd \in Fds,
               NEW ev \in Events, NEW timed \in BOOLEAN, Start(f, kind, fd, ev, timed)
        PROVE  TypeOK'
    <2>1. call' \in [Fibers -> Call]
      BY <1>8, StartFacts
    <2> QED  BY <1>8, <2>1 DEF TypeOK, Start
  <1>9. ASSUME NEW t \in timers, Due(t) PROVE TypeOK'
    <2>1. t \in Timer
      BY DEF TypeOK
    <2>2. timers' \subseteq Timer
      <3>1. PICK u : u = [t EXCEPT !.at = "due"]
        OBVIOUS
      <3>2. u \in Timer
        BY <2>1, <3>1, StageFacts
      <3> QED  BY <1>9, <3>1, <3>2 DEF Due, TypeOK
    <2> QED  BY <1>9, <2>2 DEF TypeOK, Due, kernel
  <1>10. ASSUME NEW t \in timers, Fire(t) PROVE TypeOK'
    <2>1. t \in Timer
      BY DEF TypeOK
    <2>2. timers' \subseteq Timer /\ call' \in [Fibers -> Call]
      <3>1. PICK u : u = [t EXCEPT !.at = "firing"]
        OBVIOUS
      <3>2. u \in Timer
        BY <2>1, <3>1, StageFacts
      <3> QED  BY <1>10, <3>1, <3>2, FireFacts DEF TypeOK, Flagged, Moves
    <2> QED  BY <1>10, <2>2 DEF TypeOK, Fire, kernel
  <1>11. ASSUME NEW t \in timers, FireCancel(t) PROVE TypeOK'
    <2>1. PICK hit \in SUBSET {<<t.fd, t.ev>>} :
             (\A s \in hit : slot[s] # None) /\ Schedule(hit) /\ watched' = watched \ hit
      BY <1>11, FireCancelFacts
    <2>2. hit \in SUBSET Slots
      BY <1>11, <2>1, FireCancelFacts
    <2>3. slot' \in [Slots -> Fibers \union {None}] /\ fate' \in [Fibers -> {"new", "waiting", "woken"}]
      BY <2>1, <2>2, ScheduleFacts
    <2>4. timers' \subseteq Timer /\ call' \in [Fibers -> Call] /\ watched' \subseteq Slots
      BY <1>11, <2>1, FireCancelFacts DEF TypeOK, Flagged, Moves
    <2> QED  BY <1>11, <2>3, <2>4 DEF TypeOK, FireCancel
  <1>12. ASSUME NEW s \in Slots, Deliver(s) PROVE TypeOK'
    <2>1. PICK hit : hit = {s}
      OBVIOUS
    <2>2. slot' \in [Slots -> Fibers \union {None}] /\ fate' \in [Fibers -> {"new", "waiting", "woken"}]
      BY <1>12, <2>1, DeliverFacts, ScheduleFacts
    <2> QED  BY <1>12, <2>2 DEF TypeOK, Deliver
  <1>13. ASSUME NEW s \in Slots, Arrive(s) PROVE TypeOK'
    BY <1>13 DEF TypeOK, Arrive
  <1>14. ASSUME NEW s \in Slots, Drain(s) PROVE TypeOK'
    BY <1>14, HookAssumption DEF TypeOK, Drain, Operation
  <1>15. ASSUME NEW S \in SUBSET Slots, UserCancel(S) PROVE TypeOK'
    <2>1. PICK hit \in SUBSET Slots :
             (\A s \in hit : slot[s] # None) /\ Schedule(hit) /\ watched' = watched \ hit
      BY <1>15, UserCancelFacts
    <2>2. slot' \in [Slots -> Fibers \union {None}] /\ fate' \in [Fibers -> {"new", "waiting", "woken"}]
      BY <2>1, ScheduleFacts
    <2> QED  BY <1>15, <2>1, <2>2, UserCancelFacts DEF TypeOK, UserCancel
  <1>16. ASSUME NEW fd \in Fds, Socket(fd) \/ SocketOutside(fd) PROVE TypeOK'
    BY <1>16, SocketFacts DEF TypeOK, Opened
  <1>17. ASSUME NEW fd \in Fds, Open(fd) PROVE TypeOK'
    BY <1>17, OpenFacts DEF TypeOK
  <1>18. ASSUME NEW fd \in Fds, NEW who \in {"worker", "caller", "main"}, Close(fd, who) PROVE TypeOK'
    <2>1. slot' \in [Slots -> Fibers \union {None}] /\ fate' \in [Fibers -> {"new", "waiting", "woken"}]
      BY <1>18, CloseFacts, ScheduleFacts
    <2>2. /\ file' \in [Fds -> File] /\ fdctx' \in [Fds -> FdCtx \union {None}]
          /\ closes' \in 0 .. MaxCloses
      BY <1>18, CloseFacts
    <2> QED  BY <1>18, <2>1, <2>2 DEF TypeOK, Close
  <1>19. ASSUME NEW fd \in Fds, NEW user \in BOOLEAN, SetNonblock(fd, user) PROVE TypeOK'
    <2>1. file' \in [Fds -> File] /\ fdctx' \in [Fds -> FdCtx \union {None}] /\ ops' \in 0 .. MaxOps
      BY <1>19, SetNonblockFacts
    <2> QED  BY <1>19, <2>1 DEF TypeOK, SetNonblock
  <1>20. ASSUME NEW fd \in Fds, NEW ev \in Events, SetTimeout(fd, ev) PROVE TypeOK'
    <2>1. fdctx' \in [Fds -> FdCtx \union {None}] /\ ops' \in 0 .. MaxOps
      BY <1>20, SetTimeoutFacts
    <2> QED  BY <1>20, <2>1 DEF TypeOK, SetTimeout
  <1>21. ASSUME NEW fd \in Fds, NEW link \in {"up", "refused"}, Connected(fd, link) PROVE TypeOK'
    <2>1. file' \in [Fds -> File]
      BY <1>21, LinkFacts DEF Connected, Links, SameFiles
    <2>2. <<fd, "WRITE">> \in Slots
      BY DEF Slots, Events
    <2> QED  BY <1>21, <2>1, <2>2 DEF TypeOK, Connected
  <1> QED
    BY NextSteps, <1>1, <1>2, <1>3, <1>4, <1>5, <1>6, <1>7, <1>8, <1>9, <1>10, <1>11, <1>12, <1>13,
       <1>14, <1>15, <1>16, <1>17, <1>18, <1>19, <1>20, <1>21, Zenon

-----------------------------------------------------------------------------
(* What a call leaves behind.                                              *)

\* Only a fiber that waits is registered, and it has not been woken yet.
Waits ==
    \A s \in Slots : slot[s] # None => /\ call[slot[s]].pc = "hold" /\ At(slot[s]) = s
                                       /\ fate[slot[s]] = "waiting"

\* A timer belongs to a call its fiber has begun; an armed one to the call it is
\* in, about to wait or waiting; and a callback that is about to cancel an event
\* has told the call, if it still exists.
Belongs ==
    \A t \in timers :
        /\ t.n <= call[t.f].n
        /\ t.at = "armed" => call[t.f].n = t.n /\ call[t.f].pc \in {"add", "hold"}
        /\ t.at = "firing" /\ Alive(t) => call[t.f].cancelled

\* A step in which the calls go no further.
SameCalls ==
    /\ call' \in [Fibers -> Call]
    /\ \A g \in Fibers : /\ call'[g].pc = call[g].pc /\ call'[g].kind = call[g].kind
                         /\ call'[g].fd = call[g].fd /\ call'[g].ev = call[g].ev
                         /\ call'[g].n = call[g].n /\ call'[g].gen = call[g].gen
                         /\ call'[g].on = call[g].on /\ call'[g].timed = call[g].timed
                         /\ call'[g].res = call[g].res
                         /\ call[g].cancelled => call'[g].cancelled

LEMMA StillCalls == TypeOK /\ UNCHANGED call => SameCalls
  BY DEF TypeOK, SameCalls

LEMMA FlaggedCalls ==
    ASSUME TypeOK, NEW f \in Fibers, Flagged(f)
    PROVE  SameCalls
  BY DEF TypeOK, SameCalls, Flagged, Moves

LEMMA WaitsMove ==
    ASSUME TypeOK, Waits, NEW f \in Fibers, Moves(f), call[f].pc # "hold", UNCHANGED <<slot, fate>>
    PROVE  Waits'
  <1> SUFFICES ASSUME NEW s \in Slots, slot[s] # None
               PROVE  /\ call'[slot[s]].pc = "hold" /\ <<call'[slot[s]].fd, call'[slot[s]].ev>> = s
                      /\ fate[slot[s]] = "waiting"
    BY DEF Waits, At
  <1>1. slot[s] \in Fibers
    BY DEF TypeOK
  <1>2. slot[s] # f
    BY DEF Waits
  <1> QED  BY <1>1, <1>2 DEF Waits, Moves, At

LEMMA WaitsSame ==
    ASSUME TypeOK, Waits, SameCalls, UNCHANGED <<slot, fate>>
    PROVE  Waits'
  <1> SUFFICES ASSUME NEW s \in Slots, slot[s] # None
               PROVE  /\ call'[slot[s]].pc = "hold" /\ <<call'[slot[s]].fd, call'[slot[s]].ev>> = s
                      /\ fate[slot[s]] = "waiting"
    BY DEF Waits, At
  <1>1. slot[s] \in Fibers
    BY DEF TypeOK
  <1> QED  BY <1>1 DEF Waits, SameCalls, At

LEMMA WaitsWake ==
    ASSUME TypeOK, Waits, SameCalls, NEW hit \in SUBSET Slots, \A s \in hit : slot[s] # None,
           Schedule(hit)
    PROVE  Waits'
  <1>1. /\ \A s \in Slots : slot'[s] = IF s \in hit THEN None ELSE slot[s]
        /\ \A f \in Fibers : fate'[f] = IF \E s \in hit : slot[s] = f THEN "woken" ELSE fate[f]
    BY ScheduleFacts
  <1> SUFFICES ASSUME NEW s \in Slots, slot'[s] # None
               PROVE  /\ call'[slot'[s]].pc = "hold" /\ <<call'[slot'[s]].fd, call'[slot'[s]].ev>> = s
                      /\ fate'[slot'[s]] = "waiting"
    BY DEF Waits, At
  <1>2. s \notin hit /\ slot'[s] = slot[s] /\ slot[s] # None /\ slot[s] \in Fibers
    BY <1>1 DEF TypeOK
  <1>3. call[slot[s]].pc = "hold" /\ At(slot[s]) = s /\ fate[slot[s]] = "waiting"
    BY <1>2 DEF Waits
  <1>4. \A r \in hit : slot[r] # slot[s]
    <2> SUFFICES ASSUME NEW r \in hit, slot[r] = slot[s] PROVE FALSE
      OBVIOUS
    <2>1. At(slot[r]) = r
      BY DEF Waits
    <2> QED  BY <1>2, <1>3, <2>1
  <1>5. fate'[slot[s]] = "waiting"
    BY <1>1, <1>2, <1>3, <1>4
  <1> QED  BY <1>2, <1>3, <1>5 DEF SameCalls, At

LEMMA BelongsMove ==
    ASSUME TypeOK, Belongs, NEW f \in Fibers, Moves(f), call[f].pc # "idle",
           timers' \subseteq timers,
           call'[f].pc # "idle" => call'[f].cancelled = call[f].cancelled,
           \A t \in timers' : t.f = f /\ t.at = "armed" => call'[f].pc \in {"add", "hold"}
    PROVE  Belongs'
  <1> SUFFICES ASSUME NEW t \in timers'
               PROVE  /\ t.n <= call'[t.f].n
                      /\ t.at = "armed" => call'[t.f].n = t.n /\ call'[t.f].pc \in {"add", "hold"}
                      /\ t.at = "firing" /\ call'[t.f].n = t.n /\ call'[t.f].pc # "idle" => call'[t.f].cancelled
    BY DEF Belongs, Alive
  <1>1. t \in timers /\ t.f \in Fibers
    BY DEF TypeOK, Timer
  <1> QED  BY <1>1 DEF Belongs, Alive, Moves

LEMMA BelongsSame ==
    ASSUME TypeOK, Belongs, SameCalls, timers' \subseteq timers
    PROVE  Belongs'
  <1> SUFFICES ASSUME NEW t \in timers'
               PROVE  /\ t.n <= call'[t.f].n
                      /\ t.at = "armed" => call'[t.f].n = t.n /\ call'[t.f].pc \in {"add", "hold"}
                      /\ t.at = "firing" /\ call'[t.f].n = t.n /\ call'[t.f].pc # "idle" => call'[t.f].cancelled
    BY DEF Belongs, Alive
  <1>1. t \in timers /\ t.f \in Fibers
    BY DEF TypeOK, Timer
  <1> QED  BY <1>1 DEF Belongs, Alive, SameCalls

\* A fiber that neither waits nor is about to wait has no timer to stop.
LEMMA MoveOn ==
    ASSUME TypeOK, Waits, Belongs, NEW f \in Fibers, call[f].pc \in {"try", "check", "blocked"},
           \/ \E res \in Results : Done(f, res)
           \/ \E pc \in Points : MovesTo(f, pc),
           UNCHANGED <<slot, fate, timers>>
    PROVE  Waits' /\ Belongs'
  <1>1. Moves(f) /\ (call'[f].pc # "idle" => call'[f].cancelled = call[f].cancelled)
    BY DEF Done, MovesTo
  <1>2. \A t \in timers' : ~(t.f = f /\ t.at = "armed")
    BY DEF Belongs
  <1> QED  BY <1>1, <1>2, WaitsMove, BelongsMove

LEMMA CallStep == TypeOK /\ Waits /\ Belongs /\ Next => Waits' /\ Belongs'
  <1> SUFFICES ASSUME TypeOK, Waits, Belongs, Next PROVE Waits' /\ Belongs'
    OBVIOUS
  <1>1. ASSUME NEW f \in Fibers, TryIO(f) PROVE Waits' /\ Belongs'
    <2>1. /\ call[f].pc = "try"
          /\ \/ \E res \in Results : Done(f, res)
             \/ \E pc \in Points : MovesTo(f, pc)
      BY <1>1, TryIOFacts DEF Waiting, Points, Results
    <2> QED  BY <1>1, <2>1, MoveOn DEF TryIO
  <1>2. ASSUME NEW f \in Fibers, TryConnect(f) PROVE Waits' /\ Belongs'
    <2>1. /\ call[f].pc = "try"
          /\ \/ \E res \in Results : Done(f, res)
             \/ \E pc \in Points : MovesTo(f, pc)
      BY <1>2, TryConnectFacts DEF Waiting, Points, Results
    <2> QED  BY <1>2, <2>1, MoveOn DEF TryConnect
  <1>3. ASSUME NEW f \in Fibers, Unblock(f) PROVE Waits' /\ Belongs'
    <2>1. /\ call[f].pc = "blocked"
          /\ \/ \E res \in Results : Done(f, res)
             \/ \E pc \in Points : MovesTo(f, pc)
      BY <1>3, UnblockFacts DEF Points, Results
    <2> QED  BY <1>3, <2>1, MoveOn DEF Unblock
  <1>4. ASSUME NEW f \in Fibers, Check(f) PROVE Waits' /\ Belongs'
    <2>1. call[f].pc = "check" /\ \E res \in Results : Done(f, res)
      BY <1>4, CheckFacts DEF Results
    <2> QED  BY <1>4, <2>1, MoveOn DEF Check
  <1>5. ASSUME NEW f \in Fibers, Arm(f) PROVE Waits' /\ Belongs'
    <2>1. call[f].pc = "arm" /\ MovesTo(f, "add") /\ UNCHANGED <<slot, fate>>
      BY <1>5, ArmFacts DEF Arm
    <2>2. Waits'
      BY <2>1, WaitsMove DEF MovesTo
    <2>3. PICK u \in Timer : /\ u.f = f /\ u.n = call[f].n /\ u.at = "armed"
                             /\ timers' = timers \union {u}
      BY <1>5, ArmFacts
    <2>4. call[f].n \in Nat
      BY DEF TypeOK, Call
    <2>5. Belongs'
      <3> SUFFICES ASSUME NEW t \in timers'
                   PROVE  /\ t.n <= call'[t.f].n
                          /\ t.at = "armed" => call'[t.f].n = t.n /\ call'[t.f].pc \in {"add", "hold"}
                          /\ t.at = "firing" /\ call'[t.f].n = t.n /\ call'[t.f].pc # "idle" => call'[t.f].cancelled
        BY DEF Belongs, Alive
      <3>1. CASE t = u
        BY <2>1, <2>3, <2>4, <3>1 DEF MovesTo, Moves
      <3>2. CASE t \in timers
        <4>1. t.f \in Fibers
          BY <3>2 DEF TypeOK, Timer
        <4> QED  BY <2>1, <3>2, <4>1 DEF Belongs, Alive, MovesTo, Moves
      <3> QED  BY <2>3, <3>1, <3>2
    <2> QED  BY <2>2, <2>5
  <1>6. ASSUME NEW f \in Fibers, Add(f) PROVE Waits' /\ Belongs'
    <2>1. call[f].pc = "add"
      BY <1>6, AddFacts
    <2>2. CASE UNCHANGED <<slot, fate, timers, call>>
      BY <2>2, StillCalls, WaitsSame, BelongsSame
    <2>3. CASE IOM!Register(At(f), f) /\ MovesTo(f, "hold") /\ UNCHANGED timers
      <3>1. Belongs'
        BY <2>1, <2>3, BelongsMove DEF MovesTo
      <3>2. PICK s \in Slots : s = At(f)
        BY AtType
      <3>3. /\ \A r \in Slots : slot'[r] = IF r = s THEN f ELSE slot[r]
            /\ \A g \in Fibers : fate'[g] = IF g = f THEN "waiting" ELSE fate[g]
        BY <2>3, <3>2, RegisterFacts
      <3>4. Waits'
        <4> SUFFICES ASSUME NEW r \in Slots, slot'[r] # None
                     PROVE  /\ call'[slot'[r]].pc = "hold"
                            /\ <<call'[slot'[r]].fd, call'[slot'[r]].ev>> = r
                            /\ fate'[slot'[r]] = "waiting"
          BY DEF Waits, At
        <4>1. CASE r = s
          BY <2>3, <3>2, <3>3, <4>1 DEF MovesTo, Moves, At
        <4>2. CASE r # s
          <5>1. slot'[r] = slot[r] /\ slot[r] \in Fibers /\ slot[r] # f
            BY <2>1, <3>3, <4>2 DEF TypeOK, Waits
          <5> QED  BY <2>3, <3>3, <4>2, <5>1 DEF Waits, MovesTo, Moves, At
        <4> QED  BY <4>1, <4>2
      <3> QED  BY <3>1, <3>4
    <2>4. CASE /\ timers' = Disarmed(f) /\ UNCHANGED <<slot, fate>>
               /\ (\/ \E res \in Results : Done(f, res)
                   \/ MovesTo(f, "check"))
      <3>1. Moves(f) /\ (call'[f].pc # "idle" => call'[f].cancelled = call[f].cancelled)
        BY <2>4 DEF Done, MovesTo
      <3>2. timers' \subseteq timers /\ \A t \in timers' : ~(t.f = f /\ t.at = "armed")
        BY <2>4 DEF Disarmed
      <3> QED  BY <2>1, <2>4, <3>1, <3>2, WaitsMove, BelongsMove
    <2> QED  BY <1>6, <2>2, <2>3, <2>4, AddFacts DEF Results
  <1>7. ASSUME NEW f \in Fibers, Resume(f) PROVE Waits' /\ Belongs'
    <2>1. /\ call[f].pc = "hold" /\ fate[f] = "woken" /\ slot' = slot
          /\ \A g \in Fibers : fate'[g] = IF g = f THEN "new" ELSE fate[g]
          /\ timers' = Disarmed(f)
          /\ Moves(f) /\ (call'[f].pc # "idle" => call'[f].cancelled = call[f].cancelled)
      BY <1>7, ResumeFacts DEF Done, MovesTo
    <2>2. timers' \subseteq timers /\ \A t \in timers' : ~(t.f = f /\ t.at = "armed")
      BY <2>1 DEF Disarmed
    <2>3. Belongs'
      BY <2>1, <2>2, BelongsMove
    <2>4. Waits'
      <3> SUFFICES ASSUME NEW s \in Slots, slot[s] # None
                   PROVE  /\ call'[slot[s]].pc = "hold"
                          /\ <<call'[slot[s]].fd, call'[slot[s]].ev>> = s
                          /\ fate'[slot[s]] = "waiting"
        BY <2>1 DEF Waits, At
      <3>1. slot[s] \in Fibers /\ slot[s] # f
        BY <2>1 DEF TypeOK, Waits
      <3> QED  BY <2>1, <3>1 DEF Waits, Moves, At
    <2> QED  BY <2>3, <2>4
  <1>8. ASSUME NEW f \in Fibers, NEW kind \in {"io", "connect"}, NEW fd \in Fds,
               NEW ev \in Events, NEW timed \in BOOLEAN, Start(f, kind, fd, ev, timed)
        PROVE  Waits' /\ Belongs'
    <2>1. /\ call[f].pc = "idle" /\ call[f].n \in Nat /\ call'[f].n = call[f].n + 1
          /\ \A g \in Fibers : g # f => call'[g] = call[g]
      BY <1>8, StartFacts
    <2>2. UNCHANGED <<slot, fate, timers>>
      BY <1>8 DEF Start
    <2>3. Waits'
      <3> SUFFICES ASSUME NEW s \in Slots, slot[s] # None
                   PROVE  /\ call'[slot[s]].pc = "hold"
                          /\ <<call'[slot[s]].fd, call'[slot[s]].ev>> = s
                          /\ fate[slot[s]] = "waiting"
        BY <2>2 DEF Waits, At
      <3>1. slot[s] \in Fibers /\ slot[s] # f
        BY <2>1 DEF TypeOK, Waits
      <3> QED  BY <2>1, <3>1 DEF Waits, At
    <2>4. Belongs'
      <3> SUFFICES ASSUME NEW t \in timers
                   PROVE  /\ t.n <= call'[t.f].n
                          /\ t.at = "armed" => call'[t.f].n = t.n /\ call'[t.f].pc \in {"add", "hold"}
                          /\ t.at = "firing" /\ call'[t.f].n = t.n /\ call'[t.f].pc # "idle" => call'[t.f].cancelled
        BY <2>2 DEF Belongs, Alive
      <3>1. t.f \in Fibers /\ t.n \in Nat
        BY DEF TypeOK, Timer
      <3>2. CASE t.f = f
        BY <2>1, <3>1, <3>2 DEF Belongs
      <3>3. CASE t.f # f
        BY <2>1, <3>1, <3>3 DEF Belongs, Alive
      <3> QED  BY <3>2, <3>3
    <2> QED  BY <2>3, <2>4
  <1>9. ASSUME NEW t \in timers, Due(t) PROVE Waits' /\ Belongs'
    <2>1. UNCHANGED <<call, slot, fate>>
      BY <1>9 DEF Due
    <2>2. PICK u : u = [t EXCEPT !.at = "due"]
      OBVIOUS
    <2>3. t \in Timer
      BY DEF TypeOK
    <2>4. u.f = t.f /\ u.n = t.n /\ u.at = "due"
      BY <2>2, <2>3, StageFacts
    <2>5. timers' = (timers \ {t}) \union {u}
      BY <1>9, <2>2 DEF Due
    <2>6. Belongs'
      BY <2>1, <2>4, <2>5 DEF Belongs, Alive
    <2> QED  BY <2>1, <2>6, StillCalls, WaitsSame
  <1>10. ASSUME NEW t \in timers, Fire(t) PROVE Waits' /\ Belongs'
    <2>1. t.f \in Fibers /\ SameCalls
      BY <1>10, FireFacts, FlaggedCalls
    <2>2. Waits'
      BY <1>10, <2>1, WaitsSame DEF Fire
    <2>3. CASE timers' = timers \ {t}
      BY <2>1, <2>2, <2>3, BelongsSame
    <2>4. CASE /\ timers' = (timers \ {t}) \union {[t EXCEPT !.at = "firing"]}
               /\ call'[t.f].cancelled
      <3>1. PICK u : u = [t EXCEPT !.at = "firing"]
        OBVIOUS
      <3>2. t \in Timer
        BY DEF TypeOK
      <3>3. u.f = t.f /\ u.n = t.n /\ u.at = "firing"
        BY <3>1, <3>2, StageFacts
      <3>4. Belongs'
        <4> SUFFICES ASSUME NEW x \in timers'
                     PROVE  /\ x.n <= call'[x.f].n
                            /\ x.at = "armed" => call'[x.f].n = x.n /\ call'[x.f].pc \in {"add", "hold"}
                            /\ x.at = "firing" /\ call'[x.f].n = x.n /\ call'[x.f].pc # "idle" => call'[x.f].cancelled
          BY DEF Belongs, Alive
        <4>1. CASE x = u
          BY <2>1, <2>4, <3>3, <4>1 DEF Belongs, SameCalls
        <4>2. CASE x \in timers
          <5>1. x.f \in Fibers
            BY <4>2 DEF TypeOK, Timer
          <5> QED  BY <2>1, <4>2, <5>1 DEF Belongs, Alive, SameCalls
        <4> QED  BY <2>4, <3>1, <4>1, <4>2
      <3> QED  BY <2>2, <3>4
    <2> QED  BY <1>10, <2>3, <2>4, FireFacts
  <1>11. ASSUME NEW t \in timers, FireCancel(t) PROVE Waits' /\ Belongs'
    <2>1. PICK hit \in SUBSET {<<t.fd, t.ev>>} : (\A s \in hit : slot[s] # None) /\ Schedule(hit)
      BY <1>11, FireCancelFacts
    <2>2. hit \in SUBSET Slots /\ SameCalls /\ timers' \subseteq timers
      BY <1>11, <2>1, FireCancelFacts, FlaggedCalls
    <2> QED  BY <2>1, <2>2, WaitsWake, BelongsSame
  <1>12. ASSUME NEW s \in Slots, Deliver(s) PROVE Waits' /\ Belongs'
    <2>1. PICK hit : hit = {s}
      OBVIOUS
    <2>2. UNCHANGED <<call, timers>>
      BY <1>12 DEF Deliver
    <2> QED  BY <1>12, <2>1, <2>2, DeliverFacts, StillCalls, WaitsWake, BelongsSame
  <1>13. ASSUME NEW S \in SUBSET Slots, UserCancel(S) PROVE Waits' /\ Belongs'
    <2>1. UNCHANGED <<call, timers>>
      BY <1>13 DEF UserCancel
    <2> QED  BY <1>13, <2>1, UserCancelFacts, StillCalls, WaitsWake, BelongsSame
  <1>14. ASSUME NEW fd \in Fds, NEW who \in {"worker", "caller", "main"}, Close(fd, who)
         PROVE  Waits' /\ Belongs'
    <2>1. UNCHANGED <<call, timers>>
      BY <1>14 DEF Close
    <2>2. PICK hit \in SUBSET Slots : (\A s \in hit : slot[s] # None) /\ Schedule(hit)
      BY <1>14, CloseFacts
    <2> QED  BY <2>1, <2>2, StillCalls, WaitsWake, BelongsSame
  <1>15. CASE UNCHANGED <<call, timers, slot, fate>>
    BY <1>15, StillCalls, WaitsSame, BelongsSame
  <1>16. ASSUME NEW s \in Slots, Arrive(s) \/ Drain(s) PROVE UNCHANGED <<call, timers, slot, fate>>
    BY <1>16 DEF Arrive, Drain
  <1>17. ASSUME NEW fd \in Fds,
                \/ Socket(fd) \/ SocketOutside(fd) \/ Open(fd)
                \/ \E user \in BOOLEAN : SetNonblock(fd, user)
                \/ \E ev \in Events : SetTimeout(fd, ev)
                \/ \E link \in {"up", "refused"} : Connected(fd, link)
         PROVE  UNCHANGED <<call, timers, slot, fate>>
    BY <1>17 DEF Socket, SocketOutside, NewFile, Open, SetNonblock, SetTimeout, Connected
  <1> QED
    BY NextSteps, <1>1, <1>2, <1>3, <1>4, <1>5, <1>6, <1>7, <1>8, <1>9, <1>10, <1>11, <1>12, <1>13,
       <1>14, <1>15, <1>16, <1>17, Zenon

-----------------------------------------------------------------------------
(* Calls and files: who may sleep in the kernel, and who meets addEvent's  *)
(* assertion.                                                              *)

\* What a step other than Start does to a call: it goes on or is over, and it
\* falls asleep in the kernel only on an open, blocking descriptor.
Goes(g) ==
    /\ call'[g].kind = call[g].kind /\ call'[g].fd = call[g].fd
    /\ call'[g].ev = call[g].ev /\ call'[g].n = call[g].n
    /\ call'[g].pc # "idle" => /\ call[g].pc # "idle" /\ call'[g].gen = call[g].gen
                               /\ call'[g].timed = call[g].timed
    /\ call'[g].pc = "blocked" =>
          \/ call[g].pc = "blocked" /\ call'[g].on = call[g].on
          \/ /\ file[call[g].fd].open /\ ~file[call[g].fd].nonblock
             /\ call'[g].on = file[call[g].fd].gen /\ SameFiles

LEMMA DoneGoes ==
    ASSUME TypeOK, NEW f \in Fibers, NEW res, Done(f, res)
    PROVE  \A g \in Fibers : Goes(g)
  <1> TAKE g \in Fibers
  <1> QED  BY DEF Done, Moves, Goes

LEMMA MovesGoes ==
    ASSUME TypeOK, NEW f \in Fibers, call[f].pc # "idle", NEW pc \in Points \ {"blocked"}, MovesTo(f, pc)
    PROVE  \A g \in Fibers : Goes(g)
  <1> TAKE g \in Fibers
  <1> QED  BY DEF MovesTo, Moves, Goes

LEMMA WaitingGoes ==
    ASSUME TypeOK, NEW f \in Fibers, call[f].pc # "idle", file[call[f].fd].open, Waiting(f), SameFiles
    PROVE  \A g \in Fibers : Goes(g)
  <1>1. CASE /\ MovesTo(f, "blocked") /\ call'[f].on = file[call[f].fd].gen
             /\ ~file[call[f].fd].nonblock
    <2> TAKE g \in Fibers
    <2> QED  BY <1>1 DEF MovesTo, Moves, Goes
  <1> QED  BY <1>1, DoneGoes, MovesGoes DEF Waiting, Points

LEMMA SameGoes == SameCalls => \A g \in Fibers : Goes(g)
  BY DEF SameCalls, Goes

LEMMA SameFilesUnchanged == TypeOK /\ UNCHANGED file => SameFiles
  BY DEF TypeOK, SameFiles

LEMMA CallMoves ==
    ASSUME TypeOK, Next
    PROVE  \/ \E f \in Fibers, kind \in {"io", "connect"}, fd \in Fds, ev \in Events,
                 timed \in BOOLEAN : Start(f, kind, fd, ev, timed)
           \/ \A g \in Fibers : Goes(g)
  <1>1. ASSUME NEW f \in Fibers, TryIO(f) PROVE \A g \in Fibers : Goes(g)
    <2>1. SameFiles
      BY <1>1, SameFilesUnchanged DEF TryIO
    <2> QED  BY <1>1, <2>1, TryIOFacts, DoneGoes, WaitingGoes
  <1>2. ASSUME NEW f \in Fibers, TryConnect(f) PROVE \A g \in Fibers : Goes(g)
    <2>1. CASE \E res \in Results : Done(f, res)
      BY <2>1, DoneGoes
    <2>2. CASE /\ Waiting(f) /\ file[call[f].fd].open
               /\ \E link \in {"up", "refused", "pending"} : file' = [file EXCEPT ![call[f].fd].link = link]
      <3>1. PICK fd : fd = call[f].fd
        OBVIOUS
      <3>2. fd \in Fds
        BY <3>1, AtType
      <3>3. SameFiles
        BY <2>2, <3>1, <3>2, LinkFacts DEF Links
      <3> QED  BY <1>2, <2>2, <3>3, TryConnectFacts, WaitingGoes
    <2> QED  BY <1>2, <2>1, <2>2, TryConnectFacts DEF Results
  <1>3. ASSUME NEW f \in Fibers, Unblock(f) PROVE \A g \in Fibers : Goes(g)
    BY <1>3, UnblockFacts, DoneGoes, MovesGoes DEF Points
  <1>4. ASSUME NEW f \in Fibers, Arm(f) PROVE \A g \in Fibers : Goes(g)
    BY <1>4, ArmFacts, MovesGoes DEF Points
  <1>5. ASSUME NEW f \in Fibers, Add(f) PROVE \A g \in Fibers : Goes(g)
    BY <1>5, AddFacts, StillCalls, SameGoes, DoneGoes, MovesGoes DEF Points
  <1>6. ASSUME NEW f \in Fibers, Resume(f) PROVE \A g \in Fibers : Goes(g)
    BY <1>6, ResumeFacts, DoneGoes, MovesGoes DEF Points
  <1>7. ASSUME NEW f \in Fibers, Check(f) PROVE \A g \in Fibers : Goes(g)
    BY <1>7, CheckFacts, DoneGoes
  <1>8. ASSUME NEW t \in timers, Due(t) \/ Fire(t) \/ FireCancel(t) PROVE \A g \in Fibers : Goes(g)
    <2>1. SameCalls
      BY <1>8, FireFacts, FireCancelFacts, FlaggedCalls, StillCalls DEF Due
    <2> QED  BY <2>1, SameGoes
  <1>9. CASE UNCHANGED call
    BY <1>9, StillCalls, SameGoes
  <1>10. ASSUME NEW s \in Slots, Deliver(s) \/ Arrive(s) \/ Drain(s) PROVE UNCHANGED call
    BY <1>10 DEF Deliver, Arrive, Drain
  <1>11. ASSUME NEW S \in SUBSET Slots, UserCancel(S) PROVE UNCHANGED call
    BY <1>11 DEF UserCancel
  <1>12. ASSUME NEW fd \in Fds,
                \/ Socket(fd) \/ SocketOutside(fd) \/ Open(fd)
                \/ \E who \in {"worker", "caller", "main"} : Close(fd, who)
                \/ \E user \in BOOLEAN : SetNonblock(fd, user)
                \/ \E ev \in Events : SetTimeout(fd, ev)
                \/ \E link \in {"up", "refused"} : Connected(fd, link)
         PROVE  UNCHANGED call
    BY <1>12 DEF Socket, SocketOutside, NewFile, Open, Close, SetNonblock, SetTimeout, Connected
  <1> QED
    BY NextSteps, <1>1, <1>2, <1>3, <1>4, <1>5, <1>6, <1>7, <1>8, <1>9, <1>10, <1>11, <1>12, Zenon

\* What a step does to a file: it is the same file, and a hooked one is made
\* blocking only with a trace of it, a closed number gets a new one, or FdManager
\* is told of a new one.
Keeps(d) ==
    \/ /\ file'[d].gen = file[d].gen /\ file'[d].how = file[d].how
       /\ file'[d].open => file[d].open
       /\ file[d].cleared => file'[d].cleared
       /\ file[d].nonblock => file'[d].nonblock \/ file'[d].cleared
    \/ /\ file'[d].gen = file[d].gen + 1 /\ ~file[d].open
       /\ file'[d].how = "hooked" => file'[d].nonblock
    \/ /\ file'[d].gen = file[d].gen /\ file[d].open
       /\ file[d].how = "fresh" /\ file'[d].how \in {"hooked", "stale"}
       /\ file'[d].how = "hooked" => file'[d].nonblock

LEMMA SameKeeps == SameFiles => \A d \in Fds : Keeps(d)
  BY DEF SameFiles, Keeps

LEMMA FileMoves ==
    ASSUME TypeOK, Next
    PROVE  \A d \in Fds : Keeps(d)
  <1>1. ASSUME NEW fd \in Fds, Socket(fd) \/ SocketOutside(fd) PROVE \A d \in Fds : Keeps(d)
    BY <1>1, SocketFacts DEF Opened, Keeps
  <1>0. ASSUME NEW fd \in Fds, Open(fd) PROVE \A d \in Fds : Keeps(d)
    BY <1>0, OpenFacts DEF Keeps
  <1>2. ASSUME NEW fd \in Fds, NEW who \in {"worker", "caller", "main"}, Close(fd, who)
        PROVE  \A d \in Fds : Keeps(d)
    <2> TAKE d \in Fds
    <2>1. /\ file'[d].open = (d # fd /\ file[d].open)
          /\ file'[d].gen = file[d].gen /\ file'[d].how = file[d].how
          /\ file'[d].nonblock = file[d].nonblock
          /\ file'[d].cleared = file[d].cleared
      BY <1>2, CloseFacts
    <2> QED  BY <2>1 DEF Keeps
  <1>3. ASSUME NEW fd \in Fds, NEW user \in BOOLEAN, SetNonblock(fd, user) PROVE \A d \in Fds : Keeps(d)
    BY <1>3, SetNonblockFacts DEF Keeps
  <1>4. CASE UNCHANGED file
    BY <1>4, SameFilesUnchanged, SameKeeps
  <1>5. ASSUME NEW f \in Fibers, TryConnect(f) PROVE \A d \in Fds : Keeps(d)
    <2>1. PICK fd : fd = call[f].fd
      OBVIOUS
    <2>2. fd \in Fds
      BY <2>1, AtType
    <2>3. UNCHANGED file \/ SameFiles
      BY <1>5, <2>1, <2>2, TryConnectFacts, LinkFacts DEF Links
    <2> QED  BY <1>4, <2>3, SameKeeps
  <1>6. ASSUME NEW fd \in Fds, NEW link \in {"up", "refused"}, Connected(fd, link)
        PROVE  \A d \in Fds : Keeps(d)
    BY <1>6, LinkFacts, SameKeeps DEF Connected, Links
  <1>7. ASSUME NEW f \in Fibers, TryIO(f) \/ Unblock(f) \/ Arm(f) \/ Add(f) \/ Resume(f) \/ Check(f)
        PROVE  UNCHANGED file
    BY <1>7 DEF TryIO, Unblock, Arm, Add, Resume, Check, kernel
  <1>8. ASSUME NEW f \in Fibers, NEW kind \in {"io", "connect"}, NEW fd \in Fds,
               NEW ev \in Events, NEW timed \in BOOLEAN, Start(f, kind, fd, ev, timed)
        PROVE  UNCHANGED file
    BY <1>8 DEF Start
  <1>9. ASSUME NEW t \in timers, Due(t) \/ Fire(t) \/ FireCancel(t) PROVE UNCHANGED file
    BY <1>9 DEF Due, Fire, FireCancel, kernel
  <1>10. ASSUME NEW s \in Slots, Deliver(s) \/ Arrive(s) \/ Drain(s) PROVE UNCHANGED file
    BY <1>10 DEF Deliver, Arrive, Drain
  <1>11. ASSUME NEW S \in SUBSET Slots, UserCancel(S) PROVE UNCHANGED file
    BY <1>11 DEF UserCancel
  <1>12. ASSUME NEW fd \in Fds, NEW ev \in Events, SetTimeout(fd, ev) PROVE UNCHANGED file
    BY <1>12 DEF SetTimeout
  <1> QED
    BY NextSteps, <1>0, <1>1, <1>2, <1>3, <1>4, <1>5, <1>6, <1>7, <1>8, <1>9, <1>10, <1>11, <1>12, Zenon

\* A file that was opened through the hooks is non-blocking until a user clears
\* the flag; a thread asleep in the kernel sleeps on a file of the past or of the
\* present; and a call is made on one of these too, but not on a file FdManager
\* has not been told of.
Behind(f) ==
    /\ call[f].gen <= file[call[f].fd].gen
    /\ file[call[f].fd].how = "fresh" => call[f].gen # file[call[f].fd].gen
Sleeps ==
    /\ \A d \in Fds : /\ file[d].open => file[d].gen > 0
                      /\ file[d].gen > 0 /\ file[d].how = "hooked" =>
                            file[d].nonblock \/ file[d].cleared
    /\ \A f \in Fibers : call[f].pc = "blocked" => call[f].on <= file[call[f].fd].gen
    /\ \A f \in Fibers : call[f].pc # "idle" => Behind(f)

\* Two calls that wait at one place are about different files.
Distinct ==
    \A f, g \in Fibers :
        (/\ call[f].pc # "idle" /\ call[g].pc # "idle"
         /\ At(f) = At(g) /\ call[f].gen = call[g].gen) => f = g

LEMMA SleepsStep == TypeOK /\ Sleeps /\ NeverSleepsInKernel /\ Next => Sleeps' /\ NeverSleepsInKernel'
  <1> SUFFICES ASSUME TypeOK, Sleeps, NeverSleepsInKernel, Next PROVE Sleeps' /\ NeverSleepsInKernel'
    OBVIOUS
  <1>1. \A d \in Fds : Keeps(d) /\ file[d].gen \in Nat
    BY FileMoves DEF TypeOK, File
  <1>2. TypeOK'
    BY TypeStep
  <1>3. \A d \in Fds : /\ file'[d].open => file'[d].gen > 0
                       /\ file'[d].gen > 0 /\ file'[d].how = "hooked" =>
                             file'[d].nonblock \/ file'[d].cleared
    BY <1>1 DEF Sleeps, Keeps
  <1>4. ASSUME NEW f \in Fibers, call'[f].pc # "idle" PROVE Behind(f)'
    <2>1. PICK d : d = call'[f].fd
      OBVIOUS
    <2>2. d \in Fds /\ call'[f].gen \in Nat /\ call[f].gen \in Nat
      BY <1>2, <2>1 DEF TypeOK, Call
    <2>3. CASE Goes(f)
      BY <1>1, <1>4, <2>1, <2>2, <2>3 DEF Goes, Sleeps, Behind, Keeps
    <2>4. ASSUME NEW x \in Fibers, NEW kind \in {"io", "connect"}, NEW fd \in Fds,
                 NEW ev \in Events, NEW timed \in BOOLEAN, Start(x, kind, fd, ev, timed)
          PROVE  Behind(f)'
      <3>1. UNCHANGED file /\ file[fd].how # "fresh"
        BY <2>4 DEF Start, InUse
      <3>2. CASE f = x
        BY <2>1, <2>2, <2>4, <3>1, <3>2, StartFacts DEF Behind
      <3>3. CASE f # x
        <4>1. call'[f] = call[f]
          BY <2>4, <3>3, StartFacts
        <4> QED  BY <1>4, <3>1, <4>1 DEF Sleeps, Behind
      <3> QED  BY <3>2, <3>3
    <2> QED  BY <2>3, <2>4, CallMoves
  <1>5. ASSUME NEW f \in Fibers, call'[f].pc = "blocked"
        PROVE  /\ call'[f].on <= file'[call'[f].fd].gen
               /\ call'[f].on = file'[call'[f].fd].gen =>
                     \/ file'[call'[f].fd].how \in {"stale", "outside"} \/ file'[call'[f].fd].cleared
                     \/ call'[f].gen # file'[call'[f].fd].gen
    <2>1. Goes(f)
      <3>1. ASSUME NEW x \in Fibers, NEW kind \in {"io", "connect"}, NEW fd \in Fds,
                   NEW ev \in Events, NEW timed \in BOOLEAN, Start(x, kind, fd, ev, timed)
            PROVE  Goes(f)
        <4>1. f # x
          BY <1>5, <3>1, StartFacts
        <4>2. call'[f] = call[f]
          BY <3>1, <4>1, StartFacts
        <4> QED  BY <4>2 DEF Goes
      <3> QED  BY <3>1, CallMoves
    <2>2. PICK d : d = call[f].fd
      OBVIOUS
    <2>3. d \in Fds /\ call'[f].fd = d /\ call[f].on \in Nat
      BY <2>1, <2>2 DEF Goes, TypeOK, Call
    <2>4. call[f].pc # "idle" /\ call'[f].gen = call[f].gen /\ Behind(f)
      BY <1>5, <2>1 DEF Goes, Sleeps
    <2>5. CASE call[f].pc = "blocked" /\ call'[f].on = call[f].on
      <3>1. call[f].on <= file[d].gen
        BY <2>2, <2>5 DEF Sleeps
      <3>2. call[f].on = file[d].gen =>
               \/ file[d].how \in {"stale", "outside"} \/ file[d].cleared \/ call[f].gen # file[d].gen
        BY <2>2, <2>5 DEF NeverSleepsInKernel
      <3> QED  BY <1>1, <2>2, <2>3, <2>4, <2>5, <3>1, <3>2 DEF Keeps, Behind
    <2>6. CASE /\ file[d].open /\ ~file[d].nonblock /\ call'[f].on = file[d].gen /\ SameFiles
      <3>1. /\ file'[d].gen = file[d].gen /\ file'[d].how = file[d].how
            /\ file'[d].cleared = file[d].cleared
        BY <2>3, <2>6 DEF SameFiles
      <3>2. file[d].how = "fresh" => call[f].gen # file[d].gen
        BY <2>2, <2>4 DEF Behind
      <3>3. file[d].how = "hooked" => file[d].cleared
        BY <2>3, <2>6 DEF Sleeps
      <3>4. file[d].how \in {"fresh", "hooked", "stale", "outside"} /\ file[d].gen \in Nat
        BY <2>3 DEF TypeOK, File
      <3> QED  BY <2>3, <2>4, <2>6, <3>1, <3>2, <3>3, <3>4
    <2> QED  BY <1>5, <2>1, <2>2, <2>5, <2>6 DEF Goes
  <1> QED  BY <1>3, <1>4, <1>5 DEF Sleeps, NeverSleepsInKernel, Behind

LEMMA DistinctStep == TypeOK /\ Distinct /\ Next => Distinct'
  <1> SUFFICES ASSUME TypeOK, Distinct, Next,
                      NEW f \in Fibers, NEW g \in Fibers, call'[f].pc # "idle", call'[g].pc # "idle",
                      <<call'[f].fd, call'[f].ev>> = <<call'[g].fd, call'[g].ev>>,
                      call'[f].gen = call'[g].gen
               PROVE  f = g
    BY DEF Distinct, At
  <1>1. CASE \A h \in Fibers : Goes(h)
    BY <1>1 DEF Goes, Distinct, At
  <1>2. ASSUME NEW x \in Fibers, NEW kind \in {"io", "connect"}, NEW fd \in Fds,
               NEW ev \in Events, NEW timed \in BOOLEAN, Start(x, kind, fd, ev, timed)
        PROVE  f = g
    <2>1. /\ \A h \in Fibers : h # x => call'[h] = call[h]
          /\ call'[x].fd = fd /\ call'[x].ev = ev /\ call'[x].gen = file[fd].gen
          /\ \A h \in Fibers : call[h].pc # "idle" /\ At(h) = <<fd, ev>> => call[h].gen # file[fd].gen
      BY <1>2, StartFacts
    <2>2. CASE f # x /\ g # x
      BY <2>1, <2>2 DEF Distinct, At
    <2>3. CASE f = x /\ g # x
      BY <2>1, <2>3 DEF At
    <2>4. CASE f # x /\ g = x
      BY <2>1, <2>4 DEF At
    <2> QED  BY <2>2, <2>3, <2>4
  <1> QED  BY <1>1, <1>2, CallMoves

\* The only way out of the program is addEvent's assertion.
LEMMA AbortStep ==
    ASSUME TypeOK, Next, aborted'
    PROVE  \E f \in Fibers : Add(f) /\ call[f].pc = "add" /\ slot[At(f)] # None /\ UNCHANGED <<call, file>>
  <1>1. ASSUME NEW f \in Fibers, TryIO(f) \/ TryConnect(f) \/ Unblock(f) \/ Arm(f) \/ Resume(f) \/ Check(f)
        PROVE  aborted' = aborted
    BY <1>1 DEF TryIO, TryConnect, Unblock, Arm, Resume, Check
  <1>2. ASSUME NEW f \in Fibers, Add(f), aborted' # aborted
        PROVE  call[f].pc = "add" /\ slot[At(f)] # None /\ UNCHANGED <<call, file>>
    BY <1>2 DEF Add
  <1>3. ASSUME NEW f \in Fibers, NEW kind \in {"io", "connect"}, NEW fd \in Fds,
               NEW ev \in Events, NEW timed \in BOOLEAN, Start(f, kind, fd, ev, timed)
        PROVE  aborted' = aborted
    BY <1>3 DEF Start
  <1>4. ASSUME NEW t \in timers, Due(t) \/ Fire(t) \/ FireCancel(t) PROVE aborted' = aborted
    BY <1>4 DEF Due, Fire, FireCancel
  <1>5. ASSUME NEW s \in Slots, Deliver(s) \/ Arrive(s) \/ Drain(s) PROVE aborted' = aborted
    BY <1>5 DEF Deliver, Arrive, Drain
  <1>6. ASSUME NEW S \in SUBSET Slots, UserCancel(S) PROVE aborted' = aborted
    BY <1>6 DEF UserCancel
  <1>7. ASSUME NEW fd \in Fds,
                \/ Socket(fd) \/ SocketOutside(fd) \/ Open(fd)
                \/ \E who \in {"worker", "caller", "main"} : Close(fd, who)
                \/ \E user \in BOOLEAN : SetNonblock(fd, user)
                \/ \E ev \in Events : SetTimeout(fd, ev)
                \/ \E link \in {"up", "refused"} : Connected(fd, link)
         PROVE  aborted' = aborted
    BY <1>7 DEF Socket, SocketOutside, NewFile, Open, Close, SetNonblock, SetTimeout, Connected
  <1>8. ~aborted /\ aborted' # aborted
    BY NextSteps
  <1> QED  BY NextSteps, <1>1, <1>2, <1>3, <1>4, <1>5, <1>6, <1>7, <1>8, Zenon

LEMMA ReuseStep ==
    ASSUME TypeOK, Waits, Distinct, Next
    PROVE  AbortsOnlyOnReuse'
  <1> SUFFICES ASSUME aborted'
               PROVE  \E f \in Fibers : call'[f].pc # "idle" /\ call'[f].gen # file'[call'[f].fd].gen
    BY DEF AbortsOnlyOnReuse
  <1>1. PICK f \in Fibers : /\ call[f].pc = "add" /\ slot[At(f)] # None
                            /\ UNCHANGED <<call, file>>
    BY AbortStep
  <1>2. PICK s \in Slots : s = At(f)
    BY AtType
  <1>3. PICK g \in Fibers : g = slot[s]
    BY <1>1, <1>2 DEF TypeOK
  <1>4. call[g].pc = "hold" /\ At(g) = At(f)
    BY <1>1, <1>2, <1>3 DEF Waits
  <1>5. f # g /\ call[f].gen # call[g].gen /\ call[f].fd = call[g].fd
    BY <1>1, <1>4 DEF Distinct, At
  <1>6. call[f].gen # file[call[f].fd].gen \/ call[g].gen # file[call[g].fd].gen
    BY <1>5
  <1> QED  BY <1>1, <1>4, <1>6

HookInv == TypeOK /\ Waits /\ Belongs /\ Sleeps /\ NeverSleepsInKernel /\ Distinct /\ AbortsOnlyOnReuse

LEMMA HookInvariant == Spec => []HookInv
  <1>1. Init => HookInv
    <2> SUFFICES ASSUME Init PROVE HookInv
      OBVIOUS
    <2>1. TypeOK
      BY TypeInit
    <2>2. Waits /\ Belongs
      BY DEF Init, IOM!Init, Waits, Belongs
    <2>3. \A f \in Fibers : call[f].pc = "idle"
      BY DEF Init
    <2>4. \A d \in Fds : file[d].gen = 0 /\ ~file[d].open
      BY DEF Init
    <2>5. Sleeps /\ NeverSleepsInKernel /\ Distinct
      BY <2>3, <2>4 DEF Sleeps, NeverSleepsInKernel, Distinct
    <2>6. AbortsOnlyOnReuse
      BY DEF Init, AbortsOnlyOnReuse
    <2> QED  BY <2>1, <2>2, <2>5, <2>6 DEF HookInv
  <1>2. HookInv /\ [Next]_vars => HookInv'
    <2> SUFFICES ASSUME HookInv, [Next]_vars PROVE HookInv'
      OBVIOUS
    <2>1. CASE Next
      BY <2>1, TypeStep, CallStep, SleepsStep, DistinctStep, ReuseStep DEF HookInv
    <2>2. CASE UNCHANGED vars
      BY <2>2 DEF vars, HookInv, TypeOK, Waits, Belongs, Alive, At, Sleeps, Behind, NeverSleepsInKernel,
                  Distinct, AbortsOnlyOnReuse
    <2> QED  BY <2>1, <2>2
  <1> QED  BY <1>1, <1>2, PTL DEF Spec

\* A wait owns what it set up: whatever the order of callbacks, cancellations,
\* deliveries and closed descriptors, an armed timer is the current call's, and
\* only a fiber that waits is registered with IOManager.
THEOREM WaitOwnsItsTimerCorrect == Spec => []WaitOwnsItsTimer
  <1>1. HookInv => WaitOwnsItsTimer
    BY DEF HookInv, Waits, Belongs, WaitOwnsItsTimer
  <1> QED  BY <1>1, HookInvariant, PTL

\* A hooked call puts its worker to sleep in the kernel only on a descriptor that
\* a user made blocking, that was opened outside of the hooks, or whose number
\* still had the FdCtx of an earlier file, or when it was made on an earlier file
\* of the number.
THEOREM NeverSleepsCorrect == Spec => []NeverSleepsInKernel
  <1>1. HookInv => NeverSleepsInKernel
    BY DEF HookInv
  <1> QED  BY <1>1, HookInvariant, PTL

\* addEvent's assertion fails only where a descriptor was closed under a call
\* and its number given out again.
THEOREM AbortsCorrect == Spec => []AbortsOnlyOnReuse
  <1>1. HookInv => AbortsOnlyOnReuse
    BY DEF HookInv
  <1> QED  BY <1>1, HookInvariant, PTL

-----------------------------------------------------------------------------
(* connect().                                                              *)

Settled == {"up", "refused"}

\* Only an open socket has a connection or an attempt at one, and an attempt that
\* goes on makes nothing ready.
LinkInv ==
    /\ \A d \in Fds : file[d].link # "none" => file[d].open
    /\ \A s \in ready : file[s[1]].link # "pending"

\* No descriptor was closed, and no user has interfered.
Quiet == closes = 0 /\ ops = 0

\* A connect() whose attempt goes on or has gone on.
Past(f) == call[f].kind = "connect" /\ call[f].pc \in {"arm", "add", "hold", "check", "blocked"}

\* Without setsockopt only connect() has a timeout, and epoll watches whatever is
\* registered.
Untimed ==
    /\ \A d \in Fds : fdctx[d] # None => fdctx[d].timed = {}
    /\ \A f \in Fibers : call[f].pc # "idle" /\ (call[f].timed \/ call[f].pc = "arm") =>
                            call[f].kind = "connect"
    /\ \A s \in Slots : slot[s] # None => s \in watched

\* A socket has one attempt, of one call, and the timers of the socket are that
\* call's.
Started ==
    /\ \A t \in timers : file[t.fd].link # "none"
    /\ \A f \in Fibers : Past(f) =>
          /\ file[call[f].fd].link # "none"
          /\ \A t \in timers : t.fd = call[f].fd => t.f = f /\ t.n = call[f].n
          /\ \A g \in Fibers : Past(g) /\ call[g].fd = call[f].fd => f = g

\* A connect() is woken by the end of its attempt, or told of its timeout.
Answered ==
    \A f \in Fibers : Past(f) =>
        /\ call[f].pc = "hold" /\ fate[f] = "woken" =>
              call[f].cancelled \/ file[call[f].fd].link \in Settled
        /\ call[f].pc = "check" => file[call[f].fd].link \in Settled

UpWhenOk ==
    \A f \in Fibers : call[f].kind = "connect" /\ call[f].res = "ok" /\ call[f].pc = "idle" =>
        file[call[f].fd].link = "up"

AttemptInv == Untimed /\ Started /\ Answered /\ UpWhenOk

\* What a step does to a link while no descriptor is closed.
LinkKeeps(d) ==
    \/ file'[d].link = file[d].link
    \/ file[d].link = "none" /\ file'[d].link # "none"
    \/ file[d].link = "pending" /\ file'[d].link \in Settled

LEMMA SameLinks ==
    ASSUME UNCHANGED file
    PROVE  \A d \in Fds : LinkKeeps(d)
  BY DEF LinkKeeps

LEMMA ReadyPlace ==
    ASSUME TypeOK, NEW s \in ready
    PROVE  s \in Slots /\ s[1] \in Fds /\ s = <<s[1], s[2]>>
  BY DEF TypeOK, Slots

LEMMA LinkStep == TypeOK /\ LinkInv /\ Next => LinkInv'
  <1> SUFFICES ASSUME TypeOK, LinkInv, Next PROVE LinkInv'
    OBVIOUS
  <1>1. CASE UNCHANGED file /\ ready' \subseteq ready
    BY <1>1 DEF LinkInv
  <1>2. ASSUME NEW fd \in Fds, Socket(fd) \/ SocketOutside(fd) PROVE LinkInv'
    <2>1. Opened(fd) /\ ready' = ready
      BY <1>2, SocketFacts
    <2>2. \A d \in Fds : file'[d].link # "none" => file'[d].open
      BY <2>1 DEF Opened, LinkInv
    <2>3. \A s \in ready' : file'[s[1]].link # "pending"
      BY <2>1, ReadyPlace DEF Opened, LinkInv
    <2> QED  BY <2>2, <2>3 DEF LinkInv
  <1>0. ASSUME NEW fd \in Fds, Open(fd) PROVE LinkInv'
    <2>1. /\ \A d \in Fds : d # fd => file'[d] = file[d]
          /\ file'[fd].open = file[fd].open /\ file'[fd].link = file[fd].link
      BY <1>0, OpenFacts
    <2>2. ready' = ready
      BY <1>0 DEF Open
    <2> QED  BY <2>1, <2>2, ReadyPlace DEF LinkInv
  <1>3. ASSUME NEW fd \in Fds, NEW who \in {"worker", "caller", "main"}, Close(fd, who) PROVE LinkInv'
    <2>1. \A d \in Fds : /\ file'[d].open = (d # fd /\ file[d].open)
                         /\ file'[d].link = IF d = fd THEN "none" ELSE file[d].link
      BY <1>3, CloseFacts
    <2>2. \A d \in Fds : file'[d].link # "none" => file'[d].open
      <3> TAKE d \in Fds
      <3>1. CASE d = fd
        BY <2>1, <3>1
      <3>2. CASE d # fd
        <4>1. file'[d].link = file[d].link
          BY <2>1, <3>2
        <4>2. file[d].link # "none" => file[d].open
          BY DEF LinkInv
        <4>3. file'[d].open = (d # fd /\ file[d].open)
          BY <2>1
        <4> QED  BY <3>2, <4>1, <4>2, <4>3
      <3> QED  BY <3>1, <3>2
    <2>3. \A s \in ready' : file'[s[1]].link # "pending"
      <3>1. ready' \subseteq ready
        BY <1>3 DEF Close
      <3>2. \A d \in Fds : file'[d].link = IF d = fd THEN "none" ELSE file[d].link
        BY <2>1
      <3> QED  BY <3>1, <3>2, ReadyPlace DEF LinkInv
    <2> QED  BY <2>2, <2>3 DEF LinkInv
  <1>4. ASSUME NEW fd \in Fds, NEW user \in BOOLEAN, SetNonblock(fd, user) PROVE LinkInv'
    <2>1. /\ \A d \in Fds : d # fd => file'[d] = file[d]
          /\ file'[fd].open = file[fd].open /\ file'[fd].link = file[fd].link
      BY <1>4, SetNonblockFacts
    <2>2. ready' = ready
      BY <1>4 DEF SetNonblock
    <2> QED  BY <2>1, <2>2, ReadyPlace DEF LinkInv
  <1>5. ASSUME NEW f \in Fibers, TryConnect(f) PROVE LinkInv'
    <2>1. PICK fd \in Fds : fd = call[f].fd
      BY AtType
    <2>2. CASE UNCHANGED <<file, ready>>
      BY <1>1, <2>2
    <2>3. ASSUME NEW link \in {"up", "refused", "pending"}, file' = [file EXCEPT ![fd].link = link],
                 file[fd].open, ready' = ready \ OfFd(fd)
          PROVE  LinkInv'
      <3>0. link \in Links
        BY DEF Links
      <3>1. SameFiles /\ \A d \in Fds : file'[d].link = IF d = fd THEN link ELSE file[d].link
        BY <2>3, <3>0, LinkFacts, Zenon
      <3>2. \A s \in ready' : s \in ready /\ s[1] # fd
        BY <2>3, ReadyPlace DEF OfFd
      <3>3. \A d \in Fds : file'[d].link # "none" => file'[d].open
        BY <2>3, <3>1 DEF SameFiles, LinkInv
      <3>4. \A s \in ready' : file'[s[1]].link # "pending"
        BY <3>1, <3>2, ReadyPlace DEF LinkInv
      <3> QED  BY <3>3, <3>4 DEF LinkInv
    <2> QED  BY <1>5, <2>1, <2>2, <2>3, TryConnectFacts
  <1>6. ASSUME NEW fd \in Fds, NEW link \in {"up", "refused"}, Connected(fd, link) PROVE LinkInv'
    <2>0. link \in Links /\ file' = [file EXCEPT ![fd].link = link]
      BY <1>6 DEF Connected, Links
    <2>1. SameFiles /\ \A d \in Fds : file'[d].link = IF d = fd THEN link ELSE file[d].link
      BY <2>0, LinkFacts, Zenon
    <2>2. file[fd].open /\ ready' = ready \union {<<fd, "WRITE">>}
      BY <1>6 DEF Connected
    <2>3. \A d \in Fds : file'[d].link # "none" => file'[d].open
      BY <2>1, <2>2 DEF SameFiles, LinkInv
    <2>4. \A s \in ready' : file'[s[1]].link # "pending"
      BY <2>1, <2>2, ReadyPlace DEF LinkInv
    <2> QED  BY <2>3, <2>4 DEF LinkInv
  <1>7. ASSUME NEW s \in Slots, Arrive(s) PROVE LinkInv'
    <2>1. UNCHANGED file /\ ready' = ready \union {s} /\ file[s[1]].link # "pending"
      BY <1>7 DEF Arrive
    <2> QED  BY <2>1 DEF LinkInv
  <1>8. ASSUME NEW f \in Fibers, TryIO(f) PROVE LinkInv'
    BY <1>1, <1>8, TryIOFacts DEF TryIO
  <1>9. ASSUME NEW f \in Fibers, Unblock(f) \/ Arm(f) \/ Add(f) \/ Resume(f) \/ Check(f)
        PROVE  UNCHANGED file /\ ready' \subseteq ready
    BY <1>9 DEF Unblock, Arm, Add, Resume, Check, kernel
  <1>10. ASSUME NEW f \in Fibers, NEW kind \in {"io", "connect"}, NEW fd \in Fds,
               NEW ev \in Events, NEW timed \in BOOLEAN, Start(f, kind, fd, ev, timed)
         PROVE  UNCHANGED file /\ ready' \subseteq ready
    BY <1>10 DEF Start
  <1>11. ASSUME NEW t \in timers, Due(t) \/ Fire(t) \/ FireCancel(t)
         PROVE  UNCHANGED file /\ ready' \subseteq ready
    BY <1>11 DEF Due, Fire, FireCancel, kernel
  <1>12. ASSUME NEW s \in Slots, Deliver(s) \/ Drain(s) PROVE UNCHANGED file /\ ready' \subseteq ready
    BY <1>12 DEF Deliver, Drain
  <1>13. ASSUME NEW S \in SUBSET Slots, UserCancel(S) PROVE UNCHANGED file /\ ready' \subseteq ready
    BY <1>13 DEF UserCancel
  <1>14. ASSUME NEW fd \in Fds, NEW ev \in Events, SetTimeout(fd, ev)
         PROVE  UNCHANGED file /\ ready' \subseteq ready
    BY <1>14 DEF SetTimeout
  <1> QED
    BY NextSteps, <1>0, <1>1, <1>2, <1>3, <1>4, <1>5, <1>6, <1>7, <1>8, <1>9, <1>10, <1>11, <1>12, <1>13,
       <1>14, Zenon

\* The four parts of AttemptInv, each from what a step has to leave alone.
LEMMA UntimedKeep ==
    ASSUME Untimed, UNCHANGED fdctx,
           \A g \in Fibers : call'[g].pc # "idle" =>
              /\ call[g].pc # "idle" /\ call'[g].kind = call[g].kind /\ call'[g].timed = call[g].timed
              /\ call'[g].pc = "arm" => call[g].timed \/ call[g].pc = "arm",
           \A s \in Slots : slot'[s] # None => (slot[s] # None /\ (s \in watched => s \in watched')) \/ s \in watched'
    PROVE  Untimed'
  BY DEF Untimed

LEMMA StartedKeep ==
    ASSUME TypeOK, Started, \A d \in Fds : LinkKeeps(d),
           \A t \in timers' : \E u \in timers : u.f = t.f /\ u.n = t.n /\ u.fd = t.fd,
           \A g \in Fibers : Past(g)' => Past(g) /\ call'[g].fd = call[g].fd /\ call'[g].n = call[g].n
    PROVE  Started'
  <1>1. \A d \in Fds : file[d].link # "none" => file'[d].link # "none"
    BY DEF LinkKeeps, Settled
  <1>2. \A t \in timers : t.fd \in Fds
    BY DEF TypeOK, Timer
  <1>3. \A t \in timers' : file'[t.fd].link # "none"
    BY <1>1, <1>2 DEF Started
  <1>4. ASSUME NEW g \in Fibers, Past(g)'
        PROVE  /\ file'[call'[g].fd].link # "none"
               /\ \A t \in timers' : t.fd = call'[g].fd => t.f = g /\ t.n = call'[g].n
               /\ \A h \in Fibers : Past(h)' /\ call'[h].fd = call'[g].fd => g = h
    <2>1. Past(g) /\ call'[g].fd = call[g].fd /\ call'[g].n = call[g].n /\ call[g].fd \in Fds
      BY <1>4, AtType
    <2>2. file'[call'[g].fd].link # "none"
      BY <1>1, <2>1 DEF Started
    <2>3. \A t \in timers' : t.fd = call'[g].fd => t.f = g /\ t.n = call'[g].n
      BY <2>1 DEF Started
    <2>4. \A h \in Fibers : Past(h)' /\ call'[h].fd = call'[g].fd => g = h
      BY <2>1 DEF Started
    <2> QED  BY <2>2, <2>3, <2>4
  <1> QED  BY <1>3, <1>4 DEF Started

LEMMA AnsweredKeep ==
    ASSUME TypeOK, Answered, \A d \in Fds : LinkKeeps(d),
           \A g \in Fibers : Past(g)' /\ call'[g].pc \in {"hold", "check"} =>
              \/ /\ Past(g) /\ call'[g].pc = call[g].pc /\ call'[g].fd = call[g].fd
                 /\ fate'[g] = fate[g] /\ (call[g].cancelled => call'[g].cancelled)
              \/ call'[g].pc = "hold" /\ (fate'[g] # "woken" \/ call'[g].cancelled)
              \/ file'[call'[g].fd].link \in Settled
    PROVE  Answered'
  <1>1. \A d \in Fds : file[d].link \in Settled => file'[d].link \in Settled
    BY DEF LinkKeeps, Settled
  <1> SUFFICES ASSUME NEW g \in Fibers, Past(g)'
               PROVE  /\ call'[g].pc = "hold" /\ fate'[g] = "woken" =>
                            call'[g].cancelled \/ file'[call'[g].fd].link \in Settled
                      /\ call'[g].pc = "check" => file'[call'[g].fd].link \in Settled
    BY DEF Answered
  <1>2. call[g].fd \in Fds
    BY AtType
  <1> QED  BY <1>1, <1>2 DEF Answered

LEMMA UpKeep ==
    ASSUME TypeOK, UpWhenOk, \A d \in Fds : LinkKeeps(d),
           \A g \in Fibers : call'[g].kind = "connect" /\ call'[g].res = "ok" /\ call'[g].pc = "idle" =>
              \/ /\ call[g].kind = "connect" /\ call[g].res = "ok" /\ call[g].pc = "idle"
                 /\ call'[g].fd = call[g].fd
              \/ file'[call'[g].fd].link = "up"
    PROVE  UpWhenOk'
  <1>1. \A d \in Fds : file[d].link = "up" => file'[d].link = "up"
    BY DEF LinkKeeps, Settled
  <1>2. \A g \in Fibers : call[g].fd \in Fds
    BY AtType
  <1> QED  BY <1>1, <1>2 DEF UpWhenOk

\* A step that moves no call and leaves the timers, the contexts and the
\* registrations alone.
LEMMA AttemptStill ==
    ASSUME TypeOK, AttemptInv, UNCHANGED <<call, timers, fdctx, slot, fate, watched>>,
           \A d \in Fds : LinkKeeps(d)
    PROVE  AttemptInv'
  <1>1. Untimed'
    BY DEF Untimed, AttemptInv
  <1>2. Started'
    BY StartedKeep DEF AttemptInv, Past
  <1>3. Answered'
    BY AnsweredKeep DEF AttemptInv, Past
  <1>4. UpWhenOk'
    BY UpKeep DEF AttemptInv
  <1> QED  BY <1>1, <1>2, <1>3, <1>4 DEF AttemptInv

\* A fiber that goes on without waiting.
LEMMA AttemptMove ==
    ASSUME TypeOK, AttemptInv, NEW f \in Fibers, Moves(f), call[f].pc # "idle",
           UNCHANGED <<timers, fdctx, slot, fate, watched>>,
           \A d \in Fds : LinkKeeps(d),
           call'[f].pc # "idle" => call'[f].timed = call[f].timed,
           call'[f].pc \notin {"hold", "check"},
           call'[f].pc = "arm" => call[f].timed,
           call[f].kind = "connect" => call'[f].pc \in {"idle", "try"} \/ Past(f),
           call'[f].kind = "connect" /\ call'[f].res = "ok" /\ call'[f].pc = "idle" =>
              file'[call'[f].fd].link = "up"
    PROVE  AttemptInv'
  <1>0. \A g \in Fibers : g # f => call'[g] = call[g]
    BY DEF Moves
  <1>1. Untimed'
    <2>1. \A g \in Fibers : call'[g].pc # "idle" =>
              /\ call[g].pc # "idle" /\ call'[g].kind = call[g].kind /\ call'[g].timed = call[g].timed
              /\ call'[g].pc = "arm" => call[g].timed \/ call[g].pc = "arm"
      BY DEF Moves
    <2> QED  BY <2>1, UntimedKeep DEF AttemptInv
  <1>2. \A g \in Fibers : Past(g)' => Past(g) /\ call'[g].fd = call[g].fd /\ call'[g].n = call[g].n
    BY DEF Moves, Past
  <1>3. Started'
    BY <1>2, StartedKeep DEF AttemptInv
  <1>4. Answered'
    <2>1. \A g \in Fibers : Past(g)' /\ call'[g].pc \in {"hold", "check"} =>
              /\ Past(g) /\ call'[g].pc = call[g].pc /\ call'[g].fd = call[g].fd
              /\ fate'[g] = fate[g] /\ (call[g].cancelled => call'[g].cancelled)
      BY <1>0 DEF Past
    <2> QED  BY <2>1, AnsweredKeep DEF AttemptInv
  <1>5. UpWhenOk'
    <2>1. \A g \in Fibers : call'[g].kind = "connect" /\ call'[g].res = "ok" /\ call'[g].pc = "idle" =>
              \/ /\ call[g].kind = "connect" /\ call[g].res = "ok" /\ call[g].pc = "idle"
                 /\ call'[g].fd = call[g].fd
              \/ file'[call'[g].fd].link = "up"
      BY <1>0
    <2> QED  BY <2>1, UpKeep DEF AttemptInv
  <1> QED  BY <1>1, <1>3, <1>4, <1>5 DEF AttemptInv

LEMMA AttemptTryIO ==
    ASSUME TypeOK, AttemptInv, NEW f \in Fibers, TryIO(f)
    PROVE  AttemptInv'
  <1>1. UNCHANGED <<timers, fdctx, file, slot, fate, watched>> /\ call[f].kind = "io" /\ call[f].pc = "try"
    BY DEF TryIO
  <1>2. \A d \in Fds : LinkKeeps(d)
    BY <1>1, SameLinks
  <1>3. /\ Moves(f) /\ (call'[f].pc # "idle" => call'[f].timed = call[f].timed)
        /\ call'[f].pc \notin {"hold", "check"} /\ (call'[f].pc = "arm" => call[f].timed)
    BY TryIOFacts DEF Done, Waiting, MovesTo
  <1>4. call'[f].kind = "io"
    BY <1>1, <1>3 DEF Moves
  <1> QED  BY <1>1, <1>2, <1>3, <1>4, AttemptMove

LEMMA AttemptTryConnect ==
    ASSUME TypeOK, LinkInv, AttemptInv, NEW f \in Fibers, TryConnect(f)
    PROVE  AttemptInv'
  <1>1. /\ UNCHANGED <<timers, fdctx, slot, fate, watched>>
        /\ call[f].kind = "connect" /\ call[f].pc = "try"
    BY DEF TryConnect
  <1>2. PICK d \in Fds : d = call[f].fd
    BY AtType
  <1>3. CASE Done(f, "error") /\ UNCHANGED file
    <2>1. \A x \in Fds : LinkKeeps(x)
      BY <1>3, SameLinks
    <2>2. Moves(f) /\ call'[f].pc = "idle" /\ call'[f].res = "error"
      BY <1>3 DEF Done
    <2> QED  BY <1>1, <2>1, <2>2, AttemptMove
  <1>4. ASSUME NEW link \in {"up", "refused", "pending"}, file[d].link = "none",
               file' = [file EXCEPT ![d].link = link],
               \/ link = "up" /\ Done(f, "ok")
               \/ link = "refused" /\ Done(f, "error")
               \/ link = "pending" /\ Waiting(f)
        PROVE  AttemptInv'
    <2>1. link \in Links
      BY DEF Links
    <2>2. SameFiles /\ \A x \in Fds : file'[x].link = IF x = d THEN link ELSE file[x].link
      BY <1>4, <2>1, LinkFacts, Zenon
    <2>3. \A x \in Fds : LinkKeeps(x)
      BY <1>4, <2>2 DEF LinkKeeps
    <2>4. CASE \E res \in Results : Done(f, res) /\ (res = "ok" => link = "up")
      <3>1. Moves(f) /\ call'[f].pc = "idle" /\ (call'[f].res = "ok" => link = "up")
        BY <2>4 DEF Done
      <3>2. call'[f].res = "ok" => file'[call'[f].fd].link = "up"
        BY <1>2, <2>2, <3>1 DEF Moves
      <3> QED  BY <1>1, <2>3, <3>1, <3>2, AttemptMove
    <2>5. ASSUME NEW pc \in {"blocked", "arm", "add"}, MovesTo(f, pc), pc = "arm" => call[f].timed
          PROVE  AttemptInv'
      <3>1. /\ \A g \in Fibers : g # f => call'[g] = call[g]
            /\ call'[f].kind = "connect" /\ call'[f].fd = d /\ call'[f].pc = pc
            /\ call'[f].timed = call[f].timed
        BY <1>1, <1>2, <2>5 DEF MovesTo, Moves
      <3>2. Untimed'
        <4>1. \A g \in Fibers : call'[g].pc # "idle" =>
                  /\ call[g].pc # "idle" /\ call'[g].kind = call[g].kind /\ call'[g].timed = call[g].timed
                  /\ call'[g].pc = "arm" => call[g].timed \/ call[g].pc = "arm"
          BY <1>1, <2>5, <3>1
        <4> QED  BY <1>1, <4>1, UntimedKeep DEF AttemptInv
      <3>3. \A t \in timers : t.fd # d /\ t.fd \in Fds
        BY <1>4 DEF AttemptInv, Started, TypeOK, Timer
      <3>4. \A g \in Fibers : Past(g) => call[g].fd # d /\ g # f /\ call[g].fd \in Fds
        BY <1>1, <1>4, AtType DEF AttemptInv, Started, Past
      <3>5. \A g \in Fibers : g # f /\ Past(g)' => Past(g) /\ call'[g] = call[g]
        BY <3>1 DEF Past
      <3>6. \A x \in Fds : file[x].link # "none" => file'[x].link # "none"
        BY <2>3 DEF LinkKeeps, Settled
      <3>7. file'[d].link # "none"
        BY <2>2, <1>4
      <3>8. Started'
        <4>1. \A t \in timers' : file'[t.fd].link # "none"
          BY <1>1, <3>3, <3>6 DEF AttemptInv, Started
        <4>2. ASSUME NEW g \in Fibers, Past(g)'
              PROVE  /\ file'[call'[g].fd].link # "none"
                     /\ \A t \in timers' : t.fd = call'[g].fd => t.f = g /\ t.n = call'[g].n
                     /\ \A h \in Fibers : Past(h)' /\ call'[h].fd = call'[g].fd => g = h
          <5>1. CASE g = f
            <6>1. \A h \in Fibers : Past(h)' /\ call'[h].fd = call'[g].fd => g = h
              BY <5>1, <3>1, <3>4, <3>5
            <6> QED  BY <1>1, <5>1, <6>1, <3>1, <3>3, <3>7
          <5>2. CASE g # f
            <6>1. Past(g) /\ call'[g] = call[g] /\ call[g].fd # d
              BY <4>2, <5>2, <3>4, <3>5
            <6>2. \A h \in Fibers : Past(h)' /\ call'[h].fd = call'[g].fd => g = h
              BY <6>1, <3>1, <3>5 DEF AttemptInv, Started
            <6> QED  BY <1>1, <6>1, <6>2, <3>4, <3>6 DEF AttemptInv, Started
          <5> QED  BY <5>1, <5>2
        <4> QED  BY <4>1, <4>2 DEF Started
      <3>9. Answered'
        <4>1. \A g \in Fibers : Past(g)' /\ call'[g].pc \in {"hold", "check"} =>
                  /\ Past(g) /\ call'[g].pc = call[g].pc /\ call'[g].fd = call[g].fd
                  /\ fate'[g] = fate[g] /\ (call[g].cancelled => call'[g].cancelled)
          BY <1>1, <3>1, <3>5
        <4> QED  BY <2>3, <4>1, AnsweredKeep DEF AttemptInv
      <3>10. UpWhenOk'
        <4>1. \A g \in Fibers : call'[g].kind = "connect" /\ call'[g].res = "ok" /\ call'[g].pc = "idle" =>
                  /\ call[g].kind = "connect" /\ call[g].res = "ok" /\ call[g].pc = "idle"
                  /\ call'[g].fd = call[g].fd
          BY <3>1
        <4> QED  BY <2>3, <4>1, UpKeep DEF AttemptInv
      <3> QED  BY <3>2, <3>8, <3>9, <3>10 DEF AttemptInv
    <2> QED  BY <1>4, <2>4, <2>5 DEF Waiting, Results
  <1> QED  BY <1>2, <1>3, <1>4, TryConnectFacts

LEMMA AttemptUnblockCheck ==
    ASSUME TypeOK, AttemptInv, NEW f \in Fibers, Unblock(f) \/ Check(f)
    PROVE  AttemptInv'
  <1>1. UNCHANGED <<timers, fdctx, file, slot, fate, watched>>
    BY DEF Unblock, Check, kernel
  <1>2. \A d \in Fds : LinkKeeps(d)
    BY <1>1, SameLinks
  <1>3. CASE Unblock(f)
    <2>1. /\ call[f].pc = "blocked" /\ Moves(f) /\ call'[f].pc \in {"idle", "try"}
          /\ (call'[f].pc # "idle" => call'[f].timed = call[f].timed)
          /\ call'[f].pc = "idle" /\ call'[f].res = "ok" => file[call[f].fd].link = "up"
      BY <1>3, UnblockFacts DEF Done, MovesTo
    <2>2. call'[f].pc = "idle" /\ call'[f].res = "ok" => file'[call'[f].fd].link = "up"
      BY <1>1, <2>1 DEF Moves
    <2> QED  BY <1>1, <1>2, <2>1, <2>2, AttemptMove
  <1>4. CASE Check(f)
    <2>1. /\ call[f].pc = "check" /\ Moves(f) /\ call'[f].pc = "idle"
          /\ call'[f].res = "ok" => file[call[f].fd].link # "refused"
      BY <1>4, CheckFacts DEF Done
    <2>2. call[f].kind = "connect" => file[call[f].fd].link \in Settled
      BY <2>1 DEF AttemptInv, Answered, Past
    <2>3. call'[f].kind = "connect" /\ call'[f].res = "ok" => file'[call'[f].fd].link = "up"
      BY <1>1, <2>1, <2>2 DEF Moves, Settled
    <2> QED  BY <1>1, <1>2, <2>1, <2>3, AttemptMove
  <1> QED  BY <1>3, <1>4

LEMMA AttemptArm ==
    ASSUME TypeOK, AttemptInv, NEW f \in Fibers, Arm(f)
    PROVE  AttemptInv'
  <1>1. UNCHANGED <<fdctx, file, slot, fate, watched>>
    BY DEF Arm, kernel
  <1>2. \A d \in Fds : LinkKeeps(d)
    BY <1>1, SameLinks
  <1>3. call[f].pc = "arm" /\ MovesTo(f, "add")
    BY ArmFacts
  <1>4. PICK u \in Timer : u.f = f /\ u.n = call[f].n /\ u.fd = call[f].fd /\ timers' = timers \union {u}
    BY ArmFacts
  <1>5. Past(f)
    BY <1>3 DEF AttemptInv, Untimed, Past
  <1>6. /\ \A g \in Fibers : g # f => call'[g] = call[g]
        /\ \A g \in Fibers : call'[g].fd = call[g].fd /\ call'[g].n = call[g].n /\ call'[g].kind = call[g].kind
        /\ \A g \in Fibers : call'[g].timed = call[g].timed
        /\ call'[f].pc = "add"
    BY <1>3 DEF MovesTo, Moves
  <1>7. \A g \in Fibers : Past(g)' => Past(g)
    BY <1>5, <1>6 DEF Past
  <1>8. Untimed'
    <2>1. \A g \in Fibers : call'[g].pc # "idle" =>
              /\ call[g].pc # "idle" /\ call'[g].kind = call[g].kind /\ call'[g].timed = call[g].timed
              /\ call'[g].pc = "arm" => call[g].timed \/ call[g].pc = "arm"
      BY <1>3, <1>6
    <2> QED  BY <1>1, <2>1, UntimedKeep DEF AttemptInv
  <1>9. Started'
    <2>1. \A t \in timers' : file'[t.fd].link # "none"
      BY <1>1, <1>4, <1>5 DEF AttemptInv, Started
    <2>2. ASSUME NEW g \in Fibers, Past(g)'
          PROVE  /\ file'[call'[g].fd].link # "none"
                 /\ \A t \in timers' : t.fd = call'[g].fd => t.f = g /\ t.n = call'[g].n
                 /\ \A h \in Fibers : Past(h)' /\ call'[h].fd = call'[g].fd => g = h
      <3>1. Past(g) /\ call'[g].fd = call[g].fd /\ call'[g].n = call[g].n
        BY <1>6, <1>7, <2>2
      <3>2. \A h \in Fibers : Past(h)' /\ call'[h].fd = call'[g].fd => g = h
        BY <3>1, <1>6, <1>7 DEF AttemptInv, Started
      <3>3. call[f].fd = call[g].fd => f = g
        BY <3>1, <1>5 DEF AttemptInv, Started
      <3>4. \A t \in timers' : t.fd = call'[g].fd => t.f = g /\ t.n = call'[g].n
        BY <1>4, <3>1, <3>3 DEF AttemptInv, Started
      <3> QED  BY <1>1, <3>1, <3>2, <3>4 DEF AttemptInv, Started
    <2> QED  BY <2>1, <2>2 DEF Started
  <1>10. Answered'
    <2>1. \A g \in Fibers : Past(g)' /\ call'[g].pc \in {"hold", "check"} =>
              /\ Past(g) /\ call'[g].pc = call[g].pc /\ call'[g].fd = call[g].fd
              /\ fate'[g] = fate[g] /\ (call[g].cancelled => call'[g].cancelled)
      BY <1>1, <1>6, <1>7
    <2> QED  BY <1>2, <2>1, AnsweredKeep DEF AttemptInv
  <1>11. UpWhenOk'
    <2>1. \A g \in Fibers : call'[g].kind = "connect" /\ call'[g].res = "ok" /\ call'[g].pc = "idle" =>
              /\ call[g].kind = "connect" /\ call[g].res = "ok" /\ call[g].pc = "idle"
              /\ call'[g].fd = call[g].fd
      BY <1>6
    <2> QED  BY <1>2, <2>1, UpKeep DEF AttemptInv
  <1> QED  BY <1>8, <1>9, <1>10, <1>11 DEF AttemptInv

\* While no descriptor is closed, epoll_ctl works for a connect().
LEMMA CtlOfConnect ==
    ASSUME TypeOK, LinkInv, AttemptInv, NEW f \in Fibers, call[f].pc = "add", call[f].kind = "connect"
    PROVE  CtlWorks(call[f].fd)
  <1>1. PICK d \in Fds : d = call[f].fd
    BY AtType
  <1>2. file[d].open
    BY <1>1 DEF AttemptInv, Started, Past, LinkInv
  <1>3. \A s \in OfFd(d) : slot[s] # None => s \in watched
    BY DEF AttemptInv, Untimed, OfFd
  <1> QED  BY <1>1, <1>2, <1>3 DEF CtlWorks

LEMMA AttemptAdd ==
    ASSUME TypeOK, LinkInv, AttemptInv, NEW f \in Fibers, Add(f)
    PROVE  AttemptInv'
  <1>1. UNCHANGED <<fdctx, file>>
    BY DEF Add
  <1>2. \A d \in Fds : LinkKeeps(d)
    BY <1>1, SameLinks
  <1>3. call[f].pc = "add"
    BY AddFacts
  <1>4. CASE UNCHANGED <<slot, fate, watched, timers, call>>
    BY <1>1, <1>2, <1>4, AttemptStill
  <1>5. CASE IOM!Register(At(f), f) /\ watched' = watched \union {At(f)} /\ MovesTo(f, "hold") /\ UNCHANGED timers
    <2>1. PICK s \in Slots : s = At(f)
      BY AtType
    <2>2. /\ \A r \in Slots : slot'[r] = IF r = s THEN f ELSE slot[r]
          /\ \A g \in Fibers : fate'[g] = IF g = f THEN "waiting" ELSE fate[g]
      BY <1>5, <2>1, RegisterFacts
    <2>3. watched' = watched \union {s}
      BY <1>5, <2>1
    <2>4. /\ \A g \in Fibers : g # f => call'[g] = call[g]
          /\ \A g \in Fibers : call'[g].fd = call[g].fd /\ call'[g].n = call[g].n /\ call'[g].kind = call[g].kind
          /\ \A g \in Fibers : call'[g].timed = call[g].timed
          /\ call'[f].pc = "hold"
      BY <1>5 DEF MovesTo, Moves
    <2>5. Untimed'
      <3>1. \A g \in Fibers : call'[g].pc # "idle" =>
                /\ call[g].pc # "idle" /\ call'[g].kind = call[g].kind /\ call'[g].timed = call[g].timed
                /\ call'[g].pc = "arm" => call[g].timed \/ call[g].pc = "arm"
        BY <1>3, <2>4
      <3>2. \A r \in Slots : slot'[r] # None => (slot[r] # None /\ (r \in watched => r \in watched')) \/ r \in watched'
        BY <2>2, <2>3
      <3> QED  BY <1>1, <3>1, <3>2, UntimedKeep DEF AttemptInv
    <2>6. \A g \in Fibers : Past(g)' => Past(g)
      BY <1>3, <2>4 DEF Past
    <2>7. Started'
      BY <1>2, <1>5, <2>4, <2>6, StartedKeep DEF AttemptInv
    <2>8. Answered'
      <3>1. \A g \in Fibers : Past(g)' /\ call'[g].pc \in {"hold", "check"} =>
                \/ /\ Past(g) /\ call'[g].pc = call[g].pc /\ call'[g].fd = call[g].fd
                   /\ fate'[g] = fate[g] /\ (call[g].cancelled => call'[g].cancelled)
                \/ call'[g].pc = "hold" /\ fate'[g] # "woken"
        BY <2>2, <2>4, <2>6
      <3> QED  BY <1>2, <3>1, AnsweredKeep DEF AttemptInv
    <2>9. UpWhenOk'
      <3>1. \A g \in Fibers : call'[g].kind = "connect" /\ call'[g].res = "ok" /\ call'[g].pc = "idle" =>
                /\ call[g].kind = "connect" /\ call[g].res = "ok" /\ call[g].pc = "idle"
                /\ call'[g].fd = call[g].fd
        BY <2>4
      <3> QED  BY <1>2, <3>1, UpKeep DEF AttemptInv
    <2> QED  BY <2>5, <2>7, <2>8, <2>9 DEF AttemptInv
  <1>6. CASE /\ call[f].kind = "io" /\ Done(f, "error")
             /\ timers' = Disarmed(f) /\ UNCHANGED <<slot, fate, watched>>
    <2>1. /\ \A g \in Fibers : g # f => call'[g] = call[g]
          /\ call'[f].kind = "io" /\ call'[f].pc = "idle"
      BY <1>6 DEF Done, Moves
    <2>2. timers' \subseteq timers
      BY <1>6 DEF Disarmed
    <2>3. Untimed'
      BY <1>1, <1>6, <2>1, UntimedKeep DEF AttemptInv
    <2>4. \A g \in Fibers : Past(g)' => Past(g) /\ call'[g] = call[g]
      BY <2>1 DEF Past
    <2>5. Started'
      BY <1>2, <2>2, <2>4, StartedKeep DEF AttemptInv
    <2>6. Answered'
      BY <1>2, <1>6, <2>4, AnsweredKeep DEF AttemptInv
    <2>7. UpWhenOk'
      BY <1>2, <2>1, UpKeep DEF AttemptInv
    <2> QED  BY <2>3, <2>5, <2>6, <2>7 DEF AttemptInv
  <1>7. ~(~CtlWorks(call[f].fd) /\ call[f].kind = "connect")
    BY <1>3, CtlOfConnect
  <1> QED  BY <1>4, <1>5, <1>6, <1>7, AddFacts

LEMMA AttemptResume ==
    ASSUME TypeOK, AttemptInv, NEW f \in Fibers, Resume(f)
    PROVE  AttemptInv'
  <1>1. UNCHANGED <<fdctx, file, watched, slot>>
    BY DEF Resume, kernel, IOM!Resume
  <1>2. \A d \in Fds : LinkKeeps(d)
    BY <1>1, SameLinks
  <1>3. /\ call[f].pc = "hold" /\ fate[f] = "woken" /\ timers' = Disarmed(f)
        /\ \A g \in Fibers : fate'[g] = IF g = f THEN "new" ELSE fate[g]
        /\ Moves(f)
        /\ call'[f].pc # "idle" => call'[f].timed = call[f].timed
        /\ call'[f].pc \in {"idle", "try", "check"}
        /\ call'[f].pc = "idle" => call'[f].res # "ok"
        /\ call'[f].pc = "check" => ~call[f].cancelled
    BY ResumeFacts DEF Done, MovesTo
  <1>4. /\ \A g \in Fibers : g # f => call'[g] = call[g]
        /\ \A g \in Fibers : call'[g].fd = call[g].fd /\ call'[g].n = call[g].n /\ call'[g].kind = call[g].kind
    BY <1>3 DEF Moves
  <1>5. timers' \subseteq timers
    BY <1>3 DEF Disarmed
  <1>6. Untimed'
    <2>1. \A g \in Fibers : call'[g].pc # "idle" =>
              /\ call[g].pc # "idle" /\ call'[g].kind = call[g].kind /\ call'[g].timed = call[g].timed
              /\ call'[g].pc = "arm" => call[g].timed \/ call[g].pc = "arm"
      BY <1>3, <1>4
    <2> QED  BY <1>1, <2>1, UntimedKeep DEF AttemptInv
  <1>7. \A g \in Fibers : Past(g)' => Past(g)
    BY <1>3, <1>4 DEF Past
  <1>8. Started'
    BY <1>2, <1>4, <1>5, <1>7, StartedKeep DEF AttemptInv
  <1>9. Answered'
    <2>1. call'[f].pc = "check" /\ Past(f) => file'[call'[f].fd].link \in Settled
      BY <1>1, <1>3, <1>4 DEF AttemptInv, Answered
    <2>2. \A g \in Fibers : Past(g)' /\ call'[g].pc \in {"hold", "check"} =>
              \/ /\ Past(g) /\ call'[g].pc = call[g].pc /\ call'[g].fd = call[g].fd
                 /\ fate'[g] = fate[g] /\ (call[g].cancelled => call'[g].cancelled)
              \/ file'[call'[g].fd].link \in Settled
      BY <1>3, <1>4, <1>7, <2>1
    <2> QED  BY <1>2, <2>2, AnsweredKeep DEF AttemptInv
  <1>10. UpWhenOk'
    <2>1. \A g \in Fibers : call'[g].kind = "connect" /\ call'[g].res = "ok" /\ call'[g].pc = "idle" =>
              /\ call[g].kind = "connect" /\ call[g].res = "ok" /\ call[g].pc = "idle"
              /\ call'[g].fd = call[g].fd
      BY <1>3, <1>4
    <2> QED  BY <1>2, <2>1, UpKeep DEF AttemptInv
  <1> QED  BY <1>6, <1>8, <1>9, <1>10 DEF AttemptInv

LEMMA AttemptStart ==
    ASSUME TypeOK, AttemptInv, NEW f \in Fibers, NEW kind \in {"io", "connect"}, NEW fd \in Fds,
           NEW ev \in Events, NEW timed \in BOOLEAN, Start(f, kind, fd, ev, timed)
    PROVE  AttemptInv'
  <1>1. UNCHANGED <<fdctx, file, slot, fate, watched, timers>>
    BY DEF Start
  <1>2. \A d \in Fds : LinkKeeps(d)
    BY <1>1, SameLinks
  <1>3. /\ \A g \in Fibers : g # f => call'[g] = call[g]
        /\ call'[f].pc \in {"idle", "try"} /\ call'[f].res \in {"none", "EBADF"}
        /\ call'[f].kind = kind /\ call'[f].timed = timed
        /\ kind = "io" => timed = (fdctx[fd] # None /\ ev \in fdctx[fd].timed)
    BY StartFacts
  <1>4. call'[f].timed => call'[f].kind = "connect"
    BY <1>3 DEF AttemptInv, Untimed
  <1>5. Untimed'
    BY <1>1, <1>3, <1>4 DEF AttemptInv, Untimed
  <1>6. \A g \in Fibers : Past(g)' => Past(g) /\ call'[g] = call[g]
    BY <1>3 DEF Past
  <1>7. Started'
    BY <1>1, <1>2, <1>6, StartedKeep DEF AttemptInv
  <1>8. Answered'
    BY <1>1, <1>2, <1>6, AnsweredKeep DEF AttemptInv
  <1>9. UpWhenOk'
    BY <1>2, <1>3, UpKeep DEF AttemptInv
  <1> QED  BY <1>5, <1>7, <1>8, <1>9 DEF AttemptInv

\* A step that moves no call: what is registered stays watched, and whoever is
\* woken has been told of its timeout or has its answer.
LEMMA AttemptSame ==
    ASSUME TypeOK, AttemptInv, SameCalls, UNCHANGED <<fdctx, file>>,
           \A t \in timers' : \E u \in timers : u.f = t.f /\ u.n = t.n /\ u.fd = t.fd,
           \A s \in Slots : slot'[s] # None => slot[s] # None /\ (s \in watched => s \in watched'),
           \A g \in Fibers : Past(g) /\ call[g].pc = "hold" /\ fate'[g] # fate[g] =>
              call[g].cancelled \/ file[call[g].fd].link \in Settled
    PROVE  AttemptInv'
  <1>1. \A d \in Fds : LinkKeeps(d)
    BY SameLinks
  <1>2. \A g \in Fibers : Past(g)' => /\ Past(g) /\ call'[g].pc = call[g].pc
                                     /\ call'[g].fd = call[g].fd /\ call'[g].n = call[g].n
                                     /\ (call[g].cancelled => call'[g].cancelled)
    BY DEF Past, SameCalls
  <1>3. Untimed'
    BY UntimedKeep DEF AttemptInv, SameCalls
  <1>4. Started'
    BY <1>1, <1>2, StartedKeep DEF AttemptInv
  <1>5. Answered'
    <2> SUFFICES ASSUME NEW g \in Fibers, Past(g)'
                 PROVE  /\ call'[g].pc = "hold" /\ fate'[g] = "woken" =>
                              call'[g].cancelled \/ file'[call'[g].fd].link \in Settled
                        /\ call'[g].pc = "check" => file'[call'[g].fd].link \in Settled
      BY DEF Answered
    <2> QED  BY <1>2 DEF AttemptInv, Answered
  <1>6. UpWhenOk'
    BY <1>1, UpKeep DEF AttemptInv, SameCalls
  <1> QED  BY <1>3, <1>4, <1>5, <1>6 DEF AttemptInv

LEMMA AttemptTimer ==
    ASSUME HookInv, AttemptInv, NEW t \in timers, Due(t) \/ Fire(t) \/ FireCancel(t)
    PROVE  AttemptInv'
  <1>0. TypeOK /\ t \in Timer
    BY DEF HookInv, TypeOK
  <1>1. CASE Due(t) \/ Fire(t)
    <2>1. UNCHANGED <<fdctx, file, slot, fate, watched>>
      BY <1>1 DEF Due, Fire, kernel
    <2>2. SameCalls
      BY <1>0, <1>1, FireFacts, FlaggedCalls, StillCalls DEF Due
    <2>3. \A x \in timers' : \E u \in timers : u.f = x.f /\ u.n = x.n /\ u.fd = x.fd
      <3>1. PICK due : due = [t EXCEPT !.at = "due"]
        OBVIOUS
      <3>2. PICK firing : firing = [t EXCEPT !.at = "firing"]
        OBVIOUS
      <3>3. due.f = t.f /\ due.n = t.n /\ due.fd = t.fd /\ firing.f = t.f /\ firing.n = t.n /\ firing.fd = t.fd
        BY <1>0, <3>1, <3>2, StageFacts
      <3>4. timers' \subseteq timers \union {due, firing}
        BY <1>0, <1>1, <3>1, <3>2, FireFacts DEF Due
      <3> QED  BY <3>3, <3>4
    <2> QED  BY <1>0, <2>1, <2>2, <2>3, AttemptSame
  <1>2. CASE FireCancel(t)
    <2>1. PICK hit \in SUBSET {<<t.fd, t.ev>>} :
             (\A s \in hit : slot[s] # None) /\ Schedule(hit) /\ watched' = watched \ hit
      BY <1>0, <1>2, FireCancelFacts
    <2>2. hit \in SUBSET Slots /\ SameCalls /\ timers' \subseteq timers /\ t.at = "firing" /\ t.f \in Fibers
      BY <1>0, <1>2, <2>1, FireCancelFacts, FlaggedCalls
    <2>3. UNCHANGED <<fdctx, file>>
      BY <1>2 DEF FireCancel
    <2>4. /\ \A s \in Slots : slot'[s] = IF s \in hit THEN None ELSE slot[s]
          /\ \A g \in Fibers : fate'[g] = IF \E s \in hit : slot[s] = g THEN "woken" ELSE fate[g]
      BY <1>0, <2>1, <2>2, ScheduleFacts
    <2>5. ASSUME NEW g \in Fibers, Past(g), fate'[g] # fate[g]
          PROVE  call[g].cancelled
      <3>1. PICK s \in hit : slot[s] = g
        BY <2>4, <2>5
      <3>2. s = <<t.fd, t.ev>> /\ slot[s] # None
        BY <2>1
      <3>3. call[g].pc = "hold" /\ At(g) = <<t.fd, t.ev>>
        BY <2>2, <3>1, <3>2 DEF HookInv, Waits
      <3>4. call[g].fd = t.fd
        BY <3>3 DEF At
      <3>5. t.f = g /\ t.n = call[g].n
        BY <2>5, <3>4 DEF AttemptInv, Started
      <3> QED  BY <2>2, <3>3, <3>5 DEF HookInv, Belongs, Alive
    <2>6. \A s \in Slots : slot'[s] # None => slot[s] # None /\ (s \in watched => s \in watched')
      BY <2>1, <2>4
    <2> QED  BY <1>0, <2>2, <2>3, <2>5, <2>6, AttemptSame
  <1> QED  BY <1>1, <1>2

LEMMA AttemptDeliver ==
    ASSUME HookInv, LinkInv, AttemptInv, NEW s \in Slots, Deliver(s)
    PROVE  AttemptInv'
  <1>1. TypeOK
    BY DEF HookInv
  <1>2. PICK hit \in SUBSET Slots : hit = {s}
    OBVIOUS
  <1>3. slot[s] # None /\ s \in ready /\ Schedule(hit) /\ watched' = watched \ hit
    BY <1>1, <1>2, DeliverFacts
  <1>4. UNCHANGED <<fdctx, file, call, timers>>
    BY DEF Deliver
  <1>5. /\ \A r \in Slots : slot'[r] = IF r \in hit THEN None ELSE slot[r]
        /\ \A g \in Fibers : fate'[g] = IF \E r \in hit : slot[r] = g THEN "woken" ELSE fate[g]
    BY <1>1, <1>2, <1>3, ScheduleFacts
  <1>6. ASSUME NEW g \in Fibers, Past(g), fate'[g] # fate[g]
        PROVE  file[call[g].fd].link \in Settled
    <2>1. slot[s] = g
      BY <1>2, <1>5, <1>6
    <2>2. At(g) = s
      BY <1>3, <2>1 DEF HookInv, Waits
    <2>3. s[1] = call[g].fd
      BY <2>2 DEF At
    <2>4. file[call[g].fd].link # "pending" /\ file[call[g].fd].link # "none"
      BY <1>3, <1>6, <2>3 DEF LinkInv, AttemptInv, Started
    <2>5. file[call[g].fd].link \in Links
      BY <1>1, AtType DEF TypeOK, File, Links
    <2> QED  BY <2>4, <2>5 DEF Links, Settled
  <1>7. \A r \in Slots : slot'[r] # None => slot[r] # None /\ (r \in watched => r \in watched')
    BY <1>3, <1>5
  <1>8. SameCalls
    BY <1>1, <1>4, StillCalls
  <1> QED  BY <1>1, <1>4, <1>6, <1>7, <1>8, AttemptSame

\* A socket that is opened has no attempt yet, nor had the number before.
LEMMA AttemptSocket ==
    ASSUME TypeOK, LinkInv, AttemptInv, NEW fd \in Fds, Socket(fd) \/ SocketOutside(fd) \/ Open(fd)
    PROVE  AttemptInv'
  <1>1. UNCHANGED <<call, timers, slot, fate, watched>>
    BY SocketFacts, OpenFacts
  <1>2. \A d \in Fds : LinkKeeps(d)
    <2>1. CASE Socket(fd) \/ SocketOutside(fd)
      BY <2>1, SocketFacts DEF Opened, LinkInv, LinkKeeps
    <2>2. CASE Open(fd)
      BY <2>2, OpenFacts DEF LinkKeeps
    <2> QED  BY <2>1, <2>2
  <1>3. \A d \in Fds : fdctx'[d] = fdctx[d] \/ fdctx'[d] = NewFdCtx
    BY SocketFacts, OpenFacts
  <1>4. \A d \in Fds : fdctx'[d] # None => fdctx'[d].timed = {}
    BY <1>3 DEF AttemptInv, Untimed, NewFdCtx
  <1>5. Untimed'
    BY <1>1, <1>4 DEF Untimed, AttemptInv
  <1>6. Started'
    BY <1>1, <1>2, StartedKeep DEF AttemptInv, Past
  <1>7. Answered'
    BY <1>1, <1>2, AnsweredKeep DEF AttemptInv, Past
  <1>8. UpWhenOk'
    BY <1>1, <1>2, UpKeep DEF AttemptInv
  <1> QED  BY <1>5, <1>6, <1>7, <1>8 DEF AttemptInv

ConnectInv == HookInv /\ LinkInv /\ (Quiet => AttemptInv)

LEMMA ConnectStep ==
    ASSUME ConnectInv, Next, Quiet'
    PROVE  AttemptInv'
  <1>0. HookInv /\ TypeOK /\ LinkInv
    BY DEF ConnectInv, HookInv
  <1>1. ops \in Nat /\ closes \in Nat
    BY <1>0, HookAssumption DEF TypeOK
  <1>2. ASSUME NEW S \in SUBSET Slots, UserCancel(S) PROVE FALSE
    BY <1>1, <1>2 DEF UserCancel, Operation, Quiet
  <1>3. ASSUME NEW s \in Slots, Drain(s) PROVE FALSE
    BY <1>1, <1>3 DEF Drain, Operation, Quiet
  <1>4. ASSUME NEW fd \in Fds, NEW who \in {"worker", "caller", "main"}, Close(fd, who) PROVE FALSE
    BY <1>1, <1>4 DEF Close, Quiet
  <1>5. ASSUME NEW fd \in Fds, NEW user \in BOOLEAN, SetNonblock(fd, user) PROVE FALSE
    BY <1>1, <1>5 DEF SetNonblock, Operation, Quiet
  <1>6. ASSUME NEW fd \in Fds, NEW ev \in Events, SetTimeout(fd, ev) PROVE FALSE
    BY <1>1, <1>6 DEF SetTimeout, Operation, Quiet
  <1>7. ASSUME NEW f \in Fibers,
               \/ TryIO(f) \/ TryConnect(f) \/ Unblock(f) \/ Arm(f) \/ Add(f) \/ Resume(f) \/ Check(f)
        PROVE  AttemptInv'
    <2>1. UNCHANGED <<closes, ops>>
      BY <1>7 DEF TryIO, TryConnect, Unblock, Arm, Add, Resume, Check
    <2>2. AttemptInv
      BY <2>1 DEF ConnectInv, Quiet
    <2> QED  BY <1>0, <1>7, <2>2, AttemptTryIO, AttemptTryConnect, AttemptUnblockCheck, AttemptArm,
                AttemptAdd, AttemptResume
  <1>8. ASSUME NEW f \in Fibers, NEW kind \in {"io", "connect"}, NEW fd \in Fds,
               NEW ev \in Events, NEW timed \in BOOLEAN, Start(f, kind, fd, ev, timed)
        PROVE  AttemptInv'
    <2>1. UNCHANGED <<closes, ops>>
      BY <1>8 DEF Start
    <2>2. AttemptInv
      BY <2>1 DEF ConnectInv, Quiet
    <2> QED  BY <1>0, <1>8, <2>2, AttemptStart
  <1>9. ASSUME NEW t \in timers, Due(t) \/ Fire(t) \/ FireCancel(t) PROVE AttemptInv'
    <2>1. UNCHANGED <<closes, ops>>
      BY <1>9 DEF Due, Fire, FireCancel
    <2>2. AttemptInv
      BY <2>1 DEF ConnectInv, Quiet
    <2> QED  BY <1>0, <1>9, <2>2, AttemptTimer
  <1>10. ASSUME NEW s \in Slots, Deliver(s) PROVE AttemptInv'
    <2>1. UNCHANGED <<closes, ops>>
      BY <1>10 DEF Deliver
    <2>2. AttemptInv
      BY <2>1 DEF ConnectInv, Quiet
    <2> QED  BY <1>0, <1>10, <2>2, AttemptDeliver
  <1>11. ASSUME NEW s \in Slots, Arrive(s) PROVE AttemptInv'
    <2>1. UNCHANGED <<closes, ops, file, call, timers, fdctx, slot, fate, watched>>
      BY <1>11 DEF Arrive
    <2>2. AttemptInv
      BY <2>1 DEF ConnectInv, Quiet
    <2> QED  BY <1>0, <2>1, <2>2, SameLinks, AttemptStill
  <1>12. ASSUME NEW fd \in Fds, Socket(fd) \/ SocketOutside(fd) \/ Open(fd) PROVE AttemptInv'
    <2>1. UNCHANGED <<closes, ops>>
      BY <1>0, <1>12, SocketFacts, OpenFacts
    <2>2. AttemptInv
      BY <2>1 DEF ConnectInv, Quiet
    <2> QED  BY <1>0, <1>12, <2>2, AttemptSocket
  <1>13. ASSUME NEW fd \in Fds, NEW link \in {"up", "refused"}, Connected(fd, link) PROVE AttemptInv'
    <2>1. UNCHANGED <<closes, ops, call, timers, fdctx, slot, fate, watched>> /\ file[fd].link = "pending"
          /\ link \in Links /\ file' = [file EXCEPT ![fd].link = link]
      BY <1>13 DEF Connected, Links
    <2>2. AttemptInv
      BY <2>1 DEF ConnectInv, Quiet
    <2>3. \A d \in Fds : file'[d].link = IF d = fd THEN link ELSE file[d].link
      BY <1>0, <2>1, LinkFacts, Zenon
    <2>4. \A d \in Fds : LinkKeeps(d)
      BY <2>1, <2>3 DEF LinkKeeps, Settled
    <2> QED  BY <1>0, <2>1, <2>2, <2>4, AttemptStill
  <1> QED
    BY NextSteps, <1>2, <1>3, <1>4, <1>5, <1>6, <1>7, <1>8, <1>9, <1>10, <1>11, <1>12, <1>13, Zenon

\* connect() returns 0 only on a connection that is up, for any fibers, sockets
\* and timeouts, as long as no descriptor was closed and no user changed an option
\* or cancelled a wait: nobody but the end of the attempt or its own timer wakes
\* the call.
THEOREM ConnectedCorrect == Spec => []ConnectedIsUp
  <1>1. Init => LinkInv /\ AttemptInv
    <2> SUFFICES ASSUME Init PROVE LinkInv /\ AttemptInv
      OBVIOUS
    <2>1. ready = {} /\ timers = {} /\ \A d \in Fds : file[d].link = "none" /\ fdctx[d] = None
      BY DEF Init
    <2>2. \A f \in Fibers : call[f].pc = "idle" /\ call[f].res = "none" /\ call[f].kind = "io"
      BY DEF Init
    <2>3. \A s \in Slots : slot[s] = None
      BY DEF Init, IOM!Init
    <2>4. \A f \in Fibers : ~Past(f)
      BY <2>2 DEF Past
    <2>5. Untimed
      BY <2>1, <2>2, <2>3 DEF Untimed
    <2>6. Started /\ Answered /\ UpWhenOk
      BY <2>1, <2>2, <2>4 DEF Started, Answered, UpWhenOk
    <2> QED  BY <2>1, <2>5, <2>6 DEF LinkInv, AttemptInv
  <1>2. LinkInv /\ (Quiet => AttemptInv) /\ HookInv /\ [Next]_vars => (LinkInv /\ (Quiet => AttemptInv))'
    <2> SUFFICES ASSUME LinkInv, Quiet => AttemptInv, HookInv, [Next]_vars
                 PROVE  (LinkInv /\ (Quiet => AttemptInv))'
      OBVIOUS
    <2>1. CASE Next
      BY <2>1, LinkStep, ConnectStep DEF ConnectInv, HookInv
    <2>2. CASE UNCHANGED vars
      BY <2>2 DEF vars, LinkInv, Quiet, AttemptInv, Untimed, Started, Answered, UpWhenOk, Past
    <2> QED  BY <2>1, <2>2
  <1>3. LinkInv /\ (Quiet => AttemptInv) => ConnectedIsUp
    BY DEF Quiet, AttemptInv, UpWhenOk, ConnectedIsUp
  <1> QED  BY <1>1, <1>2, <1>3, HookInvariant, PTL DEF Spec

\* Every value keeps its type.
THEOREM HookTypeCorrect == Spec => []TypeOK
  <1>1. HookInv => TypeOK
    BY DEF HookInv
  <1> QED  BY <1>1, HookInvariant, PTL
=============================================================================
