-------------------------- MODULE Http2Invariants --------------------------
(***************************************************************************)
(* What Http2Proofs shows of every state and of every step of Http2: the   *)
(* inductive invariants, from the types to the ledger of the windows, and  *)
(* for each action what it needs and what it does, field by field.         *)
(***************************************************************************)
EXTENDS Http2, FiniteSets

-----------------------------------------------------------------------------
(***************************************************************************)
(* Headers, and the fields that pack() makes of them.                      *)
(***************************************************************************)

\* What names and values are: the client writes a stream's number as a value, under
\* a name of its own, and getPair gives empty ones.
Text  == STRING \union {"", "stream_id"} \union {ToString(n) : n \in Int}
Pair  == Text \X Text
Table == Seq(Pair)
Number(v) == {WriteVarInt(v, i) : i \in Int}
Coded == {WriteString(x) : x \in Text}
Field ==
    ({"indexed"} \X Number(127)) \union ({"name"} \X Number(63) \X Coded) \union ({"new"} \X Coded \X Coded)

-----------------------------------------------------------------------------
(***************************************************************************)
(* Types.                                                                  *)
(***************************************************************************)

\* A std::map from stream numbers.
Map(S) == UNION {[D -> S] : D \in SUBSET Int}

StreamRec ==
    [of : Fibers \union {None}, send : Int, recv : Int, state : {"IDLE", "CLOSED"},
     ended : BOOLEAN, headers : Seq(Pair), body : Int, null : BOOLEAN,
     handled : {"no", "scheduled", "responded"}]

\* Only HEADERS have a block, only HEADERS and DATA can end a stream, and DATA has a
\* length.
FrameRec ==
    {x \in [t : {"HEADERS", "DATA", "WINDOW_UPDATE", "RST_STREAM"}, id : Int, block : Seq(Field),
            n : Int, end : BOOLEAN] :
        /\ x.t # "HEADERS" => x.block = <<>>
        /\ x.end => x.t \in {"HEADERS", "DATA"}
        /\ x.t = "DATA" => x.n \in Nat}
AskRec == [t : {"request"}, f : Fibers]

ReqRec ==
    [pc : {"idle", "numbered", "waiting", "done"}, sn : Int, header : Pair \union {None},
     body : {0, 1}, timer : {"off", "armed", "due"},
     result : {None, "ok", "rst_stream", "timeout", "io_error"}, got : Pair \union {None}]

CliRec ==
    [sn : Int, streams : Map(StreamRec), ctxs : Map(Fibers), send : Int, recv : Int,
     sendTable : Table, recvTable : Table, pending : Fibers \union {None},
     held : {None, "in", "out"}]

SrvRec ==
    [sn : Int, streams : Map(StreamRec), send : Int, recv : Int, sendTable : Table,
     recvTable : Table]

TypeOK ==
    /\ cli \in CliRec
    /\ srv \in SrvRec
    /\ queue \in Seq(FrameRec \union AskRec)
    /\ toSrv \in Seq(FrameRec)
    /\ toCli \in Seq(FrameRec)
    /\ req \in [Fibers -> ReqRec]
    /\ connects \in Nat
    /\ refused \in SUBSET Int
    /\ skipped \in BOOLEAN
    /\ goaways \in SUBSET {"no stream", "overflow"}
    /\ timeouts \in BOOLEAN
    /\ crashed \in BOOLEAN
Marks == adding \in SUBSET {"cli", "srv"} /\ misread \in BOOLEAN /\ lost \in BOOLEAN

\* Inserting or replacing.
WithDoes(S, m, k, v) ==
    /\ With(m, k, v) \in Map(S)
    /\ DOMAIN With(m, k, v) = DOMAIN m \union {k}
    /\ With(m, k, v)[k] = v
    /\ \A i \in DOMAIN m : i # k => With(m, k, v)[i] = m[i]

\* Erasing a key.
Less(m, k) == Restrict(m, DOMAIN m \ {k})

LessDoes(S, m, k) ==
    /\ Less(m, k) \in Map(S)
    /\ DOMAIN Less(m, k) = DOMAIN m \ {k}
    /\ \A i \in DOMAIN m : i # k => Less(m, k)[i] = m[i]

-----------------------------------------------------------------------------
(***************************************************************************)
(* Frames, and what the operators on one end of the connection return.     *)
(***************************************************************************)

\* A frame, field by field.
IsFrame(x, t, id, block, n, end) ==
    x \in FrameRec /\ x.t = t /\ x.id = id /\ x.block = block /\ x.n = n /\ x.end = end

\* The stream after a frame that doRecv gives to it: handleRecvData, if it is DATA,
\* and handleFrame.
Fed(s, f, T) ==
    [of |-> s.of, send |-> s.send,
     recv |-> IF f.t = "DATA" THEN s.recv - f.n + Refill(s.recv - f.n) ELSE s.recv,
     state |-> IF f.end \/ f.t = "RST_STREAM" THEN "CLOSED" ELSE s.state,
     ended |-> f.end,
     headers |-> IF f.t = "HEADERS" THEN s.headers \o parse(T, f.block).headers ELSE s.headers,
     body |-> IF f.t = "DATA" THEN s.body + f.n ELSE s.body,
     null |-> s.null, handled |-> s.handled]

\* Two states of a stream that differ at most in what may be sent.
Alike(s, s2) ==
    /\ s2.of = s.of /\ s2.recv = s.recv /\ s2.state = s.state /\ s2.ended = s.ended
    /\ s2.headers = s.headers /\ s2.body = s.body /\ s2.null = s.null /\ s2.handled = s.handled

\* Two states of an end that differ only in what may be sent: by n on the connection,
\* by d on stream k.
OnlySend(e, e2, n, k, d) ==
    /\ e2.sn = e.sn /\ e2.recv = e.recv /\ e2.sendTable = e.sendTable /\ e2.recvTable = e.recvTable
    /\ e2.send = e.send + n
    /\ DOMAIN e2.streams = DOMAIN e.streams
    /\ \A id \in DOMAIN e.streams :
          /\ Alike(e.streams[id], e2.streams[id])
          /\ e2.streams[id].send = e.streams[id].send + IF id = k THEN d ELSE 0

\* The number on a WINDOW_UPDATE of the connection is 0.
Granted(e, f, id) == IF windowError(e, f) = {} /\ f.id = id THEN f.n ELSE 0

-----------------------------------------------------------------------------
(***************************************************************************)
(* What each action does, field by field.                                  *)
(***************************************************************************)

\* While doRecv of the client works on a frame the frame is the first one on the way
\* and, until onTimeOut deletes it, its stream is there.
HeldOk ==
    /\ cli.held # None => toCli # <<>> /\ Head(toCli).t # "WINDOW_UPDATE"
    /\ cli.held = "in" => Head(toCli).id \in DOMAIN cli.streams

\* All DATA is of a stream whose HEADERS come before it, or of a number up to n.
Covered(q, n) ==
    \A i \in DOMAIN q : q[i].t = "DATA" =>
        \/ q[i].id <= n
        \/ \E k \in DOMAIN q : k < i /\ q[k].t = "HEADERS" /\ q[k].id = q[i].id

\* The frames that the client writes, and the streams they make at the server: DATA
\* comes after HEADERS, so a stream has headers before it can have a request.
Led ==
    /\ \A x \in Range(queue) : x.t \in {"request", "WINDOW_UPDATE"}
    /\ \A x \in Range(toSrv) : x.t # "RST_STREAM" /\ (x.t = "HEADERS" => x.block # <<>>)
    /\ Covered(toSrv, srv.sn)
    /\ \A id \in DOMAIN srv.streams : srv.streams[id].headers # <<>> /\ id <= srv.sn

\* No block is read and no charge lost; the block of a frame is read; DATA is charged.
Calm == misread' = misread /\ lost' = lost
Reads(f) == misread' = (misread \/ Garbled(f.block) # {}) /\ lost' = lost
Charges(end, some) == misread' = misread /\ lost' = (lost \/ (some /\ end \in adding))

CliTables == cli'.sendTable = cli.sendTable /\ cli'.recvTable = cli.recvTable
CliWindows == cli'.send = cli.send /\ cli'.recv = cli.recv
OthersKept(f) == \A g \in Fibers : g # f => req'[g] = req[g]

NewStreamDoes(f, header, body) ==
    LET id == cli.sn + 2
    IN  /\ cli' \in CliRec /\ cli'.sn = id /\ id \in Int
        /\ DOMAIN cli'.streams = DOMAIN cli.streams \union {id}
        /\ cli'.streams[id] = Stream(CLIENT_WINDOW, DEFAULT_WINDOW, f)
        /\ \A k \in DOMAIN cli.streams : k # id => cli'.streams[k] = cli.streams[k]
        /\ cli'.ctxs = cli.ctxs /\ cli'.pending = cli.pending /\ cli'.held = cli.held
        /\ CliTables /\ CliWindows
        /\ req' \in [Fibers -> ReqRec] /\ OthersKept(f)
        /\ req'[f].pc = "numbered" /\ req'[f].sn = id
        /\ req'[f].header = header /\ req'[f].body = body
        /\ req'[f].timer = req[f].timer /\ req'[f].result = req[f].result /\ req'[f].got = req[f].got

RequestDoes(f) ==
    /\ cli' \in CliRec /\ cli'.sn = cli.sn /\ cli'.streams = cli.streams
    /\ cli'.pending = cli.pending /\ cli'.held = cli.held /\ CliTables /\ CliWindows
    /\ DOMAIN cli'.ctxs = DOMAIN cli.ctxs \union {req[f].sn}
    /\ req[f].sn \notin DOMAIN cli.ctxs => cli'.ctxs[req[f].sn] = f
    /\ \A k \in DOMAIN cli.ctxs : cli'.ctxs[k] = cli.ctxs[k]
    /\ req' \in [Fibers -> ReqRec] /\ OthersKept(f)
    /\ req'[f].pc = "waiting" /\ req'[f].timer = "armed"
    /\ req'[f].sn = req[f].sn /\ req'[f].header = req[f].header /\ req'[f].body = req[f].body
    /\ req'[f].result = req[f].result /\ req'[f].got = req[f].got
    /\ \E a \in AskRec : a.t = "request" /\ a.f = f /\ queue' = Append(queue, a)

\* The frames of a message: HEADERS, and DATA if there is a body.
IsMessage(r, id, block, none) ==
    \E h, d : /\ IsFrame(h, "HEADERS", id, block, 0, none)
              /\ IsFrame(d, "DATA", id, <<>>, 1, TRUE)
              /\ r = <<h>> \o (IF none THEN <<>> ELSE <<d>>)

\* doWrite of a request: headers packed with the table, and the DATA not yet charged.
WroteRequest(f) ==
    LET p == pack(cli.sendTable, Sent(f))
    IN  /\ req[f].sn \in DOMAIN cli.streams
        /\ cli' \in CliRec /\ cli'.sn = cli.sn /\ cli'.streams = cli.streams /\ cli'.ctxs = cli.ctxs
        /\ cli'.recvTable = cli.recvTable /\ CliWindows /\ cli'.held = cli.held
        /\ cli'.sendTable = p.table
        /\ cli'.pending = IF req[f].body = 0 THEN None ELSE f
        /\ Sent(f) \in Seq(Pair) /\ p.block \in Seq(Field) /\ p.block # <<>>
        /\ \E r : IsMessage(r, req[f].sn, p.block, req[f].body = 0) /\ toSrv' = toSrv \o r

CliWriteDoes ==
    \/ /\ Head(queue) \in FrameRec /\ Head(queue).t # "request"
       /\ toSrv' = Append(toSrv, Head(queue)) /\ cli' = cli
    \/ \E f \in Fibers :
          /\ Head(queue).t = "request" /\ Head(queue).f = f
          /\ \/ req[f].sn \notin DOMAIN cli.streams /\ toSrv' = toSrv /\ cli' = cli
             \/ WroteRequest(f)

CliChargeDoes ==
    \E p \in Fibers :
        /\ p = cli.pending
        /\ cli' \in CliRec /\ cli'.pending = None /\ cli'.ctxs = cli.ctxs /\ cli'.held = cli.held
        /\ OnlySend(cli, cli', IF "cli" \in adding THEN 0 ELSE -1, req[p].sn,
                    IF req[p].sn \in DOMAIN cli.streams /\ cli.streams[req[p].sn].of = p THEN -1 ELSE 0)

CliReadDoes(f) ==
    \/ /\ f.t = "WINDOW_UPDATE"
       /\ cli' \in CliRec /\ cli'.ctxs = cli.ctxs /\ cli'.pending = cli.pending /\ cli'.held = cli.held
       /\ OnlySend(cli, cli', Granted(cli, f, 0), f.id, IF f.id = 0 THEN 0 ELSE Granted(cli, f, f.id))
       /\ goaways' = goaways \union windowError(cli, f)
       /\ goaways' \in SUBSET {"no stream", "overflow"}
       /\ toCli' = Tail(toCli) /\ skipped' = skipped
    \/ /\ f.t # "WINDOW_UPDATE" /\ f.id \notin DOMAIN cli.streams
       /\ skipped' = (skipped \/ f.t # "RST_STREAM")
       /\ toCli' = Tail(toCli) /\ cli' = cli /\ goaways' = goaways
    \/ /\ f.t # "WINDOW_UPDATE" /\ f.id \in DOMAIN cli.streams
       /\ cli' \in CliRec /\ cli'.sn = cli.sn /\ cli'.streams = cli.streams /\ cli'.ctxs = cli.ctxs
       /\ cli'.pending = cli.pending /\ cli'.held = "in" /\ CliTables /\ CliWindows
       /\ toCli' = toCli /\ skipped' = skipped /\ goaways' = goaways

\* doRsp and onTimeOut leave a request alone but for its outcome and its timer.
Answered(q, r, result, got) ==
    /\ q.pc = "done" /\ q.result = result /\ q.got = got
    /\ q.sn = r.sn /\ q.header = r.header /\ q.body = r.body

\* doRecv of the client gives frame f to stream s, which becomes s2.
CliHandleDoes(f, s, s2) ==
    /\ cli' \in CliRec /\ cli'.sn = cli.sn /\ cli'.send = cli.send /\ cli'.sendTable = cli.sendTable
    /\ cli'.pending = cli.pending /\ cli'.held = None
    /\ cli'.recv = IF f.t = "DATA" THEN cli.recv - f.n + Refill(cli.recv - f.n) ELSE cli.recv
    /\ cli'.recvTable = IF f.t = "HEADERS" THEN parse(cli.recvTable, f.block).table ELSE cli.recvTable
    /\ toCli' = Tail(toCli)
    /\ queue' = IF f.t = "DATA"
                THEN queue \o (Updates(0, Refill(cli.recv - f.n)) \o Updates(f.id, Refill(s.recv - f.n)))
                ELSE queue
    /\ crashed' = (f.end /\ s.null)
    /\ \A id \in DOMAIN cli.streams : id # f.id => cli'.streams[id] = cli.streams[id]
    /\ \A id \in DOMAIN cli.ctxs : id # f.id => cli'.ctxs[id] = cli.ctxs[id]
    /\ \/ /\ s2.state # "CLOSED"
          /\ DOMAIN cli'.streams = DOMAIN cli.streams /\ cli'.streams[f.id] = s2
          /\ cli'.ctxs = cli.ctxs /\ req' = req
       \/ /\ s2.state = "CLOSED"
          /\ DOMAIN cli'.streams = DOMAIN cli.streams \ {f.id}
          /\ DOMAIN cli'.ctxs = DOMAIN cli.ctxs \ {f.id}
          /\ \/ /\ f.id \notin DOMAIN cli.ctxs \/ req[cli.ctxs[f.id]].pc # "waiting"
                /\ req' = req
             \/ \E g \in Fibers :
                   /\ f.id \in DOMAIN cli.ctxs /\ g = cli.ctxs[f.id] /\ req[g].pc = "waiting"
                   /\ req' \in [Fibers -> ReqRec] /\ OthersKept(g)
                   /\ req'[g].timer = IF req[g].timer = "armed" THEN "off" ELSE req[g].timer
                   /\ \/ ~s2.ended /\ Answered(req'[g], req[g], "rst_stream", None)
                      \/ /\ s2.ended
                         /\ Answered(req'[g], req[g], "ok", IF s2.headers = <<>> THEN None ELSE s2.headers[1])

CliHandleDeletedDoes(f) ==
    /\ cli' \in CliRec /\ cli'.sn = cli.sn /\ cli'.streams = cli.streams /\ cli'.ctxs = cli.ctxs
    /\ cli'.pending = cli.pending /\ cli'.held = None /\ CliWindows
    /\ cli'.sendTable = cli.sendTable
    /\ cli'.recvTable = parse(cli.recvTable, f.block).table
    /\ toCli' = Tail(toCli) /\ crashed' = f.end

\* A timer becomes due or goes off: nothing else of the request changes.
Retimed(q, r, timer) ==
    /\ q.pc = r.pc /\ q.result = r.result /\ q.got = r.got /\ q.sn = r.sn /\ q.header = r.header
    /\ q.body = r.body /\ q.timer = timer
DueDoes(f) ==
    req' \in [Fibers -> ReqRec] /\ OthersKept(f) /\ Retimed(req'[f], req[f], "due")

OnTimeOutDoes(f) ==
    LET id == req[f].sn
    IN  /\ cli' \in CliRec /\ cli'.sn = cli.sn /\ cli'.pending = cli.pending /\ CliTables /\ CliWindows
        /\ DOMAIN cli'.streams = DOMAIN cli.streams \ {id}
        /\ \A k \in DOMAIN cli.streams : k # id => cli'.streams[k] = cli.streams[k]
        /\ DOMAIN cli'.ctxs = DOMAIN cli.ctxs \ {id}
        /\ \A k \in DOMAIN cli.ctxs : k # id => cli'.ctxs[k] = cli.ctxs[k]
        /\ cli'.held = IF cli.held = "in" /\ Head(toCli).id = id THEN "out" ELSE cli.held
        /\ req' \in [Fibers -> ReqRec] /\ OthersKept(f)
        /\ req'[f].timer = "off"
        /\ \/ req[f].pc = "waiting" /\ Answered(req'[f], req[f], "timeout", None)
           \/ req[f].pc # "waiting" /\ Retimed(req'[f], req[f], "off")

\* m_streamMgr.clear() and the handshake: all streams stay, closed.
Cleared(s, s2) ==
    /\ s2.of = s.of /\ s2.send = s.send /\ s2.state = s.state /\ s2.ended = s.ended
    /\ s2.headers = s.headers /\ s2.body = s.body /\ s2.null = TRUE /\ s2.handled = s.handled
    /\ s2.recv = s.recv + CLIENT_WINDOW - DEFAULT_WINDOW

ReconnectDoes ==
    /\ cli' \in CliRec /\ cli'.sn = -1 /\ cli'.ctxs = <<>> /\ DOMAIN cli'.ctxs = {}
    /\ cli'.send = DEFAULT_WINDOW /\ cli'.recv = MAX_WINDOW /\ cli'.sendTable = <<>>
    /\ cli'.recvTable = <<>> /\ cli'.pending = None /\ cli'.held = None
    /\ DOMAIN cli'.streams = DOMAIN cli.streams
    /\ \A id \in DOMAIN cli.streams : Cleared(cli.streams[id], cli'.streams[id])
    /\ srv' = Server /\ srv' \in SrvRec /\ DOMAIN srv'.streams = {}
    /\ queue' = <<>> /\ toSrv' = <<>> /\ toCli' = <<>> /\ refused' = {} /\ connects' = connects + 1
    /\ req' \in [Fibers -> ReqRec]
    /\ \A g \in Fibers :
          \/ req'[g] = req[g] /\ (req[g].pc = "waiting" => g \notin Range(cli.ctxs))
          \/ /\ req[g].pc = "waiting" /\ Answered(req'[g], req[g], "io_error", None)
             /\ req'[g].timer = IF req[g].timer = "armed" THEN "off" ELSE req[g].timer

\* onStreamClose of the server: a closed stream's request is handed to a worker, once.
Handed(s, s2) ==
    /\ s2.of = s.of /\ s2.send = s.send /\ s2.recv = s.recv /\ s2.state = s.state
    /\ s2.ended = s.ended /\ s2.headers = s.headers /\ s2.body = s.body /\ s2.null = s.null
    /\ s2.handled = IF s.state = "CLOSED" /\ s.handled = "no" THEN "scheduled" ELSE s.handled

\* The stream a frame is for, a new one if there is none.
Target(f) ==
    IF f.id \in DOMAIN srv.streams THEN srv.streams[f.id]
    ELSE Stream(DEFAULT_WINDOW, CLIENT_WINDOW, None)

SrvWindowDoes(f) ==
    /\ f.t = "WINDOW_UPDATE"
    /\ srv' \in SrvRec
    /\ OnlySend(srv, srv', Granted(srv, f, 0), f.id, IF f.id = 0 THEN 0 ELSE Granted(srv, f, f.id))
    /\ goaways' = goaways \union windowError(srv, f)
    /\ goaways' \in SUBSET {"no stream", "overflow"}
    /\ toCli' = toCli /\ refused' = refused /\ skipped' = skipped /\ Calm

SrvRefuseDoes(f) ==
    /\ f.t # "WINDOW_UPDATE" /\ f.id \notin DOMAIN srv.streams /\ f.id <= srv.sn
    /\ \E x : IsFrame(x, "RST_STREAM", srv.sn, <<>>, 0, FALSE) /\ toCli' = Append(toCli, x)
    /\ refused' = refused \union {f.id}
    /\ skipped' = TRUE /\ srv' = srv /\ goaways' = goaways /\ Calm

SrvAcceptDoes(f, s) ==
    /\ f.t # "WINDOW_UPDATE" /\ (f.id \in DOMAIN srv.streams \/ ~(f.id <= srv.sn))
    /\ srv' \in SrvRec /\ srv'.send = srv.send /\ srv'.sendTable = srv.sendTable
    /\ srv'.sn = IF f.id \in DOMAIN srv.streams THEN srv.sn ELSE f.id
    /\ srv'.recv = IF f.t = "DATA" THEN srv.recv - f.n + Refill(srv.recv - f.n) ELSE srv.recv
    /\ srv'.recvTable = IF f.t = "HEADERS" THEN parse(srv.recvTable, f.block).table ELSE srv.recvTable
    /\ DOMAIN srv'.streams = DOMAIN srv.streams \union {f.id}
    /\ \A id \in DOMAIN srv.streams : id # f.id => srv'.streams[id] = srv.streams[id]
    /\ Handed(Fed(s, f, srv.recvTable), srv'.streams[f.id])
    /\ toCli' = IF f.t = "DATA"
                THEN toCli \o (Updates(0, Refill(srv.recv - f.n)) \o Updates(f.id, Refill(s.recv - f.n)))
                ELSE toCli
    /\ refused' = refused /\ skipped' = skipped /\ goaways' = goaways /\ Reads(f)

\* handleRequest has queued the response.
Marked(s, s2) ==
    /\ s2.of = s.of /\ s2.send = s.send /\ s2.recv = s.recv /\ s2.state = s.state
    /\ s2.ended = s.ended /\ s2.headers = s.headers /\ s2.body = s.body /\ s2.null = s.null
    /\ s2.handled = "responded"

RespondDoes(id, s) ==
    LET hs == <<s.headers[1]>>
        p  == pack(srv.sendTable, hs)
    IN  /\ s.handled = "scheduled" /\ hs \in Seq(Pair)
        /\ srv' \in SrvRec /\ srv'.sn = srv.sn /\ srv'.send = srv.send /\ srv'.recv = srv.recv
        /\ srv'.recvTable = srv.recvTable /\ srv'.sendTable = p.table
        /\ DOMAIN srv'.streams = DOMAIN srv.streams
        /\ \A k \in DOMAIN srv.streams : k # id => srv'.streams[k] = srv.streams[k]
        /\ Marked(s, srv'.streams[id])
        /\ p.block \in Seq(Field)
        /\ \E r : IsMessage(r, id, p.block, s.body = 0) /\ toCli' = toCli \o r

SrvDoneDoes(id, s) ==
    /\ s.handled = "responded"
    /\ srv' \in SrvRec /\ srv'.sn = srv.sn /\ srv'.recv = srv.recv
    /\ srv'.recvTable = srv.recvTable /\ srv'.sendTable = srv.sendTable
    /\ srv'.send = srv.send - IF s.body = 0 \/ "srv" \in adding THEN 0 ELSE 1
    /\ DOMAIN srv'.streams = DOMAIN srv.streams \ {id}
    /\ \A k \in DOMAIN srv.streams : k # id =>
          Alike(srv.streams[k], srv'.streams[k]) /\ srv'.streams[k].send = srv.streams[k].send

-----------------------------------------------------------------------------
(***************************************************************************)
(* The steps of the specification, each with what it needs and what it     *)
(* leaves alone.                                                           *)
(***************************************************************************)

Began(f) == req[f].pc \in {"waiting", "done"}
Asks(q, f) == \E i \in DOMAIN q : q[i].t = "request" /\ q[i].f = f
OnceAsked(q, f) ==
    \A i, k \in DOMAIN q : q[i].t = "request" /\ q[i].f = f /\ q[k].t = "request" /\ q[k].f = f => i = k

\* The life of a request: a number when it is no longer idle, in the queue at most
\* once, and only after request() has armed its timer.
Life(f) ==
    /\ req[f].pc = "idle" => req[f].sn = 0 /\ req[f].timer = "off"
    /\ req[f].pc # "idle" => req[f].sn > 0 /\ req[f].header \in Headers
    /\ req[f].pc # "done" => req[f].result = None
    /\ req[f].timer # "off" => Began(f)
    /\ OnceAsked(queue, f)
    /\ Asks(queue, f) => Began(f)
Requests == cli.sn >= -1 /\ connects >= 1 /\ \A f \in Fibers : Life(f)
Rest == /\ refused' = refused /\ skipped' = skipped /\ goaways' = goaways /\ timeouts' = timeouts
WireKept == toSrv' = toSrv /\ toCli' = toCli
ServerKept == srv' = srv /\ connects' = connects

NewStreamStep(f, header, body) ==
    /\ req[f].pc = "idle" /\ NewStreamDoes(f, header, body)
    /\ queue' = queue /\ WireKept /\ ServerKept /\ Rest /\ Calm /\ crashed' = crashed

RequestStep(f) ==
    /\ req[f].pc = "numbered" /\ RequestDoes(f)
    /\ WireKept /\ ServerKept /\ Rest /\ Calm /\ crashed' = crashed

CliWriteStep ==
    /\ queue # <<>> /\ cli.pending = None /\ CliWriteDoes
    /\ queue' = Tail(queue) /\ toCli' = toCli /\ req' = req /\ ServerKept /\ Rest /\ Calm /\ crashed' = crashed

CliChargeStep ==
    /\ cli.pending # None /\ CliChargeDoes
    /\ queue' = queue /\ WireKept /\ req' = req /\ ServerKept /\ Rest /\ Charges("cli", TRUE) /\ crashed' = crashed

CliReadStep(f) ==
    /\ toCli # <<>> /\ f = Head(toCli) /\ cli.held = None /\ CliReadDoes(f)
    /\ queue' = queue /\ toSrv' = toSrv /\ req' = req /\ ServerKept /\ crashed' = crashed
    /\ refused' = refused /\ timeouts' = timeouts /\ Calm

CliHandleStep(f, s) ==
    /\ toCli # <<>> /\ f = Head(toCli) /\ f.t # "WINDOW_UPDATE" /\ cli.held = "in"
    /\ f.id \in DOMAIN cli.streams /\ s = cli.streams[f.id]
    /\ CliHandleDoes(f, s, Fed(s, f, cli.recvTable))
    /\ toSrv' = toSrv /\ ServerKept /\ Rest /\ Reads(f)

CliHandleDeletedStep(f) ==
    /\ toCli # <<>> /\ f = Head(toCli) /\ f.t # "WINDOW_UPDATE" /\ cli.held = "out"
    /\ CliHandleDeletedDoes(f)
    /\ queue' = queue /\ toSrv' = toSrv /\ req' = req /\ ServerKept /\ Rest /\ Reads(f)

DueStep(f) ==
    /\ req[f].timer = "armed" /\ DueDoes(f)
    /\ cli' = cli /\ queue' = queue /\ WireKept /\ ServerKept /\ Rest /\ Calm /\ crashed' = crashed

OnTimeOutStep(f) ==
    /\ req[f].timer = "due" /\ OnTimeOutDoes(f)
    /\ queue' = queue /\ WireKept /\ ServerKept /\ crashed' = crashed
    /\ timeouts' = TRUE /\ refused' = refused /\ skipped' = skipped /\ goaways' = goaways /\ Calm

ReconnectStep ==
    /\ cli.held = None /\ ReconnectDoes
    /\ skipped' = skipped /\ goaways' = goaways /\ timeouts' = timeouts /\ crashed' = crashed /\ Calm

ClientKept ==
    /\ cli' = cli /\ queue' = queue /\ req' = req /\ connects' = connects /\ timeouts' = timeouts
    /\ crashed' = crashed

SrvReadStep(f) ==
    /\ toSrv # <<>> /\ f = Head(toSrv)
    /\ SrvWindowDoes(f) \/ SrvRefuseDoes(f) \/ SrvAcceptDoes(f, Target(f))
    /\ toSrv' = Tail(toSrv) /\ ClientKept

RespondStep(id, s) ==
    /\ s = srv.streams[id] /\ RespondDoes(id, s)
    /\ toSrv' = toSrv /\ ClientKept /\ Rest /\ Calm

SrvDoneStep(id, s) ==
    /\ s = srv.streams[id] /\ SrvDoneDoes(id, s)
    /\ WireKept /\ ClientKept /\ Rest /\ Charges("srv", s.body # 0)

FiberStep(f) ==
    \/ \E header \in Headers, body \in {0, 1} : NewStreamStep(f, header, body)
    \/ RequestStep(f) \/ DueStep(f) \/ OnTimeOutStep(f)
ReaderStep(f) == CliReadStep(f) \/ CliHandleDeletedStep(f) \/ SrvReadStep(f)
ServletStep(id, s) == RespondStep(id, s) \/ SrvDoneStep(id, s)

\* Nothing changes, but perhaps which reader is in a +=.
Still ==
    /\ cli' = cli /\ srv' = srv /\ queue' = queue /\ toSrv' = toSrv /\ toCli' = toCli /\ req' = req
    /\ connects' = connects /\ refused' = refused /\ skipped' = skipped /\ goaways' = goaways
    /\ timeouts' = timeouts /\ crashed' = crashed /\ Calm

Step ==
    \/ \E f \in Fibers : FiberStep(f)
    \/ CliWriteStep \/ CliChargeStep \/ ReconnectStep
    \/ \E f \in FrameRec : ReaderStep(f)
    \/ \E f \in FrameRec, s \in StreamRec : CliHandleStep(f, s)
    \/ \E id \in DOMAIN srv.streams, s \in StreamRec : ServletStep(id, s)
    \/ Still
BaseInv == TypeOK /\ HeldOk /\ Led /\ Requests

-----------------------------------------------------------------------------
(***************************************************************************)
(* What is on the way: questions about a sequence of frames, and how they  *)
(* are answered when a frame is taken off or frames are added.             *)
(***************************************************************************)

Is(x, ts, id) == x.t \in ts /\ x.id = id
Has(q, ts, id) == \E x \in Range(q) : Is(x, ts, id)

\* Where the elements of q \o r come from.
CatDoes(q, r) ==
    /\ Len(q) \in Nat /\ DOMAIN q = 1 .. Len(q) /\ DOMAIN (q \o r) = 1 .. Len(q) + Len(r)
    /\ Len(r) \in Nat /\ DOMAIN r = 1 .. Len(r)
    /\ \A i \in DOMAIN q : i \in DOMAIN (q \o r) /\ (q \o r)[i] = q[i]
    /\ \A i \in DOMAIN r : Len(q) + i \in DOMAIN (q \o r) /\ (q \o r)[Len(q) + i] = r[i]
    /\ \A i \in DOMAIN (q \o r) :
          \/ i \in DOMAIN q /\ (q \o r)[i] = q[i]
          \/ i - Len(q) \in DOMAIN r /\ (q \o r)[i] = r[i - Len(q)]

\* What the frames of a message are.
MessageDoes(r, h, d, id, block, none) ==
    /\ IsFrame(h, "HEADERS", id, block, 0, none) /\ IsFrame(d, "DATA", id, <<>>, 1, TRUE)
    /\ r[1] = h
    /\ \/ none /\ Len(r) = 1 /\ DOMAIN r = 1 .. 1
       \/ ~none /\ Len(r) = 2 /\ DOMAIN r = 1 .. 2 /\ r[2] = d
OnlyUpdates(r) == \A x \in Range(r) : x.t = "WINDOW_UPDATE"

AskWritten(f, r) ==
    /\ Head(queue).t = "request" /\ Head(queue).f = f /\ req[f].sn \in DOMAIN cli.streams
    /\ WroteRequest(f)
    /\ \E block \in Seq(Field) : block # <<>> /\ IsMessage(r, req[f].sn, block, req[f].body = 0)

AskDropped(f) ==
    /\ Head(queue).t = "request" /\ Head(queue).f = f /\ req[f].sn \notin DOMAIN cli.streams
    /\ cli' = cli

WriterDoes(r) ==
    \/ OnlyUpdates(r) /\ Head(queue).t = "WINDOW_UPDATE" /\ cli' = cli
    \/ r = <<>> /\ \E f \in Fibers : AskDropped(f)
    \/ \E f \in Fibers : AskWritten(f, r)

\* The requests in the queue.
AskIs(x, f) == x.t = "request" /\ x.f = f

\* The requests that the queue holds after a step.
HeadAsks(g) == queue # <<>> /\ AskIs(Head(queue), g)

QueueDoes(g) ==
    /\ OnceAsked(queue', g)
    /\ Asks(queue', g) => Asks(queue, g) \/ RequestStep(g)
    /\ Asks(queue, g) => Asks(queue', g) \/ (CliWriteStep /\ HeadAsks(g)) \/ ReconnectStep
    /\ CliWriteStep /\ HeadAsks(g) => Asks(queue, g) /\ ~Asks(queue', g)
    /\ RequestStep(g) => Asks(queue', g)
Starts(g) == \E header \in Headers, body \in {0, 1} : NewStreamStep(g, header, body)

-----------------------------------------------------------------------------
(***************************************************************************)
(* The way of a request: once it is written, its frames, its stream at the *)
(* server and the frames that come back are those of its number alone, as  *)
(* long as the number is its own.                                          *)
(***************************************************************************)

Traffic == {"HEADERS", "DATA"}

\* A frame with END_STREAM.
Ends(x, id) == x.t \in Traffic /\ x.id = id /\ x.end
EndOnWay(q, id) == \E x \in Range(q) : Ends(x, id)

\* The frame that ends a stream is the last one of the stream.
LastEnds(q, id) == \A i, k \in DOMAIN q : Ends(q[i], id) /\ Is(q[k], Traffic, id) => k <= i
HasTailDoes(q, ts, id) ==
    Has(q, ts, id) <=> Is(Head(q), ts, id) \/ Has(Tail(q), ts, id)
HasCatDoes(q, r, ts, id) == Has(q \o r, ts, id) <=> Has(q, ts, id) \/ Has(r, ts, id)
EndTailDoes(q, id) == EndOnWay(q, id) <=> Ends(Head(q), id) \/ EndOnWay(Tail(q), id)
EndCatDoes(q, r, id) == EndOnWay(q \o r, id) <=> EndOnWay(q, id) \/ EndOnWay(r, id)

\* A number is in play when the server has met it, or it is on the way.
Answers == {"HEADERS", "DATA", "RST_STREAM"}

InPlay(id) ==
    \/ Has(toSrv, Traffic, id) \/ id \in DOMAIN srv.streams \/ id = srv.sn
    \/ Has(toCli, Answers, id)
Owner(id) == \E g \in Fibers : req[g].sn = id /\ Began(g) /\ ~Asks(queue, g)

\* Only what was written is in play.
Played == \A id \in Int \ {0} : InPlay(id) => Owner(id)

\* A request that is filed under a number has that number.
Contexts == \A id \in DOMAIN cli.ctxs : req[cli.ctxs[id]].sn = id /\ Began(cli.ctxs[id])

\* onStreamClose follows at once when a stream is closed.
Open ==
    /\ \A id \in DOMAIN cli.streams : cli.streams[id].state = "IDLE"
    /\ \A id \in DOMAIN srv.streams : srv.streams[id].state = "CLOSED" => srv.streams[id].handled # "no"

\* On the first connection no number is given twice.
Numbers == connects = 1 => OwnNumbers /\ \A f \in Fibers : req[f].pc # "idle" => req[f].sn <= cli.sn

\* The frames of a number that is one request's own: END_STREAM comes last, while
\* they are on the way the server has not handed the stream to a servlet and has not
\* forgotten it, and it resets the stream only after it refused an older one.
Way(id) ==
    /\ LastEnds(toSrv, id)
    /\ Has(toSrv, Traffic, id) =>
          /\ id = srv.sn => id \in DOMAIN srv.streams
          /\ id \in DOMAIN srv.streams => srv.streams[id].handled = "no"
    /\ Has(toCli, {"RST_STREAM"}, id) => \E k \in refused : k < id
Ways == \A f \in Fibers : req[f].sn > 0 /\ OwnNumber(f) => Way(req[f].sn)

\* As long as no timer has fired and the connection is the first one, what will
\* answer a request that waits is under way.
Onward(f) ==
    \/ Asks(queue, f) \/ EndOnWay(toSrv, req[f].sn)
    \/ (req[f].sn \in DOMAIN srv.streams /\ srv.streams[req[f].sn].handled = "scheduled")
    \/ EndOnWay(toCli, req[f].sn) \/ req[f].sn \in refused
Filed(f) ==
    req[f].sn \in DOMAIN cli.streams /\ req[f].sn \in DOMAIN cli.ctxs /\ cli.ctxs[req[f].sn] = f

\* As long as no number is used twice, a request keeps its stream until it is over.
Settled ==
    OwnNumbers => \A f \in Fibers :
        /\ req[f].pc = "numbered" => req[f].sn \in DOMAIN cli.streams
        /\ req[f].pc = "waiting" => Filed(f)

Follow ==
    connects = 1 /\ ~timeouts =>
        cli.held # "out" /\ \A f \in Fibers : req[f].pc = "waiting" => Onward(f)
RouteInv == BaseInv /\ Played /\ Contexts /\ Open /\ Numbers /\ Ways /\ Settled /\ Follow

-----------------------------------------------------------------------------
(***************************************************************************)
(* The compression tables of one direction: what was packed and not yet    *)
(* parsed leads from the receiver's table to the sender's.                 *)
(***************************************************************************)

\* Reading the frame x takes the table T to U; a HEADERS frame holds a list whose
\* first header is one that G allows for the number.
Hop(x, T, U, G) ==
    \/ /\ x.t = "HEADERS"
       /\ \E hs \in Seq(Pair) : /\ hs # <<>> /\ <<x.id, hs[1]>> \in G
                                /\ x.block = pack(T, hs).block /\ U = pack(T, hs).table
    \/ x.t # "HEADERS" /\ U = T

\* Reading the frames of q one after the other takes T to U.
Path(q, T, U, G) ==
    \E tabs \in [1 .. Len(q) + 1 -> Table] :
        /\ tabs[1] = T /\ tabs[Len(q) + 1] = U
        /\ \A i \in 1 .. Len(q) : Hop(q[i], tabs[i], tabs[i + 1], G)

\* What the reader makes of a frame.
HopDoes(x, T, U, G) ==
    /\ parse(T, x.block).table = U
    /\ x.t = "HEADERS" =>
          \E hs \in Seq(Pair) : hs # <<>> /\ <<x.id, hs[1]>> \in G /\ parse(T, x.block).headers = hs

-----------------------------------------------------------------------------

\* The headers a frame of a number may begin with: if the number is one request's
\* own, that request's.
Allowed ==
    {p \in Int \X Pair :
        \A f \in Fibers : req[f].sn > 0 /\ OwnNumber(f) /\ p[1] = req[f].sn => p[2] = req[f].header}

\* The tables agree across what is on the way, in both directions, until a frame is
\* dropped unread or read wrongly.
Clear == ~skipped /\ ~misread
Forth(G) == Path(toSrv, srv.recvTable, cli.sendTable, G)
Back(G) == Path(toCli, cli.recvTable, srv.sendTable, G)
Sync == Clear => Forth(Allowed) /\ Back(Allowed)

-----------------------------------------------------------------------------

\* The DATA of a stream comes after HEADERS of it.
Ahead(q, id) ==
    \A i \in DOMAIN q : Is(q[i], {"DATA"}, id) =>
        \E k \in DOMAIN q : k < i /\ Is(q[k], {"HEADERS"}, id)

-----------------------------------------------------------------------------

\* The streams of a number that is one request's own begin with that request's
\* header: at the server always, at the client once HEADERS have come; and until then
\* no DATA comes before them.
HeadSrv(id, h) == id \in DOMAIN srv.streams => srv.streams[id].headers[1] = h

HeadCli(id, h) ==
    id \in DOMAIN cli.streams =>
        /\ cli.streams[id].headers # <<>> => cli.streams[id].headers[1] = h
        /\ cli.streams[id].headers = <<>> => Ahead(toCli, id)

\* A stream that doRecv works on and onTimeOut has deleted is not there again.
Gone(id) == cli.held = "out" /\ Head(toCli).id = id => id \notin DOMAIN cli.streams

Heads ==
    Clear => \A f \in Fibers : req[f].sn > 0 /\ OwnNumber(f) =>
                HeadSrv(req[f].sn, req[f].header) /\ HeadCli(req[f].sn, req[f].header) /\ Gone(req[f].sn)
EchoInv == RouteInv /\ Sync /\ Heads /\ EchoesHeader

-----------------------------------------------------------------------------
(***************************************************************************)
(* The windows: a ledger of the DATA and the credits that are on the way.  *)
(***************************************************************************)

\* What a frame counts for: DATA or WINDOW_UPDATE of certain numbers.
Weight(x, t, ids) == IF x.t = t /\ x.id \in ids THEN x.n ELSE 0

\* The frames of q weigh s: a[i] is the weight of those from the i-th on.
Weighs(q, t, ids, s) ==
    \E a \in [1 .. Len(q) + 1 -> Nat] :
        /\ a[1] = s /\ a[Len(q) + 1] = 0
        /\ \A i \in 1 .. Len(q) : Weight(q[i], t, ids) \in Nat /\ a[i] = Weight(q[i], t, ids) + a[i + 1]

\* The objects in the client's m_streamMgr carry the number of their request.
Objects ==
    \A id \in DOMAIN cli.streams :
        id > 0 /\ cli.streams[id].of \in Fibers /\ req[cli.streams[id].of].sn = id

\* What the server reads and knows has the number of a stream, not the connection's.
Positive ==
    /\ \A id : Has(toSrv, Traffic, id) => id > 0
    /\ \A id \in DOMAIN srv.streams : id > 0

\* The DATA of a response is its end.
DataEnds == \A x \in Range(toCli) : x.t = "DATA" => x.end

\* DATA is taken off the windows for a request that has left the queue.
Charged == cli.pending # None => Began(cli.pending) /\ ~Asks(queue, cli.pending)

\* After the crash no frame is worked on.
CrashEnds == crashed => cli.held = None

\* The DATA that the server has sent, and the credits for it, are of streams that are
\* answered: they are gone or about to be deleted.
Returns(id) == Has(toCli, {"DATA"}, id) \/ Has(queue, {"WINDOW_UPDATE"}, id) \/ Has(toSrv, {"WINDOW_UPDATE"}, id)

Returned ==
    \A id \in Int \ {0} : Returns(id) =>
        id <= srv.sn /\ (id \in DOMAIN srv.streams => srv.streams[id].handled = "responded")

\* The credits that the server has given a stream are for a request that was written.
Credited == \A id \in Int \ {0} : Has(toCli, {"WINDOW_UPDATE"}, id) => Owner(id)

\* What the client gives back for a stream it gives back when the request is over.
Over ==
    OwnNumbers => \A id \in Int \ {0} :
        Has(queue, {"WINDOW_UPDATE"}, id) \/ Has(toSrv, {"WINDOW_UPDATE"}, id) =>
            \E g \in Fibers : req[g].sn = id /\ req[g].pc = "done"

\* What a step does to the streams of the client: who makes one, and who moves its
\* send window.
Raised(x, id) == IF id = x.id /\ x.id # 0 THEN Granted(cli, x, x.id) ELSE 0
SameObject(id) == id \in DOMAIN cli.streams /\ cli'.streams[id].of = cli.streams[id].of

ObjectDoes(id) ==
    \/ \E f \in Fibers : Starts(f) /\ id = req'[f].sn /\ cli'.streams[id] = Stream(CLIENT_WINDOW, DEFAULT_WINDOW, f)
    \/ SameObject(id) /\ cli'.streams[id].send = cli.streams[id].send
    \/ /\ SameObject(id) /\ CliChargeStep
       /\ cli'.streams[id].send = cli.streams[id].send +
             IF id = req[cli.pending].sn /\ cli.streams[id].of = cli.pending THEN -1 ELSE 0
    \/ /\ SameObject(id)
       /\ \E x \in FrameRec :
             /\ CliReadStep(x) /\ x.t = "WINDOW_UPDATE"
             /\ cli'.streams[id].send = cli.streams[id].send + Raised(x, id)

\* No window is above the maximum, and no body shorter than empty.
Caps ==
    /\ srv.recv <= MAX_WINDOW /\ cli.recv <= MAX_WINDOW
    /\ \A id \in DOMAIN srv.streams : srv.streams[id].recv <= MAX_WINDOW /\ srv.streams[id].body >= 0
    /\ \A id \in DOMAIN cli.streams : cli.streams[id].send <= MAX_WINDOW

\* No frame was dropped and no credit refused.
Exact == ~skipped /\ "overflow" \notin goaways

\* What one end may still send, with the credits and the DATA on the way, is at most
\* what the other end is ready to take, and all of it as long as nothing was dropped.
Balance(a, b, exact) == a <= b /\ (exact => a = b)

\* From the client to the server; DATA that the writer has not charged yet counts twice.
Uncharged == IF cli.pending = None THEN 0 ELSE 1

ForthLedger ==
    \E c \in Nat, d \in Nat :
        /\ Weighs(toCli, "WINDOW_UPDATE", {0}, c)
        /\ Weighs(toSrv, "DATA", Int, d)
        /\ Balance(cli.send + c + d - Uncharged, srv.recv, Exact)

\* From the server to the client; the servlets that have sent a body and have not been
\* charged for it.
Owing == {id \in DOMAIN srv.streams : srv.streams[id].handled = "responded" /\ srv.streams[id].body # 0}
BackExact == Exact /\ OwnNumbers /\ ~crashed

BackLedger ==
    /\ IsFiniteSet(Owing)
    /\ \E c \in Nat, e \in Nat, d \in Nat :
          /\ Weighs(queue, "WINDOW_UPDATE", {0}, c)
          /\ Weighs(toSrv, "WINDOW_UPDATE", {0}, e)
          /\ Weighs(toCli, "DATA", Int, d)
          /\ Balance(srv.send + c + e + d - Cardinality(Owing), cli.recv, BackExact)

\* The same for the stream of a request, as long as its number is its own: what the
\* client may send on it stays below what the server's stream takes.  Before the server
\* has made the stream, that is the window it will start with; when it has deleted it,
\* only the maximum is left.
Fresh(f) == req[f].pc = "numbered" \/ Asks(queue, f) \/ Has(toSrv, Traffic, req[f].sn)

Cap(f) ==
    IF req[f].sn \in DOMAIN srv.streams THEN srv.streams[req[f].sn].recv
    ELSE IF Fresh(f) THEN CLIENT_WINDOW ELSE MAX_WINDOW
LaneUncharged(f) == IF cli.pending = f THEN 1 ELSE 0

LaneAt(f, id) ==
    \E c \in Nat, d \in Nat :
        /\ Weighs(toCli, "WINDOW_UPDATE", {id}, c)
        /\ Weighs(toSrv, "DATA", {id}, d)
        /\ cli.streams[id].send + c + d - LaneUncharged(f) <= Cap(f)
Lanes == \A f \in Fibers : req[f].sn > 0 /\ OwnNumber(f) /\ req[f].sn \in DOMAIN cli.streams => LaneAt(f, req[f].sn)

\* The ledger: what the two theorems on the windows rest on.
LedgerInv ==
    /\ RouteInv /\ Objects /\ Positive /\ DataEnds /\ Charged /\ CrashEnds /\ Returned /\ Credited /\ Over
    /\ Caps /\ (~lost => ForthLedger /\ BackLedger) /\ Lanes

-----------------------------------------------------------------------------
(***************************************************************************)
(* What the lemmas say of lists, of frames and of the parts of a step.     *)
(***************************************************************************)

\* The tables t and the blocks o that pack goes through, header by header.
PackRun(T, hs, t, o) ==
    /\ pack(T, hs) = [block |-> o[Len(hs)], table |-> t[Len(hs)]]
    /\ t[0] = T /\ o[0] = <<>>
    /\ \A i \in 1 .. Len(hs) :
          /\ t[i] = packOne(t[i - 1], hs[i]).table
          /\ o[i] = Append(o[i - 1], packOne(t[i - 1], hs[i]).field)

\* The tables t and the lists o that parseFields goes through, field by field.
ParseRun(T, b, t, o) ==
    /\ parseFields(T, b) = [headers |-> o[Len(b)], table |-> t[Len(b)]]
    /\ t[0] = T /\ o[0] = <<>>
    /\ \A i \in 1 .. Len(b) :
          /\ t[i] = parseOne(t[i - 1], b[i]).table
          /\ o[i] = Append(o[i - 1], parseOne(t[i - 1], b[i]).header)

\* The end of the connection that doRecv leaves, without the stream's handling.
After(e, f) == handleFrame(IF f.t = "DATA" THEN handleRecvData(e, f).end ELSE e, f)

\* What After changes: the windows, the table and the one stream.
AfterFacts(e, f) ==
    LET a == After(e, f)
        s == Fed(e.streams[f.id], f, e.recvTable)
    IN  /\ DOMAIN a.streams = DOMAIN e.streams
        /\ a.streams[f.id] = s
        /\ \A id \in DOMAIN e.streams : id # f.id => a.streams[id] = e.streams[id]
        /\ a.sn = e.sn /\ a.send = e.send /\ a.sendTable = e.sendTable
        /\ a.recv = IF f.t = "DATA" THEN e.recv - f.n + Refill(e.recv - f.n) ELSE e.recv
        /\ a.recvTable = IF f.t = "HEADERS" THEN parse(e.recvTable, f.block).table ELSE e.recvTable

MessageSet(r, h, d, id, block, none) ==
    /\ IsFrame(h, "HEADERS", id, block, 0, none) /\ IsFrame(d, "DATA", id, <<>>, 1, TRUE)
    /\ Range(r) = IF none THEN {h} ELSE {h, d}

\* The queues after a step: what is taken off the front and what is added.
QueuesTyped ==
    /\ queue \in Seq(FrameRec \union AskRec)
    /\ toSrv \in Seq(FrameRec) /\ toCli \in Seq(FrameRec)

\* What a step leaves of toCli: the server adds at the end, the client's reader takes
\* the first frame off.
CliFed(r) == r \in Seq(FrameRec) /\ toCli' = toCli \o r

\* doRecv of the server sends WINDOW_UPDATEs, or an RST_STREAM for the last stream.
GaveUpdates(r, id) == \A x \in Range(r) : x.t = "WINDOW_UPDATE" /\ x.id \in {0, id}
GaveReset(r) == \A x \in Range(r) : x.t = "RST_STREAM" /\ x.id = srv.sn

SrvReadAnswers(f, r) ==
    \/ SrvWindowDoes(f) /\ GaveUpdates(r, f.id)
    \/ SrvAcceptDoes(f, Target(f)) /\ GaveUpdates(r, f.id)
    \/ SrvRefuseDoes(f) /\ GaveReset(r)

Responds(id, s, r) == \E block \in Seq(Field) : IsMessage(r, id, block, s.body = 0)

\* What the client's writer adds to the frames on the way: what was queued, or the
\* frames of the request that was.
SrvFed(r) == r \in Seq(FrameRec) /\ toSrv' = toSrv \o r

\* What doRecv of the client queues: WINDOW_UPDATEs for the connection and the stream.
QueueFed(r, id) ==
    /\ r \in Seq(FrameRec) /\ r \in Seq(FrameRec \union AskRec) /\ queue' = queue \o r
    /\ \A x \in Range(r) : x \in FrameRec /\ x.t = "WINDOW_UPDATE" /\ x.id \in {0, id}

TailAsks(q, f) ==
    /\ OnceAsked(Tail(q), f)
    /\ Asks(Tail(q), f) => Asks(q, f) /\ ~AskIs(Head(q), f)
    /\ Asks(q, f) => AskIs(Head(q), f) \/ Asks(Tail(q), f)

CatAsks(q, r, f) ==
    /\ Asks(q \o r, f) <=> Asks(q, f) \/ Asks(r, f)
    /\ OnceAsked(q, f) /\ OnceAsked(r, f) /\ ~(Asks(q, f) /\ Asks(r, f)) => OnceAsked(q \o r, f)

\* What a step does to a request that it does not start: its number, header and body
\* stay, and it may be answered or its timer moved on.
Lasts(g) ==
    /\ req'[g].sn = req[g].sn /\ req'[g].header = req[g].header /\ req'[g].body = req[g].body
    /\ \/ req'[g].pc = req[g].pc /\ req'[g].result = req[g].result /\ req'[g].got = req[g].got
       \/ req[g].pc = "waiting" /\ req'[g].pc = "done"
    /\ req'[g].timer # "off" => req[g].timer # "off"

LastTail(q, id) == LastEnds(Tail(q), id) /\ (Ends(Head(q), id) => ~Has(Tail(q), Traffic, id))

\* A message is of one stream, and its last frame ends it.
MessageEnds(r, id) ==
    /\ EndOnWay(r, id)
    /\ \A k : LastEnds(r, k)
    /\ \A k, ts : Has(r, ts, k) => k = id
    /\ ~Has(r, {"RST_STREAM"}, id)
    /\ \A x \in Range(r) : x.t \in Traffic /\ x.id = id

Kept(e, e2) ==
    /\ DOMAIN e2.streams = DOMAIN e.streams
    /\ \A id \in DOMAIN e.streams : Alike(e.streams[id], e2.streams[id])

\* A number that is a request's own was its own before, unless it is new; then it is
\* not in play.
OwnsNow(f) == req'[f].sn > 0 /\ \A g \in Fibers \ {f} : req'[g].sn # req'[f].sn

\* The first two parts of Way.
Unread(id) ==
    /\ LastEnds(toSrv, id)
    /\ Has(toSrv, Traffic, id) =>
          /\ id = srv.sn => id \in DOMAIN srv.streams
          /\ id \in DOMAIN srv.streams => srv.streams[id].handled = "no"

ForthSame == toSrv' = toSrv /\ srv'.recvTable = srv.recvTable /\ cli'.sendTable = cli.sendTable
BackSame == toCli' = toCli /\ cli'.recvTable = cli.recvTable /\ srv'.sendTable = srv.sendTable

\* doRecv of the client has read the frame x: its headers were parsed, it has none, or
\* it was dropped or misread.
BackRead(x) ==
    /\ toCli # <<>> /\ x = Head(toCli) /\ toCli' = Tail(toCli) /\ srv' = srv
    /\ \/ ~Clear'
       \/ Garbled(x.block) = {} /\ cli'.recvTable = parse(cli.recvTable, x.block).table
       \/ x.t # "HEADERS" /\ cli'.recvTable = cli.recvTable

\* Where the credits of a number come from: those that the client queues, those that
\* it writes, and those that the server gives.
Credit == {"WINDOW_UPDATE"}

\* The server takes DATA: its windows go down and are raised again by what it sends
\* back.
Took(x, n, m, o) ==
    /\ x.n \in Nat /\ x.id \in DOMAIN srv.streams /\ x.id \in Int /\ x.id > 0
    /\ n \in Nat /\ m \in Nat /\ o \in Seq(FrameRec) /\ o = Updates(0, n) \o Updates(x.id, m)
    /\ toCli' = toCli \o o
    /\ srv'.recv = (srv.recv - x.n) + n /\ srv'.recv <= MAX_WINDOW
    /\ srv'.streams[x.id].recv = (srv.streams[x.id].recv - x.n) + m /\ srv'.streams[x.id].recv <= MAX_WINDOW

\* The client takes DATA.
Got(x, n, m, o) ==
    /\ x.n \in Nat /\ x.id \in Int /\ x.id > 0
    /\ n \in Nat /\ m \in Nat /\ o \in Seq(FrameRec) /\ o = Updates(0, n) \o Updates(x.id, m)
    /\ queue' = queue \o o
    /\ cli'.recv = (cli.recv - x.n) + n /\ cli'.recv <= MAX_WINDOW
=============================================================================
