------------------------------- MODULE Http2 -------------------------------
(***************************************************************************)
(* One HTTP/2 connection between an Http2Connection (the client) and an    *)
(* Http2Session (the server) of chat/http2: stream numbers, the stream     *)
(* table, header compression, flow-control windows, RST_STREAM, timeouts   *)
(* and reconnection.  The bytes in between are a reliable stream (TCP)     *)
(* until the connection is lost.                                           *)
(*                                                                         *)
(* At each end one fiber reads, one writes, and any number of others start *)
(* requests or run servlets.  A servlet is an echo: it answers with the    *)
(* header it saw, and with a body if there was one.  The frames that doRecv *)
(* ignores (GOAWAY, PING answers, PRIORITY) are not put on the wire.       *)
(***************************************************************************)
EXTENDS Hpack, FiniteSets, Functions, TLC

CONSTANTS
    Fibers,         \* the client's fibers, each makes one request
    Headers,        \* the headers a request may carry: pairs of strings
    None,
    MAX_WINDOW,     \* MAX_INITIAL_WINDOW_SIZE
    CLIENT_WINDOW,  \* the INITIAL_WINDOW_SIZE the client sends, 4194304
    DEFAULT_WINDOW, \* DEFAULT_INITIAL_WINDOW_SIZE
    MaxConnects     \* bound: how often the client connects

\* As in the code, both initial windows are below a quarter of the maximum.
ASSUME Http2Assumption ==
    /\ {MAX_WINDOW, CLIENT_WINDOW, DEFAULT_WINDOW, MaxConnects} \subseteq Nat
    /\ DEFAULT_WINDOW < MAX_WINDOW \div 4 /\ CLIENT_WINDOW <= MAX_WINDOW \div 4
    /\ Headers \subseteq STRING \X STRING
    /\ None \notin Fibers \union {"in", "out", "ok", "rst_stream", "timeout", "io_error"}

VARIABLES
    cli, srv,       \* the two Http2SocketStream objects
    queue,          \* the client's m_queue: requests and frames to send
    toSrv, toCli,   \* the frames on the way, with those the server has queued
    req,            \* the requests
    connects,
    adding,         \* the ends whose reader is in m_sendWindow += increment
    refused,        \* history: the streams the server refused on this connection
    skipped,        \* history: a HEADERS or DATA frame was dropped unread
    misread,        \* history: a header block was not read as it was written
    goaways,        \* history: why a GOAWAY was sent
    timeouts,       \* history: a request's timer has fired
    lost,           \* history: DATA was taken off a window in vain
    crashed         \* the client has dereferenced a null frame, and takes no more steps

history == <<refused, skipped, misread, goaways, timeouts, lost>>
vars == <<cli, srv, queue, toSrv, toCli, req, connects, adding,
          refused, skipped, misread, goaways, timeouts, lost, crashed>>

\* A stream's m_sendWindow is taken from m_peer and its m_recvWindow from m_owner;
\* m_peer holds what this end announced, m_owner what the other end did.
\* of tells the objects apart that get the same number; null says that close() has
\* put a null frame on m_data.
Stream(peer, owner, of) ==
    [of |-> of, send |-> peer, recv |-> owner, state |-> "IDLE", ended |-> FALSE,
     headers |-> <<>>, body |-> 0, null |-> FALSE, handled |-> "no"]

\* Http2SocketStream after the handshake: the client has raised its connection
\* window to the maximum, the server's has the default.  pending is the DATA that
\* is sent but not yet taken off the windows, held the stream of the frame that
\* doRecv works on: None, "in" m_streamMgr, or deleted meanwhile ("out").
Client == [sn |-> -1, streams |-> <<>>, ctxs |-> <<>>, send |-> DEFAULT_WINDOW,
           recv |-> MAX_WINDOW, sendTable |-> <<>>, recvTable |-> <<>>, pending |-> None,
           held |-> None]
Server == [sn |-> 0, streams |-> <<>>, send |-> MAX_WINDOW, recv |-> DEFAULT_WINDOW,
           sendTable |-> <<>>, recvTable |-> <<>>]

Init ==
    /\ cli = Client
    /\ srv = Server
    /\ queue = <<>>
    /\ toSrv = <<>>
    /\ toCli = <<>>
    /\ req = [f \in Fibers |-> [pc |-> "idle", sn |-> 0, header |-> None, body |-> 0,
                                timer |-> "off", result |-> None, got |-> None]]
    /\ connects = 1
    /\ adding = {}
    /\ refused = {}
    /\ skipped = FALSE
    /\ misread = FALSE
    /\ goaways = {}
    /\ timeouts = FALSE
    /\ lost = FALSE
    /\ crashed = FALSE

-----------------------------------------------------------------------------
(* Frames and windows, the same at both ends.                              *)

Frame(t, id) == [t |-> t, id |-> id, block |-> <<>>, n |-> 0, end |-> FALSE]
HEADERS(id, block, end) == [Frame("HEADERS", id) EXCEPT !.block = block, !.end = end]
\* A body fits in one frame here; its length is one unit of the windows.
DATA(id) == [Frame("DATA", id) EXCEPT !.n = 1, !.end = TRUE]
WINDOW_UPDATE(id, n) == [Frame("WINDOW_UPDATE", id) EXCEPT !.n = n]
RST_STREAM(id) == Frame("RST_STREAM", id)

\* m_streamMgr.
Exists(end, id) == id \in DOMAIN end.streams
With(map, key, value) == [k \in DOMAIN map \union {key} |-> IF k = key THEN value ELSE map[k]]
AddStream(end, id, stream) == [end EXCEPT !.streams = With(@, id, stream)]
DelStream(end, id) == [end EXCEPT !.streams = Restrict(@, DOMAIN @ \ {id})]
PutStream(end, id, stream) == [end EXCEPT !.streams[id] = stream]

\* Mutant of Refill: the window is raised by its maximum, not up to it.
RefillByMax(window) == IF window < MAX_WINDOW \div 4 THEN MAX_WINDOW ELSE 0

\* What is given back when a window falls below a quarter of the maximum.
Refill(window) == IF window < MAX_WINDOW \div 4 THEN MAX_WINDOW - window ELSE 0

Updates(id, n) == IF n > 0 THEN <<WINDOW_UPDATE(id, n)>> ELSE <<>>

\* handleRecvData: charge both windows, refill them and tell the other end.
handleRecvData(end, f) ==
    LET w == end.recv - f.n
        v == end.streams[f.id].recv - f.n
    IN  [end |-> [end EXCEPT !.recv = w + Refill(w), !.streams[f.id].recv = v + Refill(v)],
         out |-> Updates(0, Refill(w)) \o Updates(f.id, Refill(v))]

\* handleWindowUpdate: why a GOAWAY is sent, if it is, and the windows after it.
windowError(end, f) ==
    CASE f.id # 0 /\ ~Exists(end, f.id) -> {"no stream"}
      [] f.id # 0 /\ Exists(end, f.id) ->
            IF end.streams[f.id].send + f.n > MAX_WINDOW THEN {"overflow"} ELSE {}
      [] OTHER -> IF end.send + f.n > MAX_WINDOW THEN {"overflow"} ELSE {}

\* The connection's window is raised by a += that is not atomic: from here on send
\* is the sum, which is in the reader's register until Added stores it.
handleWindowUpdate(end, f) ==
    CASE windowError(end, f) # {} -> end
      [] windowError(end, f) = {} /\ f.id # 0 -> [end EXCEPT !.streams[f.id].send = @ + f.n]
      [] OTHER -> [end EXCEPT !.send = @ + f.n]

\* The reader of one end goes into such a +=.
Adds(end, f) == f.t = "WINDOW_UPDATE" /\ f.id = 0 /\ windowError(end, f) = {}

ChargeObject(end, id, of) ==
    IF Exists(end, id) /\ end.streams[id].of = of
    THEN [end EXCEPT !.streams[id].send = @ - 1] ELSE end

\* Mutant of Charge: the frame's own header is taken off the window as well.
ChargeFrame(end, id, of, vain) ==
    [ChargeObject(end, id, of) EXCEPT !.send = IF vain THEN @ ELSE @ - 2]

\* The end of sendData, after sendFrame: the windows of the stream object it was
\* called for and of the connection go down, both with addFetch; on the connection's
\* that is in vain while the reader is about to store a sum it has made before.
Charge(end, id, of, vain) ==
    [ChargeObject(end, id, of) EXCEPT !.send = IF vain THEN @ ELSE @ - 1]

\* Http2Stream::handleFrame: headers are parsed with the connection's table, data
\* is queued, RST_STREAM and END_STREAM close the stream at once; ended stands for
\* the request or response that is made of it at END_STREAM.
handleFrame(end, f) ==
    LET s == [end.streams[f.id] EXCEPT !.ended = f.end,
                                       !.state = IF f.end \/ f.t = "RST_STREAM" THEN "CLOSED" ELSE @]
        p == parse(end.recvTable, f.block)
    IN  CASE f.t = "HEADERS" -> [PutStream(end, f.id, [s EXCEPT !.headers = @ \o p.headers])
                                    EXCEPT !.recvTable = p.table]
          [] f.t = "DATA" -> PutStream(end, f.id, [s EXCEPT !.body = @ + f.n])
          [] OTHER -> PutStream(end, f.id, s)

-----------------------------------------------------------------------------
(* The client: Http2SocketStream::request, the writer, the reader.         *)

\* newStream(): the number is taken here, the request is queued later.
NewStream(f, header, body) ==
    /\ ~crashed
    /\ req[f].pc = "idle"
    /\ cli' = AddStream([cli EXCEPT !.sn = @ + 2], cli.sn + 2, Stream(CLIENT_WINDOW, DEFAULT_WINDOW, f))
    /\ req' = [req EXCEPT ![f].pc = "numbered", ![f].sn = cli.sn + 2,
                          ![f].header = header, ![f].body = body]
    /\ UNCHANGED <<srv, queue, toSrv, toCli, connects, adding, history, crashed>>

\* The rest of request(): addCtx (an insert, which keeps an entry that is there),
\* the timer, enqueue and YieldToHold.
Request(f) ==
    /\ ~crashed
    /\ req[f].pc = "numbered"
    /\ cli' = [cli EXCEPT !.ctxs = IF req[f].sn \in DOMAIN @ THEN @ ELSE With(@, req[f].sn, f)]
    /\ req' = [req EXCEPT ![f].pc = "waiting", ![f].timer = "armed"]
    /\ queue' = Append(queue, [t |-> "request", f |-> f])
    /\ UNCHANGED <<srv, toSrv, toCli, connects, adding, history, crashed>>

\* Ctx::doRsp: the fiber is scheduled once; a timer that is due is not stopped.
DoRsp(f, result, got) ==
    [req EXCEPT ![f].pc = "done", ![f].result = result, ![f].got = got,
                ![f].timer = IF @ = "armed" THEN "off" ELSE @]

\* Http2Stream::sendRequest: the client adds the stream's number as a header.
Sent(f) == <<req[f].header, <<"stream_id", ToString(req[f].sn)>>>>

\* doWrite, one entry: RequestCtx::doSend gives up without a word when the stream
\* has been deleted; headers are packed here, in the order of the queue.
CliWrite ==
    /\ ~crashed
    /\ queue # <<>>
    /\ cli.pending = None
    /\ queue' = Tail(queue)
    /\ IF Head(queue).t # "request"
       THEN toSrv' = Append(toSrv, Head(queue)) /\ UNCHANGED cli
       ELSE LET f  == Head(queue).f
                sn == req[f].sn
                p  == pack(cli.sendTable, Sent(f))
            IN  IF ~Exists(cli, sn) THEN UNCHANGED <<toSrv, cli>>
                ELSE /\ toSrv' = toSrv \o <<HEADERS(sn, p.block, req[f].body = 0)>>
                                       \o (IF req[f].body = 0 THEN <<>> ELSE <<DATA(sn)>>)
                     /\ cli' = [cli EXCEPT !.sendTable = p.table,
                                           !.pending = IF req[f].body = 0 THEN None ELSE f]
    /\ UNCHANGED <<srv, toCli, req, connects, adding, history, crashed>>

\* The writer takes the DATA it has sent off the windows.
CliCharge ==
    /\ ~crashed
    /\ cli.pending # None
    /\ cli' = [Charge(cli, req[cli.pending].sn, cli.pending, "cli" \in adding) EXCEPT !.pending = None]
    /\ lost' = (lost \/ "cli" \in adding)
    /\ UNCHANGED <<srv, queue, toSrv, toCli, req, connects, adding, refused, skipped, misread, goaways,
                   timeouts, crashed>>

\* m_sendWindow += increment: the reader of one end stores the sum.
Added(end) ==
    /\ adding' = adding \ {end}
    /\ UNCHANGED <<cli, srv, queue, toSrv, toCli, req, connects, history, crashed>>

\* onStreamClose of Http2Connection: the stream goes, and the request that waits
\* under its number gets the response (none after RST_STREAM: "rst_stream").
CliClose(end, id) ==
    LET s == end.streams[id]
        f == end.ctxs[id]
    IN  /\ cli' = [DelStream(end, id) EXCEPT !.ctxs = Restrict(@, DOMAIN @ \ {id})]
        /\ req' = IF id \notin DOMAIN end.ctxs \/ req[f].pc # "waiting" THEN req
                  ELSE IF ~s.ended THEN DoRsp(f, "rst_stream", None)
                  ELSE DoRsp(f, "ok", IF s.headers = <<>> THEN None ELSE s.headers[1])

\* doRecv of the client, up to getStream: frames of a stream it does not know are
\* dropped, even though their headers would have changed the table and their data
\* the windows.
CliRead ==
    /\ ~crashed
    /\ toCli # <<>>
    /\ cli.held = None
    /\ "cli" \notin adding
    /\ adding' = IF Adds(cli, Head(toCli)) THEN adding \union {"cli"} ELSE adding
    /\ LET f == Head(toCli)
       IN  \/ /\ f.t = "WINDOW_UPDATE"
              /\ cli' = handleWindowUpdate(cli, f)
              /\ goaways' = goaways \union windowError(cli, f)
              /\ toCli' = Tail(toCli)
              /\ UNCHANGED skipped
           \/ /\ f.t # "WINDOW_UPDATE" /\ ~Exists(cli, f.id)
              /\ skipped' = (skipped \/ f.t # "RST_STREAM")
              /\ toCli' = Tail(toCli)
              /\ UNCHANGED <<cli, goaways>>
           \/ /\ f.t # "WINDOW_UPDATE" /\ Exists(cli, f.id)
              /\ cli' = [cli EXCEPT !.held = "in"]
              /\ UNCHANGED <<toCli, goaways, skipped>>
    /\ UNCHANGED <<srv, queue, toSrv, req, connects, refused, misread, timeouts, lost, crashed>>

\* The rest of doRecv.  END_STREAM makes getDataBody empty m_data, and the null
\* frame that close() puts there is dereferenced: delStream or clear() has run
\* between getStream and here, or before the stream was used at all.
CliHandle ==
    /\ cli.held = "in"
    /\ LET f    == Head(toCli)
           data == handleRecvData(cli, f)
           end  == [handleFrame(IF f.t = "DATA" THEN data.end ELSE cli, f) EXCEPT !.held = None]
       IN  /\ toCli' = Tail(toCli)
           /\ queue' = IF f.t = "DATA" THEN queue \o data.out ELSE queue
           /\ crashed' = (f.end /\ cli.streams[f.id].null)
           /\ misread' = (misread \/ Garbled(f.block) # {})
           /\ IF end.streams[f.id].state = "CLOSED" THEN CliClose(end, f.id)
              ELSE cli' = end /\ UNCHANGED req
    /\ UNCHANGED <<srv, toSrv, connects, adding, refused, skipped, goaways, timeouts, lost>>

\* The same for a stream that onTimeOut has deleted meanwhile: nobody waits for it,
\* but its headers are parsed and its end is deadly.  (DATA ends the stream here.)
CliHandleDeleted ==
    /\ cli.held = "out"
    /\ LET f == Head(toCli)
       IN  /\ toCli' = Tail(toCli)
           /\ crashed' = f.end
           /\ misread' = (misread \/ Garbled(f.block) # {})
           /\ cli' = [cli EXCEPT !.held = None, !.recvTable = parse(@, f.block).table]
    /\ UNCHANGED <<srv, queue, toSrv, req, connects, adding, refused, skipped, goaways, timeouts, lost>>

\* listExpiredCb takes the request's timer.
Due(f) ==
    /\ ~crashed
    /\ req[f].timer = "armed"
    /\ req' = [req EXCEPT ![f].timer = "due"]
    /\ UNCHANGED <<cli, srv, queue, toSrv, toCli, connects, adding, history, crashed>>

\* onTimeOut: whoever is filed under the number is forgotten, the fiber of the
\* timer is scheduled unless it was, and the stream under the number is deleted.
OnTimeOut(f) ==
    /\ ~crashed
    /\ req[f].timer = "due"
    /\ req' = [(IF req[f].pc = "waiting" THEN DoRsp(f, "timeout", None) ELSE req)
                  EXCEPT ![f].timer = "off"]
    /\ cli' = [DelStream(cli, req[f].sn) EXCEPT
                  !.ctxs = Restrict(@, DOMAIN @ \ {req[f].sn}),
                  !.held = IF @ = "in" /\ Head(toCli).id = req[f].sn THEN "out" ELSE @]
    /\ timeouts' = TRUE
    /\ UNCHANGED <<srv, queue, toSrv, toCli, connects, adding, refused, skipped, misread, goaways, lost, crashed>>

\* The connection is lost and made again (innerClose, start, reset and the
\* handshake) once doRead and doWrite are through: the requests that are filed
\* fail, numbers and tables start anew, m_streamMgr.clear() closes the streams
\* without removing them, and the handshake moves their windows by the difference
\* of the settings.
Reconnect ==
    /\ ~crashed
    /\ connects < MaxConnects
    /\ cli.held = None
    /\ "cli" \notin adding
    /\ adding' = {}
    /\ connects' = connects + 1
    /\ LET failed == {f \in Fibers : req[f].pc = "waiting" /\ f \in Range(cli.ctxs)}
       IN  req' = [f \in Fibers |-> IF f \in failed THEN DoRsp(f, "io_error", None)[f] ELSE req[f]]
    /\ cli' = [Client EXCEPT !.streams =
                  [id \in DOMAIN cli.streams |->
                      [cli.streams[id] EXCEPT !.null = TRUE, !.recv = @ + CLIENT_WINDOW - DEFAULT_WINDOW]]]
    /\ srv' = Server
    /\ queue' = <<>>
    /\ toSrv' = <<>>
    /\ toCli' = <<>>
    /\ refused' = {}
    /\ UNCHANGED <<skipped, misread, goaways, timeouts, lost, crashed>>

-----------------------------------------------------------------------------
(* The server: doRecv, Http2Session::onStreamClose and handleRequest.      *)

\* Mutant of Refused: the later frames of a known stream are refused as well.
RefusedKnown(id) == id <= srv.sn

\* A new stream must have a number above the last one's.
Refused(id) == ~Exists(srv, id) /\ id <= srv.sn

\* doRecv of the server: a number that is not above the last one is refused, with
\* an RST_STREAM for the last one; a closed stream's request is handed to a worker.
SrvRead ==
    /\ toSrv # <<>>
    /\ "srv" \notin adding
    /\ toSrv' = Tail(toSrv)
    /\ adding' = IF Adds(srv, Head(toSrv)) THEN adding \union {"srv"} ELSE adding
    /\ LET f     == Head(toSrv)
           known == IF Exists(srv, f.id) THEN srv
                    ELSE AddStream([srv EXCEPT !.sn = f.id], f.id, Stream(DEFAULT_WINDOW, CLIENT_WINDOW, None))
           data  == handleRecvData(known, f)
           end   == handleFrame(IF f.t = "DATA" THEN data.end ELSE known, f)
       IN  CASE f.t = "WINDOW_UPDATE" ->
                   /\ srv' = handleWindowUpdate(srv, f)
                   /\ goaways' = goaways \union windowError(srv, f)
                   /\ UNCHANGED <<toCli, refused, skipped, misread>>
             [] f.t # "WINDOW_UPDATE" /\ Refused(f.id) ->
                   /\ toCli' = Append(toCli, RST_STREAM(srv.sn))
                   /\ refused' = refused \union {f.id}
                   /\ skipped' = TRUE
                   /\ UNCHANGED <<srv, misread, goaways>>
             [] OTHER ->
                   /\ toCli' = IF f.t = "DATA" THEN toCli \o data.out ELSE toCli
                   /\ srv' = IF end.streams[f.id].state = "CLOSED" /\ end.streams[f.id].handled = "no"
                             THEN [end EXCEPT !.streams[f.id].handled = "scheduled"] ELSE end
                   /\ misread' = (misread \/ Garbled(f.block) # {})
                   /\ UNCHANGED <<refused, skipped, goaways>>
    /\ UNCHANGED <<cli, queue, req, connects, timeouts, lost, crashed>>

\* Mutant of Respond: the last frame does not end the stream.
RespondOpen(id) ==
    /\ Exists(srv, id) /\ srv.streams[id].handled = "scheduled"
    /\ LET p == pack(srv.sendTable, <<srv.streams[id].headers[1]>>)
       IN  /\ toCli' = Append(toCli, HEADERS(id, p.block, FALSE))
           /\ srv' = [srv EXCEPT !.sendTable = p.table, !.streams[id].handled = "responded"]
    /\ UNCHANGED <<cli, queue, toSrv, req, connects, adding, history, crashed>>

\* handleRequest up to the end of sendResponse: the frames are queued in one go,
\* and packed by the writer in the order of the queue.
Respond(id) ==
    /\ Exists(srv, id) /\ srv.streams[id].handled = "scheduled"
    /\ LET s == srv.streams[id]
           p == pack(srv.sendTable, <<s.headers[1]>>)
       IN  /\ toCli' = toCli \o <<HEADERS(id, p.block, s.body = 0)>>
                             \o (IF s.body = 0 THEN <<>> ELSE <<DATA(id)>>)
           /\ srv' = [srv EXCEPT !.sendTable = p.table, !.streams[id].handled = "responded"]
    /\ UNCHANGED <<cli, queue, toSrv, req, connects, adding, history, crashed>>

\* The rest: the windows are charged and the stream is deleted.
SrvDone(id) ==
    /\ Exists(srv, id) /\ srv.streams[id].handled = "responded"
    /\ srv' = DelStream(IF srv.streams[id].body = 0 THEN srv
                        ELSE Charge(srv, id, None, "srv" \in adding), id)
    /\ lost' = (lost \/ (srv.streams[id].body # 0 /\ "srv" \in adding))
    /\ UNCHANGED <<cli, queue, toSrv, toCli, req, connects, adding, refused, skipped, misread, goaways,
                   timeouts, crashed>>

Next ==
    \/ \E f \in Fibers :
          \/ \E header \in Headers, body \in {0, 1} : NewStream(f, header, body)
          \/ Request(f) \/ Due(f) \/ OnTimeOut(f)
    \/ CliWrite \/ CliCharge \/ CliRead \/ CliHandle \/ CliHandleDeleted
    \/ SrvRead
    \/ \E id \in DOMAIN srv.streams : Respond(id) \/ SrvDone(id)
    \/ \E end \in adding : Added(end)
    \/ Reconnect

Spec == Init /\ [][Next]_vars

-----------------------------------------------------------------------------
\* Nobody else has the number of this request: reset() starts the numbers anew,
\* and a request that took its number before a reconnect still uses it after.
OwnNumber(f) == \A g \in Fibers \ {f} : req[g].sn # req[f].sn
OwnNumbers == \A f \in Fibers : req[f].sn > 0 => OwnNumber(f)

\* The compression tables of the two ends stay together: a request that is
\* answered gets back the header it sent, as long as its number is its own,
\* neither end dropped a frame of a stream it no longer or not yet knew (doRecv
\* returns before the headers are parsed, so one timed-out request spoils the
\* headers of the next ones), and neither read a header with a name or a value of
\* 255 bytes or more, whose length WriteVarInt writes in a way that ReadVarInt
\* does not read.
EchoesHeader ==
    \A f \in Fibers :
        req[f].result = "ok" /\ OwnNumber(f) /\ ~skipped /\ ~misread => req[f].got = req[f].header

\* A request fails with "rst_stream" only because another, started before it, was
\* queued after it and refused: the server resets the last stream it knows
\* instead of the one it refuses.  (Or two requests share a number.)
RstIsMisdirected ==
    [][\A f \in Fibers : req[f].result = None /\ req'[f].result = "rst_stream" =>
          ~OwnNumber(f) \/ \E id \in refused : id < req[f].sn]_vars

\* The WINDOW_UPDATE that one end is about to read would make it send a GOAWAY.
GoAway(end, wire, why) ==
    wire # <<>> /\ Head(wire).t = "WINDOW_UPDATE" /\ why \in windowError(end, Head(wire))

\* Every GOAWAY between two ends of this implementation has one of these reasons.  A
\* window overflows only when the DATA that is answered is not yet taken off it, when
\* that was in vain because the other thread was in its +=, or when a number is used
\* again after a reconnect; and a stream that a WINDOW_UPDATE does not find was
\* another's of the same number or that of a request that is over.
GoAwayHasCause ==
    /\ GoAway(cli, toCli, "overflow") \/ GoAway(srv, toSrv, "overflow") =>
          \/ cli.pending # None
          \/ lost
          \/ ~OwnNumbers
          \/ \E id \in DOMAIN srv.streams : srv.streams[id].handled = "responded"
    /\ \A f \in Fibers :
          \/ GoAway(cli, toCli, "no stream") /\ Head(toCli).id = req[f].sn
          \/ GoAway(srv, toSrv, "no stream") /\ Head(toSrv).id = req[f].sn
          => req[f].pc = "done" \/ ~OwnNumbers

\* Nothing is on the way and both ends wait for the other or for a timer.
Quiet ==
    /\ ~crashed
    /\ queue = <<>> /\ toSrv = <<>> /\ toCli = <<>> /\ cli.pending = None /\ adding = {}
    /\ \A id \in DOMAIN srv.streams : srv.streams[id].handled = "no"

\* What one end may send on the connection is what the other is ready to take,
\* when nothing is on the way, no frame was dropped, no WINDOW_UPDATE refused, no
\* number used twice and no charge lost to the other thread's +=.  (The server deletes
\* a stream with its response, so at rest the two ends have no stream in common.)
WindowsAgree ==
    Quiet /\ ~skipped /\ ~lost /\ "overflow" \notin goaways /\ OwnNumbers =>
        /\ cli.send = srv.recv
        /\ srv.send = cli.recv

\* No request is left to its timer: when everything has come to rest, a request
\* that still waits was refused, another timer deleted its stream, or the
\* connection was made anew after it had got its number.
NoneStranded ==
    Quiet => \A f \in Fibers :
        req[f].pc = "waiting" => req[f].sn \in refused \/ timeouts \/ connects > 1
=============================================================================
