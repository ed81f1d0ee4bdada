----------------------------- MODULE HttpReceive -----------------------------
(***************************************************************************)
(* One HTTP/1.1 message on its way: the text that HttpRequest::dump or      *)
(* HttpResponse::dump writes, and HttpSession::recvRequest or               *)
(* HttpConnection::recvResponse at the other end, which get that text in    *)
(* as many reads as the network makes of it.  Each read is handed to the    *)
(* generated machine, which keeps its state, but not its marks, from one    *)
(* read to the next.                                                        *)
(*                                                                         *)
(* A message is in classes of characters of the machine that reads it (a    *)
(* digit is itself).  Positions count from 0 as in the code.  What is in    *)
(* the buffer is always the last len characters before pos.                 *)
(***************************************************************************)
EXTENDS Integers, FiniteSets, SequencesExt

CONSTANTS Messages,     \* the messages that may be sent
          Raw,          \* texts that no dump of the repository makes (another server's)
          After,        \* what the peer sends behind the message
          BuffSize,     \* http.request.buffer_size, http.response.buffer_size
          MaxLength,    \* the largest int64_t
          MaxCuts,      \* bound: how often a read may end before all that has been sent
          Unpack(_, _)  \* what ZlibStream makes of a text in a content coding

VARIABLES msg,          \* the message, or the raw text
          text,         \* all the characters that will arrive
          pos,          \* how many have been read
          cuts,         \* where a read ended
          len,          \* offset, later len: the characters left in the buffer
          parser,       \* m_parser, m_data and m_error
          client,       \* client_parser, the copy that recvResponse works from
          begin, left,  \* the locals of the chunk loop; left is also that of readFixSize
          body,
          pc, ret

vars == <<msg, text, pos, cuts, len, parser, client, begin, left, body, pc, ret>>

Request  == INSTANCE HttpRequestMachine
Response == INSTANCE HttpClientMachine

Digits == [d \in {"0", "1", "2", "3"} |-> CASE d = "0" -> 0 [] d = "1" -> 1 [] d = "2" -> 2 [] d = "3" -> 3]
CRLF == <<"CR", "LF">>
SP == <<"SP">>

-----------------------------------------------------------------------------
(* The words of the protocol, in the classes of each machine. *)

V11 == <<"H", "T", "T", "P", "/", "1", ".", "1">>
V10 == <<"H", "T", "T", "P", "/", "1", ".", "0">>

\* In a request every word is only a token: short ones stand for them.
RequestWords ==
    [connection |-> <<"g", "a">>, keep_alive |-> <<"g">>, close |-> <<"a">>,
     content_length |-> <<"a", "-", "g">>, expect |-> <<"v">>, continue |-> <<"1">>]

\* The machine that reads responses spells these out.
ResponseWords ==
    [connection |-> <<"c", "o", "n", "n", "e", "c", "t", "i", "o", "n">>,
     keep_alive |-> <<"k", "e", "-">>, close |-> <<"c", "l", "o", "s", "e">>,
     content_length |-> <<"c", "o", "n", "t", "e", "n", "t", "-", "l", "e", "n", "g", "t", "h">>,
     content_encoding |-> <<"c", "o", "n", "t", "e", "n", "t", "-", "e", "n", "c", "o", "d", "i", "n", "g">>,
     gzip |-> <<"g", "i">>, deflate |-> <<"d", "e">>, set_cookie |-> <<"s", "e", "t">>]

Words(m) == IF m.side = "request" THEN RequestWords ELSE ResponseWords

\* Three of the methods of http.h: two names of which one ends like the other, and one
\* with a hyphen.
UNLINK   == <<"G", "A", "T">>
LINK     == <<"A", "T">>
M_SEARCH == <<"A", "-", "T">>
Methods  == {UNLINK, LINK, M_SEARCH}

-----------------------------------------------------------------------------
(* What the sender writes: pieces of text, each with the part of the message it carries. *)

Piece(part, t) == [part |-> part, text |-> t]
Mark(t) == Piece("", t)
Header(name, value) == [part |-> "header", text |-> name \o <<":">> \o SP \o value, name |-> name,
                        value |-> value]
Line(name, value) == <<Header(name, value), Mark(CRLF)>>
Unless(empty, s) == IF empty THEN << >> ELSE s
DigitText(n) == <<CHOOSE d \in DOMAIN Digits : Digits[d] = n>>
ConnectionLine(m) ==
    Line(Words(m).connection, IF m.close THEN Words(m).close ELSE Words(m).keep_alive)
HasLength(m) == \E i \in DOMAIN m.headers : m.headers[i][1] = Words(m).content_length
BodyLines(m) ==
    Unless(m.body = << >> \/ (m.side = "response" /\ HasLength(m)),
           Line(Words(m).content_length, DigitText(Len(m.body))))
    \o <<Mark(CRLF)>>

\* The lines of m_headers, but for those that dump writes itself.
HeaderLines(m) ==
    LET others == SelectSeq(m.headers, LAMBDA h : /\ m.websocket \/ h[1] # Words(m).connection
                                                  /\ m.side = "response" \/ h[1] # Words(m).content_length)
    IN FlattenSeq([i \in DOMAIN others |-> Line(others[i][1], others[i][2])])

RequestDump(m) ==
    <<Piece("method", m.method), Mark(SP), Piece("path", m.path)>>
    \o Unless(m.query = << >>, <<Mark(<<"?">>), Piece("query", m.query)>>)
    \o Unless(m.fragment = << >>, <<Mark(<<"#">>), Piece("fragment", m.fragment)>>)
    \o <<Mark(SP), Piece("version", m.version), Mark(CRLF)>>
    \o Unless(m.websocket, ConnectionLine(m))
    \o HeaderLines(m)
    \o BodyLines(m)

ResponseDump(m) ==
    <<Piece("version", m.version), Mark(SP), Piece("status", m.status), Mark(SP),
      Piece("reason", m.reason), Mark(CRLF)>>
    \o HeaderLines(m)
    \o FlattenSeq([i \in DOMAIN m.cookies |-> Line(ResponseWords.set_cookie, m.cookies[i])])
    \o Unless(m.websocket, ConnectionLine(m))
    \o BodyLines(m)

Pieces(m) == CASE m.side = "request" -> RequestDump(m) [] m.side = "response" -> ResponseDump(m)
               [] m.side = "raw" -> <<Mark(m.text)>>

HeadText(m) == FlattenSeq([i \in DOMAIN Pieces(m) |-> Pieces(m)[i].text])
\* toString()
TextOf(m) == HeadText(m) \o m.body

-----------------------------------------------------------------------------
(* The parser: the machine and the callbacks of http_parser.cc. *)

Empty == [f \in {} |-> << >>]

\* httpclient_parser_init, http_parser_init: everything but the message under construction
\* (query_start is not set at all).
Reinit(p) == [p EXCEPT !.cs = 1, !.mark = 0, !.field_start = 0, !.field_len = 0,
                       !.content_len = -1, !.chunked = FALSE, !.chunks_done = FALSE]

Fresh == [cs |-> 1, mark |-> 0, field_start |-> 0, field_len |-> 0, query_start |-> 0,
          content_len |-> -1, chunked |-> FALSE, chunks_done |-> FALSE, error |-> FALSE, thrown |-> FALSE,
          nread |-> 0, stop |-> FALSE,
          data |-> [method |-> UNLINK, path |-> <<"/">>, query |-> << >>, fragment |-> << >>,
                    version |-> V11, status |-> 200, reason |-> << >>, headers |-> Empty,
                    close |-> TRUE, body |-> << >>]]

\* strtol: white space, then digits
strtol(t, base) ==
    LET from == SelectInSeq(t, LAMBDA c : c \notin {"SP", "TAB", "CR", "LF"})
        rest == IF from = 0 THEN << >> ELSE SubSeq(t, from, Len(t))
        stop == SelectInSeq(rest, LAMBDA c : c \notin DOMAIN Digits)
        ds == IF stop = 0 THEN rest ELSE SubSeq(rest, 1, stop - 1)
        value[n \in 0 .. Len(ds)] == IF n = 0 THEN 0 ELSE base * value[n - 1] + Digits[ds[n]]
    IN  value[Len(ds)]

\* boost::lexical_cast<uint64_t> in getHeaderAs, kept in an int64_t that is compared with 0: nothing but
\* digits, or it is 0; so is, to the callers, what does not fit.  (A sign is not modelled.)
lexical_cast(t) ==
    IF t # << >> /\ (\A i \in DOMAIN t : t[i] \in DOMAIN Digits) /\ strtol(t, 10) <= MaxLength
    THEN strtol(t, 10) ELSE 0

\* std::string(buffer + from, n) in a buffer buf; a length below 0 is an enormous size_t.
Keep(st, field, buf, from, n) ==
    IF n < 0 THEN [st EXCEPT !.thrown = TRUE]
    ELSE [st EXCEPT !.data[field] = SubSeq(buf, from + 1, from + n)]

\* on_request_method: the method that the characters at the mark begin with
on_request_method(st, buf) ==
    LET found == {m \in Methods : IsPrefix(m, SubSeq(buf, st.mark + 1, Len(buf)))}
    IN IF found # {} THEN [st EXCEPT !.data.method = CHOOSE m \in found : TRUE]
       ELSE [st EXCEPT !.error = TRUE]

\* Mutant of on_version: version 1.0 is not known.
on_version11(st, buf, p) ==
    IF IsPrefix(SubSeq(buf, st.mark + 1, p), V11) THEN [st EXCEPT !.data.version = V11]
    ELSE [st EXCEPT !.error = TRUE]

\* on_request_version, on_response_version: strncmp(at, "HTTP/1.1", length)
on_version(st, buf, p) ==
    LET at == SubSeq(buf, st.mark + 1, p)
    IN CASE IsPrefix(at, V11) -> [st EXCEPT !.data.version = V11]
         [] IsPrefix(at, V10) /\ ~IsPrefix(at, V11) -> [st EXCEPT !.data.version = V10]
         [] OTHER -> [st EXCEPT !.error = TRUE]

\* on_request_http_field, on_response_http_field: a name of length 0 is dropped
on_http_field(st, buf, p) ==
    LET name == SubSeq(buf, st.field_start + 1, st.field_start + st.field_len)
        value == SubSeq(buf, st.mark + 1, p)
    IN IF st.field_len = 0 THEN st
       ELSE [st EXCEPT !.data.headers = [h \in DOMAIN @ \cup {name} |-> IF h = name THEN value ELSE @[h]]]

\* An action of the grammars, at the position p of the buffer.
Act(st, a, buf, p) ==
    LET at == SubSeq(buf, st.mark + 1, Len(buf)) IN
    CASE a \in {"mark", "start_value"} -> [st EXCEPT !.mark = p]
      [] a = "start_field"       -> [st EXCEPT !.field_start = p]
      [] a = "write_field"       -> [st EXCEPT !.field_len = p - st.field_start]
      [] a = "start_query"       -> [st EXCEPT !.query_start = p]
      [] a = "write_value"       -> on_http_field(st, buf, p)
      [] a = "request_method"    -> on_request_method(st, buf)
      [] a = "http_version"      -> on_version(st, buf, p)
      [] a = "request_path"      -> Keep(st, "path", buf, st.mark, p - st.mark)
      [] a = "fragment"          -> Keep(st, "fragment", buf, st.mark, p - st.mark)
      [] a = "query_string"      -> Keep(st, "query", buf, st.query_start, p - st.query_start)
      [] a = "reason_phrase"     -> Keep(st, "reason", buf, st.mark, p - st.mark)
      [] a = "status_code"       -> [st EXCEPT !.data.status = strtol(at, 10)]
      [] a = "write_content_len" -> [st EXCEPT !.content_len = strtol(at, 10)]
      [] a = "trans_chunked"     -> [st EXCEPT !.chunked = TRUE]
      [] a = "chunk_size"        -> [st EXCEPT !.chunked = TRUE, !.content_len = strtol(at, 16),
                                               !.chunks_done = strtol(at, 16) <= 0]
      [] OTHER -> st    \* request_uri, done, write_connection_close: nothing that is read later

Table(side) == IF side = "request" THEN Request!RequestTable ELSE Response!ClientTable
Class(side, c) == IF side # "request" /\ c \in DOMAIN Digits THEN "0" ELSE c

Acts(st, as, buf, p) ==
    LET done[n \in 0 .. Len(as)] == IF n = 0 THEN st ELSE Act(done[n - 1], as[n], buf, p)
    IN  done[Len(as)]

\* A transition is taken at the position p: fbreak, an exception and the error state end the machine.
Take(st, tr, p) ==
    [st EXCEPT !.cs = tr.to, !.nread = IF tr.to = 0 THEN p ELSE p + 1,
               !.stop = tr.to = 0 \/ st.thrown \/ "done" \in Range(tr.do)]
Follow(st, tr, buf, p) == Take(Acts(st, tr.do, buf, p), tr, p)

\* The character at the position p.
Step(side, st, buf, p) ==
    IF st.stop THEN st
    ELSE Follow(st, Response!OnChar(Table(side), st.cs, Class(side, buf[p + 1])), buf, p)

\* The machine over the whole buffer, as far as it goes.
Run(side, st, buf) ==
    LET after[p \in 0 .. Len(buf)] == IF p = 0 THEN st ELSE Step(side, after[p - 1], buf, p - 1)
    IN  after[Len(buf)]

\* http_parser_execute, httpclient_parser_execute on the whole buffer: the marks start at 0 again.
Execute(side, p, buf) ==
    Run(side, [p EXCEPT !.mark = 0, !.field_start = 0, !.field_len = 0, !.nread = 0, !.stop = FALSE], buf)

hasError(p) == p.error \/ p.cs = 0
\* The request's test takes every final state, the response's only the first of them.
isFinished(side, p) ==
    IF side = "request" THEN p.cs >= Request!http_parser_first_final
    ELSE p.cs = Response!httpclient_parser_first_final

getHeader(p, name) == IF name \in DOMAIN p.data.headers THEN p.data.headers[name] ELSE << >>

ASSUME ReceiveAssumption ==
    /\ \A m \in Messages \cup Raw, more \in After : TextOf(m) \o more \in Seq(STRING)
    /\ BuffSize \in Nat /\ MaxLength \in Nat /\ MaxCuts \in Nat
\* The tables of the machines are closed expressions: every transition has a list of actions.
ASSUME TablesAssumption ==
    \A side \in {"request", "response"} : \A cs \in DOMAIN Table(side) :
       \A c \in DOMAIN Table(side)[cs] : Table(side)[cs][c].do \in Seq(STRING)

-----------------------------------------------------------------------------
(* recvRequest and recvResponse *)

Side == IF msg.side = "request" THEN "request" ELSE "response"

Init ==
    /\ msg \in Messages \cup Raw
    /\ \E more \in After : text = TextOf(msg) \o more
    /\ pos = 0 /\ cuts = {} /\ len = 0
    /\ parser = Fresh /\ client = Fresh
    /\ begin = TRUE /\ left = 0 /\ body = << >>
    /\ pc = "head" /\ ret = "none"

\* A read of at most `most' characters into the buffer, or behind what is in it: n arrive.
Reads(n, most) ==
    /\ n <= most /\ pos + n <= Len(text)
    /\ Cardinality(cuts) < MaxCuts \/ n = most \/ pos + n = Len(text)
    /\ pos' = pos + n /\ cuts' = cuts \cup {pos + n}

\* The characters in the buffer once n more have arrived.
Buffer(n) == SubSeq(text, pos - len + 1, pos + n)

Return(v) == ret' = v /\ pc' = "done"

\* recvResponse undoes the content coding of a body that is not empty.
Decoded(coding, b) ==
    IF b # << >> /\ coding \in {ResponseWords.gzip, ResponseWords.deflate} THEN Unpack(coding, b) ELSE b

\* The end of both functions, with the body b: init() or initConnection().
Deliver(p, b) ==
    LET w == IF Side = "request" THEN RequestWords ELSE ResponseWords
        conn == getHeader(p, w.connection)
        plain == IF Side = "request" THEN b ELSE Decoded(getHeader(p, ResponseWords.content_encoding), b)
        close == IF conn = << >> THEN p.data.close
                 ELSE conn # w.keep_alive /\ (Side = "request" \/ p.data.version = V10)
    IN /\ parser' = [p EXCEPT !.data.close = close, !.data.body = plain]
       /\ Return("ok")

\* Mutant of Leftover: one character too many is taken for the head.
LeftoverLate(p, buf) == SubSeq(buf, p.nread + 2, Len(buf))

\* What memmove leaves in the buffer buf after execute.
Leftover(p, buf) == SubSeq(buf, p.nread + 1, Len(buf))

\* The Content-Length of the message that p has parsed.
ContentLength(p) ==
    lexical_cast(getHeader(p, (IF Side = "request" THEN RequestWords ELSE ResponseWords).content_length))

\* The head is complete: what is left in the buffer begins the body.
StartBody(p0) ==
    LET length == ContentLength(p0)
        \* Expect: 100-continue is answered and taken out of the headers
        p == IF Side = "request" /\ getHeader(p0, RequestWords.expect) = RequestWords.continue
             THEN [p0 EXCEPT !.data.headers = [h \in DOMAIN @ \ {RequestWords.expect} |-> @[h]]]
             ELSE p0
        have == Leftover(p, Buffer(pos' - pos))
        take == IF length > Len(have) THEN Len(have) ELSE length
    IN /\ client' = p
       /\ IF Side = "response" /\ p.chunked
          THEN /\ pc' = "chunk" /\ parser' = p
               /\ UNCHANGED <<left, body, ret>>
          ELSE /\ body' = SubSeq(have, 1, take)
               /\ left' = length - take
               /\ IF length > Len(have) THEN /\ pc' = "body" /\ parser' = p
                                            /\ UNCHANGED ret
                  ELSE Deliver(p, body')

\* What follows execute in the loop that reads the head: n characters came, p is the parser now.
Executed(n, p) ==
    /\ len' = len + n - p.nread
    /\ IF p.thrown \/ hasError(p) \/ len' = BuffSize
       THEN /\ Return(IF p.thrown THEN "throw" ELSE "bad")
            /\ parser' = p /\ UNCHANGED <<client, left, body>>
       ELSE IF isFinished(Side, p) THEN StartBody(p)
       ELSE parser' = p /\ UNCHANGED <<client, left, body, pc, ret>>

\* One turn of that loop.
ReadHead(n) ==
    /\ pc = "head" /\ Reads(n, BuffSize - len)
    /\ Executed(n, Execute(Side, parser, Buffer(n)))
    /\ UNCHANGED <<msg, text, begin>>

\* Mutant of Ask: a loop asks for as much as its buffer holds.
AskAlways == BuffSize

\* How much a loop that still needs `left' characters asks for.
Ask == IF left < BuffSize THEN left ELSE BuffSize

\* readFixSize(&body[len], length)
ReadBody(n) ==
    /\ pc = "body" /\ Reads(n, Ask)
    /\ body' = body \o SubSeq(text, pos + 1, pos + n)
    /\ left' = left - n
    /\ IF left' <= 0 THEN Deliver(parser, body') ELSE UNCHANGED <<parser, pc, ret>>
    /\ UNCHANGED <<msg, text, len, client, begin>>

\* One turn of the loop that reads the size line of a chunk: the parser starts anew every time.
\* Nothing is read before the first turn if the buffer holds something.
ReadChunkHead(n) ==
    /\ pc = "chunk"
    /\ IF begin /\ len > 0 THEN n = 0 /\ UNCHANGED <<pos, cuts>> ELSE n > 0 /\ Reads(n, BuffSize - len)
    /\ parser' = Execute(Side, Reinit(parser), Buffer(n))
    /\ len' = len + n - parser'.nread /\ begin' = FALSE
    /\ IF hasError(parser') \/ len' = BuffSize THEN Return("bad")
       ELSE pc' = (IF isFinished(Side, parser') THEN "data" ELSE "chunk") /\ UNCHANGED ret
    /\ UNCHANGED <<msg, text, client, left, body>>

\* The end of the loop over the chunks.
NextChunk(b) ==
    IF client.chunks_done THEN Deliver(parser, b) /\ UNCHANGED begin
    ELSE pc' = "chunk" /\ begin' = TRUE /\ UNCHANGED <<parser, ret>>

\* The data of a chunk as far as the buffer holds it.  A content_len of -1 is an enormous size_t.
TakeChunk ==
    /\ pc = "data"
    /\ IF client.content_len + 2 <= len
       THEN IF client.content_len < 0
            THEN Return("throw") /\ UNCHANGED <<len, left, body, begin, parser>>
            ELSE /\ body' = body \o SubSeq(Buffer(0), 1, client.content_len)
                 /\ len' = len - (client.content_len + 2) /\ UNCHANGED left
                 /\ NextChunk(body')
       ELSE /\ body' = body \o Buffer(0)
            /\ left' = client.content_len - len + 2
            /\ len' = 0 /\ pc' = "rest" /\ UNCHANGED <<begin, parser, ret>>
    /\ UNCHANGED <<msg, text, pos, cuts, client>>

\* The rest of the chunk and its CRLF, which is taken off the body again.
ReadChunkRest(n) ==
    /\ pc = "rest" /\ Reads(n, Ask)
    /\ LET b == body \o SubSeq(text, pos + 1, pos + n) IN
          IF left > n THEN body' = b /\ UNCHANGED <<pc, ret, begin, parser>>
          ELSE IF Len(b) < 2 THEN body' = b /\ Return("throw") /\ UNCHANGED <<begin, parser>>
          ELSE body' = SubSeq(b, 1, Len(b) - 2) /\ NextChunk(body')
    /\ left' = left - n
    /\ UNCHANGED <<msg, text, len, client>>

\* read returns 0 or -1: the connection was closed, timed out or was reset.
ReadFails ==
    /\ pc \in {"head", "body", "rest"} \/ (pc = "chunk" /\ (~begin \/ len = 0))
    /\ Return("closed")
    /\ UNCHANGED <<msg, text, pos, cuts, len, parser, client, begin, left, body>>

Next ==
    \/ \E n \in 1 .. Len(text) : ReadHead(n)
    \/ \E n \in 1 .. Len(text) : ReadBody(n)
    \/ \E n \in 0 .. Len(text) : ReadChunkHead(n)
    \/ TakeChunk
    \/ \E n \in 1 .. Len(text) : ReadChunkRest(n)
    \/ ReadFails

Spec == Init /\ [][Next]_vars
-----------------------------------------------------------------------------
\* The first position of the piece i of the message, and the first behind it.
From(i) == FoldLeft(LAMBDA n, j : n + Len(Pieces(msg)[j].text), 0, [j \in 1 .. i - 1 |-> j])
To(i) == From(i) + Len(Pieces(msg)[i].text)
\* No read ended within the piece i, or between it and the character that ends it.
Whole(i) == ~\E c \in cuts : From(i) < c /\ c <= To(i)
\* The pieces that carry the part f.
Carry(f) == {i \in DOMAIN Pieces(msg) : Pieces(msg)[i].part = f}

Sent(f) == IF f = "status" THEN strtol(msg.status, 10) ELSE msg[f]

\* Whatever the reads and the text: the body of a message that is not chunked has the length its
\* header gives and follows the head without a gap; and nothing behind it is taken from the socket
\* but what came with the end of the head (h is where the parser stopped, len what the buffer then held).
BodyFollowsHead ==
    (ret = "ok" /\ ~(Side = "response" /\ client.chunked)) =>
        /\ Len(body) = ContentLength(client)
        /\ \E h \in 0 .. pos :
              /\ h + Len(body) <= pos /\ body = SubSeq(text, h + 1, h + Len(body))
              /\ pos = h + Len(body) \/ h = pos - len

\* The last line with the header of the line i, and the value of a header in the message.
LastLine(i) == \A j \in Carry("header") : j > i => Pieces(msg)[j].name # Pieces(msg)[i].name
Coding(m) ==
    LET at == SelectInSeq(m.headers, LAMBDA h : h[1] = ResponseWords.content_encoding)
    IN IF m.side = "request" \/ at = 0 THEN << >> ELSE m.headers[at][2]


\* A message of the repository's own dump is refused only when a read cut its method or its version,
\* or when its method is M-SEARCH, which http.h lists and the grammar has no hyphen for: that one is
\* never accepted.  An exception leaves the function only when a read cut the query.
OnlyCutsFail ==
    msg.side # "raw" =>
        /\ ret = "bad" => \/ \E i \in Carry("method") \cup Carry("version") : ~Whole(i)
                          \/ msg.side = "request" /\ msg.method = M_SEARCH
        /\ ret = "ok" => ~(msg.side = "request" /\ msg.method = M_SEARCH)
        /\ ret = "throw" => \E i \in Carry("query") : ~Whole(i)

\* The characters behind the message stay in the socket for the next call, except those that came
\* with the end of the head.
NextMessageKept ==
    (ret = "ok" /\ msg.side # "raw" /\ pos > Len(TextOf(msg)) /\ \A i \in Carry("header") : Whole(i)) =>
        ~\E c \in cuts : Len(HeadText(msg)) <= c /\ c < pos

\* Every chunk is taken with the length its own size line states (http_connection.cc:88: "each
\* chunk starts with its length content_len in hexadecimal").
ChunkHasItsLength == pc = "data" => client.content_len = parser.content_len
=============================================================================
