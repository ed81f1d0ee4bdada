-------------------------------- MODULE Uri --------------------------------
(***************************************************************************)
(* Uri::Create: it runs the generated machine over a text and collects the  *)
(* parts of the URI as the machine's actions meet them.  A part is kept as  *)
(* the characters between `mark' and the current position; NULL is a mark   *)
(* that is not set, and a part taken from a NULL mark is undefined          *)
(* behaviour (here: the outcome "fault").                                   *)
(*                                                                         *)
(* The text is chosen character by character: one of Starts and then up to *)
(* MaxText characters of Alphabet.  Digits stand for themselves.            *)
(***************************************************************************)
EXTENDS UriMachine, SequencesExt

CONSTANTS Alphabet,     \* the characters a text is made of
          Starts,     \* the texts a behaviour starts after
          MaxText,      \* bound: the characters after that
          WellKnown,    \* the scheme with a default port: <<scheme, port>> (http and 80 in uri.cc)
          IntBits       \* bound: the bits of an int, 32 in the build, half of those of a long

VARIABLES text,         \* the characters before p
          room,         \* how many more the text may have
          cs, mark,     \* the locals of Create
          uri,          \* the Uri under construction
          ret           \* "run", then "uri", "nullptr" or "fault"

vars == <<text, room, cs, mark, uri, ret>>

NULL == 0

EmptyUri == [scheme |-> << >>, userinfo |-> << >>, host |-> << >>, port |-> 0,
             path |-> << >>, query |-> << >>, fragment |-> << >>]

DigitValue == [d \in Digit |-> CASE d = "0" -> 0 [] d = "1" -> 1 [] d = "2" -> 2
                                 [] d = "3" -> 3 [] d = "5" -> 5 [] d = "6" -> 6]
RECURSIVE Decimal(_)
Decimal(ds) == IF ds = << >> THEN 0 ELSE 10 * Decimal(Front(ds)) + DigitValue[Last(ds)]

\* The largest int, and the largest long.
IntMax == 2^(IntBits - 1) - 1
LongMax == 2^(2 * IntBits - 1) - 1

\* strtol, which stops at the largest long, cut to an int.
atoi(ds) ==
    LET long == IF Decimal(ds) > LongMax THEN LongMax ELSE Decimal(ds)
        low  == long % 2^IntBits
    IN IF low > IntMax THEN low - 2^IntBits ELSE low

\* Mutant of save_host: the mark is cleared, as the other actions do.
save_hostClears(st, part) == [st EXCEPT !.uri.host = part, !.mark = NULL]

\* save_host leaves the mark: a userinfo may still turn out to start there.
save_host(st, part) == [st EXCEPT !.uri.host = part]

\* Mutant of markh: the start of the host is not marked.
markhNot(st, t) == st
markh(st, t) == [st EXCEPT !.mark = Len(t) + 1]

\* One action of the grammar, run when p has reached the end of t: it reads and sets the mark and
\* the parts of the URI in st.
Act(t, st, a) ==
    LET part == SubSeq(t, st.mark, Len(t))
        keep(field, v) == [st EXCEPT !.uri[field] = v, !.mark = NULL]
        fault == [st EXCEPT !.fault = TRUE]
    IN CASE a = "marku" -> [st EXCEPT !.mark = Len(t) + 1]
         [] a = "markh" -> markh(st, t)
         [] a = "save_scheme"   -> IF st.mark = NULL THEN fault ELSE keep("scheme", part)
         [] a = "save_path"     -> IF st.mark = NULL THEN fault ELSE keep("path", part)
         [] a = "save_query"    -> IF st.mark = NULL THEN fault ELSE keep("query", part)
         [] a = "save_fragment" -> IF st.mark = NULL THEN fault ELSE keep("fragment", part)
         [] a = "save_port"     -> IF st.mark = NULL THEN fault
                                   ELSE IF part = << >> THEN [st EXCEPT !.mark = NULL]
                                   ELSE keep("port", atoi(part))
         [] a = "save_userinfo" -> IF st.mark = NULL THEN st ELSE keep("userinfo", part)
         [] a = "save_host"     -> IF st.mark = NULL THEN st ELSE save_host(st, part)

RECURSIVE Acts(_, _, _)
Acts(t, st, as) == IF as = << >> THEN st ELSE Acts(t, Act(t, st, Head(as)), Tail(as))

\* The machine reads the character c.
Read(t, st, c) ==
    LET tr == OnChar(UriTable, st.cs, c) IN [Acts(t, st, tr.do) EXCEPT !.cs = tr.to]

\* The machine has read the whole text.
AtEof(t, st) ==
    IF st.cs \in DOMAIN EofActions THEN Acts(t, st, EofActions[st.cs]) ELSE st

Start == [cs |-> uri_parser_start, mark |-> NULL, uri |-> EmptyUri, fault |-> FALSE]

\* All the text at once: the state of Create after its first n characters.
RECURSIVE Parse(_, _)
Parse(t, n) == IF n = 0 THEN Start ELSE Read(SubSeq(t, 1, n - 1), Parse(t, n - 1), t[n])
Create(t) == LET st == AtEof(t, Parse(t, Len(t))) IN [uri |-> st.uri, ok |-> st.cs >= uri_parser_first_final]

Local == [cs |-> cs, mark |-> mark, uri |-> uri, fault |-> ret = "fault"]

Init ==
    \E t \in Starts :
        LET st == Parse(t, Len(t)) IN
            /\ text = t /\ room = MaxText /\ cs = st.cs /\ mark = st.mark /\ uri = st.uri
            /\ ret = "run"

\* ++p: the machine reads one more character.  In the error state it stops where it is.
ReadChar(c) ==
    /\ ret = "run" /\ cs # st0 /\ room > 0
    /\ LET st == Read(text, Local, c) IN
           /\ cs' = st.cs /\ mark' = st.mark /\ uri' = st.uri
           /\ ret' = IF st.fault THEN "fault" ELSE "run"
    /\ text' = Append(text, c) /\ room' = room - 1

\* p = pe: the EOF actions run, and the state decides what Create returns.
Finish ==
    /\ ret = "run"
    /\ LET st == AtEof(text, Local) IN
           /\ mark' = st.mark /\ uri' = st.uri
           /\ ret' = IF st.fault THEN "fault"
                     ELSE IF cs >= uri_parser_first_final THEN "uri" ELSE "nullptr"
    /\ UNCHANGED <<text, room, cs>>

Next == Finish \/ \E c \in Alphabet : ReadChar(c)

Spec == Init /\ [][Next]_vars
-----------------------------------------------------------------------------
(* The accessors and the text of a Uri. *)

\* Mutant of isDefaultPort: the port is not compared.
isDefaultPortScheme(u) == u.port = 0 \/ u.scheme = WellKnown[1]
isDefaultPort(u) ==
    u.port = 0 \/ (u.scheme = WellKnown[1] /\ u.port = WellKnown[2])

getPath(u) == IF u.path = << >> THEN <<"/">> ELSE u.path

getPort(u) ==
    IF u.port # 0 THEN u.port ELSE IF u.scheme = WellKnown[1] THEN WellKnown[2] ELSE 0

\* std::to_string of a port of at most nine digits.  "+" is also the class of the minus sign, and
\* what follows that sign is left out: no port begins with it.
DigitOf(n) == CHOOSE d \in Digit : DigitValue[d] = n
PortText(n) ==
    IF n < 0 THEN <<"+">>
    ELSE LET digits == SelectSeq([i \in 1 .. 9 |-> <<n \div 10^(9 - i), (n \div 10^(9 - i)) % 10>>],
                                 LAMBDA q : q[1] > 0)
         IN [i \in 1 .. Len(digits) |-> DigitOf(digits[i][2])]

dump(u) ==
    LET unless(empty, t) == IF empty THEN << >> ELSE t
    IN u.scheme \o <<":", "/", "/">>
       \o u.userinfo \o unless(u.userinfo = << >>, <<"@">>)
       \o u.host \o unless(isDefaultPort(u), <<":">> \o PortText(u.port))
       \o getPath(u)
       \o unless(u.query = << >>, <<"?">>) \o u.query
       \o unless(u.fragment = << >>, <<"#">>) \o u.fragment
-----------------------------------------------------------------------------
(* The parts of a URI as RFC 3986 (appendix B) cuts it, without a grammar. *)

\* The first position of t from i on that holds one of S, or Len(t) + 1.
FirstOf(t, i, S) ==
    LET at == {j \in i .. Len(t) : t[j] \in S}
    IN IF at = {} THEN Len(t) + 1 ELSE CHOOSE j \in at : \A k \in at : j <= k

\* The parts of scheme://authority path?query#fragment
Cut(t) ==
    LET colon == FirstOf(t, 1, {":"})
        auth  == colon + 3
        path  == FirstOf(t, auth, {"/", "?", "#"})
        ask   == FirstOf(t, path, {"?", "#"})
        hash  == FirstOf(t, path, {"#"})
        at    == FirstOf(SubSeq(t, 1, path - 1), auth, {"@"})
        host  == IF at = path THEN auth ELSE at + 1
        close == FirstOf(SubSeq(t, 1, path - 1), host, {"]"})
        port  == FirstOf(SubSeq(t, 1, path - 1),
                         IF close = path THEN host ELSE close, {":"})
    IN [scheme |-> SubSeq(t, 1, colon - 1),
        userinfo |-> IF at = path THEN << >> ELSE SubSeq(t, auth, at - 1),
        host |-> SubSeq(t, host, port - 1),
        port |-> Decimal(SubSeq(t, port + 1, path - 1)),
        path |-> SubSeq(t, path, ask - 1),
        query |-> IF ask < hash THEN SubSeq(t, ask + 1, hash - 1) ELSE << >>,
        fragment |-> SubSeq(t, hash + 1, Len(t))]

\* scheme "://" at the start of t
HasAuthority(t) ==
    LET colon == FirstOf(t, 1, {":", "/", "?", "#"})
    IN colon > 1 /\ colon + 2 <= Len(t) /\ SubSeq(t, colon, colon + 2) = <<":", "/", "/">>
\* A userinfo in which the machine also sees a port.
LooksLikePort(u) == \E i \in 1 .. Len(u) - 1 : u[i] = ":" /\ u[i + 1] \in Digit

\* The authority of t ends with a colon: its port is empty.
EmptyPort(t) ==
    LET auth == FirstOf(t, 1, {":"}) + 3
        path == FirstOf(t, auth, {"/", "?", "#"})
    IN path > auth /\ t[path - 1] = ":"

\* An action takes a part of the text from a mark that an earlier one has cleared only behind an
\* empty port, at the end of the text or before "/", "?" or "#": save_port clears the mark, and
\* save_path, which runs after it, needs it.
FaultOnlyOnEmptyPort == ret = "fault" => HasAuthority(text) /\ EmptyPort(text)

\* The parts the actions collected from an absolute URI with an authority are the parts that RFC
\* 3986 gives the text.  There are two exceptions: a userinfo with a colon and a digit after it,
\* which the machine also takes for a port, and a port that is no int, of which atoi leaves the
\* low bits.
PartsAsCut ==
    (ret = "uri" /\ HasAuthority(text) /\ ~LooksLikePort(Cut(text).userinfo)) =>
        LET parts == Cut(text) IN
            /\ [uri EXCEPT !.port = 0] = [parts EXCEPT !.port = 0]
            /\ parts.port <= IntMax => uri.port = parts.port

\* toString of a parsed URI with a scheme is again a URI, with the same parts, even where the text
\* itself had parts that were dropped or written another way (the path of a URI without an
\* authority, a default port, an empty query, a port that was cut to an int).  The exception is a
\* port that came out negative: toString writes the sign, and the text is refused.
DumpParsesBack ==
    (ret = "uri" /\ uri.scheme # << >> /\ ~LooksLikePort(uri.userinfo)) =>
        LET again == Create(dump(uri)) IN
            /\ again.ok <=> uri.port >= 0
            /\ again.ok =>
                  /\ \A f \in {"scheme", "userinfo", "host", "query", "fragment"} : again.uri[f] = uri[f]
                  /\ getPath(again.uri) = getPath(uri) /\ getPort(again.uri) = getPort(uri)
=============================================================================
