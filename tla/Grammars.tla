------------------------------ MODULE Grammars ------------------------------
(***************************************************************************)
(* The three machines that are checked in as generated code, each next to   *)
(* the grammar file it was generated from.  A behaviour feeds one text, of  *)
(* any length, to a machine and to its grammar: `state' is the state the    *)
(* machine is in, `rest' what the grammar still expects.  There are         *)
(* finitely many pairs, so every text is covered.                           *)
(***************************************************************************)
EXTENDS Integers, Sequences

Uri      == INSTANCE UriGrammar
Request  == INSTANCE HttpRequestGrammar
Response == INSTANCE HttpClientGrammar

VARIABLES machine,      \* the machine that reads the text: "uri", "request" or "response"
          state,        \* its cs
          rest,         \* the derivatives of its grammar by the text read so far
          uri_relaxed   \* http_parser.uri_relaxed, which http_parser_init leaves uninitialised

gvars == <<machine, state, rest, uri_relaxed>>

Machines == {"uri", "request", "response"}

GrammarInit ==
    /\ machine \in Machines
    /\ uri_relaxed \in IF machine = "request" THEN BOOLEAN ELSE {FALSE}
    /\ state = CASE machine = "uri"      -> Uri!uri_parser_start
                 [] machine = "request"  -> Request!http_parser_start
                 [] machine = "response" -> Response!httpclient_parser_start
    /\ rest = CASE machine = "uri"      -> Uri!URI_reference
                [] machine = "request"  -> Request!http_request
                [] machine = "response" -> Response!http_response

ReadUri(c) ==
    /\ machine = "uri" /\ state # 0
    /\ state' = Uri!OnChar(Uri!UriTable, state, c).to
    /\ rest' = UNION {Uri!After(r, c) : r \in rest}
    /\ UNCHANGED <<machine, uri_relaxed>>

\* The grammar takes one of { } ^ for a delimiter of a URI under the same condition as the machine.
ReadRequest(c) ==
    /\ machine = "request" /\ state # 0
    /\ state' = Request!OnChar(Request!RequestTable, state,
                               Request!Widen(Request!RequestTable[state], c, uri_relaxed)).to
    /\ rest' = UNION {Request!After(r, x) : r \in rest,
                      x \in {c} \cup (IF uri_relaxed /\ c \in Request!more_delims THEN {"RX"} ELSE {})}
    /\ UNCHANGED <<machine, uri_relaxed>>

ReadResponse(c) ==
    /\ machine = "response" /\ state # 0
    /\ state' = Response!OnChar(Response!ClientTable, state, c).to
    /\ rest' = UNION {Response!After(r, c) : r \in rest}
    /\ UNCHANGED <<machine, uri_relaxed>>

GrammarNext ==
    \/ \E c \in Uri!Chars : ReadUri(c)
    \/ \E c \in Request!AnyChar : ReadRequest(c)
    \/ \E c \in Response!Chars : ReadResponse(c)

-----------------------------------------------------------------------------
first_final ==
    CASE machine = "uri"      -> Uri!uri_parser_first_final
      [] machine = "request"  -> Request!http_parser_first_final
      [] machine = "response" -> Response!httpclient_parser_first_final

\* uri.cc, http11_parser.cc and httpclient_parser.cc are what their .rl files say: after every text
\* the machine is in a final state exactly when the grammar matches the text, and in the error
\* state exactly when the grammar matches no text that starts with it.
SameLanguage ==
    machine # "none" =>
        /\ state >= first_final <=> \E r \in rest : Uri!Nullable(r)
        /\ state = 0 <=> rest = {}
=============================================================================
