----------------------------- MODULE MCParsers ------------------------------
(***************************************************************************)
(* Two questions about the generated parsers: whether the machines are      *)
(* those of their grammar files, and what Uri::Create makes of a text.  A   *)
(* behaviour is about one of them.                                          *)
(***************************************************************************)
EXTENDS Uri, Grammars

VARIABLE focus

mcAlphabet == {"g", "1", "0", ":", "@", "/", "?", "#", "]"}
mcStarts == {<<"g", ":", "/", "/">>, <<"g", ":", "/", "g", "/", "?">>,
             <<"g", ":", "/", "/", ":", "1", "0">>, <<"g", ":", "/", "/", "[", ":", ":", "1">>}
mcWellKnown == <<<<"g">>, 10>>

MCInit ==
    \/ /\ focus = "grammar" /\ GrammarInit
       /\ text = << >> /\ room = 0 /\ cs = 0 /\ mark = NULL /\ uri = EmptyUri /\ ret = "idle"
    \/ /\ focus = "create" /\ Init
       /\ machine = "none" /\ state = 0 /\ rest = {} /\ uri_relaxed = FALSE

MCNext ==
    \/ focus = "grammar" /\ GrammarNext /\ UNCHANGED <<focus, vars>>
    \/ focus = "create" /\ Next /\ UNCHANGED <<focus, gvars>>

MCSpec == MCInit /\ [][MCNext]_<<focus, vars, gvars>>
=============================================================================
