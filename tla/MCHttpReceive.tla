---------------------------- MODULE MCHttpReceive ---------------------------
(***************************************************************************)
(* HttpReceive for TLC: requests and responses that between them have      *)
(* every part a message can have, two chunked responses, two with a        *)
(* Content-Length that is not one, and either nothing or the beginning of  *)
(* the next message behind them.                                           *)
(***************************************************************************)
EXTENDS HttpReceive

Get == [side |-> "request", method |-> UNLINK, path |-> <<"/", "g">>, query |-> << >>,
        fragment |-> << >>, version |-> V11, close |-> TRUE, websocket |-> FALSE,
        headers |-> << >>, body |-> << >>]
Ok == [side |-> "response", version |-> V11, status |-> <<"2", "0", "0">>, reason |-> <<"o", "k">>,
       close |-> FALSE, websocket |-> FALSE, headers |-> << >>, cookies |-> << >>, body |-> << >>]
Zipped == <<"OTHER", "o">>
mcUnpack(coding, t) == IF t = Zipped THEN <<"o", "k", "o", "k">> ELSE << >>
mcMessages ==
    {[Get EXCEPT !.query = <<"g", "(", "1">>, !.fragment = <<"a", "g">>, !.version = V10],
     [Get EXCEPT !.headers = << <<RequestWords.expect, RequestWords.continue>> >>, !.body = <<"1", "g">>, !.close = FALSE],
     [Get EXCEPT !.websocket = TRUE, !.query = <<"g">>, !.headers = << <<RequestWords.connection, <<"v">> >> >>],
     [Ok EXCEPT !.body = <<"o", "0", "1">>, !.headers = << <<ResponseWords.connection, <<"o">> >> >>],
     [Get EXCEPT !.method = M_SEARCH],
     [Ok EXCEPT !.headers = << <<ResponseWords.content_encoding, ResponseWords.gzip>> >>, !.body = Zipped],
     [Ok EXCEPT !.close = TRUE, !.cookies = << <<"a">>, <<"b">> >>],
     [Ok EXCEPT !.close = TRUE, !.version = V10, !.headers = << << <<"a">>, <<"b", "i">> >> >>]}
Chunked(more) ==
    [side |-> "raw", body |-> << >>,
     text |-> V11 \o <<"SP", "2", "0", "0", "SP", "o", "CR", "LF">> \o more \o
              <<"T", "r", "a", "n", "s", "f", "e", "r", "-", "e", "n", "c", "o", "d", "i", "n", "g",
                ":", "SP", "c", "h", "u", "n", "k", "e", "d", "CR", "LF", "CR", "LF",
                "2", "CR", "LF", "o", "k", "CR", "LF", "1", "CR", "LF", "a", "CR", "LF", "0", "CR", "LF", "CR", "LF">>]
\* A length that is no number, and one that is too large.
Sized(value) ==
    [side |-> "raw", body |-> << >>,
     text |-> V11 \o <<"SP", "2", "0", "0", "SP", "o", "CR", "LF">> \o ResponseWords.content_length
              \o <<":", "SP">> \o value \o CRLF \o CRLF]
mcRaw == {Chunked(<< >>), Chunked(ResponseWords.content_length \o <<":", "SP", "2", "CR", "LF">>),
          Sized(<<"2", "SP", "1">>), Sized(<<"3", "1">>)}
mcAfter == {<< >>, <<"G", "A", "T">>}
=============================================================================
