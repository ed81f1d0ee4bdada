------------------------- MODULE HttpClientGrammar --------------------------
(***************************************************************************)
(* The grammar in httpclient_parser.rl, rule by rule, over the character    *)
(* classes of HttpClientMachine: the head of a response, or the size line   *)
(* of a chunk.                                                              *)
(***************************************************************************)
EXTENDS HttpClientMachine, Regex

CRLF == Alt({Cat(<<Lit("CR"), Lit("LF")>>), Lit("LF")})

\* A word in either case: only h, p and t have a class of their own for each case.
Word(w) == Cat([i \in 1 .. Len(w) |-> IF w[i] = "h" THEN Ch({"h", "H"})
                                      ELSE IF w[i] = "t" THEN Ch({"t", "T"}) ELSE Lit(w[i])])

HTTP_Version == Cat(<<Lit("H"), Lit("T"), Lit("T"), Lit("P"), Lit("/"), Plus(Lit("0")), Lit("."),
                      Plus(Lit("0"))>>)
\* Reason_Phrase :> CRLF: from the second character on, the phrase ends where a CRLF can start.
Reason_Phrase == Cat(<<Ch(Text \cup {"CR"}), Star(Ch(Text))>>)
Status_Line == Cat(<<HTTP_Version, Lit("SP"), Plus(Lit("0")), Lit("SP"), Reason_Phrase, CRLF>>)

\* field_value :> CRLF, as in the status line
fields == Cat(<<Plus(Ch(Token)), Lit(":"), Star(Ch(Text)), CRLF>>)
content_length ==
    Cat(<<Word(<<"c", "o", "n", "t", "e", "n", "t", "-", "l", "e", "n", "g", "t", "h">>), Lit(":"),
          Star(Ch(Space)), Plus(Lit("0")), CRLF>>)
conn_close ==
    Cat(<<Word(<<"c", "o", "n", "n", "e", "c", "t", "i", "o", "n">>), Lit(":"),
          Star(Ch(Space)), Word(<<"c", "l", "o", "s", "e">>), CRLF>>)
transfer_encoding_chunked ==
    Cat(<<Word(<<"t", "r", "a", "n", "s", "f", "e", "r", "-", "e", "n", "c", "o", "d", "i", "n", "g">>),
          Lit(":"), Star(Ch(Space)), Word(<<"c", "h", "u", "n", "k", "e", "d">>), CRLF>>)
message_header == Alt({transfer_encoding_chunked, conn_close, content_length, fields})
Response == Cat(<<Status_Line, Star(message_header), CRLF>>)

chunk_extension ==
    Star(Cat(<<Lit(";"), Plus(Ch(Token)), Opt(Cat(<<Lit("="), Plus(Ch(Token))>>))>>))
Chunked_Header == Cat(<<Plus(Ch(Xdigit)), chunk_extension, CRLF>>)

http_response == {Response, Chunked_Header}
=============================================================================
