------------------------- MODULE HttpRequestGrammar -------------------------
(***************************************************************************)
(* The grammar in http11_parser.rl, rule by rule, over the character        *)
(* classes of HttpRequestMachine and as Ragel reads it: "0" - "4" is a      *)
(* difference of two languages, not a range; an unquoted number is a byte,  *)
(* also where the rule was meant to repeat what follows it.                 *)
(* The class "RX" is one of { } ^ when parser->uri_relaxed is set.          *)
(***************************************************************************)
EXTENDS HttpRequestMachine, Regex

CRLF == Alt({Cat(<<Lit("CR"), Lit("LF")>>), Lit("LF")})

pct_encoded == Cat(<<Lit("%"), Ch(Xdigit), Ch(Xdigit)>>)
pchar == Alt({Ch(Plain), pct_encoded})
query == Star(Alt({pchar, Ch({"/", "?"})}))
fragment == query
segment_nz_nc == Plus(Alt({Ch(Name \cup {"@"}), pct_encoded}))
segment_nz == Plus(pchar)
path_abempty == Star(Cat(<<Lit("/"), Star(pchar)>>))
path_rootless == Cat(<<segment_nz, path_abempty>>)
path_noscheme == Cat(<<segment_nz_nc, path_abempty>>)
path_absolute == Cat(<<Lit("/"), Opt(path_rootless)>>)
reg_name == Star(Alt({Ch(Name), pct_encoded}))

\* "1" - "9" is "1"; "0" - "4" and "0" - "5" are "0".
dec_octet ==
    Alt({Ch(Digit), Cat(<<Lit("1"), Ch(Digit)>>), Cat(<<Lit("1"), Ch(Digit), Ch(Digit)>>),
         Cat(<<Lit("2"), Lit("0"), Ch(Digit)>>), Cat(<<Lit("2"), Lit("5"), Lit("0")>>)})
IPv4address == Cat(<<dec_octet, Lit("."), dec_octet, Lit("."), dec_octet, Lit("."), dec_octet>>)
h16 == UpTo(Ch(Xdigit), 4)
group == Cat(<<h16, Lit(":")>>)
ls32 == Alt({Cat(<<h16, Lit(":"), h16>>), IPv4address})

\* ((h16 ":"){n,} h16)? "::"
elided(n) == Cat(<<Opt(Cat(<<Times(group, n), Star(group), h16>>)), Lit(":"), Lit(":")>>)
IPv6address ==
    Alt({Cat(<<Lit("B6"), group, ls32>>),
         Cat(<<Lit(":"), Lit(":"), Lit("B5"), group, ls32>>),
         Cat(<<Opt(h16), Lit(":"), Lit(":"), Lit("B4"), group, ls32>>),
         Cat(<<elided(1), Lit("B3"), group, ls32>>),
         Cat(<<elided(2), Lit("B2"), group, ls32>>),
         Cat(<<elided(3), group, ls32>>),
         Cat(<<elided(4), ls32>>),
         Cat(<<elided(5), h16>>),
         elided(6)})
IPvFuture == Cat(<<Lit("v"), Plus(Ch(Xdigit)), Lit("."), Plus(Ch(Name \cup {":"}))>>)
IP_literal == Cat(<<Lit("["), Alt({IPv6address, IPvFuture}), Lit("]")>>)
host == Alt({IP_literal, IPv4address, reg_name})
userinfo == Star(Alt({Ch(Name \cup {":"}), pct_encoded}))
authority == Cat(<<Opt(Cat(<<userinfo, Lit("@")>>)), host, Opt(Cat(<<Lit(":"), Star(Ch(Digit))>>))>>)
scheme == Cat2(Ch(Alpha), Star(Ch(AlphaDigit \cup {"+", "-", "."})))
relative_part == Alt({Cat(<<Lit("/"), Lit("/"), authority, path_abempty>>),
                      path_absolute, path_noscheme, Eps})
hier_part == Alt({Cat(<<Lit("/"), Lit("/"), authority, path_abempty>>),
                  path_absolute, path_rootless, Eps})
suffix == Cat(<<Opt(Cat(<<Lit("?"), query>>)), Opt(Cat(<<Lit("#"), fragment>>))>>)
URI_reference == Alt({Cat(<<scheme, Lit(":"), hier_part, suffix>>), Cat(<<relative_part, suffix>>)})

Method == UpTo(Ch(Upper \cup Digit), 20)
HTTP_Version == Cat(<<Lit("H"), Lit("T"), Lit("T"), Lit("P"), Lit("/"), Lit("1"), Lit("."),
                      Ch({"0", "1"})>>)
Request_Line == Cat(<<Method, Lit("SP"), URI_reference, Lit("SP"), HTTP_Version, CRLF>>)

\* field_value :> CRLF: the value ends at the first character that can start a CRLF.
message_header ==
    Cat(<<Plus(Ch(Token)), Lit(":"), Star(Ch(AnyChar \ {"NUL", "DEL", "CR", "LF"})), CRLF>>)
Request == Cat(<<Request_Line, Star(message_header), CRLF>>)

\* any* c :>> "\0": the data ends at the first \0 after a c.
until(c) ==
    Cat(<<Star(Alt({Ch(AnyChar \ {c}), Cat(<<Plus(Lit(c)), Ch(AnyChar \ {c, "NUL"})>>)})),
          Plus(Lit(c)), Lit("NUL")>>)
SocketJSON == Cat(<<Lit("@"), relative_part, Lit("SP"), Lit("{"), until("}")>>)
SocketXML == Cat(<<Lit("<"), Plus(Ch(AlphaDigit \cup {"-", "."})),
                   Ch({"/", ">", "SP", "TAB", "LF", "VT", "CR"}), until(">")>>)

http_request == {Request, SocketJSON, SocketXML}
=============================================================================
