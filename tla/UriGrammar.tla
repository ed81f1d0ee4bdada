----------------------------- MODULE UriGrammar -----------------------------
(***************************************************************************)
(* The grammar in uri.rl, rule by rule, over the character classes of       *)
(* UriMachine.  The embedded actions are not part of it: this is what the   *)
(* generated machine is compared with.                                      *)
(***************************************************************************)
EXTENDS UriMachine, Regex

pct_encoded == Cat(<<Lit("%"), Ch(Xdigit), Ch(Xdigit)>>)
scheme == Cat2(Ch(Alpha), Star(Ch(Alpha \cup Digit \cup {"+", "."})))

userinfo == Star(Alt({Ch(Name \cup {":"}), pct_encoded}))

\* The unquoted 2 of the rule is the byte 2, not the digit.
dec_octet ==
    Alt({Ch(Digit), Cat(<<Ch(Digit \ {"0"}), Ch(Digit)>>),
         Cat(<<Lit("1"), Ch(Digit), Ch(Digit)>>),
         Cat(<<Lit("STX"), Ch({"0", "1", "2", "3"}), Ch(Digit)>>),
         Cat(<<Lit("2"), Lit("5"), Ch({"0", "1", "2", "3", "5"})>>)})
IPv4address == Cat(<<dec_octet, Lit("."), dec_octet, Lit("."), dec_octet, Lit("."), dec_octet>>)
h16 == UpTo(Ch(Xdigit), 4)
group == Cat(<<h16, Lit(":")>>)
ls32 == Alt({Cat(<<h16, Lit(":"), h16>>), IPv4address})

\* ((h16 ":"){n} h16)? "::"
elided(n) == Cat(<<Opt(Cat(<<Times(group, n), h16>>)), Lit(":"), Lit(":")>>)
IPv6address ==
    Alt({Cat(<<Times(group, 6), ls32>>),
         Cat(<<Lit(":"), Lit(":"), Times(group, 5), ls32>>),
         Cat(<<elided(0), Times(group, 4), ls32>>),
         Cat(<<elided(1), Times(group, 3), ls32>>),
         Cat(<<elided(2), Times(group, 2), ls32>>),
         Cat(<<elided(3), Times(group, 1), ls32>>),
         Cat(<<elided(4), ls32>>),
         Cat(<<elided(5), h16>>),
         elided(6)})
IPvFuture == Cat(<<Lit("v"), Plus(Ch(Xdigit)), Lit("."), Plus(Ch(Name \cup {":"}))>>)
IP_literal == Cat(<<Lit("["), Alt({IPv6address, IPvFuture}), Lit("]")>>)
reg_name == Star(Alt({Ch(Name), pct_encoded}))
host == Alt({IP_literal, IPv4address, reg_name})
port == Star(Ch(Digit))
authority == Cat(<<Opt(Cat(<<userinfo, Lit("@")>>)), host, Opt(Cat(<<Lit(":"), port>>))>>)

pchar == Alt({Ch(Plain), pct_encoded})
segment == Star(pchar)
segment_nz == Plus(pchar)
segment_nz_nc == Plus(Alt({Ch(Plain \ {":"}), pct_encoded}))
path_abempty == Star(Cat(<<Lit("/"), segment>>))
path_absolute == Cat(<<Lit("/"), Opt(Cat(<<segment_nz, path_abempty>>))>>)
path_noscheme == Cat(<<segment_nz_nc, path_abempty>>)
path_rootless == Cat(<<segment_nz, path_abempty>>)

query == Star(Alt({pchar, Ch({"/", "?"})}))
fragment == query
hier_part == Alt({Cat(<<Lit("/"), Lit("/"), authority, path_abempty>>),
                  path_absolute, path_rootless, Eps})
relative_part == Alt({Cat(<<Lit("/"), Lit("/"), authority, path_abempty>>),
                      path_absolute, path_noscheme, Eps})
suffix == Cat(<<Opt(Cat(<<Lit("?"), query>>)), Opt(Cat(<<Lit("#"), fragment>>))>>)
relative_ref == Cat(<<relative_part, suffix>>)
URI == Cat(<<scheme, Lit(":"), hier_part, suffix>>)
URI_reference == {URI, relative_ref}
=============================================================================
