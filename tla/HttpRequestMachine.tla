------------------------- MODULE HttpRequestMachine -------------------------
(***************************************************************************)
(* The machine in http11_parser.cc, as Ragel generated it from              *)
(* http11_parser.rl: 349 states over 46 classes of characters.  It reads    *)
(* the head of a request (or a Mongrel2 socket request, which the grammar   *)
(* also has).  StatesA_B is the stretch of the file from st A to the end of *)
(* state B, in the order of the file; IntoN the stretch of transitions that *)
(* go to stN.                                                               *)
(*                                                                         *)
(* A class is named by one of its characters: "3" is 3 4 6-9; "A" is A-F;   *)
(* "a" is a-f; "G" and "g" are the other letters of their case except H P T *)
(* and v; "!" is ! $ & ' * _ ~; "(" is ( ) , ; =; "DQ" is the double quote  *)
(* and the backslash; "VT" is \v \f; "B2".."B6" are the bytes 2 to 6; "HI"   *)
(* is every byte that is not ASCII; "CTL" is every other control character, *)
(* ` and |.                                                                 *)
(*                                                                         *)
(* The three characters { } ^ are also delimiters of a URI when             *)
(* parser->uri_relaxed is set: a state that tests it has a case "RX".       *)
(***************************************************************************)
EXTENDS Ragel

Digit == {"0", "1", "2", "3", "5"}
Upper == {"A", "G", "H", "P", "T"}
Alpha == Upper \cup {"a", "g", "v"}
AlphaDigit == Alpha \cup Digit
Xdigit == Digit \cup {"A", "a"}
\* unreserved and sub_delims
Name == AlphaDigit \cup {"!", "(", "+", "-", ".", "RX"}
\* pchar without pct_encoded
Plain == Name \cup {"HI", ":", "@"}
Token == AlphaDigit \cup {"!", "#", "%", "+", "-", ".", "^", "CTL", "B2", "B3", "B4", "B5", "B6",
                          "LF", "VT", "CR"}
AnyChar == Token \cup {"HI", "NUL", "TAB", "SP", "DQ", "(", "/", ":", "<", ">", "?", "@", "[", "]",
                   "{", "}", "DEL"}

http_parser_start == 1
http_parser_first_final == 348

more_delims == {"{", "}", "^"}

\* Mutant of Widen: uri_relaxed is not looked at.
WidenNever(row, c, uri_relaxed) == c

\* The case of the switch that a character takes in a state: the wide character _widec.
Widen(row, c, uri_relaxed) ==
    IF c \in more_delims /\ uri_relaxed /\ "RX" \in DOMAIN row THEN "RX" ELSE c

-----------------------------------------------------------------------------
(* The transitions that run an action. *)

Into2 ==
    [tr0 |-> Tr(<<"mark">>, 2)]

Into3 ==
    [tr4 |-> Tr(<<"request_method">>, 3)]

Into4 ==
    [tr6 |-> Tr(<<"mark", "request_path", "request_uri">>, 4),
     tr37 |-> Tr(<<"request_path", "request_uri">>, 4),
     tr44 |-> Tr(<<"mark", "fragment">>, 4),
     tr47 |-> Tr(<<"fragment">>, 4),
     tr54 |-> Tr(<<"start_query", "query_string", "request_uri">>, 4),
     tr58 |-> Tr(<<"query_string", "request_uri">>, 4)]

Into5 ==
    [tr13 |-> Tr(<<"mark">>, 5)]

Into13 ==
    [tr21 |-> Tr(<<"http_version">>, 13),
     tr30 |-> Tr(<<"start_value", "write_value">>, 13),
     tr33 |-> Tr(<<"write_value">>, 13)]

Into14 ==
    [tr23 |-> Tr(<<"start_field">>, 14)]

Into15 ==
    [tr27 |-> Tr(<<"write_field">>, 15),
     tr29 |-> Tr(<<"start_value">>, 15)]

Into16 ==
    [tr28 |-> Tr(<<"start_value">>, 16)]

Into17 ==
    [tr22 |-> Tr(<<"http_version">>, 17),
     tr31 |-> Tr(<<"start_value", "write_value">>, 17),
     tr34 |-> Tr(<<"write_value">>, 17)]

Into348 ==
    [tr24 |-> Tr(<<"start_field", "done">>, 348),
     tr36 |-> Tr(<<"done">>, 348)]

Into18 ==
    [tr25 |-> Tr(<<"start_field">>, 18)]

Into19 ==
    [tr7 |-> Tr(<<"mark">>, 19)]

Into20 ==
    [tr8 |-> Tr(<<"mark", "request_path", "request_uri">>, 20),
     tr39 |-> Tr(<<"request_path", "request_uri">>, 20),
     tr55 |-> Tr(<<"start_query", "query_string", "request_uri">>, 20),
     tr59 |-> Tr(<<"query_string", "request_uri">>, 20)]

Into21 ==
    [tr43 |-> Tr(<<"mark">>, 21)]

Into22 ==
    [tr45 |-> Tr(<<"mark">>, 22)]

Into24 ==
    [tr9 |-> Tr(<<"mark">>, 24)]

Into26 ==
    [tr203 |-> Tr(<<"mark">>, 26)]

Into27 ==
    [tr204 |-> Tr(<<"mark">>, 27)]

Into29 ==
    [tr11 |-> Tr(<<"mark", "request_path">>, 29),
     tr42 |-> Tr(<<"request_path">>, 29)]

Into30 ==
    [tr53 |-> Tr(<<"start_query">>, 30)]

Into31 ==
    [tr56 |-> Tr(<<"start_query">>, 31)]

Into33 ==
    [tr10 |-> Tr(<<"mark">>, 33)]

Into173 ==
    [tr12 |-> Tr(<<"mark">>, 173)]

Into194 ==
    [tr2 |-> Tr(<<"mark">>, 194)]

Into196 ==
    [tr224 |-> Tr(<<"request_path">>, 196)]

Into349 ==
    [tr227 |-> Tr(<<"xml", "done">>, 349),
     tr235 |-> Tr(<<"json", "done">>, 349)]

Into198 ==
    [tr3 |-> Tr(<<"mark">>, 198)]

Into199 ==
    [tr228 |-> Tr(<<"request_path">>, 199)]

Into200 ==
    [tr232 |-> Tr(<<"mark">>, 200)]

-----------------------------------------------------------------------------
(* The states. *)

States1_3 ==
    1 :> (By(Digit \cup Upper, Into2.tr0) @@ By({"<"}, Into194.tr2) @@ By({"@"}, Into198.tr3)) @@
    2 :> (By({"SP"}, Into3.tr4) @@ To(Digit \cup Upper, 175)) @@
    3 :> (By({"SP"}, Into4.tr6) @@
          By(Digit \cup {"!", "(", "+", "-", ".", "@", "RX"}, Into19.tr7) @@
          By({"#"}, Into20.tr8) @@ By({"%"}, Into24.tr9) @@ By({"/"}, Into33.tr10) @@
          By({"?"}, Into29.tr11) @@ By(Alpha, Into173.tr12))

States4_13 ==
    4 :> (By({"H"}, Into5.tr13)) @@
    5 :> (To({"T"}, 6)) @@
    6 :> (To({"T"}, 7)) @@
    7 :> (To({"P"}, 8)) @@
    8 :> (To({"/"}, 9)) @@
    9 :> (To({"1"}, 10)) @@
    10 :> (To({"."}, 11)) @@
    11 :> (To({"0", "1"}, 12)) @@
    12 :> (By({"LF"}, Into13.tr21) @@ By({"CR"}, Into17.tr22)) @@
    13 :> (By(Token \ {"LF", "CR"}, Into14.tr23) @@ By({"LF"}, Into348.tr24) @@
           By({"CR"}, Into18.tr25))

States14_17 ==
    14 :> (To(Token, 14) @@ By({":"}, Into15.tr27)) @@
    15 :> (By(AnyChar \ {"NUL", "TAB", "LF", "CR", "SP", "DEL"}, Into16.tr28) @@
           By({"TAB", "SP"}, Into15.tr29) @@ By({"LF"}, Into13.tr30) @@ By({"CR"}, Into17.tr31)) @@
    16 :> (To(AnyChar \ {"NUL", "LF", "CR", "DEL"}, 16) @@ By({"LF"}, Into13.tr33) @@
           By({"CR"}, Into17.tr34)) @@
    17 :> (To({"LF"}, 13))

States348_19 ==
    348 :> (To(Token, 14) @@ By({":"}, Into15.tr27)) @@
    18 :> (To(Token \ {"LF"}, 14) @@ By({"LF"}, Into348.tr36) @@ By({":"}, Into15.tr27)) @@
    19 :> (By({"SP"}, Into4.tr37) @@ To(Name \cup {"@"}, 19) @@ By({"#"}, Into20.tr39) @@
           To({"%"}, 24) @@ To({"/"}, 26) @@ By({"?"}, Into29.tr42))

States20_23 ==
    20 :> (By(Plain \cup {"/", "?"}, Into21.tr43) @@ By({"SP"}, Into4.tr44) @@
           By({"%"}, Into22.tr45)) @@
    21 :> (To(Plain \cup {"/", "?"}, 21) @@ By({"SP"}, Into4.tr47) @@ To({"%"}, 22)) @@
    22 :> (To(Xdigit, 23)) @@
    23 :> (To(Xdigit, 21))

States24_28 ==
    24 :> (To(Xdigit, 25)) @@
    25 :> (To(Xdigit, 19)) @@
    26 :> (To(Plain \cup {"/"}, 26) @@ By({"SP"}, Into4.tr37) @@ By({"#"}, Into20.tr39) @@
           To({"%"}, 27) @@ By({"?"}, Into29.tr42)) @@
    27 :> (To(Xdigit, 28)) @@
    28 :> (To(Xdigit, 26))

States29_32 ==
    29 :> (By(Plain \cup {"/", "?"}, Into30.tr53) @@ By({"SP"}, Into4.tr54) @@
           By({"#"}, Into20.tr55) @@ By({"%"}, Into31.tr56)) @@
    30 :> (To(Plain \cup {"/", "?"}, 30) @@ By({"SP"}, Into4.tr58) @@ By({"#"}, Into20.tr59) @@
           To({"%"}, 31)) @@
    31 :> (To(Xdigit, 32)) @@
    32 :> (To(Xdigit, 30))

States33_34 ==
    33 :> (To(Plain, 26) @@ By({"SP"}, Into4.tr37) @@ By({"#"}, Into20.tr39) @@ To({"%"}, 27) @@
           To({"/"}, 34) @@ By({"?"}, Into29.tr42)) @@
    34 :> (By({"SP"}, Into4.tr37) @@ To(Name, 35) @@ By({"#"}, Into20.tr39) @@ To({"%"}, 36) @@
           To({"/"}, 26) @@ To({":"}, 38) @@ By({"?"}, Into29.tr42) @@ To({"@"}, 42) @@
           To({"["}, 47))

States35_38 ==
    35 :> (By({"SP"}, Into4.tr37) @@ To(Name, 35) @@ By({"#"}, Into20.tr39) @@ To({"%"}, 36) @@
           To({"/"}, 26) @@ To({":"}, 38) @@ By({"?"}, Into29.tr42) @@ To({"@"}, 42)) @@
    36 :> (To(Xdigit, 37)) @@
    37 :> (To(Xdigit, 35)) @@
    38 :> (By({"SP"}, Into4.tr37) @@ To(Plain \ {"HI", "0", "1", "2", "3", "5", "@"}, 39) @@
           By({"#"}, Into20.tr39) @@ To({"%"}, 40) @@ To({"/"}, 26) @@ To(Digit, 38) @@
           By({"?"}, Into29.tr42) @@ To({"@"}, 42))

States39_42 ==
    39 :> (To(Name \cup {":"}, 39) @@ To({"%"}, 40) @@ To({"@"}, 42)) @@
    40 :> (To(Xdigit, 41)) @@
    41 :> (To(Xdigit, 39)) @@
    42 :> (By({"SP"}, Into4.tr37) @@ To(Name, 43) @@ By({"#"}, Into20.tr39) @@ To({"%"}, 44) @@
           To({"/"}, 26) @@ To({":"}, 46) @@ By({"?"}, Into29.tr42) @@ To({"["}, 47))

States43_50 ==
    43 :> (By({"SP"}, Into4.tr37) @@ To(Name, 43) @@ By({"#"}, Into20.tr39) @@ To({"%"}, 44) @@
           To({"/"}, 26) @@ To({":"}, 46) @@ By({"?"}, Into29.tr42)) @@
    44 :> (To(Xdigit, 45)) @@
    45 :> (To(Xdigit, 43)) @@
    46 :> (By({"SP"}, Into4.tr37) @@ By({"#"}, Into20.tr39) @@ To({"/"}, 26) @@ To(Digit, 46) @@
           By({"?"}, Into29.tr42)) @@
    47 :> (To({"B6"}, 48) @@ To(Xdigit, 91) @@ To({":"}, 167) @@ To({"v"}, 169)) @@
    48 :> (To(Xdigit, 49)) @@
    49 :> (To(Xdigit, 50) @@ To({":"}, 53)) @@
    50 :> (To(Xdigit, 51) @@ To({":"}, 53))

States51_64 ==
    51 :> (To(Xdigit, 52) @@ To({":"}, 53)) @@
    52 :> (To({":"}, 53)) @@
    53 :> (To({"0", "3", "5"}, 54) @@ To({"1"}, 84) @@ To({"2"}, 87) @@ To({"A", "a"}, 90)) @@
    54 :> (To({"."}, 55) @@ To(Xdigit, 77) @@ To({":"}, 80)) @@
    55 :> (To({"0", "3", "5"}, 56) @@ To({"1"}, 72) @@ To({"2"}, 74)) @@
    56 :> (To({"."}, 57)) @@
    57 :> (To({"0", "3", "5"}, 58) @@ To({"1"}, 67) @@ To({"2"}, 69)) @@
    58 :> (To({"."}, 59)) @@
    59 :> (To({"0", "3", "5"}, 60) @@ To({"1"}, 62) @@ To({"2"}, 64)) @@
    60 :> (To({"]"}, 61)) @@
    61 :> (By({"SP"}, Into4.tr37) @@ By({"#"}, Into20.tr39) @@ To({"/"}, 26) @@ To({":"}, 46) @@
           By({"?"}, Into29.tr42)) @@
    62 :> (To(Digit, 63) @@ To({"]"}, 61)) @@
    63 :> (To(Digit, 60) @@ To({"]"}, 61)) @@
    64 :> (To({"0"}, 65) @@ To({"5"}, 66) @@ To({"]"}, 61))

States65_80 ==
    65 :> (To(Digit, 60)) @@
    66 :> (To({"0"}, 60)) @@
    67 :> (To({"."}, 59) @@ To(Digit, 68)) @@
    68 :> (To({"."}, 59) @@ To(Digit, 58)) @@
    69 :> (To({"."}, 59) @@ To({"0"}, 70) @@ To({"5"}, 71)) @@
    70 :> (To(Digit, 58)) @@
    71 :> (To({"0"}, 58)) @@
    72 :> (To({"."}, 57) @@ To(Digit, 73)) @@
    73 :> (To({"."}, 57) @@ To(Digit, 56)) @@
    74 :> (To({"."}, 57) @@ To({"0"}, 75) @@ To({"5"}, 76)) @@
    75 :> (To(Digit, 56)) @@
    76 :> (To({"0"}, 56)) @@
    77 :> (To(Xdigit, 78) @@ To({":"}, 80)) @@
    78 :> (To(Xdigit, 79) @@ To({":"}, 80)) @@
    79 :> (To({":"}, 80)) @@
    80 :> (To(Xdigit, 81))

States81_89 ==
    81 :> (To(Xdigit, 82) @@ To({"]"}, 61)) @@
    82 :> (To(Xdigit, 83) @@ To({"]"}, 61)) @@
    83 :> (To(Xdigit, 60) @@ To({"]"}, 61)) @@
    84 :> (To({"."}, 55) @@ To(Digit, 85) @@ To({":"}, 80) @@ To({"A", "a"}, 77)) @@
    85 :> (To({"."}, 55) @@ To(Digit, 86) @@ To({":"}, 80) @@ To({"A", "a"}, 78)) @@
    86 :> (To({"."}, 55) @@ To(Xdigit, 79) @@ To({":"}, 80)) @@
    87 :> (To({"."}, 55) @@ To({"0"}, 88) @@ To(Xdigit \ {"0", "5"}, 77) @@ To({"5"}, 89) @@
           To({":"}, 80)) @@
    88 :> (To(Digit, 86) @@ To({":"}, 80) @@ To({"A", "a"}, 78)) @@
    89 :> (To({"0"}, 86) @@ To(Xdigit \ {"0"}, 78) @@ To({":"}, 80))

States90_100 ==
    90 :> (To(Xdigit, 77) @@ To({":"}, 80)) @@
    91 :> (To(Xdigit, 92) @@ To({":"}, 95)) @@
    92 :> (To(Xdigit, 93) @@ To({":"}, 95)) @@
    93 :> (To(Xdigit, 94) @@ To({":"}, 95)) @@
    94 :> (To({":"}, 95)) @@
    95 :> (To(Xdigit, 96) @@ To({":"}, 166)) @@
    96 :> (To(Xdigit, 97) @@ To({":"}, 100)) @@
    97 :> (To(Xdigit, 98) @@ To({":"}, 100)) @@
    98 :> (To(Xdigit, 99) @@ To({":"}, 100)) @@
    99 :> (To({":"}, 100)) @@
    100 :> (To(Xdigit, 101) @@ To({":"}, 165))

States101_111 ==
    101 :> (To(Xdigit, 102) @@ To({":"}, 105)) @@
    102 :> (To(Xdigit, 103) @@ To({":"}, 105)) @@
    103 :> (To(Xdigit, 104) @@ To({":"}, 105)) @@
    104 :> (To({":"}, 105)) @@
    105 :> (To(Xdigit, 106) @@ To({":"}, 164)) @@
    106 :> (To(Xdigit, 107) @@ To({":"}, 110)) @@
    107 :> (To(Xdigit, 108) @@ To({":"}, 110)) @@
    108 :> (To(Xdigit, 109) @@ To({":"}, 110)) @@
    109 :> (To({":"}, 110)) @@
    110 :> (To(Xdigit, 111) @@ To({":"}, 163)) @@
    111 :> (To(Xdigit, 112) @@ To({":"}, 115))

States112_122 ==
    112 :> (To(Xdigit, 113) @@ To({":"}, 115)) @@
    113 :> (To(Xdigit, 114) @@ To({":"}, 115)) @@
    114 :> (To({":"}, 115)) @@
    115 :> (To(Xdigit, 116) @@ To({":"}, 151)) @@
    116 :> (To(Xdigit, 117) @@ To({":"}, 120)) @@
    117 :> (To(Xdigit, 118) @@ To({":"}, 120)) @@
    118 :> (To(Xdigit, 119) @@ To({":"}, 120)) @@
    119 :> (To({":"}, 120)) @@
    120 :> (To(Xdigit, 121) @@ To({":"}, 150)) @@
    121 :> (To(Xdigit, 122) @@ To({":"}, 125)) @@
    122 :> (To(Xdigit, 123) @@ To({":"}, 125))

States123_131 ==
    123 :> (To(Xdigit, 124) @@ To({":"}, 125)) @@
    124 :> (To({":"}, 125)) @@
    125 :> (To(Xdigit, 121) @@ To({":"}, 126)) @@
    126 :> (To({"B2", "B3"}, 48) @@ To({"0", "3", "5"}, 127) @@ To({"1"}, 143) @@ To({"2"}, 146) @@
            To({"A", "a"}, 149) @@ To({"]"}, 61)) @@
    127 :> (To({"."}, 55) @@ To(Xdigit, 128) @@ To({":"}, 131) @@ To({"]"}, 61)) @@
    128 :> (To(Xdigit, 129) @@ To({":"}, 131) @@ To({"]"}, 61)) @@
    129 :> (To(Xdigit, 130) @@ To({":"}, 131) @@ To({"]"}, 61)) @@
    130 :> (To({":"}, 131) @@ To({"]"}, 61)) @@
    131 :> (To({"0", "3", "5"}, 132) @@ To({"1"}, 136) @@ To({"2"}, 139) @@ To({"A", "a"}, 142))

States132_139 ==
    132 :> (To({"."}, 55) @@ To(Xdigit, 133) @@ To({":"}, 80) @@ To({"]"}, 61)) @@
    133 :> (To(Xdigit, 134) @@ To({":"}, 80) @@ To({"]"}, 61)) @@
    134 :> (To(Xdigit, 135) @@ To({":"}, 80) @@ To({"]"}, 61)) @@
    135 :> (To({":"}, 80) @@ To({"]"}, 61)) @@
    136 :> (To({"."}, 55) @@ To(Digit, 137) @@ To({":"}, 80) @@ To({"A", "a"}, 133) @@ To({"]"}, 61)) @@
    137 :> (To({"."}, 55) @@ To(Digit, 138) @@ To({":"}, 80) @@ To({"A", "a"}, 134) @@ To({"]"}, 61)) @@
    138 :> (To({"."}, 55) @@ To(Xdigit, 135) @@ To({":"}, 80) @@ To({"]"}, 61)) @@
    139 :> (To({"."}, 55) @@ To({"0"}, 140) @@ To(Xdigit \ {"0", "5"}, 133) @@ To({"5"}, 141) @@
            To({":"}, 80) @@ To({"]"}, 61))

States140_147 ==
    140 :> (To(Digit, 138) @@ To({":"}, 80) @@ To({"A", "a"}, 134) @@ To({"]"}, 61)) @@
    141 :> (To({"0"}, 138) @@ To(Xdigit \ {"0"}, 134) @@ To({":"}, 80) @@ To({"]"}, 61)) @@
    142 :> (To(Xdigit, 133) @@ To({":"}, 80) @@ To({"]"}, 61)) @@
    143 :> (To({"."}, 55) @@ To(Digit, 144) @@ To({":"}, 131) @@ To({"A", "a"}, 128) @@
            To({"]"}, 61)) @@
    144 :> (To({"."}, 55) @@ To(Digit, 145) @@ To({":"}, 131) @@ To({"A", "a"}, 129) @@
            To({"]"}, 61)) @@
    145 :> (To({"."}, 55) @@ To(Xdigit, 130) @@ To({":"}, 131) @@ To({"]"}, 61)) @@
    146 :> (To({"."}, 55) @@ To({"0"}, 147) @@ To(Xdigit \ {"0", "5"}, 128) @@ To({"5"}, 148) @@
            To({":"}, 131) @@ To({"]"}, 61)) @@
    147 :> (To(Digit, 145) @@ To({":"}, 131) @@ To({"A", "a"}, 129) @@ To({"]"}, 61))

States148_156 ==
    148 :> (To({"0"}, 145) @@ To(Xdigit \ {"0"}, 129) @@ To({":"}, 131) @@ To({"]"}, 61)) @@
    149 :> (To(Xdigit, 128) @@ To({":"}, 131) @@ To({"]"}, 61)) @@
    150 :> (To({"B2", "B3"}, 48) @@ To({"0", "3", "5"}, 127) @@ To({"1"}, 143) @@ To({"2"}, 146) @@
            To({"A", "a"}, 149)) @@
    151 :> (To({"B2", "B3"}, 48) @@ To({"0", "3", "5"}, 152) @@ To({"1"}, 156) @@ To({"2"}, 159) @@
            To({"A", "a"}, 162)) @@
    152 :> (To({"."}, 55) @@ To(Xdigit, 153) @@ To({":"}, 131)) @@
    153 :> (To(Xdigit, 154) @@ To({":"}, 131)) @@
    154 :> (To(Xdigit, 155) @@ To({":"}, 131)) @@
    155 :> (To({":"}, 131)) @@
    156 :> (To({"."}, 55) @@ To(Digit, 157) @@ To({":"}, 131) @@ To({"A", "a"}, 153))

States157_167 ==
    157 :> (To({"."}, 55) @@ To(Digit, 158) @@ To({":"}, 131) @@ To({"A", "a"}, 154)) @@
    158 :> (To({"."}, 55) @@ To(Xdigit, 155) @@ To({":"}, 131)) @@
    159 :> (To({"."}, 55) @@ To({"0"}, 160) @@ To(Xdigit \ {"0", "5"}, 153) @@ To({"5"}, 161) @@
            To({":"}, 131)) @@
    160 :> (To(Digit, 158) @@ To({":"}, 131) @@ To({"A", "a"}, 154)) @@
    161 :> (To({"0"}, 158) @@ To(Xdigit \ {"0"}, 154) @@ To({":"}, 131)) @@
    162 :> (To(Xdigit, 153) @@ To({":"}, 131)) @@
    163 :> (To({"B2", "B3"}, 48) @@ To(Xdigit, 49)) @@
    164 :> (To({"B2", "B3"}, 48)) @@
    165 :> (To({"B3"}, 48)) @@
    166 :> (To({"B4"}, 48)) @@
    167 :> (To({":"}, 168))

States168_172 ==
    168 :> (To({"B2", "B3", "B4", "B5"}, 48) @@ To({"0", "3", "5"}, 127) @@ To({"1"}, 143) @@
            To({"2"}, 146) @@ To({"A", "a"}, 149) @@ To({"]"}, 61)) @@
    169 :> (To(Xdigit, 170)) @@
    170 :> (To({"."}, 171) @@ To(Xdigit, 170)) @@
    171 :> (To(Name \cup {":"}, 172)) @@
    172 :> (To(Name \cup {":"}, 172) @@ To({"]"}, 61))

States173_177 ==
    173 :> (By({"SP"}, Into4.tr37) @@ To({"!", "(", "@", "RX"}, 19) @@ By({"#"}, Into20.tr39) @@
            To({"%"}, 24) @@ To(Name \ {"!", "(", "RX"}, 173) @@ To({"/"}, 26) @@ To({":"}, 174) @@
            By({"?"}, Into29.tr42)) @@
    174 :> (By(Plain, Into26.tr203) @@ By({"SP"}, Into4.tr6) @@ By({"#"}, Into20.tr8) @@
            By({"%"}, Into27.tr204) @@ By({"/"}, Into33.tr10) @@ By({"?"}, Into29.tr11)) @@
    175 :> (By({"SP"}, Into3.tr4) @@ To(Digit \cup Upper, 176)) @@
    176 :> (By({"SP"}, Into3.tr4) @@ To(Digit \cup Upper, 177)) @@
    177 :> (By({"SP"}, Into3.tr4) @@ To(Digit \cup Upper, 178))

States178_189 ==
    178 :> (By({"SP"}, Into3.tr4) @@ To(Digit \cup Upper, 179)) @@
    179 :> (By({"SP"}, Into3.tr4) @@ To(Digit \cup Upper, 180)) @@
    180 :> (By({"SP"}, Into3.tr4) @@ To(Digit \cup Upper, 181)) @@
    181 :> (By({"SP"}, Into3.tr4) @@ To(Digit \cup Upper, 182)) @@
    182 :> (By({"SP"}, Into3.tr4) @@ To(Digit \cup Upper, 183)) @@
    183 :> (By({"SP"}, Into3.tr4) @@ To(Digit \cup Upper, 184)) @@
    184 :> (By({"SP"}, Into3.tr4) @@ To(Digit \cup Upper, 185)) @@
    185 :> (By({"SP"}, Into3.tr4) @@ To(Digit \cup Upper, 186)) @@
    186 :> (By({"SP"}, Into3.tr4) @@ To(Digit \cup Upper, 187)) @@
    187 :> (By({"SP"}, Into3.tr4) @@ To(Digit \cup Upper, 188)) @@
    188 :> (By({"SP"}, Into3.tr4) @@ To(Digit \cup Upper, 189)) @@
    189 :> (By({"SP"}, Into3.tr4) @@ To(Digit \cup Upper, 190))

States190_197 ==
    190 :> (By({"SP"}, Into3.tr4) @@ To(Digit \cup Upper, 191)) @@
    191 :> (By({"SP"}, Into3.tr4) @@ To(Digit \cup Upper, 192)) @@
    192 :> (By({"SP"}, Into3.tr4) @@ To(Digit \cup Upper, 193)) @@
    193 :> (By({"SP"}, Into3.tr4)) @@
    194 :> (To(AlphaDigit \cup {"-", "."}, 195)) @@
    195 :> (By({"TAB", "LF", "VT", "CR", "SP", "/", ">"}, Into196.tr224) @@
            To(AlphaDigit \cup {"-", "."}, 195)) @@
    196 :> (To(AnyChar \ {">"}, 196) @@ To({">"}, 197)) @@
    197 :> (To(AnyChar \ {"NUL", ">"}, 196) @@ By({"NUL"}, Into349.tr227) @@ To({">"}, 197))

States349_202 ==
    349 :> Dead @@
    198 :> (By({"SP"}, Into199.tr228) @@ To(Name \cup {"@"}, 202) @@ To({"%"}, 203) @@
            To({"/"}, 208)) @@
    199 :> (By({"{"}, Into200.tr232)) @@
    200 :> (To(AnyChar \ {"}"}, 200) @@ To({"}"}, 201)) @@
    201 :> (To(AnyChar \ {"NUL", "}"}, 200) @@ By({"NUL"}, Into349.tr235) @@ To({"}"}, 201)) @@
    202 :> (By({"SP"}, Into199.tr228) @@ To(Name \cup {"@"}, 202) @@ To({"%"}, 203) @@
            To({"/"}, 205))

States203_208 ==
    203 :> (To(Xdigit, 204)) @@
    204 :> (To(Xdigit, 202)) @@
    205 :> (To(Plain \cup {"/"}, 205) @@ By({"SP"}, Into199.tr228) @@ To({"%"}, 206)) @@
    206 :> (To(Xdigit, 207)) @@
    207 :> (To(Xdigit, 205)) @@
    208 :> (To(Plain, 205) @@ By({"SP"}, Into199.tr228) @@ To({"%"}, 206) @@ To({"/"}, 209))

States209_212 ==
    209 :> (By({"SP"}, Into199.tr228) @@ To(Name, 210) @@ To({"%"}, 211) @@ To({"/"}, 205) @@
            To({":"}, 213) @@ To({"@"}, 217) @@ To({"["}, 222)) @@
    210 :> (By({"SP"}, Into199.tr228) @@ To(Name, 210) @@ To({"%"}, 211) @@ To({"/"}, 205) @@
            To({":"}, 213) @@ To({"@"}, 217)) @@
    211 :> (To(Xdigit, 212)) @@
    212 :> (To(Xdigit, 210))

States213_216 ==
    213 :> (By({"SP"}, Into199.tr228) @@ To(Plain \ {"HI", "0", "1", "2", "3", "5", "@"}, 214) @@
            To({"%"}, 215) @@ To({"/"}, 205) @@ To(Digit, 213) @@ To({"@"}, 217)) @@
    214 :> (To(Name \cup {":"}, 214) @@ To({"%"}, 215) @@ To({"@"}, 217)) @@
    215 :> (To(Xdigit, 216)) @@
    216 :> (To(Xdigit, 214))

States217_222 ==
    217 :> (By({"SP"}, Into199.tr228) @@ To(Name, 218) @@ To({"%"}, 219) @@ To({"/"}, 205) @@
            To({":"}, 221) @@ To({"["}, 222)) @@
    218 :> (By({"SP"}, Into199.tr228) @@ To(Name, 218) @@ To({"%"}, 219) @@ To({"/"}, 205) @@
            To({":"}, 221)) @@
    219 :> (To(Xdigit, 220)) @@
    220 :> (To(Xdigit, 218)) @@
    221 :> (By({"SP"}, Into199.tr228) @@ To({"/"}, 205) @@ To(Digit, 221)) @@
    222 :> (To({"B6"}, 223) @@ To(Xdigit, 266) @@ To({":"}, 342) @@ To({"v"}, 344))

States223_234 ==
    223 :> (To(Xdigit, 224)) @@
    224 :> (To(Xdigit, 225) @@ To({":"}, 228)) @@
    225 :> (To(Xdigit, 226) @@ To({":"}, 228)) @@
    226 :> (To(Xdigit, 227) @@ To({":"}, 228)) @@
    227 :> (To({":"}, 228)) @@
    228 :> (To({"0", "3", "5"}, 229) @@ To({"1"}, 259) @@ To({"2"}, 262) @@ To({"A", "a"}, 265)) @@
    229 :> (To({"."}, 230) @@ To(Xdigit, 252) @@ To({":"}, 255)) @@
    230 :> (To({"0", "3", "5"}, 231) @@ To({"1"}, 247) @@ To({"2"}, 249)) @@
    231 :> (To({"."}, 232)) @@
    232 :> (To({"0", "3", "5"}, 233) @@ To({"1"}, 242) @@ To({"2"}, 244)) @@
    233 :> (To({"."}, 234)) @@
    234 :> (To({"0", "3", "5"}, 235) @@ To({"1"}, 237) @@ To({"2"}, 239))

States235_251 ==
    235 :> (To({"]"}, 236)) @@
    236 :> (By({"SP"}, Into199.tr228) @@ To({"/"}, 205) @@ To({":"}, 221)) @@
    237 :> (To(Digit, 238) @@ To({"]"}, 236)) @@
    238 :> (To(Digit, 235) @@ To({"]"}, 236)) @@
    239 :> (To({"0"}, 240) @@ To({"5"}, 241) @@ To({"]"}, 236)) @@
    240 :> (To(Digit, 235)) @@
    241 :> (To({"0"}, 235)) @@
    242 :> (To({"."}, 234) @@ To(Digit, 243)) @@
    243 :> (To({"."}, 234) @@ To(Digit, 233)) @@
    244 :> (To({"."}, 234) @@ To({"0"}, 245) @@ To({"5"}, 246)) @@
    245 :> (To(Digit, 233)) @@
    246 :> (To({"0"}, 233)) @@
    247 :> (To({"."}, 232) @@ To(Digit, 248)) @@
    248 :> (To({"."}, 232) @@ To(Digit, 231)) @@
    249 :> (To({"."}, 232) @@ To({"0"}, 250) @@ To({"5"}, 251)) @@
    250 :> (To(Digit, 231)) @@
    251 :> (To({"0"}, 231))

States252_261 ==
    252 :> (To(Xdigit, 253) @@ To({":"}, 255)) @@
    253 :> (To(Xdigit, 254) @@ To({":"}, 255)) @@
    254 :> (To({":"}, 255)) @@
    255 :> (To(Xdigit, 256)) @@
    256 :> (To(Xdigit, 257) @@ To({"]"}, 236)) @@
    257 :> (To(Xdigit, 258) @@ To({"]"}, 236)) @@
    258 :> (To(Xdigit, 235) @@ To({"]"}, 236)) @@
    259 :> (To({"."}, 230) @@ To(Digit, 260) @@ To({":"}, 255) @@ To({"A", "a"}, 252)) @@
    260 :> (To({"."}, 230) @@ To(Digit, 261) @@ To({":"}, 255) @@ To({"A", "a"}, 253)) @@
    261 :> (To({"."}, 230) @@ To(Xdigit, 254) @@ To({":"}, 255))

States262_271 ==
    262 :> (To({"."}, 230) @@ To({"0"}, 263) @@ To(Xdigit \ {"0", "5"}, 252) @@ To({"5"}, 264) @@
            To({":"}, 255)) @@
    263 :> (To(Digit, 261) @@ To({":"}, 255) @@ To({"A", "a"}, 253)) @@
    264 :> (To({"0"}, 261) @@ To(Xdigit \ {"0"}, 253) @@ To({":"}, 255)) @@
    265 :> (To(Xdigit, 252) @@ To({":"}, 255)) @@
    266 :> (To(Xdigit, 267) @@ To({":"}, 270)) @@
    267 :> (To(Xdigit, 268) @@ To({":"}, 270)) @@
    268 :> (To(Xdigit, 269) @@ To({":"}, 270)) @@
    269 :> (To({":"}, 270)) @@
    270 :> (To(Xdigit, 271) @@ To({":"}, 341)) @@
    271 :> (To(Xdigit, 272) @@ To({":"}, 275))

States272_282 ==
    272 :> (To(Xdigit, 273) @@ To({":"}, 275)) @@
    273 :> (To(Xdigit, 274) @@ To({":"}, 275)) @@
    274 :> (To({":"}, 275)) @@
    275 :> (To(Xdigit, 276) @@ To({":"}, 340)) @@
    276 :> (To(Xdigit, 277) @@ To({":"}, 280)) @@
    277 :> (To(Xdigit, 278) @@ To({":"}, 280)) @@
    278 :> (To(Xdigit, 279) @@ To({":"}, 280)) @@
    279 :> (To({":"}, 280)) @@
    280 :> (To(Xdigit, 281) @@ To({":"}, 339)) @@
    281 :> (To(Xdigit, 282) @@ To({":"}, 285)) @@
    282 :> (To(Xdigit, 283) @@ To({":"}, 285))

States283_293 ==
    283 :> (To(Xdigit, 284) @@ To({":"}, 285)) @@
    284 :> (To({":"}, 285)) @@
    285 :> (To(Xdigit, 286) @@ To({":"}, 338)) @@
    286 :> (To(Xdigit, 287) @@ To({":"}, 290)) @@
    287 :> (To(Xdigit, 288) @@ To({":"}, 290)) @@
    288 :> (To(Xdigit, 289) @@ To({":"}, 290)) @@
    289 :> (To({":"}, 290)) @@
    290 :> (To(Xdigit, 291) @@ To({":"}, 326)) @@
    291 :> (To(Xdigit, 292) @@ To({":"}, 295)) @@
    292 :> (To(Xdigit, 293) @@ To({":"}, 295)) @@
    293 :> (To(Xdigit, 294) @@ To({":"}, 295))

States294_303 ==
    294 :> (To({":"}, 295)) @@
    295 :> (To(Xdigit, 296) @@ To({":"}, 325)) @@
    296 :> (To(Xdigit, 297) @@ To({":"}, 300)) @@
    297 :> (To(Xdigit, 298) @@ To({":"}, 300)) @@
    298 :> (To(Xdigit, 299) @@ To({":"}, 300)) @@
    299 :> (To({":"}, 300)) @@
    300 :> (To(Xdigit, 296) @@ To({":"}, 301)) @@
    301 :> (To({"B2", "B3"}, 223) @@ To({"0", "3", "5"}, 302) @@ To({"1"}, 318) @@
            To({"2"}, 321) @@ To({"A", "a"}, 324) @@ To({"]"}, 236)) @@
    302 :> (To({"."}, 230) @@ To(Xdigit, 303) @@ To({":"}, 306) @@ To({"]"}, 236)) @@
    303 :> (To(Xdigit, 304) @@ To({":"}, 306) @@ To({"]"}, 236))

States304_312 ==
    304 :> (To(Xdigit, 305) @@ To({":"}, 306) @@ To({"]"}, 236)) @@
    305 :> (To({":"}, 306) @@ To({"]"}, 236)) @@
    306 :> (To({"0", "3", "5"}, 307) @@ To({"1"}, 311) @@ To({"2"}, 314) @@ To({"A", "a"}, 317)) @@
    307 :> (To({"."}, 230) @@ To(Xdigit, 308) @@ To({":"}, 255) @@ To({"]"}, 236)) @@
    308 :> (To(Xdigit, 309) @@ To({":"}, 255) @@ To({"]"}, 236)) @@
    309 :> (To(Xdigit, 310) @@ To({":"}, 255) @@ To({"]"}, 236)) @@
    310 :> (To({":"}, 255) @@ To({"]"}, 236)) @@
    311 :> (To({"."}, 230) @@ To(Digit, 312) @@ To({":"}, 255) @@ To({"A", "a"}, 308) @@
            To({"]"}, 236)) @@
    312 :> (To({"."}, 230) @@ To(Digit, 313) @@ To({":"}, 255) @@ To({"A", "a"}, 309) @@
            To({"]"}, 236))

States313_320 ==
    313 :> (To({"."}, 230) @@ To(Xdigit, 310) @@ To({":"}, 255) @@ To({"]"}, 236)) @@
    314 :> (To({"."}, 230) @@ To({"0"}, 315) @@ To(Xdigit \ {"0", "5"}, 308) @@ To({"5"}, 316) @@
            To({":"}, 255) @@ To({"]"}, 236)) @@
    315 :> (To(Digit, 313) @@ To({":"}, 255) @@ To({"A", "a"}, 309) @@ To({"]"}, 236)) @@
    316 :> (To({"0"}, 313) @@ To(Xdigit \ {"0"}, 309) @@ To({":"}, 255) @@ To({"]"}, 236)) @@
    317 :> (To(Xdigit, 308) @@ To({":"}, 255) @@ To({"]"}, 236)) @@
    318 :> (To({"."}, 230) @@ To(Digit, 319) @@ To({":"}, 306) @@ To({"A", "a"}, 303) @@
            To({"]"}, 236)) @@
    319 :> (To({"."}, 230) @@ To(Digit, 320) @@ To({":"}, 306) @@ To({"A", "a"}, 304) @@
            To({"]"}, 236)) @@
    320 :> (To({"."}, 230) @@ To(Xdigit, 305) @@ To({":"}, 306) @@ To({"]"}, 236))

States321_328 ==
    321 :> (To({"."}, 230) @@ To({"0"}, 322) @@ To(Xdigit \ {"0", "5"}, 303) @@ To({"5"}, 323) @@
            To({":"}, 306) @@ To({"]"}, 236)) @@
    322 :> (To(Digit, 320) @@ To({":"}, 306) @@ To({"A", "a"}, 304) @@ To({"]"}, 236)) @@
    323 :> (To({"0"}, 320) @@ To(Xdigit \ {"0"}, 304) @@ To({":"}, 306) @@ To({"]"}, 236)) @@
    324 :> (To(Xdigit, 303) @@ To({":"}, 306) @@ To({"]"}, 236)) @@
    325 :> (To({"B2", "B3"}, 223) @@ To({"0", "3", "5"}, 302) @@ To({"1"}, 318) @@
            To({"2"}, 321) @@ To({"A", "a"}, 324)) @@
    326 :> (To({"B2", "B3"}, 223) @@ To({"0", "3", "5"}, 327) @@ To({"1"}, 331) @@
            To({"2"}, 334) @@ To({"A", "a"}, 337)) @@
    327 :> (To({"."}, 230) @@ To(Xdigit, 328) @@ To({":"}, 306)) @@
    328 :> (To(Xdigit, 329) @@ To({":"}, 306))

States329_337 ==
    329 :> (To(Xdigit, 330) @@ To({":"}, 306)) @@
    330 :> (To({":"}, 306)) @@
    331 :> (To({"."}, 230) @@ To(Digit, 332) @@ To({":"}, 306) @@ To({"A", "a"}, 328)) @@
    332 :> (To({"."}, 230) @@ To(Digit, 333) @@ To({":"}, 306) @@ To({"A", "a"}, 329)) @@
    333 :> (To({"."}, 230) @@ To(Xdigit, 330) @@ To({":"}, 306)) @@
    334 :> (To({"."}, 230) @@ To({"0"}, 335) @@ To(Xdigit \ {"0", "5"}, 328) @@ To({"5"}, 336) @@
            To({":"}, 306)) @@
    335 :> (To(Digit, 333) @@ To({":"}, 306) @@ To({"A", "a"}, 329)) @@
    336 :> (To({"0"}, 333) @@ To(Xdigit \ {"0"}, 329) @@ To({":"}, 306)) @@
    337 :> (To(Xdigit, 328) @@ To({":"}, 306))

States338_346 ==
    338 :> (To({"B2", "B3"}, 223) @@ To(Xdigit, 224)) @@
    339 :> (To({"B2", "B3"}, 223)) @@
    340 :> (To({"B3"}, 223)) @@
    341 :> (To({"B4"}, 223)) @@
    342 :> (To({":"}, 343)) @@
    343 :> (To({"B2", "B3", "B4", "B5"}, 223) @@ To({"0", "3", "5"}, 302) @@ To({"1"}, 318) @@
            To({"2"}, 321) @@ To({"A", "a"}, 324) @@ To({"]"}, 236)) @@
    344 :> (To(Xdigit, 345)) @@
    345 :> (To({"."}, 346) @@ To(Xdigit, 345)) @@
    346 :> (To(Name \cup {":"}, 347))

State347 ==
    347 :> (To(Name \cup {":"}, 347) @@ To({"]"}, 236))

RequestTable ==
    States1_3 @@ States4_13 @@ States14_17 @@ States348_19 @@
    States20_23 @@ States24_28 @@ States29_32 @@ States33_34 @@
    States35_38 @@ States39_42 @@ States43_50 @@ States51_64 @@
    States65_80 @@ States81_89 @@ States90_100 @@ States101_111 @@
    States112_122 @@ States123_131 @@ States132_139 @@ States140_147 @@
    States148_156 @@ States157_167 @@ States168_172 @@ States173_177 @@
    States178_189 @@ States190_197 @@ States349_202 @@ States203_208 @@
    States209_212 @@ States213_216 @@ States217_222 @@ States223_234 @@
    States235_251 @@ States252_261 @@ States262_271 @@ States272_282 @@
    States283_293 @@ States294_303 @@ States304_312 @@ States313_320 @@
    States321_328 @@ States329_337 @@ States338_346 @@ State347
=============================================================================
