------------------------- MODULE HttpClientMachine --------------------------
(***************************************************************************)
(* The machine in httpclient_parser.cc, as Ragel generated it from          *)
(* httpclient_parser.rl: 123 states over 33 classes of characters.  It      *)
(* reads the head of a response, or the size line of a chunk.  StatesA_B    *)
(* is the stretch of the file from st A to the end of state B, in the order *)
(* of the file; IntoN the stretch of transitions that go to stN.            *)
(*                                                                         *)
(* A class is named by one of its characters: a letter is itself in either  *)
(* case (H h P T t: only that case); "0" is every digit; "!" is every other *)
(* character of a token; "TAB" is \t \v \f; "OTHER" is all the rest.        *)
(***************************************************************************)
EXTENDS Ragel

Xdigit == {"0", "a", "b", "c", "d", "e", "f"}
Letter == {"a", "b", "c", "d", "e", "f", "g", "H", "h", "i", "k", "l", "n", "o", "P", "r", "s", "T", "t", "u"}
Token == Letter \cup {"0", "!", "-", "."}
Space == {"SP", "TAB", "LF", "CR"}
Text == Token \cup {"SP", "TAB", "/", ":", ";", "=", "OTHER"}
Chars == Text \cup {"LF", "CR"}

httpclient_parser_start == 1
httpclient_parser_first_final == 120

-----------------------------------------------------------------------------
(* The transitions that run an action. *)

Into2 ==
    [tr0 |-> Tr(<<"mark">>, 2)]

Into120 ==
    [tr3 |-> Tr(<<"chunk_size", "done">>, 120),
     tr7 |-> Tr(<<"done">>, 120),
     tr9 |-> Tr(<<"write_field", "start_value", "write_value", "done">>, 120),
     tr15 |-> Tr(<<"write_value", "done">>, 120),
     tr74 |-> Tr(<<"write_connection_close", "done">>, 120)]

Into3 ==
    [tr4 |-> Tr(<<"chunk_size">>, 3),
     tr10 |-> Tr(<<"write_field", "start_value", "write_value">>, 3),
     tr16 |-> Tr(<<"write_value">>, 3),
     tr75 |-> Tr(<<"write_connection_close">>, 3)]

Into4 ==
    [tr6 |-> Tr(<<"chunk_size">>, 4),
     tr12 |-> Tr(<<"write_field", "start_value", "write_value">>, 4),
     tr18 |-> Tr(<<"write_value">>, 4)]

Into5 ==
    [tr8 |-> Tr(<<"start_field">>, 5)]

Into6 ==
    [tr13 |-> Tr(<<"write_field", "start_value">>, 6)]

Into7 ==
    [tr14 |-> Tr(<<"start_value">>, 7)]

Into8 ==
    [tr2 |-> Tr(<<"mark">>, 8)]

Into16 ==
    [tr26 |-> Tr(<<"http_version">>, 16)]

Into17 ==
    [tr27 |-> Tr(<<"mark">>, 17)]

Into18 ==
    [tr28 |-> Tr(<<"status_code">>, 18)]

Into19 ==
    [tr30 |-> Tr(<<"mark">>, 19)]

Into20 ==
    [tr45 |-> Tr(<<"write_value">>, 20),
     tr32 |-> Tr(<<"reason_phrase">>, 20),
     tr42 |-> Tr(<<"start_value", "write_value">>, 20),
     tr111 |-> Tr(<<"write_value", "trans_chunked">>, 20),
     tr113 |-> Tr(<<"trans_chunked">>, 20),
     tr158 |-> Tr(<<"write_content_len", "write_value">>, 20)]

Into21 ==
    [tr35 |-> Tr(<<"start_field">>, 21),
     tr76 |-> Tr(<<"write_connection_close", "start_field">>, 21)]

Into22 ==
    [tr41 |-> Tr(<<"start_value">>, 22),
     tr39 |-> Tr(<<"write_field">>, 22)]

Into23 ==
    [tr40 |-> Tr(<<"start_value">>, 23)]

Into24 ==
    [tr46 |-> Tr(<<"write_value">>, 24),
     tr33 |-> Tr(<<"reason_phrase">>, 24),
     tr43 |-> Tr(<<"start_value", "write_value">>, 24),
     tr159 |-> Tr(<<"write_content_len", "write_value">>, 24)]

Into25 ==
    [tr36 |-> Tr(<<"start_field">>, 25),
     tr77 |-> Tr(<<"write_connection_close", "start_field">>, 25)]

Into35 ==
    [tr59 |-> Tr(<<"start_value">>, 35),
     tr58 |-> Tr(<<"write_field">>, 35)]

Into36 ==
    [tr60 |-> Tr(<<"start_value", "write_value">>, 36)]

Into43 ==
    [tr136 |-> Tr(<<"write_value">>, 43)]

Into44 ==
    [tr37 |-> Tr(<<"start_field">>, 44),
     tr78 |-> Tr(<<"write_connection_close", "start_field">>, 44)]

Into61 ==
    [tr96 |-> Tr(<<"start_value">>, 61),
     tr95 |-> Tr(<<"write_field">>, 61)]

Into62 ==
    [tr97 |-> Tr(<<"start_value", "write_value">>, 62)]

Into64 ==
    [tr104 |-> Tr(<<"start_value">>, 64)]

Into71 ==
    [tr112 |-> Tr(<<"write_value">>, 71)]

Into121 ==
    [tr101 |-> Tr(<<"done">>, 121)]

Into73 ==
    [tr103 |-> Tr(<<"start_value", "start_field">>, 73)]

Into80 ==
    [tr98 |-> Tr(<<"start_value", "write_value">>, 80)]

Into81 ==
    [tr99 |-> Tr(<<"start_value">>, 81)]

Into88 ==
    [tr137 |-> Tr(<<"write_value">>, 88)]

Into122 ==
    [tr64 |-> Tr(<<"done">>, 122)]

Into90 ==
    [tr66 |-> Tr(<<"start_field">>, 90)]

Into95 ==
    [tr61 |-> Tr(<<"start_value", "write_value">>, 95)]

Into96 ==
    [tr62 |-> Tr(<<"start_value">>, 96)]

Into112 ==
    [tr149 |-> Tr(<<"start_value">>, 112),
     tr148 |-> Tr(<<"write_field">>, 112)]

Into113 ==
    [tr150 |-> Tr(<<"start_value", "write_value">>, 113)]

Into115 ==
    [tr157 |-> Tr(<<"start_value">>, 115)]

Into123 ==
    [tr154 |-> Tr(<<"done">>, 123)]

Into117 ==
    [tr156 |-> Tr(<<"start_value", "start_field">>, 117)]

Into118 ==
    [tr151 |-> Tr(<<"start_value", "write_value">>, 118)]

Into119 ==
    [tr152 |-> Tr(<<"start_value">>, 119)]

-----------------------------------------------------------------------------
(* The states. *)

States1_120 ==
    1 :> (By(Xdigit, Into2.tr0) @@ By({"H"}, Into8.tr2)) @@
    2 :> (By({"LF"}, Into120.tr3) @@ By({"CR"}, Into3.tr4) @@ To(Xdigit, 2) @@ By({";"}, Into4.tr6)) @@
    120 :> Dead

States3_6 ==
    3 :> (By({"LF"}, Into120.tr7)) @@
    4 :> (By(Token, Into5.tr8)) @@
    5 :> (By({"LF"}, Into120.tr9) @@ By({"CR"}, Into3.tr10) @@ To(Token, 5) @@
          By({";"}, Into4.tr12) @@ By({"="}, Into6.tr13)) @@
    6 :> (By(Token, Into7.tr14))

States7_18 ==
    7 :> (By({"LF"}, Into120.tr15) @@ By({"CR"}, Into3.tr16) @@ To(Token, 7) @@
          By({";"}, Into4.tr18)) @@
    8 :> (To({"T"}, 9)) @@
    9 :> (To({"T"}, 10)) @@
    10 :> (To({"P"}, 11)) @@
    11 :> (To({"/"}, 12)) @@
    12 :> (To({"0"}, 13)) @@
    13 :> (To({"."}, 14) @@ To({"0"}, 13)) @@
    14 :> (To({"0"}, 15)) @@
    15 :> (By({"SP"}, Into16.tr26) @@ To({"0"}, 15)) @@
    16 :> (By({"0"}, Into17.tr27)) @@
    17 :> (By({"SP"}, Into18.tr28) @@ To({"0"}, 17)) @@
    18 :> (By(Chars \ {"LF"}, Into19.tr30))

States19_21 ==
    19 :> (To(Text, 19) @@ By({"LF"}, Into20.tr32) @@ By({"CR"}, Into24.tr33)) @@
    20 :> (By({"LF"}, Into120.tr7) @@ To({"CR"}, 3) @@ By(Token \ {"c", "T", "t"}, Into21.tr35) @@
           By({"c"}, Into25.tr36) @@ By({"T", "t"}, Into44.tr37)) @@
    21 :> (To(Token, 21) @@ By({":"}, Into22.tr39))

States22_26 ==
    22 :> (By(Chars \ Space, Into23.tr40) @@ By({"TAB", "SP"}, Into22.tr41) @@
           By({"LF"}, Into20.tr42) @@ By({"CR"}, Into24.tr43)) @@
    23 :> (To(Text, 23) @@ By({"LF"}, Into20.tr45) @@ By({"CR"}, Into24.tr46)) @@
    24 :> (To({"LF"}, 20)) @@
    25 :> (To(Token \ {"o"}, 21) @@ By({":"}, Into22.tr39) @@ To({"o"}, 26)) @@
    26 :> (To(Token \ {"n"}, 21) @@ By({":"}, Into22.tr39) @@ To({"n"}, 27))

States27_30 ==
    27 :> (To(Token \ {"n", "T", "t"}, 21) @@ By({":"}, Into22.tr39) @@ To({"n"}, 28) @@
           To({"T", "t"}, 101)) @@
    28 :> (To(Token \ {"e"}, 21) @@ By({":"}, Into22.tr39) @@ To({"e"}, 29)) @@
    29 :> (To(Token \ {"c"}, 21) @@ By({":"}, Into22.tr39) @@ To({"c"}, 30)) @@
    30 :> (To(Token \ {"T", "t"}, 21) @@ By({":"}, Into22.tr39) @@ To({"T", "t"}, 31))

States31_35 ==
    31 :> (To(Token \ {"i"}, 21) @@ By({":"}, Into22.tr39) @@ To({"i"}, 32)) @@
    32 :> (To(Token \ {"o"}, 21) @@ By({":"}, Into22.tr39) @@ To({"o"}, 33)) @@
    33 :> (To(Token \ {"n"}, 21) @@ By({":"}, Into22.tr39) @@ To({"n"}, 34)) @@
    34 :> (To(Token, 21) @@ By({":"}, Into35.tr58)) @@
    35 :> (By(Text \ {"TAB", "SP", "c"}, Into23.tr40) @@ By({"TAB", "SP"}, Into35.tr59) @@
           By({"LF"}, Into36.tr60) @@ By({"CR"}, Into95.tr61) @@ By({"c"}, Into96.tr62))

States36_43 ==
    36 :> (To({"TAB", "SP"}, 37) @@ By({"LF"}, Into122.tr64) @@ To({"CR"}, 89) @@
           By(Token \ {"c", "T", "t"}, Into21.tr35) @@ By({"c"}, Into90.tr66) @@
           By({"T", "t"}, Into44.tr37)) @@
    37 :> (To(Space, 37) @@ To({"c"}, 38)) @@
    38 :> (To({"l"}, 39)) @@
    39 :> (To({"o"}, 40)) @@
    40 :> (To({"s"}, 41)) @@
    41 :> (To({"e"}, 42)) @@
    42 :> (To({"LF"}, 43) @@ To({"CR"}, 88)) @@
    43 :> (By({"LF"}, Into120.tr74) @@ By({"CR"}, Into3.tr75) @@
           By(Token \ {"c", "T", "t"}, Into21.tr76) @@ By({"c"}, Into25.tr77) @@
           By({"T", "t"}, Into44.tr78))

States44_47 ==
    44 :> (To(Token \ {"r"}, 21) @@ By({":"}, Into22.tr39) @@ To({"r"}, 45)) @@
    45 :> (To(Token \ {"a"}, 21) @@ By({":"}, Into22.tr39) @@ To({"a"}, 46)) @@
    46 :> (To(Token \ {"n"}, 21) @@ By({":"}, Into22.tr39) @@ To({"n"}, 47)) @@
    47 :> (To(Token \ {"s"}, 21) @@ By({":"}, Into22.tr39) @@ To({"s"}, 48))

States48_52 ==
    48 :> (To(Token \ {"f"}, 21) @@ By({":"}, Into22.tr39) @@ To({"f"}, 49)) @@
    49 :> (To(Token \ {"e"}, 21) @@ By({":"}, Into22.tr39) @@ To({"e"}, 50)) @@
    50 :> (To(Token \ {"r"}, 21) @@ By({":"}, Into22.tr39) @@ To({"r"}, 51)) @@
    51 :> (To(Token \ {"-"}, 21) @@ To({"-"}, 52) @@ By({":"}, Into22.tr39)) @@
    52 :> (To(Token \ {"e"}, 21) @@ By({":"}, Into22.tr39) @@ To({"e"}, 53))

States53_57 ==
    53 :> (To(Token \ {"n"}, 21) @@ By({":"}, Into22.tr39) @@ To({"n"}, 54)) @@
    54 :> (To(Token \ {"c"}, 21) @@ By({":"}, Into22.tr39) @@ To({"c"}, 55)) @@
    55 :> (To(Token \ {"o"}, 21) @@ By({":"}, Into22.tr39) @@ To({"o"}, 56)) @@
    56 :> (To(Token \ {"d"}, 21) @@ By({":"}, Into22.tr39) @@ To({"d"}, 57)) @@
    57 :> (To(Token \ {"i"}, 21) @@ By({":"}, Into22.tr39) @@ To({"i"}, 58))

States58_61 ==
    58 :> (To(Token \ {"n"}, 21) @@ By({":"}, Into22.tr39) @@ To({"n"}, 59)) @@
    59 :> (To(Token \ {"g"}, 21) @@ By({":"}, Into22.tr39) @@ To({"g"}, 60)) @@
    60 :> (To(Token, 21) @@ By({":"}, Into61.tr95)) @@
    61 :> (By(Text \ {"TAB", "SP", "c"}, Into23.tr40) @@ By({"TAB", "SP"}, Into61.tr96) @@
           By({"LF"}, Into62.tr97) @@ By({"CR"}, Into80.tr98) @@ By({"c"}, Into81.tr99))

States62_71 ==
    62 :> (To({"TAB", "SP"}, 63) @@ By({"LF"}, Into121.tr101) @@ To({"CR"}, 72) @@
           By(Token \ {"c", "T", "t"}, Into21.tr35) @@ By({"c"}, Into73.tr103) @@
           By({"T", "t"}, Into44.tr37)) @@
    63 :> (To(Space, 63) @@ By({"c"}, Into64.tr104)) @@
    64 :> (To({"H", "h"}, 65)) @@
    65 :> (To({"u"}, 66)) @@
    66 :> (To({"n"}, 67)) @@
    67 :> (To({"k"}, 68)) @@
    68 :> (To({"e"}, 69)) @@
    69 :> (To({"d"}, 70)) @@
    70 :> (By({"LF"}, Into20.tr111) @@ By({"CR"}, Into71.tr112)) @@
    71 :> (By({"LF"}, Into20.tr113))

States121_75 ==
    121 :> (To(Space, 63) @@ By({"c"}, Into64.tr104)) @@
    72 :> (To(Space \ {"LF"}, 63) @@ By({"LF"}, Into121.tr101) @@ By({"c"}, Into64.tr104)) @@
    73 :> (To(Token \ {"H", "h", "o"}, 21) @@ By({":"}, Into22.tr39) @@ To({"H", "h"}, 74) @@
           To({"o"}, 26)) @@
    74 :> (To(Token \ {"u"}, 21) @@ By({":"}, Into22.tr39) @@ To({"u"}, 75)) @@
    75 :> (To(Token \ {"n"}, 21) @@ By({":"}, Into22.tr39) @@ To({"n"}, 76))

States76_80 ==
    76 :> (To(Token \ {"k"}, 21) @@ By({":"}, Into22.tr39) @@ To({"k"}, 77)) @@
    77 :> (To(Token \ {"e"}, 21) @@ By({":"}, Into22.tr39) @@ To({"e"}, 78)) @@
    78 :> (To(Token \ {"d"}, 21) @@ By({":"}, Into22.tr39) @@ To({"d"}, 79)) @@
    79 :> (By({"LF"}, Into20.tr111) @@ By({"CR"}, Into71.tr112) @@ To(Token, 21) @@
           By({":"}, Into22.tr39)) @@
    80 :> (To(Space \ {"LF"}, 63) @@ To({"LF"}, 62) @@ By({"c"}, Into64.tr104))

States81_89 ==
    81 :> (To(Text \ {"H", "h"}, 23) @@ By({"LF"}, Into20.tr45) @@ By({"CR"}, Into24.tr46) @@
           To({"H", "h"}, 82)) @@
    82 :> (To(Text \ {"u"}, 23) @@ By({"LF"}, Into20.tr45) @@ By({"CR"}, Into24.tr46) @@
           To({"u"}, 83)) @@
    83 :> (To(Text \ {"n"}, 23) @@ By({"LF"}, Into20.tr45) @@ By({"CR"}, Into24.tr46) @@
           To({"n"}, 84)) @@
    84 :> (To(Text \ {"k"}, 23) @@ By({"LF"}, Into20.tr45) @@ By({"CR"}, Into24.tr46) @@
           To({"k"}, 85)) @@
    85 :> (To(Text \ {"e"}, 23) @@ By({"LF"}, Into20.tr45) @@ By({"CR"}, Into24.tr46) @@
           To({"e"}, 86)) @@
    86 :> (To(Text \ {"d"}, 23) @@ By({"LF"}, Into20.tr45) @@ By({"CR"}, Into24.tr46) @@
           To({"d"}, 87)) @@
    87 :> (To(Text, 23) @@ By({"LF"}, Into20.tr111) @@ By({"CR"}, Into71.tr112)) @@
    88 :> (To({"LF"}, 43)) @@
    122 :> (To(Space, 37) @@ To({"c"}, 38)) @@
    89 :> (To(Space \ {"LF"}, 37) @@ By({"LF"}, Into122.tr64) @@ To({"c"}, 38))

States90_93 ==
    90 :> (To(Token \ {"l", "o"}, 21) @@ By({":"}, Into22.tr39) @@ To({"l"}, 91) @@ To({"o"}, 26)) @@
    91 :> (To(Token \ {"o"}, 21) @@ By({":"}, Into22.tr39) @@ To({"o"}, 92)) @@
    92 :> (To(Token \ {"s"}, 21) @@ By({":"}, Into22.tr39) @@ To({"s"}, 93)) @@
    93 :> (To(Token \ {"e"}, 21) @@ By({":"}, Into22.tr39) @@ To({"e"}, 94))

States94_101 ==
    94 :> (To({"LF"}, 43) @@ To({"CR"}, 88) @@ To(Token, 21) @@ By({":"}, Into22.tr39)) @@
    95 :> (To(Space \ {"LF"}, 37) @@ To({"LF"}, 36) @@ To({"c"}, 38)) @@
    96 :> (To(Text \ {"l"}, 23) @@ By({"LF"}, Into20.tr45) @@ By({"CR"}, Into24.tr46) @@
           To({"l"}, 97)) @@
    97 :> (To(Text \ {"o"}, 23) @@ By({"LF"}, Into20.tr45) @@ By({"CR"}, Into24.tr46) @@
           To({"o"}, 98)) @@
    98 :> (To(Text \ {"s"}, 23) @@ By({"LF"}, Into20.tr45) @@ By({"CR"}, Into24.tr46) @@
           To({"s"}, 99)) @@
    99 :> (To(Text \ {"e"}, 23) @@ By({"LF"}, Into20.tr45) @@ By({"CR"}, Into24.tr46) @@
           To({"e"}, 100)) @@
    100 :> (To(Text, 23) @@ By({"LF"}, Into43.tr136) @@ By({"CR"}, Into88.tr137)) @@
    101 :> (To(Token \ {"e"}, 21) @@ By({":"}, Into22.tr39) @@ To({"e"}, 102))

States102_106 ==
    102 :> (To(Token \ {"n"}, 21) @@ By({":"}, Into22.tr39) @@ To({"n"}, 103)) @@
    103 :> (To(Token \ {"T", "t"}, 21) @@ By({":"}, Into22.tr39) @@ To({"T", "t"}, 104)) @@
    104 :> (To(Token \ {"-"}, 21) @@ To({"-"}, 105) @@ By({":"}, Into22.tr39)) @@
    105 :> (To(Token \ {"l"}, 21) @@ By({":"}, Into22.tr39) @@ To({"l"}, 106)) @@
    106 :> (To(Token \ {"e"}, 21) @@ By({":"}, Into22.tr39) @@ To({"e"}, 107))

States107_111 ==
    107 :> (To(Token \ {"n"}, 21) @@ By({":"}, Into22.tr39) @@ To({"n"}, 108)) @@
    108 :> (To(Token \ {"g"}, 21) @@ By({":"}, Into22.tr39) @@ To({"g"}, 109)) @@
    109 :> (To(Token \ {"T", "t"}, 21) @@ By({":"}, Into22.tr39) @@ To({"T", "t"}, 110)) @@
    110 :> (To(Token \ {"H", "h"}, 21) @@ By({":"}, Into22.tr39) @@ To({"H", "h"}, 111)) @@
    111 :> (To(Token, 21) @@ By({":"}, Into112.tr148))

States112_116 ==
    112 :> (By(Text \ {"TAB", "SP", "0"}, Into23.tr40) @@ By({"TAB", "SP"}, Into112.tr149) @@
            By({"LF"}, Into113.tr150) @@ By({"CR"}, Into118.tr151) @@ By({"0"}, Into119.tr152)) @@
    113 :> (To({"TAB", "SP"}, 114) @@ By({"LF"}, Into123.tr154) @@ To({"CR"}, 116) @@
            By(Token \ {"0", "c", "T", "t"}, Into21.tr35) @@ By({"0"}, Into117.tr156) @@
            By({"c"}, Into25.tr36) @@ By({"T", "t"}, Into44.tr37)) @@
    114 :> (To(Space, 114) @@ By({"0"}, Into115.tr157)) @@
    115 :> (By({"LF"}, Into20.tr158) @@ By({"CR"}, Into24.tr159) @@ To({"0"}, 115)) @@
    123 :> (To(Space, 114) @@ By({"0"}, Into115.tr157)) @@
    116 :> (To(Space \ {"LF"}, 114) @@ By({"LF"}, Into123.tr154) @@ By({"0"}, Into115.tr157))

States117_119 ==
    117 :> (By({"LF"}, Into20.tr158) @@ By({"CR"}, Into24.tr159) @@ To(Token \ {"0"}, 21) @@
            To({"0"}, 117) @@ By({":"}, Into22.tr39)) @@
    118 :> (To(Space \ {"LF"}, 114) @@ To({"LF"}, 113) @@ By({"0"}, Into115.tr157)) @@
    119 :> (To(Text \ {"0"}, 23) @@ By({"LF"}, Into20.tr158) @@ By({"CR"}, Into24.tr159) @@
            To({"0"}, 119))

ClientTable ==
    States1_120 @@ States3_6 @@ States7_18 @@ States19_21 @@
    States22_26 @@ States27_30 @@ States31_35 @@ States36_43 @@
    States44_47 @@ States48_52 @@ States53_57 @@ States58_61 @@
    States62_71 @@ States121_75 @@ States76_80 @@ States81_89 @@
    States90_93 @@ States94_101 @@ States102_106 @@ States107_111 @@
    States112_116 @@ States117_119
=============================================================================
