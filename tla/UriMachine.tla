----------------------------- MODULE UriMachine -----------------------------
(***************************************************************************)
(* The machine in uri.cc, as Ragel generated it from uri.rl: 560 states     *)
(* over 23 classes of characters.  Every definition StatesA_B is the        *)
(* stretch of uri.cc from st A to the end of state B, in the order of the   *)
(* file; every definition IntoN is the stretch of transitions that go to    *)
(* stN, with the actions they run.                                          *)
(*                                                                         *)
(* A class is named by one of its characters:                               *)
(*   "0" "1" "2" "5"  themselves;  "3" is 3-4;  "6" is 6-9                  *)
(*   "a" is A-F a-f;  "g" is every other letter except v;  "v" itself       *)
(*   "+" is + and -;  "!" is ! $ & ' ( ) * , ; = _ ~                        *)
(*   "#" "%" "." "/" ":" "?" "@" "[" "]"  themselves                       *)
(*   "HI" is every byte that is not ASCII; "STX" is the byte 2, which the   *)
(*   grammar means by the unquoted 2 in dec_octet; "CTL" is all the rest.   *)
(***************************************************************************)
EXTENDS Ragel

Digit == {"0", "1", "2", "3", "5", "6"}
Xdigit == Digit \cup {"a"}
Alpha == {"a", "g", "v"}
\* unreserved and sub_delims
Name == Alpha \cup Digit \cup {"!", "+", "."}
\* pchar without pct_encoded
Plain == Name \cup {"HI", ":", "@"}

Chars == Plain \cup {"#", "%", "/", "?", "[", "]", "STX", "CTL"}

uri_parser_start == 451
uri_parser_first_final == 451

-----------------------------------------------------------------------------
(* The transitions that run an action. *)

Into453 ==
    [tr467 |-> Tr(<<"marku", "save_query">>, 453),
     tr469 |-> Tr(<<"save_query">>, 453),
     tr474 |-> Tr(<<"markh", "save_host">>, 453),
     tr485 |-> Tr(<<"save_host">>, 453),
     tr489 |-> Tr(<<"markh", "save_port">>, 453),
     tr493 |-> Tr(<<"save_port">>, 453),
     tr548 |-> Tr(<<"markh", "save_host", "save_path">>, 453),
     tr559 |-> Tr(<<"save_host", "markh", "save_path">>, 453),
     tr563 |-> Tr(<<"save_path">>, 453),
     tr566 |-> Tr(<<"markh", "save_port", "save_path">>, 453),
     tr570 |-> Tr(<<"save_port", "markh", "save_path">>, 453)]

Into454 ==
    [tr462 |-> Tr(<<"marku">>, 454)]

Into1 ==
    [tr463 |-> Tr(<<"marku">>, 1)]

Into455 ==
    [tr476 |-> Tr(<<"markh", "save_host">>, 455),
     tr486 |-> Tr(<<"save_host">>, 455),
     tr490 |-> Tr(<<"markh", "save_port">>, 455),
     tr494 |-> Tr(<<"save_port">>, 455)]

Into456 ==
    [tr482 |-> Tr(<<"markh", "save_host">>, 456),
     tr488 |-> Tr(<<"save_host">>, 456),
     tr492 |-> Tr(<<"markh", "save_port">>, 456),
     tr496 |-> Tr(<<"save_port">>, 456),
     tr556 |-> Tr(<<"markh", "save_host", "save_path">>, 456),
     tr562 |-> Tr(<<"save_host", "markh", "save_path">>, 456),
     tr565 |-> Tr(<<"save_path">>, 456),
     tr569 |-> Tr(<<"markh", "save_port", "save_path">>, 456),
     tr573 |-> Tr(<<"save_port", "markh", "save_path">>, 456)]

Into457 ==
    [tr466 |-> Tr(<<"marku">>, 457)]

Into7 ==
    [tr468 |-> Tr(<<"marku">>, 7)]

Into9 ==
    [tr472 |-> Tr(<<"markh">>, 9)]

Into461 ==
    [tr507 |-> Tr(<<"markh", "save_host">>, 461),
     tr487 |-> Tr(<<"save_host">>, 461)]

Into462 ==
    [tr491 |-> Tr(<<"markh">>, 462)]

Into467 ==
    [tr473 |-> Tr(<<"markh">>, 467)]

Into31 ==
    [tr475 |-> Tr(<<"markh">>, 31)]

Into468 ==
    [tr481 |-> Tr(<<"markh", "save_host">>, 468),
     tr499 |-> Tr(<<"save_host">>, 468)]

Into469 ==
    [tr38 |-> Tr(<<"save_userinfo">>, 469),
     tr483 |-> Tr(<<"markh", "save_userinfo">>, 469)]

Into470 ==
    [tr501 |-> Tr(<<"markh">>, 470)]

Into36 ==
    [tr502 |-> Tr(<<"markh">>, 36)]

Into471 ==
    [tr503 |-> Tr(<<"markh">>, 471)]

Into485 ==
    [tr504 |-> Tr(<<"markh">>, 485)]

Into486 ==
    [tr506 |-> Tr(<<"markh">>, 486)]

Into487 ==
    [tr505 |-> Tr(<<"markh">>, 487)]

Into38 ==
    [tr484 |-> Tr(<<"markh">>, 38)]

Into489 ==
    [tr500 |-> Tr(<<"markh">>, 489)]

Into490 ==
    [tr477 |-> Tr(<<"markh">>, 490)]

Into504 ==
    [tr478 |-> Tr(<<"markh">>, 504)]

Into505 ==
    [tr480 |-> Tr(<<"markh">>, 505)]

Into506 ==
    [tr479 |-> Tr(<<"markh">>, 506)]

Into508 ==
    [tr461 |-> Tr(<<"marku">>, 508)]

Into509 ==
    [tr543 |-> Tr(<<"save_scheme">>, 509)]

Into229 ==
    [tr546 |-> Tr(<<"markh">>, 229)]

Into513 ==
    [tr550 |-> Tr(<<"markh", "save_host">>, 513),
     tr567 |-> Tr(<<"markh", "save_port">>, 513),
     tr560 |-> Tr(<<"save_host", "markh">>, 513),
     tr571 |-> Tr(<<"save_port", "markh">>, 513)]

Into514 ==
    [tr584 |-> Tr(<<"markh", "save_host">>, 514),
     tr561 |-> Tr(<<"save_host">>, 514)]

Into515 ==
    [tr568 |-> Tr(<<"markh">>, 515)]

Into520 ==
    [tr547 |-> Tr(<<"markh">>, 520)]

Into253 ==
    [tr549 |-> Tr(<<"markh">>, 253)]

Into521 ==
    [tr555 |-> Tr(<<"markh", "save_host">>, 521),
     tr576 |-> Tr(<<"save_host">>, 521)]

Into522 ==
    [tr263 |-> Tr(<<"save_userinfo">>, 522),
     tr557 |-> Tr(<<"markh", "save_userinfo">>, 522)]

Into523 ==
    [tr578 |-> Tr(<<"markh">>, 523)]

Into258 ==
    [tr579 |-> Tr(<<"markh">>, 258)]

Into524 ==
    [tr580 |-> Tr(<<"markh">>, 524)]

Into538 ==
    [tr581 |-> Tr(<<"markh">>, 538)]

Into539 ==
    [tr583 |-> Tr(<<"markh">>, 539)]

Into540 ==
    [tr582 |-> Tr(<<"markh">>, 540)]

Into260 ==
    [tr558 |-> Tr(<<"markh">>, 260)]

Into542 ==
    [tr577 |-> Tr(<<"markh">>, 542)]

Into543 ==
    [tr551 |-> Tr(<<"markh">>, 543)]

Into557 ==
    [tr552 |-> Tr(<<"markh">>, 557)]

Into558 ==
    [tr554 |-> Tr(<<"markh">>, 558)]

Into559 ==
    [tr553 |-> Tr(<<"markh">>, 559)]

-----------------------------------------------------------------------------
(* The states. *)

States451_452 ==
    451 :> (To(Plain \ {":", "a", "g", "v"}, 452) @@ To({"#"}, 453) @@ To({"%"}, 3) @@
            To({"/"}, 458) @@ To({"?"}, 456) @@ By(Alpha, Into508.tr461)) @@
    452 :> (To(Plain \ {":"}, 452) @@ To({"#"}, 453) @@ To({"%"}, 3) @@ To({"/"}, 455) @@
            To({"?"}, 456))

States453_4 ==
    453 :> (By(Plain \cup {"/", "?"}, Into454.tr462) @@ By({"%"}, Into1.tr463)) @@
    454 :> (To(Plain \cup {"/", "?"}, 454) @@ To({"%"}, 1)) @@
    1 :> (To(Xdigit, 2)) @@
    2 :> (To(Xdigit, 454)) @@
    3 :> (To(Xdigit, 4)) @@
    4 :> (To(Xdigit, 452))

States455_6 ==
    455 :> (To(Plain \cup {"/"}, 455) @@ To({"#"}, 453) @@ To({"%"}, 5) @@ To({"?"}, 456)) @@
    5 :> (To(Xdigit, 6)) @@
    6 :> (To(Xdigit, 455))

States456_459 ==
    456 :> (By(Plain \cup {"/", "?"}, Into457.tr466) @@ By({"#"}, Into453.tr467) @@
            By({"%"}, Into7.tr468)) @@
    457 :> (To(Plain \cup {"/", "?"}, 457) @@ By({"#"}, Into453.tr469) @@ To({"%"}, 7)) @@
    7 :> (To(Xdigit, 8)) @@
    8 :> (To(Xdigit, 457)) @@
    458 :> (To(Plain, 455) @@ To({"#"}, 453) @@ To({"%"}, 5) @@ To({"/"}, 459) @@ To({"?"}, 456)) @@
    459 :> (By({"STX"}, Into9.tr472) @@ By(Name \ Digit, Into467.tr473) @@
            By({"#"}, Into453.tr474) @@ By({"%"}, Into31.tr475) @@ By({"/"}, Into455.tr476) @@
            By({"0"}, Into490.tr477) @@ By({"1"}, Into504.tr478) @@ By({"2"}, Into506.tr479) @@
            By({"3", "5", "6"}, Into505.tr480) @@ By({":"}, Into468.tr481) @@
            By({"?"}, Into456.tr482) @@ By({"@"}, Into469.tr483) @@ By({"["}, Into38.tr484))

States9_460 ==
    9 :> (To(Digit \ {"5", "6"}, 10)) @@
    10 :> (To(Digit, 11)) @@
    11 :> (To({"."}, 12)) @@
    12 :> (To({"STX"}, 13) @@ To({"0"}, 15) @@ To({"1"}, 27) @@ To({"2"}, 29) @@
           To({"3", "5", "6"}, 28)) @@
    13 :> (To(Digit \ {"5", "6"}, 14)) @@
    14 :> (To(Digit, 15)) @@
    15 :> (To({"."}, 16)) @@
    16 :> (To({"STX"}, 17) @@ To({"0"}, 19) @@ To({"1"}, 23) @@ To({"2"}, 25) @@
           To({"3", "5", "6"}, 24)) @@
    17 :> (To(Digit \ {"5", "6"}, 18)) @@
    18 :> (To(Digit, 19)) @@
    19 :> (To({"."}, 20)) @@
    20 :> (To({"STX"}, 21) @@ To({"0"}, 460) @@ To({"1"}, 463) @@ To({"2"}, 465) @@
           To({"3", "5", "6"}, 464)) @@
    21 :> (To(Digit \ {"5", "6"}, 22)) @@
    22 :> (To(Digit, 460)) @@
    460 :> (By({"#"}, Into453.tr485) @@ By({"/"}, Into455.tr486) @@ By({":"}, Into461.tr487) @@
            By({"?"}, Into456.tr488))

States461_29 ==
    461 :> (By({"#"}, Into453.tr489) @@ By({"/"}, Into455.tr490) @@ By(Digit, Into462.tr491) @@
            By({"?"}, Into456.tr492)) @@
    462 :> (By({"#"}, Into453.tr493) @@ By({"/"}, Into455.tr494) @@ To(Digit, 462) @@
            By({"?"}, Into456.tr496)) @@
    463 :> (By({"#"}, Into453.tr485) @@ By({"/"}, Into455.tr486) @@ To(Digit, 464) @@
            By({":"}, Into461.tr487) @@ By({"?"}, Into456.tr488)) @@
    464 :> (By({"#"}, Into453.tr485) @@ By({"/"}, Into455.tr486) @@ To(Digit, 460) @@
            By({":"}, Into461.tr487) @@ By({"?"}, Into456.tr488)) @@
    465 :> (By({"#"}, Into453.tr485) @@ By({"/"}, Into455.tr486) @@ To(Digit \ {"5"}, 460) @@
            To({"5"}, 466) @@ By({":"}, Into461.tr487) @@ By({"?"}, Into456.tr488)) @@
    466 :> (By({"#"}, Into453.tr485) @@ By({"/"}, Into455.tr486) @@ To(Digit \ {"6"}, 460) @@
            By({":"}, Into461.tr487) @@ By({"?"}, Into456.tr488)) @@
    23 :> (To({"."}, 20) @@ To(Digit, 24)) @@
    24 :> (To({"."}, 20) @@ To(Digit, 19)) @@
    25 :> (To({"."}, 20) @@ To(Digit \ {"5"}, 19) @@ To({"5"}, 26)) @@
    26 :> (To({"."}, 20) @@ To(Digit \ {"6"}, 19)) @@
    27 :> (To({"."}, 16) @@ To(Digit, 28)) @@
    28 :> (To({"."}, 16) @@ To(Digit, 15)) @@
    29 :> (To({"."}, 16) @@ To(Digit \ {"5"}, 15) @@ To({"5"}, 30))

States30_33 ==
    30 :> (To({"."}, 16) @@ To(Digit \ {"6"}, 15)) @@
    467 :> (To(Name, 467) @@ By({"#"}, Into453.tr485) @@ To({"%"}, 31) @@
            By({"/"}, Into455.tr486) @@ By({":"}, Into468.tr499) @@ By({"?"}, Into456.tr488) @@
            By({"@"}, Into469.tr38)) @@
    31 :> (To(Xdigit, 32)) @@
    32 :> (To(Xdigit, 467)) @@
    468 :> (To(Alpha \cup {"!", "+", ".", ":"}, 33) @@ By({"#"}, Into453.tr489) @@ To({"%"}, 34) @@
            By({"/"}, Into455.tr490) @@ By(Digit, Into489.tr500) @@ By({"?"}, Into456.tr492) @@
            By({"@"}, Into469.tr38)) @@
    33 :> (To(Name \cup {":"}, 33) @@ To({"%"}, 34) @@ By({"@"}, Into469.tr38))

States34_37 ==
    34 :> (To(Xdigit, 35)) @@
    35 :> (To(Xdigit, 33)) @@
    469 :> (By({"STX"}, Into9.tr472) @@ By(Name \ Digit, Into470.tr501) @@
            By({"#"}, Into453.tr474) @@ By({"%"}, Into36.tr502) @@ By({"/"}, Into455.tr476) @@
            By({"0"}, Into471.tr503) @@ By({"1"}, Into485.tr504) @@ By({"2"}, Into487.tr505) @@
            By({"3", "5", "6"}, Into486.tr506) @@ By({":"}, Into461.tr507) @@
            By({"?"}, Into456.tr482) @@ By({"["}, Into38.tr484)) @@
    470 :> (To(Name, 470) @@ By({"#"}, Into453.tr485) @@ To({"%"}, 36) @@
            By({"/"}, Into455.tr486) @@ By({":"}, Into461.tr487) @@ By({"?"}, Into456.tr488)) @@
    36 :> (To(Xdigit, 37)) @@
    37 :> (To(Xdigit, 470))

States471_475 ==
    471 :> (To(Name \ {"."}, 470) @@ By({"#"}, Into453.tr485) @@ To({"%"}, 36) @@ To({"."}, 472) @@
            By({"/"}, Into455.tr486) @@ By({":"}, Into461.tr487) @@ By({"?"}, Into456.tr488)) @@
    472 :> (To({"STX"}, 13) @@ To(Name \ Digit, 470) @@ By({"#"}, Into453.tr485) @@
            To({"%"}, 36) @@ By({"/"}, Into455.tr486) @@ To({"0"}, 473) @@ To({"1"}, 481) @@
            To({"2"}, 483) @@ To({"3", "5", "6"}, 482) @@ By({":"}, Into461.tr487) @@
            By({"?"}, Into456.tr488)) @@
    473 :> (To(Name \ {"."}, 470) @@ By({"#"}, Into453.tr485) @@ To({"%"}, 36) @@ To({"."}, 474) @@
            By({"/"}, Into455.tr486) @@ By({":"}, Into461.tr487) @@ By({"?"}, Into456.tr488)) @@
    474 :> (To({"STX"}, 17) @@ To(Name \ Digit, 470) @@ By({"#"}, Into453.tr485) @@
            To({"%"}, 36) @@ By({"/"}, Into455.tr486) @@ To({"0"}, 475) @@ To({"1"}, 477) @@
            To({"2"}, 479) @@ To({"3", "5", "6"}, 478) @@ By({":"}, Into461.tr487) @@
            By({"?"}, Into456.tr488)) @@
    475 :> (To(Name \ {"."}, 470) @@ By({"#"}, Into453.tr485) @@ To({"%"}, 36) @@ To({"."}, 476) @@
            By({"/"}, Into455.tr486) @@ By({":"}, Into461.tr487) @@ By({"?"}, Into456.tr488))

States476_480 ==
    476 :> (To({"STX"}, 21) @@ To(Name, 470) @@ By({"#"}, Into453.tr485) @@ To({"%"}, 36) @@
            By({"/"}, Into455.tr486) @@ By({":"}, Into461.tr487) @@ By({"?"}, Into456.tr488)) @@
    477 :> (To(Alpha \cup {"!", "+"}, 470) @@ By({"#"}, Into453.tr485) @@ To({"%"}, 36) @@
            To({"."}, 476) @@ By({"/"}, Into455.tr486) @@ To(Digit, 478) @@
            By({":"}, Into461.tr487) @@ By({"?"}, Into456.tr488)) @@
    478 :> (To(Alpha \cup {"!", "+"}, 470) @@ By({"#"}, Into453.tr485) @@ To({"%"}, 36) @@
            To({"."}, 476) @@ By({"/"}, Into455.tr486) @@ To(Digit, 475) @@
            By({":"}, Into461.tr487) @@ By({"?"}, Into456.tr488)) @@
    479 :> (To(Alpha \cup {"!", "+"}, 470) @@ By({"#"}, Into453.tr485) @@ To({"%"}, 36) @@
            To({"."}, 476) @@ By({"/"}, Into455.tr486) @@ To(Digit \ {"5"}, 475) @@
            To({"5"}, 480) @@ By({":"}, Into461.tr487) @@ By({"?"}, Into456.tr488)) @@
    480 :> (To(Alpha \cup {"!", "+", "6"}, 470) @@ By({"#"}, Into453.tr485) @@ To({"%"}, 36) @@
            To({"."}, 476) @@ By({"/"}, Into455.tr486) @@ To(Digit \ {"6"}, 475) @@
            By({":"}, Into461.tr487) @@ By({"?"}, Into456.tr488))

States481_484 ==
    481 :> (To(Alpha \cup {"!", "+"}, 470) @@ By({"#"}, Into453.tr485) @@ To({"%"}, 36) @@
            To({"."}, 474) @@ By({"/"}, Into455.tr486) @@ To(Digit, 482) @@
            By({":"}, Into461.tr487) @@ By({"?"}, Into456.tr488)) @@
    482 :> (To(Alpha \cup {"!", "+"}, 470) @@ By({"#"}, Into453.tr485) @@ To({"%"}, 36) @@
            To({"."}, 474) @@ By({"/"}, Into455.tr486) @@ To(Digit, 473) @@
            By({":"}, Into461.tr487) @@ By({"?"}, Into456.tr488)) @@
    483 :> (To(Alpha \cup {"!", "+"}, 470) @@ By({"#"}, Into453.tr485) @@ To({"%"}, 36) @@
            To({"."}, 474) @@ By({"/"}, Into455.tr486) @@ To(Digit \ {"5"}, 473) @@
            To({"5"}, 484) @@ By({":"}, Into461.tr487) @@ By({"?"}, Into456.tr488)) @@
    484 :> (To(Alpha \cup {"!", "+", "6"}, 470) @@ By({"#"}, Into453.tr485) @@ To({"%"}, 36) @@
            To({"."}, 474) @@ By({"/"}, Into455.tr486) @@ To(Digit \ {"6"}, 473) @@
            By({":"}, Into461.tr487) @@ By({"?"}, Into456.tr488))

States485_488 ==
    485 :> (To(Alpha \cup {"!", "+"}, 470) @@ By({"#"}, Into453.tr485) @@ To({"%"}, 36) @@
            To({"."}, 472) @@ By({"/"}, Into455.tr486) @@ To(Digit, 486) @@
            By({":"}, Into461.tr487) @@ By({"?"}, Into456.tr488)) @@
    486 :> (To(Alpha \cup {"!", "+"}, 470) @@ By({"#"}, Into453.tr485) @@ To({"%"}, 36) @@
            To({"."}, 472) @@ By({"/"}, Into455.tr486) @@ To(Digit, 471) @@
            By({":"}, Into461.tr487) @@ By({"?"}, Into456.tr488)) @@
    487 :> (To(Alpha \cup {"!", "+"}, 470) @@ By({"#"}, Into453.tr485) @@ To({"%"}, 36) @@
            To({"."}, 472) @@ By({"/"}, Into455.tr486) @@ To(Digit \ {"5"}, 471) @@
            To({"5"}, 488) @@ By({":"}, Into461.tr487) @@ By({"?"}, Into456.tr488)) @@
    488 :> (To(Alpha \cup {"!", "+", "6"}, 470) @@ By({"#"}, Into453.tr485) @@ To({"%"}, 36) @@
            To({"."}, 472) @@ By({"/"}, Into455.tr486) @@ To(Digit \ {"6"}, 471) @@
            By({":"}, Into461.tr487) @@ By({"?"}, Into456.tr488))

States38_47 ==
    38 :> (To(Xdigit, 39) @@ To({":"}, 146) @@ To({"v"}, 225)) @@
    39 :> (To(Xdigit, 40) @@ To({":"}, 43)) @@
    40 :> (To(Xdigit, 41) @@ To({":"}, 43)) @@
    41 :> (To(Xdigit, 42) @@ To({":"}, 43)) @@
    42 :> (To({":"}, 43)) @@
    43 :> (To(Xdigit, 44) @@ To({":"}, 141)) @@
    44 :> (To(Xdigit, 45) @@ To({":"}, 48)) @@
    45 :> (To(Xdigit, 46) @@ To({":"}, 48)) @@
    46 :> (To(Xdigit, 47) @@ To({":"}, 48)) @@
    47 :> (To({":"}, 48))

States48_58 ==
    48 :> (To(Xdigit, 49) @@ To({":"}, 136)) @@
    49 :> (To(Xdigit, 50) @@ To({":"}, 53)) @@
    50 :> (To(Xdigit, 51) @@ To({":"}, 53)) @@
    51 :> (To(Xdigit, 52) @@ To({":"}, 53)) @@
    52 :> (To({":"}, 53)) @@
    53 :> (To(Xdigit, 54) @@ To({":"}, 131)) @@
    54 :> (To(Xdigit, 55) @@ To({":"}, 58)) @@
    55 :> (To(Xdigit, 56) @@ To({":"}, 58)) @@
    56 :> (To(Xdigit, 57) @@ To({":"}, 58)) @@
    57 :> (To({":"}, 58)) @@
    58 :> (To(Xdigit, 59) @@ To({":"}, 126))

States59_69 ==
    59 :> (To(Xdigit, 60) @@ To({":"}, 63)) @@
    60 :> (To(Xdigit, 61) @@ To({":"}, 63)) @@
    61 :> (To(Xdigit, 62) @@ To({":"}, 63)) @@
    62 :> (To({":"}, 63)) @@
    63 :> (To(Xdigit, 64) @@ To({":"}, 113)) @@
    64 :> (To(Xdigit, 65) @@ To({":"}, 68)) @@
    65 :> (To(Xdigit, 66) @@ To({":"}, 68)) @@
    66 :> (To(Xdigit, 67) @@ To({":"}, 68)) @@
    67 :> (To({":"}, 68)) @@
    68 :> (To({"STX"}, 69) @@ To({"0"}, 96) @@ To({"1"}, 104) @@ To({"2"}, 107) @@
           To({"3", "5", "6"}, 110) @@ To({":"}, 111) @@ To({"a"}, 112)) @@
    69 :> (To(Digit \ {"5", "6"}, 70))

States70_86 ==
    70 :> (To(Digit, 71)) @@
    71 :> (To({"."}, 72)) @@
    72 :> (To({"STX"}, 73) @@ To({"0"}, 75) @@ To({"1"}, 92) @@ To({"2"}, 94) @@
           To({"3", "5", "6"}, 93)) @@
    73 :> (To(Digit \ {"5", "6"}, 74)) @@
    74 :> (To(Digit, 75)) @@
    75 :> (To({"."}, 76)) @@
    76 :> (To({"STX"}, 77) @@ To({"0"}, 79) @@ To({"1"}, 88) @@ To({"2"}, 90) @@
           To({"3", "5", "6"}, 89)) @@
    77 :> (To(Digit \ {"5", "6"}, 78)) @@
    78 :> (To(Digit, 79)) @@
    79 :> (To({"."}, 80)) @@
    80 :> (To({"STX"}, 81) @@ To({"0"}, 83) @@ To({"1"}, 84) @@ To({"2"}, 86) @@
           To({"3", "5", "6"}, 85)) @@
    81 :> (To(Digit \ {"5", "6"}, 82)) @@
    82 :> (To(Digit, 83)) @@
    83 :> (To({"]"}, 460)) @@
    84 :> (To(Digit, 85) @@ To({"]"}, 460)) @@
    85 :> (To(Digit, 83) @@ To({"]"}, 460)) @@
    86 :> (To(Digit \ {"5"}, 83) @@ To({"5"}, 87) @@ To({"]"}, 460))

States87_99 ==
    87 :> (To(Digit \ {"6"}, 83) @@ To({"]"}, 460)) @@
    88 :> (To({"."}, 80) @@ To(Digit, 89)) @@
    89 :> (To({"."}, 80) @@ To(Digit, 79)) @@
    90 :> (To({"."}, 80) @@ To(Digit \ {"5"}, 79) @@ To({"5"}, 91)) @@
    91 :> (To({"."}, 80) @@ To(Digit \ {"6"}, 79)) @@
    92 :> (To({"."}, 76) @@ To(Digit, 93)) @@
    93 :> (To({"."}, 76) @@ To(Digit, 75)) @@
    94 :> (To({"."}, 76) @@ To(Digit \ {"5"}, 75) @@ To({"5"}, 95)) @@
    95 :> (To({"."}, 76) @@ To(Digit \ {"6"}, 75)) @@
    96 :> (To({"."}, 72) @@ To(Xdigit, 97) @@ To({":"}, 100)) @@
    97 :> (To(Xdigit, 98) @@ To({":"}, 100)) @@
    98 :> (To(Xdigit, 99) @@ To({":"}, 100)) @@
    99 :> (To({":"}, 100))

States100_108 ==
    100 :> (To(Xdigit, 101) @@ To({":"}, 83)) @@
    101 :> (To(Xdigit, 102) @@ To({"]"}, 460)) @@
    102 :> (To(Xdigit, 103) @@ To({"]"}, 460)) @@
    103 :> (To(Xdigit, 83) @@ To({"]"}, 460)) @@
    104 :> (To({"."}, 72) @@ To(Digit, 105) @@ To({":"}, 100) @@ To({"a"}, 97)) @@
    105 :> (To({"."}, 72) @@ To(Digit, 106) @@ To({":"}, 100) @@ To({"a"}, 98)) @@
    106 :> (To({"."}, 72) @@ To(Xdigit, 99) @@ To({":"}, 100)) @@
    107 :> (To({"."}, 72) @@ To(Digit \ {"5"}, 108) @@ To({"5"}, 109) @@ To({":"}, 100) @@
            To({"a"}, 97)) @@
    108 :> (To({"."}, 72) @@ To(Xdigit, 98) @@ To({":"}, 100))

States109_117 ==
    109 :> (To({"."}, 72) @@ To(Digit \ {"6"}, 106) @@ To({"6", "a"}, 98) @@ To({":"}, 100)) @@
    110 :> (To({"."}, 72) @@ To(Digit, 108) @@ To({":"}, 100) @@ To({"a"}, 97)) @@
    111 :> (To(Xdigit, 101)) @@
    112 :> (To(Xdigit, 97) @@ To({":"}, 100)) @@
    113 :> (To({"STX"}, 69) @@ To({"0"}, 114) @@ To({"1"}, 118) @@ To({"2"}, 121) @@
            To({"3", "5", "6"}, 124) @@ To({"a"}, 125)) @@
    114 :> (To({"."}, 72) @@ To(Xdigit, 115) @@ To({":"}, 111)) @@
    115 :> (To(Xdigit, 116) @@ To({":"}, 111)) @@
    116 :> (To(Xdigit, 117) @@ To({":"}, 111)) @@
    117 :> (To({":"}, 111))

States118_125 ==
    118 :> (To({"."}, 72) @@ To(Digit, 119) @@ To({":"}, 111) @@ To({"a"}, 115)) @@
    119 :> (To({"."}, 72) @@ To(Digit, 120) @@ To({":"}, 111) @@ To({"a"}, 116)) @@
    120 :> (To({"."}, 72) @@ To(Xdigit, 117) @@ To({":"}, 111)) @@
    121 :> (To({"."}, 72) @@ To(Digit \ {"5"}, 122) @@ To({"5"}, 123) @@ To({":"}, 111) @@
            To({"a"}, 115)) @@
    122 :> (To({"."}, 72) @@ To(Xdigit, 116) @@ To({":"}, 111)) @@
    123 :> (To({"."}, 72) @@ To(Digit \ {"6"}, 120) @@ To({"6", "a"}, 116) @@ To({":"}, 111)) @@
    124 :> (To({"."}, 72) @@ To(Digit, 122) @@ To({":"}, 111) @@ To({"a"}, 115)) @@
    125 :> (To(Xdigit, 115) @@ To({":"}, 111))

States126_136 ==
    126 :> (To(Xdigit, 127)) @@
    127 :> (To(Xdigit, 128) @@ To({":"}, 113)) @@
    128 :> (To(Xdigit, 129) @@ To({":"}, 113)) @@
    129 :> (To(Xdigit, 130) @@ To({":"}, 113)) @@
    130 :> (To({":"}, 113)) @@
    131 :> (To(Xdigit, 132)) @@
    132 :> (To(Xdigit, 133) @@ To({":"}, 126)) @@
    133 :> (To(Xdigit, 134) @@ To({":"}, 126)) @@
    134 :> (To(Xdigit, 135) @@ To({":"}, 126)) @@
    135 :> (To({":"}, 126)) @@
    136 :> (To(Xdigit, 137))

States137_147 ==
    137 :> (To(Xdigit, 138) @@ To({":"}, 131)) @@
    138 :> (To(Xdigit, 139) @@ To({":"}, 131)) @@
    139 :> (To(Xdigit, 140) @@ To({":"}, 131)) @@
    140 :> (To({":"}, 131)) @@
    141 :> (To(Xdigit, 142)) @@
    142 :> (To(Xdigit, 143) @@ To({":"}, 136)) @@
    143 :> (To(Xdigit, 144) @@ To({":"}, 136)) @@
    144 :> (To(Xdigit, 145) @@ To({":"}, 136)) @@
    145 :> (To({":"}, 136)) @@
    146 :> (To({":"}, 147)) @@
    147 :> (To({"STX"}, 69) @@ To({"0"}, 148) @@ To({"1"}, 217) @@ To({"2"}, 220) @@
            To({"3", "5", "6"}, 223) @@ To({"a"}, 224) @@ To({"]"}, 460))

States148_156 ==
    148 :> (To({"."}, 72) @@ To(Xdigit, 149) @@ To({":"}, 152) @@ To({"]"}, 460)) @@
    149 :> (To(Xdigit, 150) @@ To({":"}, 152) @@ To({"]"}, 460)) @@
    150 :> (To(Xdigit, 151) @@ To({":"}, 152) @@ To({"]"}, 460)) @@
    151 :> (To({":"}, 152) @@ To({"]"}, 460)) @@
    152 :> (To({"STX"}, 69) @@ To({"0"}, 153) @@ To({"1"}, 209) @@ To({"2"}, 212) @@
            To({"3", "5", "6"}, 215) @@ To({"a"}, 216)) @@
    153 :> (To({"."}, 72) @@ To(Xdigit, 154) @@ To({":"}, 157) @@ To({"]"}, 460)) @@
    154 :> (To(Xdigit, 155) @@ To({":"}, 157) @@ To({"]"}, 460)) @@
    155 :> (To(Xdigit, 156) @@ To({":"}, 157) @@ To({"]"}, 460)) @@
    156 :> (To({":"}, 157) @@ To({"]"}, 460))

States157_164 ==
    157 :> (To({"STX"}, 69) @@ To({"0"}, 158) @@ To({"1"}, 201) @@ To({"2"}, 204) @@
            To({"3", "5", "6"}, 207) @@ To({"a"}, 208)) @@
    158 :> (To({"."}, 72) @@ To(Xdigit, 159) @@ To({":"}, 162) @@ To({"]"}, 460)) @@
    159 :> (To(Xdigit, 160) @@ To({":"}, 162) @@ To({"]"}, 460)) @@
    160 :> (To(Xdigit, 161) @@ To({":"}, 162) @@ To({"]"}, 460)) @@
    161 :> (To({":"}, 162) @@ To({"]"}, 460)) @@
    162 :> (To({"STX"}, 69) @@ To({"0"}, 163) @@ To({"1"}, 193) @@ To({"2"}, 196) @@
            To({"3", "5", "6"}, 199) @@ To({"a"}, 200)) @@
    163 :> (To({"."}, 72) @@ To(Xdigit, 164) @@ To({":"}, 167) @@ To({"]"}, 460)) @@
    164 :> (To(Xdigit, 165) @@ To({":"}, 167) @@ To({"]"}, 460))

States165_173 ==
    165 :> (To(Xdigit, 166) @@ To({":"}, 167) @@ To({"]"}, 460)) @@
    166 :> (To({":"}, 167) @@ To({"]"}, 460)) @@
    167 :> (To({"STX"}, 69) @@ To({"0"}, 168) @@ To({"1"}, 185) @@ To({"2"}, 188) @@
            To({"3", "5", "6"}, 191) @@ To({"a"}, 192)) @@
    168 :> (To({"."}, 72) @@ To(Xdigit, 169) @@ To({":"}, 172) @@ To({"]"}, 460)) @@
    169 :> (To(Xdigit, 170) @@ To({":"}, 172) @@ To({"]"}, 460)) @@
    170 :> (To(Xdigit, 171) @@ To({":"}, 172) @@ To({"]"}, 460)) @@
    171 :> (To({":"}, 172) @@ To({"]"}, 460)) @@
    172 :> (To({"STX"}, 69) @@ To({"0"}, 173) @@ To({"1"}, 177) @@ To({"2"}, 180) @@
            To({"3", "5", "6"}, 183) @@ To({"a"}, 184)) @@
    173 :> (To({"."}, 72) @@ To(Xdigit, 174) @@ To({":"}, 111) @@ To({"]"}, 460))

States174_181 ==
    174 :> (To(Xdigit, 175) @@ To({":"}, 111) @@ To({"]"}, 460)) @@
    175 :> (To(Xdigit, 176) @@ To({":"}, 111) @@ To({"]"}, 460)) @@
    176 :> (To({":"}, 111) @@ To({"]"}, 460)) @@
    177 :> (To({"."}, 72) @@ To(Digit, 178) @@ To({":"}, 111) @@ To({"a"}, 174) @@ To({"]"}, 460)) @@
    178 :> (To({"."}, 72) @@ To(Digit, 179) @@ To({":"}, 111) @@ To({"a"}, 175) @@ To({"]"}, 460)) @@
    179 :> (To({"."}, 72) @@ To(Xdigit, 176) @@ To({":"}, 111) @@ To({"]"}, 460)) @@
    180 :> (To({"."}, 72) @@ To(Digit \ {"5"}, 181) @@ To({"5"}, 182) @@ To({":"}, 111) @@
            To({"a"}, 174) @@ To({"]"}, 460)) @@
    181 :> (To({"."}, 72) @@ To(Xdigit, 175) @@ To({":"}, 111) @@ To({"]"}, 460))

States182_189 ==
    182 :> (To({"."}, 72) @@ To(Digit \ {"6"}, 179) @@ To({"6", "a"}, 175) @@ To({":"}, 111) @@
            To({"]"}, 460)) @@
    183 :> (To({"."}, 72) @@ To(Digit, 181) @@ To({":"}, 111) @@ To({"a"}, 174) @@ To({"]"}, 460)) @@
    184 :> (To(Xdigit, 174) @@ To({":"}, 111) @@ To({"]"}, 460)) @@
    185 :> (To({"."}, 72) @@ To(Digit, 186) @@ To({":"}, 172) @@ To({"a"}, 169) @@ To({"]"}, 460)) @@
    186 :> (To({"."}, 72) @@ To(Digit, 187) @@ To({":"}, 172) @@ To({"a"}, 170) @@ To({"]"}, 460)) @@
    187 :> (To({"."}, 72) @@ To(Xdigit, 171) @@ To({":"}, 172) @@ To({"]"}, 460)) @@
    188 :> (To({"."}, 72) @@ To(Digit \ {"5"}, 189) @@ To({"5"}, 190) @@ To({":"}, 172) @@
            To({"a"}, 169) @@ To({"]"}, 460)) @@
    189 :> (To({"."}, 72) @@ To(Xdigit, 170) @@ To({":"}, 172) @@ To({"]"}, 460))

States190_197 ==
    190 :> (To({"."}, 72) @@ To(Digit \ {"6"}, 187) @@ To({"6", "a"}, 170) @@ To({":"}, 172) @@
            To({"]"}, 460)) @@
    191 :> (To({"."}, 72) @@ To(Digit, 189) @@ To({":"}, 172) @@ To({"a"}, 169) @@ To({"]"}, 460)) @@
    192 :> (To(Xdigit, 169) @@ To({":"}, 172) @@ To({"]"}, 460)) @@
    193 :> (To({"."}, 72) @@ To(Digit, 194) @@ To({":"}, 167) @@ To({"a"}, 164) @@ To({"]"}, 460)) @@
    194 :> (To({"."}, 72) @@ To(Digit, 195) @@ To({":"}, 167) @@ To({"a"}, 165) @@ To({"]"}, 460)) @@
    195 :> (To({"."}, 72) @@ To(Xdigit, 166) @@ To({":"}, 167) @@ To({"]"}, 460)) @@
    196 :> (To({"."}, 72) @@ To(Digit \ {"5"}, 197) @@ To({"5"}, 198) @@ To({":"}, 167) @@
            To({"a"}, 164) @@ To({"]"}, 460)) @@
    197 :> (To({"."}, 72) @@ To(Xdigit, 165) @@ To({":"}, 167) @@ To({"]"}, 460))

States198_205 ==
    198 :> (To({"."}, 72) @@ To(Digit \ {"6"}, 195) @@ To({"6", "a"}, 165) @@ To({":"}, 167) @@
            To({"]"}, 460)) @@
    199 :> (To({"."}, 72) @@ To(Digit, 197) @@ To({":"}, 167) @@ To({"a"}, 164) @@ To({"]"}, 460)) @@
    200 :> (To(Xdigit, 164) @@ To({":"}, 167) @@ To({"]"}, 460)) @@
    201 :> (To({"."}, 72) @@ To(Digit, 202) @@ To({":"}, 162) @@ To({"a"}, 159) @@ To({"]"}, 460)) @@
    202 :> (To({"."}, 72) @@ To(Digit, 203) @@ To({":"}, 162) @@ To({"a"}, 160) @@ To({"]"}, 460)) @@
    203 :> (To({"."}, 72) @@ To(Xdigit, 161) @@ To({":"}, 162) @@ To({"]"}, 460)) @@
    204 :> (To({"."}, 72) @@ To(Digit \ {"5"}, 205) @@ To({"5"}, 206) @@ To({":"}, 162) @@
            To({"a"}, 159) @@ To({"]"}, 460)) @@
    205 :> (To({"."}, 72) @@ To(Xdigit, 160) @@ To({":"}, 162) @@ To({"]"}, 460))

States206_213 ==
    206 :> (To({"."}, 72) @@ To(Digit \ {"6"}, 203) @@ To({"6", "a"}, 160) @@ To({":"}, 162) @@
            To({"]"}, 460)) @@
    207 :> (To({"."}, 72) @@ To(Digit, 205) @@ To({":"}, 162) @@ To({"a"}, 159) @@ To({"]"}, 460)) @@
    208 :> (To(Xdigit, 159) @@ To({":"}, 162) @@ To({"]"}, 460)) @@
    209 :> (To({"."}, 72) @@ To(Digit, 210) @@ To({":"}, 157) @@ To({"a"}, 154) @@ To({"]"}, 460)) @@
    210 :> (To({"."}, 72) @@ To(Digit, 211) @@ To({":"}, 157) @@ To({"a"}, 155) @@ To({"]"}, 460)) @@
    211 :> (To({"."}, 72) @@ To(Xdigit, 156) @@ To({":"}, 157) @@ To({"]"}, 460)) @@
    212 :> (To({"."}, 72) @@ To(Digit \ {"5"}, 213) @@ To({"5"}, 214) @@ To({":"}, 157) @@
            To({"a"}, 154) @@ To({"]"}, 460)) @@
    213 :> (To({"."}, 72) @@ To(Xdigit, 155) @@ To({":"}, 157) @@ To({"]"}, 460))

States214_221 ==
    214 :> (To({"."}, 72) @@ To(Digit \ {"6"}, 211) @@ To({"6", "a"}, 155) @@ To({":"}, 157) @@
            To({"]"}, 460)) @@
    215 :> (To({"."}, 72) @@ To(Digit, 213) @@ To({":"}, 157) @@ To({"a"}, 154) @@ To({"]"}, 460)) @@
    216 :> (To(Xdigit, 154) @@ To({":"}, 157) @@ To({"]"}, 460)) @@
    217 :> (To({"."}, 72) @@ To(Digit, 218) @@ To({":"}, 152) @@ To({"a"}, 149) @@ To({"]"}, 460)) @@
    218 :> (To({"."}, 72) @@ To(Digit, 219) @@ To({":"}, 152) @@ To({"a"}, 150) @@ To({"]"}, 460)) @@
    219 :> (To({"."}, 72) @@ To(Xdigit, 151) @@ To({":"}, 152) @@ To({"]"}, 460)) @@
    220 :> (To({"."}, 72) @@ To(Digit \ {"5"}, 221) @@ To({"5"}, 222) @@ To({":"}, 152) @@
            To({"a"}, 149) @@ To({"]"}, 460)) @@
    221 :> (To({"."}, 72) @@ To(Xdigit, 150) @@ To({":"}, 152) @@ To({"]"}, 460))

States222_228 ==
    222 :> (To({"."}, 72) @@ To(Digit \ {"6"}, 219) @@ To({"6", "a"}, 150) @@ To({":"}, 152) @@
            To({"]"}, 460)) @@
    223 :> (To({"."}, 72) @@ To(Digit, 221) @@ To({":"}, 152) @@ To({"a"}, 149) @@ To({"]"}, 460)) @@
    224 :> (To(Xdigit, 149) @@ To({":"}, 152) @@ To({"]"}, 460)) @@
    225 :> (To(Xdigit, 226)) @@
    226 :> (To({"."}, 227) @@ To(Xdigit, 226)) @@
    227 :> (To(Name \cup {":"}, 228)) @@
    228 :> (To(Name \cup {":"}, 228) @@ To({"]"}, 460))

States489_492 ==
    489 :> (To(Alpha \cup {"!", "+", ".", ":"}, 33) @@ By({"#"}, Into453.tr493) @@ To({"%"}, 34) @@
            By({"/"}, Into455.tr494) @@ To(Digit, 489) @@ By({"?"}, Into456.tr496) @@
            By({"@"}, Into469.tr38)) @@
    490 :> (To(Name \ {"."}, 467) @@ By({"#"}, Into453.tr485) @@ To({"%"}, 31) @@ To({"."}, 491) @@
            By({"/"}, Into455.tr486) @@ By({":"}, Into468.tr499) @@ By({"?"}, Into456.tr488) @@
            By({"@"}, Into469.tr38)) @@
    491 :> (To({"STX"}, 13) @@ To(Name \ Digit, 467) @@ By({"#"}, Into453.tr485) @@
            To({"%"}, 31) @@ By({"/"}, Into455.tr486) @@ To({"0"}, 492) @@ To({"1"}, 500) @@
            To({"2"}, 502) @@ To({"3", "5", "6"}, 501) @@ By({":"}, Into468.tr499) @@
            By({"?"}, Into456.tr488) @@ By({"@"}, Into469.tr38)) @@
    492 :> (To(Name \ {"."}, 467) @@ By({"#"}, Into453.tr485) @@ To({"%"}, 31) @@ To({"."}, 493) @@
            By({"/"}, Into455.tr486) @@ By({":"}, Into468.tr499) @@ By({"?"}, Into456.tr488) @@
            By({"@"}, Into469.tr38))

States493_497 ==
    493 :> (To({"STX"}, 17) @@ To(Name \ Digit, 467) @@ By({"#"}, Into453.tr485) @@
            To({"%"}, 31) @@ By({"/"}, Into455.tr486) @@ To({"0"}, 494) @@ To({"1"}, 496) @@
            To({"2"}, 498) @@ To({"3", "5", "6"}, 497) @@ By({":"}, Into468.tr499) @@
            By({"?"}, Into456.tr488) @@ By({"@"}, Into469.tr38)) @@
    494 :> (To(Name \ {"."}, 467) @@ By({"#"}, Into453.tr485) @@ To({"%"}, 31) @@ To({"."}, 495) @@
            By({"/"}, Into455.tr486) @@ By({":"}, Into468.tr499) @@ By({"?"}, Into456.tr488) @@
            By({"@"}, Into469.tr38)) @@
    495 :> (To({"STX"}, 21) @@ To(Name, 467) @@ By({"#"}, Into453.tr485) @@ To({"%"}, 31) @@
            By({"/"}, Into455.tr486) @@ By({":"}, Into468.tr499) @@ By({"?"}, Into456.tr488) @@
            By({"@"}, Into469.tr38)) @@
    496 :> (To(Alpha \cup {"!", "+"}, 467) @@ By({"#"}, Into453.tr485) @@ To({"%"}, 31) @@
            To({"."}, 495) @@ By({"/"}, Into455.tr486) @@ To(Digit, 497) @@
            By({":"}, Into468.tr499) @@ By({"?"}, Into456.tr488) @@ By({"@"}, Into469.tr38)) @@
    497 :> (To(Alpha \cup {"!", "+"}, 467) @@ By({"#"}, Into453.tr485) @@ To({"%"}, 31) @@
            To({"."}, 495) @@ By({"/"}, Into455.tr486) @@ To(Digit, 494) @@
            By({":"}, Into468.tr499) @@ By({"?"}, Into456.tr488) @@ By({"@"}, Into469.tr38))

States498_501 ==
    498 :> (To(Alpha \cup {"!", "+"}, 467) @@ By({"#"}, Into453.tr485) @@ To({"%"}, 31) @@
            To({"."}, 495) @@ By({"/"}, Into455.tr486) @@ To(Digit \ {"5"}, 494) @@
            To({"5"}, 499) @@ By({":"}, Into468.tr499) @@ By({"?"}, Into456.tr488) @@
            By({"@"}, Into469.tr38)) @@
    499 :> (To(Alpha \cup {"!", "+", "6"}, 467) @@ By({"#"}, Into453.tr485) @@ To({"%"}, 31) @@
            To({"."}, 495) @@ By({"/"}, Into455.tr486) @@ To(Digit \ {"6"}, 494) @@
            By({":"}, Into468.tr499) @@ By({"?"}, Into456.tr488) @@ By({"@"}, Into469.tr38)) @@
    500 :> (To(Alpha \cup {"!", "+"}, 467) @@ By({"#"}, Into453.tr485) @@ To({"%"}, 31) @@
            To({"."}, 493) @@ By({"/"}, Into455.tr486) @@ To(Digit, 501) @@
            By({":"}, Into468.tr499) @@ By({"?"}, Into456.tr488) @@ By({"@"}, Into469.tr38)) @@
    501 :> (To(Alpha \cup {"!", "+"}, 467) @@ By({"#"}, Into453.tr485) @@ To({"%"}, 31) @@
            To({"."}, 493) @@ By({"/"}, Into455.tr486) @@ To(Digit, 492) @@
            By({":"}, Into468.tr499) @@ By({"?"}, Into456.tr488) @@ By({"@"}, Into469.tr38))

States502_505 ==
    502 :> (To(Alpha \cup {"!", "+"}, 467) @@ By({"#"}, Into453.tr485) @@ To({"%"}, 31) @@
            To({"."}, 493) @@ By({"/"}, Into455.tr486) @@ To(Digit \ {"5"}, 492) @@
            To({"5"}, 503) @@ By({":"}, Into468.tr499) @@ By({"?"}, Into456.tr488) @@
            By({"@"}, Into469.tr38)) @@
    503 :> (To(Alpha \cup {"!", "+", "6"}, 467) @@ By({"#"}, Into453.tr485) @@ To({"%"}, 31) @@
            To({"."}, 493) @@ By({"/"}, Into455.tr486) @@ To(Digit \ {"6"}, 492) @@
            By({":"}, Into468.tr499) @@ By({"?"}, Into456.tr488) @@ By({"@"}, Into469.tr38)) @@
    504 :> (To(Alpha \cup {"!", "+"}, 467) @@ By({"#"}, Into453.tr485) @@ To({"%"}, 31) @@
            To({"."}, 491) @@ By({"/"}, Into455.tr486) @@ To(Digit, 505) @@
            By({":"}, Into468.tr499) @@ By({"?"}, Into456.tr488) @@ By({"@"}, Into469.tr38)) @@
    505 :> (To(Alpha \cup {"!", "+"}, 467) @@ By({"#"}, Into453.tr485) @@ To({"%"}, 31) @@
            To({"."}, 491) @@ By({"/"}, Into455.tr486) @@ To(Digit, 490) @@
            By({":"}, Into468.tr499) @@ By({"?"}, Into456.tr488) @@ By({"@"}, Into469.tr38))

States506_509 ==
    506 :> (To(Alpha \cup {"!", "+"}, 467) @@ By({"#"}, Into453.tr485) @@ To({"%"}, 31) @@
            To({"."}, 491) @@ By({"/"}, Into455.tr486) @@ To(Digit \ {"5"}, 490) @@
            To({"5"}, 507) @@ By({":"}, Into468.tr499) @@ By({"?"}, Into456.tr488) @@
            By({"@"}, Into469.tr38)) @@
    507 :> (To(Alpha \cup {"!", "+", "6"}, 467) @@ By({"#"}, Into453.tr485) @@ To({"%"}, 31) @@
            To({"."}, 491) @@ By({"/"}, Into455.tr486) @@ To(Digit \ {"6"}, 490) @@
            By({":"}, Into468.tr499) @@ By({"?"}, Into456.tr488) @@ By({"@"}, Into469.tr38)) @@
    508 :> (To({"HI", "!", "@"}, 452) @@ To({"#"}, 453) @@ To({"%"}, 3) @@ To(Name \ {"!"}, 508) @@
            To({"/"}, 455) @@ By({":"}, Into509.tr543) @@ To({"?"}, 456)) @@
    509 :> (To(Plain, 455) @@ To({"#"}, 453) @@ To({"%"}, 5) @@ To({"/"}, 510) @@ To({"?"}, 456))

States510_238 ==
    510 :> (To(Plain, 455) @@ To({"#"}, 453) @@ To({"%"}, 5) @@ To({"/"}, 511) @@ To({"?"}, 456)) @@
    511 :> (By({"STX"}, Into229.tr546) @@ By(Name \ Digit, Into520.tr547) @@
            By({"#"}, Into453.tr548) @@ By({"%"}, Into253.tr549) @@ By({"/"}, Into513.tr550) @@
            By({"0"}, Into543.tr551) @@ By({"1"}, Into557.tr552) @@ By({"2"}, Into559.tr553) @@
            By({"3", "5", "6"}, Into558.tr554) @@ By({":"}, Into521.tr555) @@
            By({"?"}, Into456.tr556) @@ By({"@"}, Into522.tr557) @@ By({"["}, Into260.tr558)) @@
    229 :> (To(Digit \ {"5", "6"}, 230)) @@
    230 :> (To(Digit, 231)) @@
    231 :> (To({"."}, 232)) @@
    232 :> (To({"STX"}, 233) @@ To({"0"}, 235) @@ To({"1"}, 249) @@ To({"2"}, 251) @@
            To({"3", "5", "6"}, 250)) @@
    233 :> (To(Digit \ {"5", "6"}, 234)) @@
    234 :> (To(Digit, 235)) @@
    235 :> (To({"."}, 236)) @@
    236 :> (To({"STX"}, 237) @@ To({"0"}, 239) @@ To({"1"}, 245) @@ To({"2"}, 247) @@
            To({"3", "5", "6"}, 246)) @@
    237 :> (To(Digit \ {"5", "6"}, 238)) @@
    238 :> (To(Digit, 239))

States239_244 ==
    239 :> (To({"."}, 240)) @@
    240 :> (To({"STX"}, 241) @@ To({"0"}, 512) @@ To({"1"}, 516) @@ To({"2"}, 518) @@
            To({"3", "5", "6"}, 517)) @@
    241 :> (To(Digit \ {"5", "6"}, 242)) @@
    242 :> (To(Digit, 512)) @@
    512 :> (By({"#"}, Into453.tr559) @@ By({"/"}, Into513.tr560) @@ By({":"}, Into514.tr561) @@
            By({"?"}, Into456.tr562)) @@
    513 :> (To(Plain \cup {"/"}, 513) @@ By({"#"}, Into453.tr563) @@ To({"%"}, 243) @@
            By({"?"}, Into456.tr565)) @@
    243 :> (To(Xdigit, 244)) @@
    244 :> (To(Xdigit, 513))

States514_251 ==
    514 :> (By({"#"}, Into453.tr566) @@ By({"/"}, Into513.tr567) @@ By(Digit, Into515.tr568) @@
            By({"?"}, Into456.tr569)) @@
    515 :> (By({"#"}, Into453.tr570) @@ By({"/"}, Into513.tr571) @@ To(Digit, 515) @@
            By({"?"}, Into456.tr573)) @@
    516 :> (By({"#"}, Into453.tr559) @@ By({"/"}, Into513.tr560) @@ To(Digit, 517) @@
            By({":"}, Into514.tr561) @@ By({"?"}, Into456.tr562)) @@
    517 :> (By({"#"}, Into453.tr559) @@ By({"/"}, Into513.tr560) @@ To(Digit, 512) @@
            By({":"}, Into514.tr561) @@ By({"?"}, Into456.tr562)) @@
    518 :> (By({"#"}, Into453.tr559) @@ By({"/"}, Into513.tr560) @@ To(Digit \ {"5"}, 512) @@
            To({"5"}, 519) @@ By({":"}, Into514.tr561) @@ By({"?"}, Into456.tr562)) @@
    519 :> (By({"#"}, Into453.tr559) @@ By({"/"}, Into513.tr560) @@ To(Digit \ {"6"}, 512) @@
            By({":"}, Into514.tr561) @@ By({"?"}, Into456.tr562)) @@
    245 :> (To({"."}, 240) @@ To(Digit, 246)) @@
    246 :> (To({"."}, 240) @@ To(Digit, 239)) @@
    247 :> (To({"."}, 240) @@ To(Digit \ {"5"}, 239) @@ To({"5"}, 248)) @@
    248 :> (To({"."}, 240) @@ To(Digit \ {"6"}, 239)) @@
    249 :> (To({"."}, 236) @@ To(Digit, 250)) @@
    250 :> (To({"."}, 236) @@ To(Digit, 235)) @@
    251 :> (To({"."}, 236) @@ To(Digit \ {"5"}, 235) @@ To({"5"}, 252))

States252_255 ==
    252 :> (To({"."}, 236) @@ To(Digit \ {"6"}, 235)) @@
    520 :> (To(Name, 520) @@ By({"#"}, Into453.tr559) @@ To({"%"}, 253) @@
            By({"/"}, Into513.tr560) @@ By({":"}, Into521.tr576) @@ By({"?"}, Into456.tr562) @@
            By({"@"}, Into522.tr263)) @@
    253 :> (To(Xdigit, 254)) @@
    254 :> (To(Xdigit, 520)) @@
    521 :> (To(Alpha \cup {"!", "+", ".", ":"}, 255) @@ By({"#"}, Into453.tr566) @@
            To({"%"}, 256) @@ By({"/"}, Into513.tr567) @@ By(Digit, Into542.tr577) @@
            By({"?"}, Into456.tr569) @@ By({"@"}, Into522.tr263)) @@
    255 :> (To(Name \cup {":"}, 255) @@ To({"%"}, 256) @@ By({"@"}, Into522.tr263))

States256_259 ==
    256 :> (To(Xdigit, 257)) @@
    257 :> (To(Xdigit, 255)) @@
    522 :> (By({"STX"}, Into229.tr546) @@ By(Name \ Digit, Into523.tr578) @@
            By({"#"}, Into453.tr548) @@ By({"%"}, Into258.tr579) @@ By({"/"}, Into513.tr550) @@
            By({"0"}, Into524.tr580) @@ By({"1"}, Into538.tr581) @@ By({"2"}, Into540.tr582) @@
            By({"3", "5", "6"}, Into539.tr583) @@ By({":"}, Into514.tr584) @@
            By({"?"}, Into456.tr556) @@ By({"["}, Into260.tr558)) @@
    523 :> (To(Name, 523) @@ By({"#"}, Into453.tr559) @@ To({"%"}, 258) @@
            By({"/"}, Into513.tr560) @@ By({":"}, Into514.tr561) @@ By({"?"}, Into456.tr562)) @@
    258 :> (To(Xdigit, 259)) @@
    259 :> (To(Xdigit, 523))

States524_528 ==
    524 :> (To(Name \ {"."}, 523) @@ By({"#"}, Into453.tr559) @@ To({"%"}, 258) @@
            To({"."}, 525) @@ By({"/"}, Into513.tr560) @@ By({":"}, Into514.tr561) @@
            By({"?"}, Into456.tr562)) @@
    525 :> (To({"STX"}, 233) @@ To(Name \ Digit, 523) @@ By({"#"}, Into453.tr559) @@
            To({"%"}, 258) @@ By({"/"}, Into513.tr560) @@ To({"0"}, 526) @@ To({"1"}, 534) @@
            To({"2"}, 536) @@ To({"3", "5", "6"}, 535) @@ By({":"}, Into514.tr561) @@
            By({"?"}, Into456.tr562)) @@
    526 :> (To(Name \ {"."}, 523) @@ By({"#"}, Into453.tr559) @@ To({"%"}, 258) @@
            To({"."}, 527) @@ By({"/"}, Into513.tr560) @@ By({":"}, Into514.tr561) @@
            By({"?"}, Into456.tr562)) @@
    527 :> (To({"STX"}, 237) @@ To(Name \ Digit, 523) @@ By({"#"}, Into453.tr559) @@
            To({"%"}, 258) @@ By({"/"}, Into513.tr560) @@ To({"0"}, 528) @@ To({"1"}, 530) @@
            To({"2"}, 532) @@ To({"3", "5", "6"}, 531) @@ By({":"}, Into514.tr561) @@
            By({"?"}, Into456.tr562)) @@
    528 :> (To(Name \ {"."}, 523) @@ By({"#"}, Into453.tr559) @@ To({"%"}, 258) @@
            To({"."}, 529) @@ By({"/"}, Into513.tr560) @@ By({":"}, Into514.tr561) @@
            By({"?"}, Into456.tr562))

States529_533 ==
    529 :> (To({"STX"}, 241) @@ To(Name, 523) @@ By({"#"}, Into453.tr559) @@ To({"%"}, 258) @@
            By({"/"}, Into513.tr560) @@ By({":"}, Into514.tr561) @@ By({"?"}, Into456.tr562)) @@
    530 :> (To(Alpha \cup {"!", "+"}, 523) @@ By({"#"}, Into453.tr559) @@ To({"%"}, 258) @@
            To({"."}, 529) @@ By({"/"}, Into513.tr560) @@ To(Digit, 531) @@
            By({":"}, Into514.tr561) @@ By({"?"}, Into456.tr562)) @@
    531 :> (To(Alpha \cup {"!", "+"}, 523) @@ By({"#"}, Into453.tr559) @@ To({"%"}, 258) @@
            To({"."}, 529) @@ By({"/"}, Into513.tr560) @@ To(Digit, 528) @@
            By({":"}, Into514.tr561) @@ By({"?"}, Into456.tr562)) @@
    532 :> (To(Alpha \cup {"!", "+"}, 523) @@ By({"#"}, Into453.tr559) @@ To({"%"}, 258) @@
            To({"."}, 529) @@ By({"/"}, Into513.tr560) @@ To(Digit \ {"5"}, 528) @@
            To({"5"}, 533) @@ By({":"}, Into514.tr561) @@ By({"?"}, Into456.tr562)) @@
    533 :> (To(Alpha \cup {"!", "+", "6"}, 523) @@ By({"#"}, Into453.tr559) @@ To({"%"}, 258) @@
            To({"."}, 529) @@ By({"/"}, Into513.tr560) @@ To(Digit \ {"6"}, 528) @@
            By({":"}, Into514.tr561) @@ By({"?"}, Into456.tr562))

States534_537 ==
    534 :> (To(Alpha \cup {"!", "+"}, 523) @@ By({"#"}, Into453.tr559) @@ To({"%"}, 258) @@
            To({"."}, 527) @@ By({"/"}, Into513.tr560) @@ To(Digit, 535) @@
            By({":"}, Into514.tr561) @@ By({"?"}, Into456.tr562)) @@
    535 :> (To(Alpha \cup {"!", "+"}, 523) @@ By({"#"}, Into453.tr559) @@ To({"%"}, 258) @@
            To({"."}, 527) @@ By({"/"}, Into513.tr560) @@ To(Digit, 526) @@
            By({":"}, Into514.tr561) @@ By({"?"}, Into456.tr562)) @@
    536 :> (To(Alpha \cup {"!", "+"}, 523) @@ By({"#"}, Into453.tr559) @@ To({"%"}, 258) @@
            To({"."}, 527) @@ By({"/"}, Into513.tr560) @@ To(Digit \ {"5"}, 526) @@
            To({"5"}, 537) @@ By({":"}, Into514.tr561) @@ By({"?"}, Into456.tr562)) @@
    537 :> (To(Alpha \cup {"!", "+", "6"}, 523) @@ By({"#"}, Into453.tr559) @@ To({"%"}, 258) @@
            To({"."}, 527) @@ By({"/"}, Into513.tr560) @@ To(Digit \ {"6"}, 526) @@
            By({":"}, Into514.tr561) @@ By({"?"}, Into456.tr562))

States538_541 ==
    538 :> (To(Alpha \cup {"!", "+"}, 523) @@ By({"#"}, Into453.tr559) @@ To({"%"}, 258) @@
            To({"."}, 525) @@ By({"/"}, Into513.tr560) @@ To(Digit, 539) @@
            By({":"}, Into514.tr561) @@ By({"?"}, Into456.tr562)) @@
    539 :> (To(Alpha \cup {"!", "+"}, 523) @@ By({"#"}, Into453.tr559) @@ To({"%"}, 258) @@
            To({"."}, 525) @@ By({"/"}, Into513.tr560) @@ To(Digit, 524) @@
            By({":"}, Into514.tr561) @@ By({"?"}, Into456.tr562)) @@
    540 :> (To(Alpha \cup {"!", "+"}, 523) @@ By({"#"}, Into453.tr559) @@ To({"%"}, 258) @@
            To({"."}, 525) @@ By({"/"}, Into513.tr560) @@ To(Digit \ {"5"}, 524) @@
            To({"5"}, 541) @@ By({":"}, Into514.tr561) @@ By({"?"}, Into456.tr562)) @@
    541 :> (To(Alpha \cup {"!", "+", "6"}, 523) @@ By({"#"}, Into453.tr559) @@ To({"%"}, 258) @@
            To({"."}, 525) @@ By({"/"}, Into513.tr560) @@ To(Digit \ {"6"}, 524) @@
            By({":"}, Into514.tr561) @@ By({"?"}, Into456.tr562))

States260_269 ==
    260 :> (To(Xdigit, 261) @@ To({":"}, 368) @@ To({"v"}, 447)) @@
    261 :> (To(Xdigit, 262) @@ To({":"}, 265)) @@
    262 :> (To(Xdigit, 263) @@ To({":"}, 265)) @@
    263 :> (To(Xdigit, 264) @@ To({":"}, 265)) @@
    264 :> (To({":"}, 265)) @@
    265 :> (To(Xdigit, 266) @@ To({":"}, 363)) @@
    266 :> (To(Xdigit, 267) @@ To({":"}, 270)) @@
    267 :> (To(Xdigit, 268) @@ To({":"}, 270)) @@
    268 :> (To(Xdigit, 269) @@ To({":"}, 270)) @@
    269 :> (To({":"}, 270))

States270_280 ==
    270 :> (To(Xdigit, 271) @@ To({":"}, 358)) @@
    271 :> (To(Xdigit, 272) @@ To({":"}, 275)) @@
    272 :> (To(Xdigit, 273) @@ To({":"}, 275)) @@
    273 :> (To(Xdigit, 274) @@ To({":"}, 275)) @@
    274 :> (To({":"}, 275)) @@
    275 :> (To(Xdigit, 276) @@ To({":"}, 353)) @@
    276 :> (To(Xdigit, 277) @@ To({":"}, 280)) @@
    277 :> (To(Xdigit, 278) @@ To({":"}, 280)) @@
    278 :> (To(Xdigit, 279) @@ To({":"}, 280)) @@
    279 :> (To({":"}, 280)) @@
    280 :> (To(Xdigit, 281) @@ To({":"}, 348))

States281_291 ==
    281 :> (To(Xdigit, 282) @@ To({":"}, 285)) @@
    282 :> (To(Xdigit, 283) @@ To({":"}, 285)) @@
    283 :> (To(Xdigit, 284) @@ To({":"}, 285)) @@
    284 :> (To({":"}, 285)) @@
    285 :> (To(Xdigit, 286) @@ To({":"}, 335)) @@
    286 :> (To(Xdigit, 287) @@ To({":"}, 290)) @@
    287 :> (To(Xdigit, 288) @@ To({":"}, 290)) @@
    288 :> (To(Xdigit, 289) @@ To({":"}, 290)) @@
    289 :> (To({":"}, 290)) @@
    290 :> (To({"STX"}, 291) @@ To({"0"}, 318) @@ To({"1"}, 326) @@ To({"2"}, 329) @@
            To({"3", "5", "6"}, 332) @@ To({":"}, 333) @@ To({"a"}, 334)) @@
    291 :> (To(Digit \ {"5", "6"}, 292))

States292_308 ==
    292 :> (To(Digit, 293)) @@
    293 :> (To({"."}, 294)) @@
    294 :> (To({"STX"}, 295) @@ To({"0"}, 297) @@ To({"1"}, 314) @@ To({"2"}, 316) @@
            To({"3", "5", "6"}, 315)) @@
    295 :> (To(Digit \ {"5", "6"}, 296)) @@
    296 :> (To(Digit, 297)) @@
    297 :> (To({"."}, 298)) @@
    298 :> (To({"STX"}, 299) @@ To({"0"}, 301) @@ To({"1"}, 310) @@ To({"2"}, 312) @@
            To({"3", "5", "6"}, 311)) @@
    299 :> (To(Digit \ {"5", "6"}, 300)) @@
    300 :> (To(Digit, 301)) @@
    301 :> (To({"."}, 302)) @@
    302 :> (To({"STX"}, 303) @@ To({"0"}, 305) @@ To({"1"}, 306) @@ To({"2"}, 308) @@
            To({"3", "5", "6"}, 307)) @@
    303 :> (To(Digit \ {"5", "6"}, 304)) @@
    304 :> (To(Digit, 305)) @@
    305 :> (To({"]"}, 512)) @@
    306 :> (To(Digit, 307) @@ To({"]"}, 512)) @@
    307 :> (To(Digit, 305) @@ To({"]"}, 512)) @@
    308 :> (To(Digit \ {"5"}, 305) @@ To({"5"}, 309) @@ To({"]"}, 512))

States309_321 ==
    309 :> (To(Digit \ {"6"}, 305) @@ To({"]"}, 512)) @@
    310 :> (To({"."}, 302) @@ To(Digit, 311)) @@
    311 :> (To({"."}, 302) @@ To(Digit, 301)) @@
    312 :> (To({"."}, 302) @@ To(Digit \ {"5"}, 301) @@ To({"5"}, 313)) @@
    313 :> (To({"."}, 302) @@ To(Digit \ {"6"}, 301)) @@
    314 :> (To({"."}, 298) @@ To(Digit, 315)) @@
    315 :> (To({"."}, 298) @@ To(Digit, 297)) @@
    316 :> (To({"."}, 298) @@ To(Digit \ {"5"}, 297) @@ To({"5"}, 317)) @@
    317 :> (To({"."}, 298) @@ To(Digit \ {"6"}, 297)) @@
    318 :> (To({"."}, 294) @@ To(Xdigit, 319) @@ To({":"}, 322)) @@
    319 :> (To(Xdigit, 320) @@ To({":"}, 322)) @@
    320 :> (To(Xdigit, 321) @@ To({":"}, 322)) @@
    321 :> (To({":"}, 322))

States322_330 ==
    322 :> (To(Xdigit, 323) @@ To({":"}, 305)) @@
    323 :> (To(Xdigit, 324) @@ To({"]"}, 512)) @@
    324 :> (To(Xdigit, 325) @@ To({"]"}, 512)) @@
    325 :> (To(Xdigit, 305) @@ To({"]"}, 512)) @@
    326 :> (To({"."}, 294) @@ To(Digit, 327) @@ To({":"}, 322) @@ To({"a"}, 319)) @@
    327 :> (To({"."}, 294) @@ To(Digit, 328) @@ To({":"}, 322) @@ To({"a"}, 320)) @@
    328 :> (To({"."}, 294) @@ To(Xdigit, 321) @@ To({":"}, 322)) @@
    329 :> (To({"."}, 294) @@ To(Digit \ {"5"}, 330) @@ To({"5"}, 331) @@ To({":"}, 322) @@
            To({"a"}, 319)) @@
    330 :> (To({"."}, 294) @@ To(Xdigit, 320) @@ To({":"}, 322))

States331_339 ==
    331 :> (To({"."}, 294) @@ To(Digit \ {"6"}, 328) @@ To({"6", "a"}, 320) @@ To({":"}, 322)) @@
    332 :> (To({"."}, 294) @@ To(Digit, 330) @@ To({":"}, 322) @@ To({"a"}, 319)) @@
    333 :> (To(Xdigit, 323)) @@
    334 :> (To(Xdigit, 319) @@ To({":"}, 322)) @@
    335 :> (To({"STX"}, 291) @@ To({"0"}, 336) @@ To({"1"}, 340) @@ To({"2"}, 343) @@
            To({"3", "5", "6"}, 346) @@ To({"a"}, 347)) @@
    336 :> (To({"."}, 294) @@ To(Xdigit, 337) @@ To({":"}, 333)) @@
    337 :> (To(Xdigit, 338) @@ To({":"}, 333)) @@
    338 :> (To(Xdigit, 339) @@ To({":"}, 333)) @@
    339 :> (To({":"}, 333))

States340_347 ==
    340 :> (To({"."}, 294) @@ To(Digit, 341) @@ To({":"}, 333) @@ To({"a"}, 337)) @@
    341 :> (To({"."}, 294) @@ To(Digit, 342) @@ To({":"}, 333) @@ To({"a"}, 338)) @@
    342 :> (To({"."}, 294) @@ To(Xdigit, 339) @@ To({":"}, 333)) @@
    343 :> (To({"."}, 294) @@ To(Digit \ {"5"}, 344) @@ To({"5"}, 345) @@ To({":"}, 333) @@
            To({"a"}, 337)) @@
    344 :> (To({"."}, 294) @@ To(Xdigit, 338) @@ To({":"}, 333)) @@
    345 :> (To({"."}, 294) @@ To(Digit \ {"6"}, 342) @@ To({"6", "a"}, 338) @@ To({":"}, 333)) @@
    346 :> (To({"."}, 294) @@ To(Digit, 344) @@ To({":"}, 333) @@ To({"a"}, 337)) @@
    347 :> (To(Xdigit, 337) @@ To({":"}, 333))

States348_358 ==
    348 :> (To(Xdigit, 349)) @@
    349 :> (To(Xdigit, 350) @@ To({":"}, 335)) @@
    350 :> (To(Xdigit, 351) @@ To({":"}, 335)) @@
    351 :> (To(Xdigit, 352) @@ To({":"}, 335)) @@
    352 :> (To({":"}, 335)) @@
    353 :> (To(Xdigit, 354)) @@
    354 :> (To(Xdigit, 355) @@ To({":"}, 348)) @@
    355 :> (To(Xdigit, 356) @@ To({":"}, 348)) @@
    356 :> (To(Xdigit, 357) @@ To({":"}, 348)) @@
    357 :> (To({":"}, 348)) @@
    358 :> (To(Xdigit, 359))

States359_369 ==
    359 :> (To(Xdigit, 360) @@ To({":"}, 353)) @@
    360 :> (To(Xdigit, 361) @@ To({":"}, 353)) @@
    361 :> (To(Xdigit, 362) @@ To({":"}, 353)) @@
    362 :> (To({":"}, 353)) @@
    363 :> (To(Xdigit, 364)) @@
    364 :> (To(Xdigit, 365) @@ To({":"}, 358)) @@
    365 :> (To(Xdigit, 366) @@ To({":"}, 358)) @@
    366 :> (To(Xdigit, 367) @@ To({":"}, 358)) @@
    367 :> (To({":"}, 358)) @@
    368 :> (To({":"}, 369)) @@
    369 :> (To({"STX"}, 291) @@ To({"0"}, 370) @@ To({"1"}, 439) @@ To({"2"}, 442) @@
            To({"3", "5", "6"}, 445) @@ To({"a"}, 446) @@ To({"]"}, 512))

States370_378 ==
    370 :> (To({"."}, 294) @@ To(Xdigit, 371) @@ To({":"}, 374) @@ To({"]"}, 512)) @@
    371 :> (To(Xdigit, 372) @@ To({":"}, 374) @@ To({"]"}, 512)) @@
    372 :> (To(Xdigit, 373) @@ To({":"}, 374) @@ To({"]"}, 512)) @@
    373 :> (To({":"}, 374) @@ To({"]"}, 512)) @@
    374 :> (To({"STX"}, 291) @@ To({"0"}, 375) @@ To({"1"}, 431) @@ To({"2"}, 434) @@
            To({"3", "5", "6"}, 437) @@ To({"a"}, 438)) @@
    375 :> (To({"."}, 294) @@ To(Xdigit, 376) @@ To({":"}, 379) @@ To({"]"}, 512)) @@
    376 :> (To(Xdigit, 377) @@ To({":"}, 379) @@ To({"]"}, 512)) @@
    377 :> (To(Xdigit, 378) @@ To({":"}, 379) @@ To({"]"}, 512)) @@
    378 :> (To({":"}, 379) @@ To({"]"}, 512))

States379_386 ==
    379 :> (To({"STX"}, 291) @@ To({"0"}, 380) @@ To({"1"}, 423) @@ To({"2"}, 426) @@
            To({"3", "5", "6"}, 429) @@ To({"a"}, 430)) @@
    380 :> (To({"."}, 294) @@ To(Xdigit, 381) @@ To({":"}, 384) @@ To({"]"}, 512)) @@
    381 :> (To(Xdigit, 382) @@ To({":"}, 384) @@ To({"]"}, 512)) @@
    382 :> (To(Xdigit, 383) @@ To({":"}, 384) @@ To({"]"}, 512)) @@
    383 :> (To({":"}, 384) @@ To({"]"}, 512)) @@
    384 :> (To({"STX"}, 291) @@ To({"0"}, 385) @@ To({"1"}, 415) @@ To({"2"}, 418) @@
            To({"3", "5", "6"}, 421) @@ To({"a"}, 422)) @@
    385 :> (To({"."}, 294) @@ To(Xdigit, 386) @@ To({":"}, 389) @@ To({"]"}, 512)) @@
    386 :> (To(Xdigit, 387) @@ To({":"}, 389) @@ To({"]"}, 512))

States387_395 ==
    387 :> (To(Xdigit, 388) @@ To({":"}, 389) @@ To({"]"}, 512)) @@
    388 :> (To({":"}, 389) @@ To({"]"}, 512)) @@
    389 :> (To({"STX"}, 291) @@ To({"0"}, 390) @@ To({"1"}, 407) @@ To({"2"}, 410) @@
            To({"3", "5", "6"}, 413) @@ To({"a"}, 414)) @@
    390 :> (To({"."}, 294) @@ To(Xdigit, 391) @@ To({":"}, 394) @@ To({"]"}, 512)) @@
    391 :> (To(Xdigit, 392) @@ To({":"}, 394) @@ To({"]"}, 512)) @@
    392 :> (To(Xdigit, 393) @@ To({":"}, 394) @@ To({"]"}, 512)) @@
    393 :> (To({":"}, 394) @@ To({"]"}, 512)) @@
    394 :> (To({"STX"}, 291) @@ To({"0"}, 395) @@ To({"1"}, 399) @@ To({"2"}, 402) @@
            To({"3", "5", "6"}, 405) @@ To({"a"}, 406)) @@
    395 :> (To({"."}, 294) @@ To(Xdigit, 396) @@ To({":"}, 333) @@ To({"]"}, 512))

States396_403 ==
    396 :> (To(Xdigit, 397) @@ To({":"}, 333) @@ To({"]"}, 512)) @@
    397 :> (To(Xdigit, 398) @@ To({":"}, 333) @@ To({"]"}, 512)) @@
    398 :> (To({":"}, 333) @@ To({"]"}, 512)) @@
    399 :> (To({"."}, 294) @@ To(Digit, 400) @@ To({":"}, 333) @@ To({"a"}, 396) @@ To({"]"}, 512)) @@
    400 :> (To({"."}, 294) @@ To(Digit, 401) @@ To({":"}, 333) @@ To({"a"}, 397) @@ To({"]"}, 512)) @@
    401 :> (To({"."}, 294) @@ To(Xdigit, 398) @@ To({":"}, 333) @@ To({"]"}, 512)) @@
    402 :> (To({"."}, 294) @@ To(Digit \ {"5"}, 403) @@ To({"5"}, 404) @@ To({":"}, 333) @@
            To({"a"}, 396) @@ To({"]"}, 512)) @@
    403 :> (To({"."}, 294) @@ To(Xdigit, 397) @@ To({":"}, 333) @@ To({"]"}, 512))

States404_411 ==
    404 :> (To({"."}, 294) @@ To(Digit \ {"6"}, 401) @@ To({"6", "a"}, 397) @@ To({":"}, 333) @@
            To({"]"}, 512)) @@
    405 :> (To({"."}, 294) @@ To(Digit, 403) @@ To({":"}, 333) @@ To({"a"}, 396) @@ To({"]"}, 512)) @@
    406 :> (To(Xdigit, 396) @@ To({":"}, 333) @@ To({"]"}, 512)) @@
    407 :> (To({"."}, 294) @@ To(Digit, 408) @@ To({":"}, 394) @@ To({"a"}, 391) @@ To({"]"}, 512)) @@
    408 :> (To({"."}, 294) @@ To(Digit, 409) @@ To({":"}, 394) @@ To({"a"}, 392) @@ To({"]"}, 512)) @@
    409 :> (To({"."}, 294) @@ To(Xdigit, 393) @@ To({":"}, 394) @@ To({"]"}, 512)) @@
    410 :> (To({"."}, 294) @@ To(Digit \ {"5"}, 411) @@ To({"5"}, 412) @@ To({":"}, 394) @@
            To({"a"}, 391) @@ To({"]"}, 512)) @@
    411 :> (To({"."}, 294) @@ To(Xdigit, 392) @@ To({":"}, 394) @@ To({"]"}, 512))

States412_419 ==
    412 :> (To({"."}, 294) @@ To(Digit \ {"6"}, 409) @@ To({"6", "a"}, 392) @@ To({":"}, 394) @@
            To({"]"}, 512)) @@
    413 :> (To({"."}, 294) @@ To(Digit, 411) @@ To({":"}, 394) @@ To({"a"}, 391) @@ To({"]"}, 512)) @@
    414 :> (To(Xdigit, 391) @@ To({":"}, 394) @@ To({"]"}, 512)) @@
    415 :> (To({"."}, 294) @@ To(Digit, 416) @@ To({":"}, 389) @@ To({"a"}, 386) @@ To({"]"}, 512)) @@
    416 :> (To({"."}, 294) @@ To(Digit, 417) @@ To({":"}, 389) @@ To({"a"}, 387) @@ To({"]"}, 512)) @@
    417 :> (To({"."}, 294) @@ To(Xdigit, 388) @@ To({":"}, 389) @@ To({"]"}, 512)) @@
    418 :> (To({"."}, 294) @@ To(Digit \ {"5"}, 419) @@ To({"5"}, 420) @@ To({":"}, 389) @@
            To({"a"}, 386) @@ To({"]"}, 512)) @@
    419 :> (To({"."}, 294) @@ To(Xdigit, 387) @@ To({":"}, 389) @@ To({"]"}, 512))

States420_427 ==
    420 :> (To({"."}, 294) @@ To(Digit \ {"6"}, 417) @@ To({"6", "a"}, 387) @@ To({":"}, 389) @@
            To({"]"}, 512)) @@
    421 :> (To({"."}, 294) @@ To(Digit, 419) @@ To({":"}, 389) @@ To({"a"}, 386) @@ To({"]"}, 512)) @@
    422 :> (To(Xdigit, 386) @@ To({":"}, 389) @@ To({"]"}, 512)) @@
    423 :> (To({"."}, 294) @@ To(Digit, 424) @@ To({":"}, 384) @@ To({"a"}, 381) @@ To({"]"}, 512)) @@
    424 :> (To({"."}, 294) @@ To(Digit, 425) @@ To({":"}, 384) @@ To({"a"}, 382) @@ To({"]"}, 512)) @@
    425 :> (To({"."}, 294) @@ To(Xdigit, 383) @@ To({":"}, 384) @@ To({"]"}, 512)) @@
    426 :> (To({"."}, 294) @@ To(Digit \ {"5"}, 427) @@ To({"5"}, 428) @@ To({":"}, 384) @@
            To({"a"}, 381) @@ To({"]"}, 512)) @@
    427 :> (To({"."}, 294) @@ To(Xdigit, 382) @@ To({":"}, 384) @@ To({"]"}, 512))

States428_435 ==
    428 :> (To({"."}, 294) @@ To(Digit \ {"6"}, 425) @@ To({"6", "a"}, 382) @@ To({":"}, 384) @@
            To({"]"}, 512)) @@
    429 :> (To({"."}, 294) @@ To(Digit, 427) @@ To({":"}, 384) @@ To({"a"}, 381) @@ To({"]"}, 512)) @@
    430 :> (To(Xdigit, 381) @@ To({":"}, 384) @@ To({"]"}, 512)) @@
    431 :> (To({"."}, 294) @@ To(Digit, 432) @@ To({":"}, 379) @@ To({"a"}, 376) @@ To({"]"}, 512)) @@
    432 :> (To({"."}, 294) @@ To(Digit, 433) @@ To({":"}, 379) @@ To({"a"}, 377) @@ To({"]"}, 512)) @@
    433 :> (To({"."}, 294) @@ To(Xdigit, 378) @@ To({":"}, 379) @@ To({"]"}, 512)) @@
    434 :> (To({"."}, 294) @@ To(Digit \ {"5"}, 435) @@ To({"5"}, 436) @@ To({":"}, 379) @@
            To({"a"}, 376) @@ To({"]"}, 512)) @@
    435 :> (To({"."}, 294) @@ To(Xdigit, 377) @@ To({":"}, 379) @@ To({"]"}, 512))

States436_443 ==
    436 :> (To({"."}, 294) @@ To(Digit \ {"6"}, 433) @@ To({"6", "a"}, 377) @@ To({":"}, 379) @@
            To({"]"}, 512)) @@
    437 :> (To({"."}, 294) @@ To(Digit, 435) @@ To({":"}, 379) @@ To({"a"}, 376) @@ To({"]"}, 512)) @@
    438 :> (To(Xdigit, 376) @@ To({":"}, 379) @@ To({"]"}, 512)) @@
    439 :> (To({"."}, 294) @@ To(Digit, 440) @@ To({":"}, 374) @@ To({"a"}, 371) @@ To({"]"}, 512)) @@
    440 :> (To({"."}, 294) @@ To(Digit, 441) @@ To({":"}, 374) @@ To({"a"}, 372) @@ To({"]"}, 512)) @@
    441 :> (To({"."}, 294) @@ To(Xdigit, 373) @@ To({":"}, 374) @@ To({"]"}, 512)) @@
    442 :> (To({"."}, 294) @@ To(Digit \ {"5"}, 443) @@ To({"5"}, 444) @@ To({":"}, 374) @@
            To({"a"}, 371) @@ To({"]"}, 512)) @@
    443 :> (To({"."}, 294) @@ To(Xdigit, 372) @@ To({":"}, 374) @@ To({"]"}, 512))

States444_450 ==
    444 :> (To({"."}, 294) @@ To(Digit \ {"6"}, 441) @@ To({"6", "a"}, 372) @@ To({":"}, 374) @@
            To({"]"}, 512)) @@
    445 :> (To({"."}, 294) @@ To(Digit, 443) @@ To({":"}, 374) @@ To({"a"}, 371) @@ To({"]"}, 512)) @@
    446 :> (To(Xdigit, 371) @@ To({":"}, 374) @@ To({"]"}, 512)) @@
    447 :> (To(Xdigit, 448)) @@
    448 :> (To({"."}, 449) @@ To(Xdigit, 448)) @@
    449 :> (To(Name \cup {":"}, 450)) @@
    450 :> (To(Name \cup {":"}, 450) @@ To({"]"}, 512))

States542_545 ==
    542 :> (To(Alpha \cup {"!", "+", ".", ":"}, 255) @@ By({"#"}, Into453.tr570) @@
            To({"%"}, 256) @@ By({"/"}, Into513.tr571) @@ To(Digit, 542) @@
            By({"?"}, Into456.tr573) @@ By({"@"}, Into522.tr263)) @@
    543 :> (To(Name \ {"."}, 520) @@ By({"#"}, Into453.tr559) @@ To({"%"}, 253) @@
            To({"."}, 544) @@ By({"/"}, Into513.tr560) @@ By({":"}, Into521.tr576) @@
            By({"?"}, Into456.tr562) @@ By({"@"}, Into522.tr263)) @@
    544 :> (To({"STX"}, 233) @@ To(Name \ Digit, 520) @@ By({"#"}, Into453.tr559) @@
            To({"%"}, 253) @@ By({"/"}, Into513.tr560) @@ To({"0"}, 545) @@ To({"1"}, 553) @@
            To({"2"}, 555) @@ To({"3", "5", "6"}, 554) @@ By({":"}, Into521.tr576) @@
            By({"?"}, Into456.tr562) @@ By({"@"}, Into522.tr263)) @@
    545 :> (To(Name \ {"."}, 520) @@ By({"#"}, Into453.tr559) @@ To({"%"}, 253) @@
            To({"."}, 546) @@ By({"/"}, Into513.tr560) @@ By({":"}, Into521.tr576) @@
            By({"?"}, Into456.tr562) @@ By({"@"}, Into522.tr263))

States546_550 ==
    546 :> (To({"STX"}, 237) @@ To(Name \ Digit, 520) @@ By({"#"}, Into453.tr559) @@
            To({"%"}, 253) @@ By({"/"}, Into513.tr560) @@ To({"0"}, 547) @@ To({"1"}, 549) @@
            To({"2"}, 551) @@ To({"3", "5", "6"}, 550) @@ By({":"}, Into521.tr576) @@
            By({"?"}, Into456.tr562) @@ By({"@"}, Into522.tr263)) @@
    547 :> (To(Name \ {"."}, 520) @@ By({"#"}, Into453.tr559) @@ To({"%"}, 253) @@
            To({"."}, 548) @@ By({"/"}, Into513.tr560) @@ By({":"}, Into521.tr576) @@
            By({"?"}, Into456.tr562) @@ By({"@"}, Into522.tr263)) @@
    548 :> (To({"STX"}, 241) @@ To(Name, 520) @@ By({"#"}, Into453.tr559) @@ To({"%"}, 253) @@
            By({"/"}, Into513.tr560) @@ By({":"}, Into521.tr576) @@ By({"?"}, Into456.tr562) @@
            By({"@"}, Into522.tr263)) @@
    549 :> (To(Alpha \cup {"!", "+"}, 520) @@ By({"#"}, Into453.tr559) @@ To({"%"}, 253) @@
            To({"."}, 548) @@ By({"/"}, Into513.tr560) @@ To(Digit, 550) @@
            By({":"}, Into521.tr576) @@ By({"?"}, Into456.tr562) @@ By({"@"}, Into522.tr263)) @@
    550 :> (To(Alpha \cup {"!", "+"}, 520) @@ By({"#"}, Into453.tr559) @@ To({"%"}, 253) @@
            To({"."}, 548) @@ By({"/"}, Into513.tr560) @@ To(Digit, 547) @@
            By({":"}, Into521.tr576) @@ By({"?"}, Into456.tr562) @@ By({"@"}, Into522.tr263))

States551_554 ==
    551 :> (To(Alpha \cup {"!", "+"}, 520) @@ By({"#"}, Into453.tr559) @@ To({"%"}, 253) @@
            To({"."}, 548) @@ By({"/"}, Into513.tr560) @@ To(Digit \ {"5"}, 547) @@
            To({"5"}, 552) @@ By({":"}, Into521.tr576) @@ By({"?"}, Into456.tr562) @@
            By({"@"}, Into522.tr263)) @@
    552 :> (To(Alpha \cup {"!", "+", "6"}, 520) @@ By({"#"}, Into453.tr559) @@ To({"%"}, 253) @@
            To({"."}, 548) @@ By({"/"}, Into513.tr560) @@ To(Digit \ {"6"}, 547) @@
            By({":"}, Into521.tr576) @@ By({"?"}, Into456.tr562) @@ By({"@"}, Into522.tr263)) @@
    553 :> (To(Alpha \cup {"!", "+"}, 520) @@ By({"#"}, Into453.tr559) @@ To({"%"}, 253) @@
            To({"."}, 546) @@ By({"/"}, Into513.tr560) @@ To(Digit, 554) @@
            By({":"}, Into521.tr576) @@ By({"?"}, Into456.tr562) @@ By({"@"}, Into522.tr263)) @@
    554 :> (To(Alpha \cup {"!", "+"}, 520) @@ By({"#"}, Into453.tr559) @@ To({"%"}, 253) @@
            To({"."}, 546) @@ By({"/"}, Into513.tr560) @@ To(Digit, 545) @@
            By({":"}, Into521.tr576) @@ By({"?"}, Into456.tr562) @@ By({"@"}, Into522.tr263))

States555_558 ==
    555 :> (To(Alpha \cup {"!", "+"}, 520) @@ By({"#"}, Into453.tr559) @@ To({"%"}, 253) @@
            To({"."}, 546) @@ By({"/"}, Into513.tr560) @@ To(Digit \ {"5"}, 545) @@
            To({"5"}, 556) @@ By({":"}, Into521.tr576) @@ By({"?"}, Into456.tr562) @@
            By({"@"}, Into522.tr263)) @@
    556 :> (To(Alpha \cup {"!", "+", "6"}, 520) @@ By({"#"}, Into453.tr559) @@ To({"%"}, 253) @@
            To({"."}, 546) @@ By({"/"}, Into513.tr560) @@ To(Digit \ {"6"}, 545) @@
            By({":"}, Into521.tr576) @@ By({"?"}, Into456.tr562) @@ By({"@"}, Into522.tr263)) @@
    557 :> (To(Alpha \cup {"!", "+"}, 520) @@ By({"#"}, Into453.tr559) @@ To({"%"}, 253) @@
            To({"."}, 544) @@ By({"/"}, Into513.tr560) @@ To(Digit, 558) @@
            By({":"}, Into521.tr576) @@ By({"?"}, Into456.tr562) @@ By({"@"}, Into522.tr263)) @@
    558 :> (To(Alpha \cup {"!", "+"}, 520) @@ By({"#"}, Into453.tr559) @@ To({"%"}, 253) @@
            To({"."}, 544) @@ By({"/"}, Into513.tr560) @@ To(Digit, 543) @@
            By({":"}, Into521.tr576) @@ By({"?"}, Into456.tr562) @@ By({"@"}, Into522.tr263))

States559_560 ==
    559 :> (To(Alpha \cup {"!", "+"}, 520) @@ By({"#"}, Into453.tr559) @@ To({"%"}, 253) @@
            To({"."}, 544) @@ By({"/"}, Into513.tr560) @@ To(Digit \ {"5"}, 543) @@
            To({"5"}, 560) @@ By({":"}, Into521.tr576) @@ By({"?"}, Into456.tr562) @@
            By({"@"}, Into522.tr263)) @@
    560 :> (To(Alpha \cup {"!", "+", "6"}, 520) @@ By({"#"}, Into453.tr559) @@ To({"%"}, 253) @@
            To({"."}, 544) @@ By({"/"}, Into513.tr560) @@ To(Digit \ {"6"}, 543) @@
            By({":"}, Into521.tr576) @@ By({"?"}, Into456.tr562) @@ By({"@"}, Into522.tr263))

UriTable ==
    States451_452 @@ States453_4 @@ States455_6 @@ States456_459 @@
    States9_460 @@ States461_29 @@ States30_33 @@ States34_37 @@
    States471_475 @@ States476_480 @@ States481_484 @@ States485_488 @@
    States38_47 @@ States48_58 @@ States59_69 @@ States70_86 @@
    States87_99 @@ States100_108 @@ States109_117 @@ States118_125 @@
    States126_136 @@ States137_147 @@ States148_156 @@ States157_164 @@
    States165_173 @@ States174_181 @@ States182_189 @@ States190_197 @@
    States198_205 @@ States206_213 @@ States214_221 @@ States222_228 @@
    States489_492 @@ States493_497 @@ States498_501 @@ States502_505 @@
    States506_509 @@ States510_238 @@ States239_244 @@ States514_251 @@
    States252_255 @@ States256_259 @@ States524_528 @@ States529_533 @@
    States534_537 @@ States538_541 @@ States260_269 @@ States270_280 @@
    States281_291 @@ States292_308 @@ States309_321 @@ States322_330 @@
    States331_339 @@ States340_347 @@ States348_358 @@ States359_369 @@
    States370_378 @@ States379_386 @@ States387_395 @@ States396_403 @@
    States404_411 @@ States412_419 @@ States420_427 @@ States428_435 @@
    States436_443 @@ States444_450 @@ States542_545 @@ States546_550 @@
    States551_554 @@ States555_558 @@ States559_560

\* What leaving the text in a final state runs (the EOF actions of the generated code).
EofActions ==
    [cs \in {462, 489} |-> <<"save_port">>] @@
    [cs \in (463..467) \cup (470..488) \cup (490..507) \cup {460} |-> <<"save_host">>] @@
    [cs \in {513} |-> <<"save_path">>] @@
    [cs \in {457} |-> <<"save_query">>] @@
    [cs \in {454} |-> <<"save_fragment">>] @@
    [cs \in {456} |-> <<"marku", "save_query">>] @@
    [cs \in {453} |-> <<"marku", "save_fragment">>] @@
    [cs \in {461, 468} |-> <<"markh", "save_port">>] @@
    [cs \in {459, 469} |-> <<"markh", "save_host">>] @@
    [cs \in {514, 521} |-> <<"markh", "save_port", "save_path">>] @@
    [cs \in {511, 522} |-> <<"markh", "save_host", "save_path">>] @@
    [cs \in {515, 542} |-> <<"save_port", "markh", "save_path">>] @@
    [cs \in (516..520) \cup (523..541) \cup (543..560) \cup {512} |-> <<"save_host", "markh", "save_path">>]
=============================================================================
