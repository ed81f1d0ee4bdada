------------------------------- MODULE Ragel -------------------------------
(***************************************************************************)
(* The shape of the code that Ragel generates with goto's: a state stN is   *)
(* a switch on the next character that goes to another state or to a       *)
(* transition trN; a transition runs its actions and goes to its state; a   *)
(* character that no case of the switch names goes to st0, the error.       *)
(*                                                                         *)
(* Characters are equivalence classes: two characters are in one class when *)
(* every state of the machine treats them alike.                            *)
(***************************************************************************)
EXTENDS Integers, Sequences, TLC

st0 == 0

\* A transition: what it runs, and the state it goes to.
Tr(do, to) == [do |-> do, to |-> to]

\* On a character of S, go to the state n without any action.
To(S, n) == [c \in S |-> Tr(<< >>, n)]

\* On a character of S, take the transition tr.
By(S, tr) == [c \in S |-> tr]

\* A state with no case at all.
Dead == [c \in {} |-> Tr(<< >>, st0)]

\* What the machine with the given table does in state cs on character c.
OnChar(table, cs, c) ==
    IF cs \in DOMAIN table /\ c \in DOMAIN table[cs] THEN table[cs][c] ELSE Tr(<< >>, st0)
=============================================================================
