------------------------------- MODULE Regex -------------------------------
(***************************************************************************)
(* Regular expressions as values, and what is left of one after it has      *)
(* matched a character: the set of its partial derivatives.  A set of       *)
(* expressions stands for their union, so after a text has been read the    *)
(* set is empty exactly when nothing can follow, and one member is nullable *)
(* exactly when the text itself matches.                                    *)
(***************************************************************************)
EXTENDS Integers, Sequences, SequencesExt

Eps == <<"eps">>
Ch(S) == <<"ch", S>>
Lit(c) == Ch({c})
Cat2(a, b) == IF a = Eps THEN b ELSE IF b = Eps THEN a ELSE <<"cat", a, b>>
Alt(rs) == <<"alt", rs>>
Star(r) == <<"star", r>>

\* r1 r2 ... rn
Cat(rs) == FoldRight(Cat2, rs, Eps)
Opt(r) == Alt({Eps, r})
Plus(r) == Cat2(r, Star(r))
\* r{n}
Times(r, n) == Cat([i \in 1 .. n |-> r])
\* r{1,n}
UpTo(r, n) == FoldRight(LAMBDA x, rest : Cat2(x, IF rest = Eps THEN Eps ELSE Opt(rest)),
                        [i \in 1 .. n |-> r], Eps)

RECURSIVE Nullable(_)
Nullable(r) ==
    CASE r[1] = "eps"  -> TRUE
      [] r[1] = "ch"   -> FALSE
      [] r[1] = "cat"  -> Nullable(r[2]) /\ Nullable(r[3])
      [] r[1] = "alt"  -> \E x \in r[2] : Nullable(x)
      [] r[1] = "star" -> TRUE

RECURSIVE After(_, _)
After(r, c) ==
    CASE r[1] = "eps"  -> {}
      [] r[1] = "ch"   -> IF c \in r[2] THEN {Eps} ELSE {}
      [] r[1] = "cat"  -> {Cat2(x, r[3]) : x \in After(r[2], c)}
                              \cup (IF Nullable(r[2]) THEN After(r[3], c) ELSE {})
      [] r[1] = "alt"  -> UNION {After(x, c) : x \in r[2]}
      [] r[1] = "star" -> {Cat2(x, r) : x \in After(r[2], c)}
=============================================================================
