---------------------------- MODULE Http2Proofs ----------------------------
(***************************************************************************)
(* Theorems about Http2 and about the header compression it uses, for      *)
(* every number of requests, every header, every static and dynamic table, *)
(* every window size that satisfies Http2Assumption and any number of      *)
(* reconnects.                                                             *)
(***************************************************************************)
EXTENDS Http2Invariants, FiniteSetTheorems, SequenceTheorems, WellFoundedInduction, TLAPS

-----------------------------------------------------------------------------
(***************************************************************************)
(* HPACK.  The sender's findPair and the receiver's getPair look at the    *)
(* same entries, so a field that is packed and parsed with equal tables    *)
(* gives the header back and leaves equal tables.  For a list of headers   *)
(* this is an induction over its length; it is done here by taking the     *)
(* least counterexample.                                                   *)
(***************************************************************************)

\* Every set of naturals that is not empty has a least element.
LEMMA LeastIndex ==
    ASSUME NEW S \in SUBSET Nat, S # {}
    PROVE  \E m \in S : \A n \in S : m <= n
<1>1. PICK R : R = OpToRel(<, Nat)
  OBVIOUS
<1>2. \A x, y \in Nat : x < y => <<x, y>> \in R
  BY <1>1, Zenon DEF OpToRel
<1>3. IsWellFoundedOn(R, Nat)
  BY <1>1, NatLessThanWellFounded, Zenon
<1>4. PICK m \in S : \A n \in S : ~(<<n, m>> \in R)
  BY <1>3, WFMin, Zenon
<1>5. \A n \in S : ~(n < m)
  BY <1>2, <1>4
<1> QED  BY <1>5

LEMMA FirstFacts ==
    ASSUME NEW S \in SUBSET Nat, S # {}
    PROVE  First(S) \in S
  BY LeastIndex DEF First

\* A table entry is a pair of texts, also the one an index past the end gives.
LEMMA GetPairType ==
    ASSUME NEW T \in Table, NEW i \in Int
    PROVE  getPair(T, i) \in Pair
<1>2. <<"", "">> \in Pair
  <2>1. "" \in Text
    BY Zenon DEF Text
  <2> QED  BY <2>1, Zenon DEF Pair
<1>3. \A k \in DOMAIN Static : Static[k] \in Pair
  <2>1. \A k \in DOMAIN Static : Static[k] \in STRING \X STRING
    BY StaticAssumption
  <2>2. STRING \subseteq Text
    BY DEF Text
  <2> QED  BY <2>1, <2>2 DEF Pair
<1>4. \A k \in DOMAIN T : T[k] \in Pair
  BY DEF Table
<1> QED  BY <1>2, <1>3, <1>4 DEF getPair

\* An update keeps a table a table: the number of evicted entries exists.
LEMMA UpdateType ==
    ASSUME NEW T \in Table, NEW e \in Pair
    PROVE  update(T, e) \in Table
<1> DEFINE room == {n \in 0 .. Len(T) : n = Len(T) \/ DataSize(T, n) + Size(e) <= MaxDataSize}
<1>1. room \in SUBSET Nat /\ Len(T) \in room /\ Len(T) \in Nat
  BY DEF Table
<1>2. PICK d \in 0 .. Len(T) : d = First(room)
  BY <1>1, FirstFacts
<1> HIDE DEF room
<1>3. update(T, e) = Append(SubSeq(T, d + 1, Len(T)), e)
  BY <1>2 DEF update, room
<1>4. SubSeq(T, d + 1, Len(T)) \in Table
  <2>1. T \in Seq(Pair) /\ d + 1 \in 1 .. Len(T) + 1 /\ Len(T) \in d .. Len(T)
    BY <1>1, <1>2 DEF Table
  <2> QED  BY <2>1, SubSeqProperties DEF Table
<1> QED  BY <1>3, <1>4 DEF Table

\* findPair returns an index under which getPair finds what it was looked for.
LEMMA FindPairFacts ==
    ASSUME NEW T, NEW e
    PROVE  LET p == findPair(T, e)
           IN  /\ p.all \in BOOLEAN /\ p.idx \in Int
               /\ p.all => getPair(T, p.idx) = e
               /\ ~p.all /\ p.idx > 0 => getPair(T, p.idx)[1] = e[1]
<1> DEFINE named == {i \in 1 .. Len(Static) + Len(T) : getPair(T, i)[1] = e[1]}
           same  == {i \in named : getPair(T, i) = e}
<1>1. named \in SUBSET Nat /\ same \in SUBSET Nat
  OBVIOUS
<1>2. CASE same # {}
  <2>1. PICK i \in same : i = First(same)
    BY <1>1, <1>2, FirstFacts
  <2>2. findPair(T, e) = [idx |-> i, all |-> TRUE]
    BY <1>2, <2>1 DEF findPair
  <2> QED  BY <1>1, <2>1, <2>2
<1>3. CASE same = {} /\ named # {}
  <2>1. PICK i \in named : i = First(named)
    BY <1>1, <1>3, FirstFacts
  <2>2. findPair(T, e) = [idx |-> i, all |-> FALSE]
    BY <1>3, <2>1 DEF findPair
  <2> QED  BY <1>1, <2>1, <2>2
<1>4. CASE named = {}
  <2>1. findPair(T, e) = [idx |-> -1, all |-> FALSE]
    BY <1>4 DEF findPair
  <2> QED  BY <2>1
<1> QED  BY <1>2, <1>3, <1>4

\* What ReadVarInt makes of the bytes of WriteVarInt is a number, the right one if it
\* takes them all; that it does as long as there is at most one byte after the prefix.
LEMMA VarInt ==
    ASSUME NEW v \in Nat \ {0}, NEW i \in Int
    PROVE  LET b == WriteVarInt(v, i)
           IN  /\ ReadVarInt(v, b) \in Int
               /\ InPlace(v, b) => ReadVarInt(v, b) = i
               /\ i < v + 128 => InPlace(v, b)
<1>1. CASE i < v
  <2>1. WriteVarInt(v, i) = <<i>>
    BY <1>1 DEF WriteVarInt
  <2> QED  BY <1>1, <2>1 DEF ReadVarInt, Taken, InPlace
<1>2. CASE i >= v /\ i - v < 128
  <2>1. WriteVarInt(v, i) = <<v, i - v>>
    BY <1>2 DEF WriteVarInt
  <2> QED  BY <1>2, <2>1 DEF ReadVarInt, Taken, InPlace
<1>3. CASE i >= v /\ ~(i - v < 128)
  <2>1. PICK k \in Int : k = Or8((i - v) % 128) /\ k < 128
    <3>1. PICK n \in 0 .. 127 : n = (i - v) % 128
      OBVIOUS
    <3>2. Or8(n) \in Int /\ Or8(n) < 128
      BY DEF Or8
    <3> QED  BY <3>1, <3>2
  <2>2. PICK m \in Int : m = (i - v) \div 128
    OBVIOUS
  <2>3. WriteVarInt(v, i) = <<v, k, m>>
    BY <1>3, <2>1, <2>2 DEF WriteVarInt
  <2> QED  BY <1>3, <2>1, <2>3 DEF ReadVarInt, Taken, InPlace
<1> QED  BY <1>1, <1>2, <1>3

\* One header is packed into one field, and the field, if it is readable, is parsed
\* back into the header, by a receiver whose table is the sender's, and so stays the
\* sender's.
LEMMA RoundTripOne ==
    ASSUME NEW T \in Table, NEW e \in Pair
    PROVE  /\ packOne(T, e).field \in Field
           /\ packOne(T, e).table \in Table
           /\ Readable(packOne(T, e).field) =>
                 parseOne(T, packOne(T, e).field) = [header |-> e, table |-> packOne(T, e).table]
<1> DEFINE p == findPair(T, e)
<1>1. /\ p.all \in BOOLEAN /\ p.idx \in Int
      /\ p.all => getPair(T, p.idx) = e
      /\ ~p.all /\ p.idx > 0 => getPair(T, p.idx)[1] = e[1]
  BY FindPairFacts
<1>2. update(T, e) \in Table
  BY UpdateType
<1>3. e = <<e[1], e[2]>> /\ e[1] \in Text /\ e[2] \in Text
  BY DEF Pair
<1>7. /\ WriteString(e[1]) \in Coded /\ WriteString(e[1]).text = e[1]
      /\ WriteString(e[2]) \in Coded /\ WriteString(e[2]).text = e[2]
  BY <1>3 DEF Coded, WriteString
<1> HIDE DEF p
<1>4. CASE p.all
  <2> DEFINE i == WriteVarInt(127, p.idx)
  <2>1. packOne(T, e) = [field |-> <<"indexed", i>>, table |-> T]
    BY <1>4 DEF packOne, p
  <2>2. InPlace(127, i) => ReadVarInt(127, i) = p.idx
    BY <1>1, VarInt
  <2>4. i \in Number(127)
    BY <1>1 DEF Number
  <2> HIDE DEF i
  <2>3. Readable(<<"indexed", i>>) => parseOne(T, <<"indexed", i>>) = [header |-> e, table |-> T]
    BY <1>1, <1>4, <2>2 DEF parseOne, Readable
  <2> QED  BY <2>1, <2>3, <2>4 DEF Field
<1>5. CASE ~p.all /\ p.idx > 0
  <2> DEFINE i == WriteVarInt(63, p.idx)
             w == WriteString(e[2])
  <2>1. packOne(T, e) = [field |-> <<"name", i, w>>, table |-> update(T, e)]
    BY <1>5 DEF packOne, p
  <2>2. InPlace(63, i) => ReadVarInt(63, i) = p.idx
    BY <1>1, VarInt
  <2>4. i \in Number(63) /\ w \in Coded /\ w.text = e[2]
    BY <1>1, <1>7 DEF Number
  <2> HIDE DEF i, w
  <2>3. Readable(<<"name", i, w>>) => parseOne(T, <<"name", i, w>>) = [header |-> e, table |-> update(T, e)]
    BY <1>1, <1>3, <1>5, <2>2, <2>4 DEF parseOne, Readable
  <2> QED  BY <1>2, <2>1, <2>3, <2>4 DEF Field
<1>6. CASE ~p.all /\ ~(p.idx > 0)
  <2> DEFINE n == WriteString(e[1])
             w == WriteString(e[2])
  <2>1. packOne(T, e) = [field |-> <<"new", n, w>>, table |-> update(T, e)]
    BY <1>6 DEF packOne, p
  <2>2. n \in Coded /\ w \in Coded /\ n.text = e[1] /\ w.text = e[2]
    BY <1>7
  <2> HIDE DEF n, w
  <2>3. parseOne(T, <<"new", n, w>>) = [header |-> e, table |-> update(T, e)]
    BY <1>3, <2>2 DEF parseOne
  <2> QED  BY <1>2, <2>1, <2>2, <2>3 DEF Field
<1> QED  BY <1>1, <1>4, <1>5, <1>6

-----------------------------------------------------------------------------
(***************************************************************************)
(* Lists of headers.  pack and parse are recursive functions: that they    *)
(* exist, and so satisfy their equations, is the first thing to show.      *)
(***************************************************************************)

LEMMA PackSteps ==
    ASSUME NEW T, NEW hs, Len(hs) \in Nat
    PROVE  \E t, o : PackRun(T, hs, t, o)
<1> DEFINE base == [block |-> <<>>, table |-> T]
           next(x, i) == [block |-> Append(x.block, packOne(x.table, hs[i]).field),
                          table |-> packOne(x.table, hs[i]).table]
           rec(g, k) == [i \in 0 .. k |-> IF i = 0 THEN base ELSE next(g[i - 1], i)]
           bad == {k \in Nat : \A g : g # rec(g, k)}
<1>1. pack(T, hs) = (CHOOSE g : g = rec(g, Len(hs)))[Len(hs)]
  BY DEF pack
<1> HIDE DEF base, next
<1>2. bad = {}
  <2> SUFFICES ASSUME bad # {} PROVE FALSE
    OBVIOUS
  <2>1. PICK m \in bad : \A k \in bad : m <= k
    <3>1. bad \in SUBSET Nat
      OBVIOUS
    <3> HIDE DEF bad
    <3> QED  BY <3>1, LeastIndex
  <2>2. CASE m = 0
    <3>1. [i \in 0 .. 0 |-> base] = rec([i \in 0 .. 0 |-> base], 0)
      OBVIOUS
    <3> QED  BY <2>1, <2>2, <3>1
  <2>3. CASE m # 0
    <3>1. m - 1 \in Nat /\ m - 1 \notin bad
      <4>1. m \in Nat
        OBVIOUS
      <4> HIDE DEF bad
      <4> QED  BY <2>1, <2>3, <4>1
    <3>2. PICK g : g = rec(g, m - 1)
      BY <3>1
    <3> DEFINE h == [i \in 0 .. m |-> IF i < m THEN g[i] ELSE next(g[m - 1], m)]
    <3>3. ASSUME NEW i \in 0 .. m
          PROVE  h[i] = IF i = 0 THEN base ELSE next(h[i - 1], i)
      BY <2>3, <3>1, <3>2
    <3>4. h = rec(h, m)
      BY <3>3
    <3> QED  BY <2>1, <3>4
  <2> QED  BY <2>2, <2>3
<1>3. PICK g : g = rec(g, Len(hs)) /\ pack(T, hs) = g[Len(hs)]
  <2>1. \E g : g = rec(g, Len(hs))
    BY <1>2
  <2> HIDE DEF rec
  <2> QED  BY <1>1, <2>1
<1>4. g[0] = base /\ \A i \in 1 .. Len(hs) : g[i] = next(g[i - 1], i)
  BY <1>3
<1> DEFINE t == [i \in 0 .. Len(hs) |-> g[i].table]
           o == [i \in 0 .. Len(hs) |-> g[i].block]
<1>5. t[0] = T /\ o[0] = <<>>
  BY <1>4 DEF base
<1>6. ASSUME NEW i \in 1 .. Len(hs)
      PROVE  /\ t[i] = packOne(t[i - 1], hs[i]).table
             /\ o[i] = Append(o[i - 1], packOne(t[i - 1], hs[i]).field)
  <2>1. i - 1 \in 0 .. Len(hs) /\ i \in 0 .. Len(hs)
    OBVIOUS
  <2>2. g[i] = next(g[i - 1], i)
    BY <1>4
  <2> QED  BY <2>1, <2>2 DEF next
<1>7. g[Len(hs)] = [block |-> g[Len(hs)].block, table |-> g[Len(hs)].table]
  <2>1. CASE Len(hs) = 0
    BY <1>4, <2>1 DEF base
  <2>2. CASE Len(hs) # 0
    <3>1. g[Len(hs)] = next(g[Len(hs) - 1], Len(hs))
      BY <1>4, <2>2
    <3> QED  BY <3>1 DEF next
  <2> QED  BY <2>1, <2>2
<1>8. pack(T, hs) = [block |-> o[Len(hs)], table |-> t[Len(hs)]]
  BY <1>3, <1>7
<1> HIDE DEF t, o
<1>9. PackRun(T, hs, t, o)
  BY <1>5, <1>6, <1>8 DEF PackRun
<1> QED  BY <1>9

LEMMA ParseSteps ==
    ASSUME NEW T, NEW b, Len(b) \in Nat
    PROVE  \E t, o : ParseRun(T, b, t, o)
<1> DEFINE base == [headers |-> <<>>, table |-> T]
           next(x, i) == [headers |-> Append(x.headers, parseOne(x.table, b[i]).header),
                          table |-> parseOne(x.table, b[i]).table]
           rec(g, k) == [i \in 0 .. k |-> IF i = 0 THEN base ELSE next(g[i - 1], i)]
           bad == {k \in Nat : \A g : g # rec(g, k)}
<1>1. parseFields(T, b) = (CHOOSE g : g = rec(g, Len(b)))[Len(b)]
  BY DEF parseFields
<1> HIDE DEF base, next
<1>2. bad = {}
  <2> SUFFICES ASSUME bad # {} PROVE FALSE
    OBVIOUS
  <2>1. PICK m \in bad : \A k \in bad : m <= k
    <3>1. bad \in SUBSET Nat
      OBVIOUS
    <3> HIDE DEF bad
    <3> QED  BY <3>1, LeastIndex
  <2>2. CASE m = 0
    <3>1. [i \in 0 .. 0 |-> base] = rec([i \in 0 .. 0 |-> base], 0)
      OBVIOUS
    <3> QED  BY <2>1, <2>2, <3>1
  <2>3. CASE m # 0
    <3>1. m - 1 \in Nat /\ m - 1 \notin bad
      <4>1. m \in Nat
        OBVIOUS
      <4> HIDE DEF bad
      <4> QED  BY <2>1, <2>3, <4>1
    <3>2. PICK g : g = rec(g, m - 1)
      BY <3>1
    <3> DEFINE h == [i \in 0 .. m |-> IF i < m THEN g[i] ELSE next(g[m - 1], m)]
    <3>3. ASSUME NEW i \in 0 .. m
          PROVE  h[i] = IF i = 0 THEN base ELSE next(h[i - 1], i)
      BY <2>3, <3>1, <3>2
    <3>4. h = rec(h, m)
      BY <3>3
    <3> QED  BY <2>1, <3>4
  <2> QED  BY <2>2, <2>3
<1>3. PICK g : g = rec(g, Len(b)) /\ parseFields(T, b) = g[Len(b)]
  <2>1. \E g : g = rec(g, Len(b))
    BY <1>2
  <2> HIDE DEF rec
  <2> QED  BY <1>1, <2>1
<1>4. g[0] = base /\ \A i \in 1 .. Len(b) : g[i] = next(g[i - 1], i)
  BY <1>3
<1> DEFINE t == [i \in 0 .. Len(b) |-> g[i].table]
           o == [i \in 0 .. Len(b) |-> g[i].headers]
<1>5. t[0] = T /\ o[0] = <<>>
  BY <1>4 DEF base
<1>6. ASSUME NEW i \in 1 .. Len(b)
      PROVE  /\ t[i] = parseOne(t[i - 1], b[i]).table
             /\ o[i] = Append(o[i - 1], parseOne(t[i - 1], b[i]).header)
  <2>1. i - 1 \in 0 .. Len(b) /\ i \in 0 .. Len(b)
    OBVIOUS
  <2>2. g[i] = next(g[i - 1], i)
    BY <1>4
  <2> QED  BY <2>1, <2>2 DEF next
<1>7. g[Len(b)] = [headers |-> g[Len(b)].headers, table |-> g[Len(b)].table]
  <2>1. CASE Len(b) = 0
    BY <1>4, <2>1 DEF base
  <2>2. CASE Len(b) # 0
    <3>1. g[Len(b)] = next(g[Len(b) - 1], Len(b))
      BY <1>4, <2>2
    <3> QED  BY <3>1 DEF next
  <2> QED  BY <2>1, <2>2
<1>8. parseFields(T, b) = [headers |-> o[Len(b)], table |-> t[Len(b)]]
  BY <1>3, <1>7
<1> HIDE DEF t, o
<1>9. ParseRun(T, b, t, o)
  BY <1>5, <1>6, <1>8 DEF ParseRun
<1> QED  BY <1>9

\* Parsing any fields gives a table, and a header for every field.
LEMMA FieldsType ==
    ASSUME NEW T \in Table, NEW b \in Seq(Field)
    PROVE  /\ parseFields(T, b).headers \in Seq(Pair) /\ parseFields(T, b).table \in Table
           /\ Len(parseFields(T, b).headers) = Len(b)
<1> DEFINE n == Len(b)
<1>1. n \in Nat /\ \A i \in 1 .. n : b[i] \in Field
  OBVIOUS
<1>0. PICK t, o : ParseRun(T, b, t, o)
  <2>1. Len(b) \in Nat
    OBVIOUS
  <2> QED  BY <2>1, ParseSteps, Zenon
<1>2. /\ parseFields(T, b) = [headers |-> o[n], table |-> t[n]]
      /\ t[0] = T /\ o[0] = <<>>
      /\ \A i \in 1 .. n :
            /\ t[i] = parseOne(t[i - 1], b[i]).table
            /\ o[i] = Append(o[i - 1], parseOne(t[i - 1], b[i]).header)
  BY <1>0 DEF ParseRun
<1>3. ASSUME NEW U \in Table, NEW f \in Field
      PROVE  parseOne(U, f).header \in Pair /\ parseOne(U, f).table \in Table
  <2>4. \A v \in {63, 127} : \A x \in Number(v) : ReadVarInt(v, x) \in Int
    BY VarInt DEF Number
  <2>5. \A x \in Coded : x.text \in Text
    BY DEF Coded, WriteString
  <2>1. CASE f \in {"indexed"} \X Number(127)
    <3>1. PICK i \in Int : f[1] = "indexed" /\ i = ReadVarInt(127, f[2])
      BY <2>1, <2>4
    <3>2. parseOne(U, f) = [header |-> getPair(U, i), table |-> U]
      BY <3>1 DEF parseOne
    <3> QED  BY <3>1, <3>2, GetPairType
  <2>2. CASE f \in {"name"} \X Number(63) \X Coded
    <3>1. PICK i \in Int : f[1] = "name" /\ i = ReadVarInt(63, f[2]) /\ f[3].text \in Text
      BY <2>2, <2>4, <2>5
    <3>2. PICK e \in Pair : e = <<getPair(U, i)[1], f[3].text>>
      BY <3>1, GetPairType DEF Pair
    <3>3. parseOne(U, f) = [header |-> e, table |-> update(U, e)]
      BY <3>1, <3>2 DEF parseOne
    <3> QED  BY <3>3, UpdateType
  <2>3. CASE f \in {"new"} \X Coded \X Coded
    <3>1. f[1] = "new" /\ f[2].text \in Text /\ f[3].text \in Text
      BY <2>3, <2>5
    <3>2. PICK e \in Pair : e = <<f[2].text, f[3].text>>
      BY <3>1 DEF Pair
    <3>3. parseOne(U, f) = [header |-> e, table |-> update(U, e)]
      BY <3>1, <3>2 DEF parseOne
    <3> QED  BY <3>3, UpdateType
  <2> QED  BY <2>1, <2>2, <2>3 DEF Field
<1> DEFINE good(i) == o[i] \in Seq(Pair) /\ t[i] \in Table /\ Len(o[i]) = i
           bad == {i \in 0 .. n : ~good(i)}
<1>4. good(0)
  BY <1>2
<1>5. ASSUME NEW i \in 1 .. n, good(i - 1) PROVE good(i)
  <2>1. t[i] = parseOne(t[i - 1], b[i]).table /\ o[i] = Append(o[i - 1], parseOne(t[i - 1], b[i]).header)
    BY <1>2
  <2>2. parseOne(t[i - 1], b[i]).header \in Pair /\ parseOne(t[i - 1], b[i]).table \in Table
    BY <1>1, <1>3, <1>5
  <2> QED  BY <1>5, <2>1, <2>2
<1>6. bad = {}
  <2> SUFFICES ASSUME bad # {} PROVE FALSE
    OBVIOUS
  <2>1. bad \in SUBSET Nat /\ bad \subseteq 0 .. n
    BY <1>1
  <2> HIDE DEF good
  <2>2. PICK m \in bad : \A k \in bad : m <= k
    <3> HIDE DEF bad
    <3> QED  BY <2>1, LeastIndex
  <2>3. m # 0 /\ m \in 0 .. n /\ ~good(m)
    BY <1>4, <2>2
  <2>4. m \in 1 .. n /\ m - 1 \in 0 .. n /\ ~(m <= m - 1)
    BY <1>1, <2>3
  <2>5. good(m - 1)
    BY <2>2, <2>4
  <2> QED  BY <1>5, <2>3, <2>4, <2>5
<1>7. n \in 0 .. n
  BY <1>1
<1>8. good(n)
  <2> HIDE DEF good
  <2> QED  BY <1>6, <1>7
<1> QED  BY <1>2, <1>8

\* Parsing any block gives a table, and headers unless there were none.
LEMMA ParseType ==
    ASSUME NEW T \in Table, NEW b \in Seq(Field)
    PROVE  /\ parse(T, b).headers \in Seq(Pair) /\ parse(T, b).table \in Table
           /\ b # <<>> => parse(T, b).headers # <<>>
<1>1. CASE Garbled(b) = {}
  <2>1. parse(T, b) = parseFields(T, b)
    BY <1>1 DEF parse
  <2> QED  BY <2>1, FieldsType
<1>2. CASE Garbled(b) # {}
  <2>1. PICK i \in DOMAIN b : i = First(Garbled(b))
    <3>1. Garbled(b) \in SUBSET Nat /\ Garbled(b) \subseteq DOMAIN b
      BY DEF Garbled
    <3> QED  BY <1>2, <3>1, FirstFacts
  <2>2. SubSeq(b, 1, i - 1) \in Seq(Field)
    OBVIOUS
  <2>3. PICK hs \in Seq(Pair) : hs = parseFields(T, SubSeq(b, 1, i - 1)).headers
    BY <2>2, FieldsType
  <2>4. /\ Misread.headers \in Seq(Pair) /\ Misread.headers # <<>> /\ Misread.table \in Table
    <3>1. STRING \X STRING \subseteq Pair
      BY DEF Pair, Text
    <3>2. Seq(STRING \X STRING) \subseteq Seq(Pair)
      BY <3>1
    <3> QED  BY <3>2, MisreadAssumption DEF Table
  <2>5. /\ parse(T, b).headers = hs \o Misread.headers
        /\ parse(T, b).table = Misread.table
    BY <1>2, <2>1, <2>3, MisreadAssumption DEF parse
  <2> QED  BY <2>3, <2>4, <2>5
<1> QED  BY <1>1, <1>2

\* A field is readable if its strings take less than 255 bytes each and the index of
\* its header is below 191 (61 static entries and 128 in the 4096 bytes of a table).
LEMMA ShortReadable ==
    ASSUME NEW T \in Table, NEW e \in Pair,
           CodedLen(e[1]) \in 0 .. 254, CodedLen(e[2]) \in 0 .. 254,
           findPair(T, e).idx < 191
    PROVE  Readable(packOne(T, e).field)
<1> DEFINE p == findPair(T, e)
<1>1. p.all \in BOOLEAN /\ p.idx \in Int /\ p.idx < 191
  BY FindPairFacts
<1>2. ASSUME NEW x, CodedLen(x) \in 0 .. 254 PROVE InPlace(127, WriteString(x).length)
  <2>1. PICK n \in Int : n = CodedLen(x) /\ n < 127 + 128
    BY <1>2
  <2>2. WriteString(x).length = WriteVarInt(127, n)
    BY <2>1 DEF WriteString
  <2> QED  BY <2>1, <2>2, VarInt
<1>3. InPlace(127, WriteVarInt(127, p.idx)) /\ InPlace(63, WriteVarInt(63, p.idx))
  BY <1>1, VarInt
<1> HIDE DEF p
<1>4. CASE p.all
  BY <1>3, <1>4 DEF packOne, Readable, p
<1>5. CASE ~p.all /\ p.idx > 0
  BY <1>2, <1>3, <1>5 DEF packOne, Readable, p
<1>6. CASE ~p.all /\ ~(p.idx > 0)
  BY <1>2, <1>6 DEF packOne, Readable, p
<1> QED  BY <1>1, <1>4, <1>5, <1>6

\* Compression loses nothing that can be read: for every table and every list of
\* headers whose fields are readable, all those with strings of less than 255 bytes
\* among them (ShortReadable), what HPack::pack writes is what HPack::parse reads,
\* and sender and receiver have equal tables again, whatever was evicted meanwhile.
THEOREM RoundTrip ==
    ASSUME NEW T \in Table, NEW hs \in Seq(Pair)
    PROVE  /\ pack(T, hs).block \in Seq(Field) /\ Len(pack(T, hs).block) = Len(hs)
           /\ pack(T, hs).table \in Table
           /\ Garbled(pack(T, hs).block) = {} =>
                 parse(T, pack(T, hs).block) = [headers |-> hs, table |-> pack(T, hs).table]
<1> DEFINE n == Len(hs)
<1>1. n \in Nat /\ \A i \in 1 .. n : hs[i] \in Pair
  OBVIOUS
<1>0. PICK t, o : PackRun(T, hs, t, o)
  <2>1. Len(hs) \in Nat
    OBVIOUS
  <2> QED  BY <2>1, PackSteps, Zenon
<1>2. /\ pack(T, hs) = [block |-> o[n], table |-> t[n]]
      /\ t[0] = T /\ o[0] = <<>>
      /\ \A i \in 1 .. n :
            /\ t[i] = packOne(t[i - 1], hs[i]).table
            /\ o[i] = Append(o[i - 1], packOne(t[i - 1], hs[i]).field)
  BY <1>0 DEF PackRun
<1> DEFINE field(k) == packOne(t[k - 1], hs[k]).field
           packed(i) == /\ o[i] \in Seq(Field) /\ t[i] \in Table
                        /\ Len(o[i]) = i
                        /\ \A k \in 1 .. i : o[i][k] = field(k)
<1>3. packed(0)
  BY <1>2
<1>4. ASSUME NEW i \in 1 .. n, packed(i - 1) PROVE packed(i)
  <2>1. PICK s \in Seq(Field) : s = o[i - 1] /\ Len(s) = i - 1 /\ \A k \in 1 .. i - 1 : s[k] = field(k)
    BY <1>4
  <2>2. field(i) \in Field /\ packOne(t[i - 1], hs[i]).table \in Table
    BY <1>1, <1>4, RoundTripOne
  <2>3. o[i] = Append(s, field(i)) /\ t[i] = packOne(t[i - 1], hs[i]).table
    BY <1>2, <2>1
  <2> HIDE DEF field
  <2>4. /\ o[i] \in Seq(Field) /\ Len(o[i]) = i
        /\ \A k \in 1 .. i : o[i][k] = field(k)
    BY <1>1, <2>1, <2>2, <2>3
  <2> QED  BY <2>2, <2>3, <2>4
<1>5. \A i \in 0 .. n : packed(i)
  <2> DEFINE bad == {i \in 0 .. n : ~packed(i)}
  <2> SUFFICES ASSUME bad # {} PROVE FALSE
    OBVIOUS
  <2>1. bad \in SUBSET Nat /\ bad \subseteq 0 .. n
    BY <1>1
  <2> HIDE DEF packed
  <2>2. PICK m \in bad : \A k \in bad : m <= k
    <3> HIDE DEF bad
    <3> QED  BY <2>1, LeastIndex
  <2>3. m # 0 /\ m \in 0 .. n /\ ~packed(m)
    BY <1>3, <2>2
  <2>4. m \in 1 .. n /\ m - 1 \in 0 .. n /\ ~(m <= m - 1)
    BY <1>1, <2>3
  <2>5. packed(m - 1)
    BY <2>2, <2>4
  <2> QED  BY <1>4, <2>3, <2>4, <2>5
<1>6. PICK b \in Seq(Field) : b = pack(T, hs).block /\ Len(b) = n /\ \A k \in 1 .. n : b[k] = field(k)
  <2>1. n \in 0 .. n
    BY <1>1
  <2> QED  BY <1>2, <1>5, <2>1
<1>17. SUFFICES ASSUME Garbled(b) = {}
                PROVE  parse(T, b) = [headers |-> hs, table |-> pack(T, hs).table]
  <2>1. n \in 0 .. n
    BY <1>1
  <2> QED  BY <1>2, <1>5, <1>6, <2>1
<1>18. \A k \in 1 .. n : Readable(b[k])
  <2>1. DOMAIN b = 1 .. n
    BY <1>6
  <2> QED  BY <1>17, <2>1 DEF Garbled
<1>16. PICK u, h : ParseRun(T, b, u, h)
  <2>1. Len(b) \in Nat
    OBVIOUS
  <2> QED  BY <2>1, ParseSteps, Zenon
<1>7. /\ parseFields(T, b) = [headers |-> h[n], table |-> u[n]]
      /\ u[0] = T /\ h[0] = <<>>
      /\ \A i \in 1 .. n :
            /\ u[i] = parseOne(u[i - 1], b[i]).table
            /\ h[i] = Append(h[i - 1], parseOne(u[i - 1], b[i]).header)
  BY <1>6, <1>16 DEF ParseRun
<1> DEFINE parsed(i) == /\ u[i] = t[i]
                        /\ h[i] \in Seq(Pair) /\ Len(h[i]) = i
                        /\ \A k \in 1 .. i : h[i][k] = hs[k]
<1>8. parsed(0)
  BY <1>2, <1>7
<1>9. ASSUME NEW i \in 1 .. n, parsed(i - 1) PROVE parsed(i)
  <2>0. i - 1 \in 0 .. n
    BY <1>1
  <2>1. PICK U \in Table : U = t[i - 1] /\ U = u[i - 1]
    BY <1>5, <1>9, <2>0
  <2>2. parseOne(U, b[i]) = [header |-> hs[i], table |-> packOne(U, hs[i]).table]
    BY <1>1, <1>6, <1>18, <2>1, RoundTripOne
  <2>3. PICK s \in Seq(Pair) : s = h[i - 1] /\ Len(s) = i - 1 /\ \A k \in 1 .. i - 1 : s[k] = hs[k]
    BY <1>9
  <2>4. u[i] = t[i] /\ h[i] = Append(s, hs[i])
    <3>1. /\ u[i] = parseOne(u[i - 1], b[i]).table
          /\ h[i] = Append(h[i - 1], parseOne(u[i - 1], b[i]).header)
          /\ t[i] = packOne(t[i - 1], hs[i]).table
      BY <1>2, <1>7
    <3>2. u[i] = parseOne(U, b[i]).table /\ t[i] = packOne(U, hs[i]).table
          /\ h[i] = Append(s, parseOne(U, b[i]).header)
      BY <2>1, <2>3, <3>1
    <3>3. parseOne(U, b[i]).table = packOne(U, hs[i]).table /\ parseOne(U, b[i]).header = hs[i]
      BY <2>2
    <3> QED  BY <3>2, <3>3, Zenon
  <2>5. h[i] \in Seq(Pair) /\ Len(h[i]) = i /\ \A k \in 1 .. i : h[i][k] = hs[k]
    BY <1>1, <2>3, <2>4
  <2> QED  BY <2>4, <2>5
<1>10. \A i \in 0 .. n : parsed(i)
  <2> DEFINE bad == {i \in 0 .. n : ~parsed(i)}
  <2> SUFFICES ASSUME bad # {} PROVE FALSE
    OBVIOUS
  <2>1. bad \in SUBSET Nat /\ bad \subseteq 0 .. n
    BY <1>1
  <2> HIDE DEF parsed
  <2>2. PICK m \in bad : \A k \in bad : m <= k
    <3> HIDE DEF bad
    <3> QED  BY <2>1, LeastIndex
  <2>3. m # 0 /\ m \in 0 .. n /\ ~parsed(m)
    BY <1>8, <2>2
  <2>4. m \in 1 .. n /\ m - 1 \in 0 .. n /\ ~(m <= m - 1)
    BY <1>1, <2>3
  <2>5. parsed(m - 1)
    BY <2>2, <2>4
  <2> QED  BY <1>9, <2>3, <2>4, <2>5
<1>11. n \in 0 .. n
  BY <1>1
<1>12. u[n] = t[n] /\ h[n] \in Seq(Pair) /\ Len(h[n]) = n /\ \A k \in 1 .. n : h[n][k] = hs[k]
  BY <1>10, <1>11
<1>13. h[n] = hs
  <2>1. PICK s \in Seq(Pair) : s = h[n] /\ Len(s) = Len(hs) /\ \A k \in 1 .. Len(s) : s[k] = hs[k]
    BY <1>12
  <2>2. s = hs
    BY <2>1, SeqEqual
  <2> QED  BY <2>1, <2>2
<1> HIDE DEF n, field, packed, parsed
<1>15. parse(T, b) = [headers |-> hs, table |-> t[n]]
  BY <1>7, <1>12, <1>13, <1>17 DEF parse
<1> QED  BY <1>2, <1>15

-----------------------------------------------------------------------------
(***************************************************************************)
(* Types.                                                                  *)
(***************************************************************************)

LEMMA MapFacts ==
    ASSUME NEW S, NEW m
    PROVE  m \in Map(S) <=> DOMAIN m \subseteq Int /\ m \in [DOMAIN m -> S]
  BY Zenon DEF Map

LEMMA WithFacts ==
    ASSUME NEW S, NEW m \in Map(S), NEW k \in Int, NEW v \in S
    PROVE  WithDoes(S, m, k, v)
<1>1. DOMAIN m \subseteq Int /\ m \in [DOMAIN m -> S]
  BY MapFacts
<1> DEFINE w == [i \in DOMAIN m \union {k} |-> IF i = k THEN v ELSE m[i]]
<1>2. w \in [DOMAIN m \union {k} -> S] /\ DOMAIN w = DOMAIN m \union {k} /\ w[k] = v
      /\ \A i \in DOMAIN m : i # k => w[i] = m[i]
  BY <1>1
<1>3. With(m, k, v) = w
  BY DEF With
<1> HIDE DEF w
<1>4. w \in Map(S)
  BY <1>1, <1>2, MapFacts
<1> QED  BY <1>2, <1>3, <1>4 DEF WithDoes

LEMMA LessFacts ==
    ASSUME NEW S, NEW m \in Map(S), NEW k
    PROVE  LessDoes(S, m, k)
<1>1. DOMAIN m \subseteq Int /\ m \in [DOMAIN m -> S]
  BY MapFacts
<1> DEFINE w == [i \in DOMAIN m \ {k} |-> m[i]]
<1>2. w \in [DOMAIN m \ {k} -> S] /\ DOMAIN w = DOMAIN m \ {k}
      /\ \A i \in DOMAIN m : i # k => w[i] = m[i]
  BY <1>1
<1>3. Less(m, k) = w
  BY DEF Less, Restrict
<1> HIDE DEF w
<1>4. w \in Map(S)
  BY <1>1, <1>2, MapFacts
<1> QED  BY <1>2, <1>3, <1>4 DEF LessDoes

\* Writing the value of a key that is there.
LEMMA PutFacts ==
    ASSUME NEW S, NEW m \in Map(S), NEW k \in DOMAIN m, NEW v \in S
    PROVE  /\ [m EXCEPT ![k] = v] \in Map(S)
           /\ DOMAIN [m EXCEPT ![k] = v] = DOMAIN m
           /\ [m EXCEPT ![k] = v][k] = v
           /\ \A i \in DOMAIN m : i # k => [m EXCEPT ![k] = v][i] = m[i]
<1>1. DOMAIN m \subseteq Int /\ m \in [DOMAIN m -> S]
  BY MapFacts
<1> DEFINE w == [m EXCEPT ![k] = v]
<1>2. w \in [DOMAIN m -> S] /\ DOMAIN w = DOMAIN m /\ w[k] = v
      /\ \A i \in DOMAIN m : i # k => w[i] = m[i]
  BY <1>1
<1> HIDE DEF w
<1>4. w \in Map(S)
  BY <1>1, <1>2, MapFacts
<1> QED  BY <1>2, <1>4 DEF w

LEMMA EmptyMap == ASSUME NEW S PROVE <<>> \in Map(S) /\ DOMAIN <<>> = {}
<1>1. DOMAIN <<>> = {} /\ <<>> \in [{} -> S]
  OBVIOUS
<1> QED  BY <1>1, MapFacts, Zenon

LEMMA HeaderType == Headers \subseteq Pair
<1>1. STRING \subseteq Text
  BY Zenon DEF Text
<1> QED  BY <1>1, Http2Assumption, Zenon DEF Pair

LEMMA TypeInit == Init => TypeOK
<1> SUFFICES ASSUME Init PROVE TypeOK
  OBVIOUS
<1>1. cli \in CliRec
  BY EmptyMap, Http2Assumption DEF Init, Client, CliRec, Table
<1>2. srv \in SrvRec
  BY EmptyMap, Http2Assumption DEF Init, Server, SrvRec, Table
<1>3. req \in [Fibers -> ReqRec]
  BY DEF Init, ReqRec
<1>4. queue \in Seq(FrameRec \union AskRec) /\ toSrv \in Seq(FrameRec) /\ toCli \in Seq(FrameRec)
  BY DEF Init
<1> QED  BY <1>1, <1>2, <1>3, <1>4, Zenon DEF Init, TypeOK

-----------------------------------------------------------------------------
(***************************************************************************)
(* Frames, and what the operators on one end of the connection return.     *)
(***************************************************************************)

LEMMA FrameFacts ==
    ASSUME NEW id \in Int
    PROVE  /\ \A b \in Seq(Field), e \in BOOLEAN : IsFrame(HEADERS(id, b, e), "HEADERS", id, b, 0, e)
           /\ IsFrame(DATA(id), "DATA", id, <<>>, 1, TRUE)
           /\ \A n \in Int : IsFrame(WINDOW_UPDATE(id, n), "WINDOW_UPDATE", id, <<>>, n, FALSE)
           /\ IsFrame(RST_STREAM(id), "RST_STREAM", id, <<>>, 0, FALSE)
<1>0. ASSUME NEW t \in {"HEADERS", "DATA", "WINDOW_UPDATE", "RST_STREAM"}
      PROVE  IsFrame(Frame(t, id), t, id, <<>>, 0, FALSE)
  BY DEF IsFrame, FrameRec, Frame
<1>1. ASSUME NEW b \in Seq(Field), NEW e \in BOOLEAN
      PROVE  IsFrame(HEADERS(id, b, e), "HEADERS", id, b, 0, e)
  BY <1>0, Zenon DEF HEADERS, IsFrame, FrameRec
<1>2. IsFrame(DATA(id), "DATA", id, <<>>, 1, TRUE)
  <2>1. ASSUME NEW n \in Nat, n \in Int, NEW e \in BOOLEAN
        PROVE  IsFrame([Frame("DATA", id) EXCEPT !.n = n, !.end = e], "DATA", id, <<>>, n, e)
    <3>1. PICK y : y = [Frame("DATA", id) EXCEPT !.n = n, !.end = e]
      OBVIOUS
    <3>2. /\ y \in [t : {"HEADERS", "DATA", "WINDOW_UPDATE", "RST_STREAM"}, id : Int, block : Seq(Field),
                    n : Int, end : BOOLEAN]
          /\ y.t = "DATA" /\ y.id = id /\ y.block = <<>> /\ y.n = n /\ y.end = e
      BY <1>0, <2>1, <3>1, Zenon DEF IsFrame, FrameRec
    <3>3. IsFrame(y, "DATA", id, <<>>, n, e)
      BY <2>1, <3>2 DEF IsFrame, FrameRec
    <3> QED  BY <3>1, <3>3
  <2>2. 1 \in Nat /\ 1 \in Int /\ TRUE \in BOOLEAN
    OBVIOUS
  <2> QED  BY <2>1, <2>2, Zenon DEF DATA
<1>3. ASSUME NEW n \in Int PROVE IsFrame(WINDOW_UPDATE(id, n), "WINDOW_UPDATE", id, <<>>, n, FALSE)
  BY <1>0, Zenon DEF WINDOW_UPDATE, IsFrame, FrameRec
<1>4. IsFrame(RST_STREAM(id), "RST_STREAM", id, <<>>, 0, FALSE)
  BY <1>0, Zenon DEF RST_STREAM, IsFrame
<1> QED  BY <1>1, <1>2, <1>3, <1>4, Zenon

LEMMA RefillType == \A w \in Int : Refill(w) \in Int
  BY Http2Assumption DEF Refill

\* A list of WINDOW_UPDATEs of one stream.
LEMMA UpdatesFacts ==
    ASSUME NEW id \in Int, NEW n \in Int
    PROVE  /\ Updates(id, n) \in Seq(FrameRec)
           /\ \/ Updates(id, n) = <<>> /\ ~(n > 0)
              \/ Updates(id, n) = <<WINDOW_UPDATE(id, n)>> /\ n > 0
<1>1. WINDOW_UPDATE(id, n) \in FrameRec
  BY FrameFacts, Zenon DEF IsFrame
<1> QED  BY <1>1 DEF Updates

LEMMA FedType ==
    ASSUME NEW s \in StreamRec, NEW f \in FrameRec, NEW T \in Table
    PROVE  Fed(s, f, T) \in StreamRec
<1>1. f.n \in Int /\ f.end \in BOOLEAN /\ f.block \in Seq(Field)
  BY DEF FrameRec
<1>2. /\ s.of \in Fibers \union {None} /\ s.send \in Int /\ s.recv \in Int
      /\ s.state \in {"IDLE", "CLOSED"} /\ s.headers \in Seq(Pair) /\ s.body \in Int
      /\ s.null \in BOOLEAN /\ s.handled \in {"no", "scheduled", "responded"}
  BY DEF StreamRec
<1>3. parse(T, f.block).headers \in Seq(Pair)
  BY <1>1, ParseType
<1>4. Refill(s.recv - f.n) \in Int
  <2>1. s.recv - f.n \in Int
    BY <1>1, <1>2
  <2> QED  BY <2>1, RefillType
<1> QED  BY <1>1, <1>2, <1>3, <1>4 DEF Fed, StreamRec

LEMMA StreamEqual ==
    ASSUME NEW x \in StreamRec, NEW y \in StreamRec,
           x.of = y.of, x.send = y.send, x.recv = y.recv, x.state = y.state,
           x.ended = y.ended, x.headers = y.headers, x.body = y.body, x.null = y.null,
           x.handled = y.handled
    PROVE  x = y
<1>1. ASSUME NEW z \in StreamRec
      PROVE  z = [of |-> z.of, send |-> z.send, recv |-> z.recv, state |-> z.state,
                  ended |-> z.ended, headers |-> z.headers, body |-> z.body, null |-> z.null,
                  handled |-> z.handled]
  BY Zenon DEF StreamRec
<1> QED  BY <1>1, Zenon

LEMMA AfterSrv ==
    ASSUME NEW e \in SrvRec, NEW f \in FrameRec, f.id \in DOMAIN e.streams
    PROVE  After(e, f) \in SrvRec /\ AfterFacts(e, f)
<1> DEFINE s == e.streams[f.id]
           w == e.recv - f.n
           v == s.recv - f.n
           s1 == IF f.t = "DATA" THEN [s EXCEPT !.recv = v + Refill(v)] ELSE s
           d == IF f.t = "DATA" THEN handleRecvData(e, f).end ELSE e
           a == handleFrame(d, f)
<1>1. /\ e.streams \in Map(StreamRec) /\ e.recv \in Int /\ e.recvTable \in Table
      /\ f.n \in Int /\ f.id \in Int /\ f.end \in BOOLEAN /\ f.block \in Seq(Field)
  BY DEF SrvRec, FrameRec
<1>2. DOMAIN e.streams \subseteq Int /\ e.streams \in [DOMAIN e.streams -> StreamRec] /\ s \in StreamRec
  BY <1>1, MapFacts
<1>3. w \in Int /\ Refill(w) \in Int /\ v \in Int /\ Refill(v) \in Int
  <2>1. s.recv \in Int
    BY <1>2 DEF StreamRec
  <2>2. w \in Int /\ v \in Int
    BY <1>1, <2>1
  <2> QED  BY <2>2, RefillType
<1> HIDE DEF w, v, s
<1>4. /\ s1 \in StreamRec /\ s1.of = s.of /\ s1.send = s.send /\ s1.state = s.state
      /\ s1.headers = s.headers /\ s1.body = s.body /\ s1.null = s.null /\ s1.handled = s.handled
      /\ s1.recv = IF f.t = "DATA" THEN v + Refill(v) ELSE s.recv
  <2>1. CASE f.t = "DATA"
    <3>1. s1 = [s EXCEPT !.recv = v + Refill(v)]
      BY <2>1
    <3>2. v + Refill(v) \in Int
      BY <1>3
    <3> HIDE DEF s1
    <3> QED  BY <1>2, <2>1, <3>1, <3>2, Zenon DEF StreamRec
  <2>2. CASE f.t # "DATA"
    BY <1>2, <2>2
  <2> QED  BY <2>1, <2>2
<1>5. /\ d \in SrvRec /\ d.sn = e.sn /\ d.send = e.send /\ d.sendTable = e.sendTable
      /\ d.recvTable = e.recvTable
      /\ d.recv = IF f.t = "DATA" THEN w + Refill(w) ELSE e.recv
      /\ d.streams = [e.streams EXCEPT ![f.id] = s1]
  <2>1. CASE f.t = "DATA"
    <3> DEFINE m == [e.streams EXCEPT ![f.id] = s1]
    <3>1. d = [e EXCEPT !.recv = w + Refill(w), !.streams = m]
      BY <2>1 DEF handleRecvData, w, v, s
    <3>2. m \in Map(StreamRec) /\ w + Refill(w) \in Int
      BY <1>1, <1>3, <1>4, PutFacts
    <3> HIDE DEF m, d, s1
    <3>3. /\ d \in SrvRec /\ d.sn = e.sn /\ d.send = e.send /\ d.sendTable = e.sendTable
          /\ d.recvTable = e.recvTable /\ d.recv = w + Refill(w) /\ d.streams = m
      BY <3>1, <3>2, Zenon DEF SrvRec
    <3> QED  BY <2>1, <3>3 DEF m
  <2>2. CASE f.t # "DATA"
    <3>1. e.streams = [e.streams EXCEPT ![f.id] = s]
      BY <1>2 DEF s
    <3> QED  BY <2>2, <3>1
  <2> QED  BY <2>1, <2>2
<1> HIDE DEF s1, d
<1> DEFINE s2 == [s1 EXCEPT !.ended = f.end,
                            !.state = IF f.end \/ f.t = "RST_STREAM" THEN "CLOSED" ELSE @]
           p == parse(d.recvTable, f.block)
           s3 == CASE f.t = "HEADERS" -> [s2 EXCEPT !.headers = @ \o p.headers]
                   [] f.t = "DATA" -> [s2 EXCEPT !.body = @ + f.n]
                   [] OTHER -> s2
           m2 == [d.streams EXCEPT ![f.id] = s3]
           T2 == IF f.t = "HEADERS" THEN p.table ELSE d.recvTable
<1>6. d.streams \in Map(StreamRec) /\ DOMAIN d.streams = DOMAIN e.streams /\ d.streams[f.id] = s1
      /\ \A id \in DOMAIN e.streams : id # f.id => d.streams[id] = e.streams[id]
  BY <1>1, <1>4, <1>5, PutFacts
<1>7. p.headers \in Seq(Pair) /\ p.table \in Table
  BY <1>1, <1>5, ParseType
<1> HIDE DEF p
<1>8. s2 \in StreamRec /\ s2.of = s1.of /\ s2.send = s1.send /\ s2.recv = s1.recv
      /\ s2.headers = s1.headers /\ s2.body = s1.body /\ s2.null = s1.null
      /\ s2.handled = s1.handled /\ s2.ended = f.end
      /\ s2.state = IF f.end \/ f.t = "RST_STREAM" THEN "CLOSED" ELSE s1.state
  BY <1>1, <1>4, Zenon DEF StreamRec
<1>9. a = [d EXCEPT !.streams = m2, !.recvTable = T2]
  <2>1. CASE f.t = "HEADERS"
    BY <1>6, <2>1 DEF handleFrame, PutStream, p, SrvRec
  <2>2. CASE f.t = "DATA"
    <3>1. a = [d EXCEPT !.streams = m2]
      BY <1>6, <2>2 DEF handleFrame, PutStream
    <3>2. T2 = d.recvTable
      BY <2>2
    <3> HIDE DEF m2
    <3> QED  BY <1>5, <3>1, <3>2, Zenon DEF SrvRec
  <2>3. CASE f.t \notin {"HEADERS", "DATA"}
    <3>1. a = [d EXCEPT !.streams = m2]
      BY <1>6, <2>3 DEF handleFrame, PutStream
    <3>2. T2 = d.recvTable
      BY <2>3
    <3> HIDE DEF m2
    <3> QED  BY <1>5, <3>1, <3>2, Zenon DEF SrvRec
  <2> QED  BY <2>1, <2>2, <2>3
<1> HIDE DEF s2
<1>10. s3 = Fed(s, f, e.recvTable) /\ s3 \in StreamRec
  <2>1. Fed(s, f, e.recvTable) \in StreamRec
    BY <1>1, <1>2, FedType
  <2>3. /\ s3 \in StreamRec
        /\ s3.of = s.of /\ s3.send = s.send
        /\ s3.recv = IF f.t = "DATA" THEN v + Refill(v) ELSE s.recv
        /\ s3.state = IF f.end \/ f.t = "RST_STREAM" THEN "CLOSED" ELSE s.state
        /\ s3.ended = f.end
        /\ s3.headers = IF f.t = "HEADERS" THEN s.headers \o p.headers ELSE s.headers
        /\ s3.body = IF f.t = "DATA" THEN s.body + f.n ELSE s.body
        /\ s3.null = s.null /\ s3.handled = s.handled
    <3>1. CASE f.t = "HEADERS"
      <4>1. s3 = [s2 EXCEPT !.headers = @ \o p.headers]
        BY <3>1
      <4>2. s2.headers \o p.headers \in Seq(Pair)
        BY <1>7, <1>8 DEF StreamRec
      <4> HIDE DEF s3
      <4> QED  BY <1>4, <1>8, <3>1, <4>1, <4>2, Zenon DEF StreamRec
    <3>2. CASE f.t = "DATA"
      <4>1. s3 = [s2 EXCEPT !.body = @ + f.n]
        BY <3>2
      <4>2. s2.body + f.n \in Int
        BY <1>1, <1>8 DEF StreamRec
      <4> HIDE DEF s3
      <4> QED  BY <1>4, <1>8, <3>2, <4>1, <4>2 DEF StreamRec
    <3>3. CASE f.t \notin {"HEADERS", "DATA"}
      <4>1. s3 = s2
        BY <3>3, Zenon
      <4> HIDE DEF s3
      <4> QED  BY <1>4, <1>8, <3>3, <4>1
    <3> QED  BY <3>1, <3>2, <3>3
  <2>4. p = parse(e.recvTable, f.block)
    BY <1>5 DEF p
  <2> DEFINE g == Fed(s, f, e.recvTable)
  <2>5. /\ g.of = s.of /\ g.send = s.send
        /\ g.recv = IF f.t = "DATA" THEN v + Refill(v) ELSE s.recv
        /\ g.state = IF f.end \/ f.t = "RST_STREAM" THEN "CLOSED" ELSE s.state
        /\ g.ended = f.end
        /\ g.headers = IF f.t = "HEADERS" THEN s.headers \o p.headers ELSE s.headers
        /\ g.body = IF f.t = "DATA" THEN s.body + f.n ELSE s.body
        /\ g.null = s.null /\ g.handled = s.handled
    BY <2>4 DEF Fed, v
  <2>6. g \in StreamRec
    BY <2>1
  <2> HIDE DEF g, s3
  <2>7. s3 = g
    BY <2>3, <2>5, <2>6, StreamEqual
  <2> QED  BY <2>3, <2>7 DEF g
<1> HIDE DEF s3
<1>11. /\ m2 \in Map(StreamRec) /\ DOMAIN m2 = DOMAIN e.streams /\ m2[f.id] = s3
       /\ \A id \in DOMAIN e.streams : id # f.id => m2[id] = e.streams[id]
  <2>1. f.id \in DOMAIN d.streams
    BY <1>6
  <2>2. /\ m2 \in Map(StreamRec) /\ DOMAIN m2 = DOMAIN d.streams /\ m2[f.id] = s3
        /\ \A id \in DOMAIN d.streams : id # f.id => m2[id] = d.streams[id]
    BY <1>6, <1>10, <2>1, PutFacts
  <2> HIDE DEF m2
  <2> QED  BY <1>6, <2>2
<1>12. T2 \in Table /\ T2 = IF f.t = "HEADERS" THEN parse(e.recvTable, f.block).table ELSE e.recvTable
  BY <1>1, <1>5, <1>7 DEF p
<1> HIDE DEF m2, T2, a
<1>13. /\ a \in SrvRec /\ a.sn = d.sn /\ a.send = d.send /\ a.sendTable = d.sendTable
       /\ a.recv = d.recv /\ a.recvTable = T2 /\ a.streams = m2
  BY <1>5, <1>9, <1>11, <1>12, Zenon DEF SrvRec
<1>14. a = After(e, f)
  BY DEF After, a, d
<1> QED  BY <1>5, <1>10, <1>11, <1>12, <1>13, <1>14 DEF AfterFacts, s, w

LEMMA AfterCli ==
    ASSUME NEW e \in CliRec, NEW f \in FrameRec, f.id \in DOMAIN e.streams
    PROVE  /\ After(e, f) \in CliRec /\ AfterFacts(e, f)
           /\ After(e, f).ctxs = e.ctxs
           /\ After(e, f).pending = e.pending
           /\ After(e, f).held = e.held
<1> DEFINE s == e.streams[f.id]
           w == e.recv - f.n
           v == s.recv - f.n
           s1 == IF f.t = "DATA" THEN [s EXCEPT !.recv = v + Refill(v)] ELSE s
           d == IF f.t = "DATA" THEN handleRecvData(e, f).end ELSE e
           a == handleFrame(d, f)
<1>1. /\ e.streams \in Map(StreamRec) /\ e.recv \in Int /\ e.recvTable \in Table
      /\ f.n \in Int /\ f.id \in Int /\ f.end \in BOOLEAN /\ f.block \in Seq(Field)
  BY DEF CliRec, FrameRec
<1>2. DOMAIN e.streams \subseteq Int /\ e.streams \in [DOMAIN e.streams -> StreamRec] /\ s \in StreamRec
  BY <1>1, MapFacts
<1>3. w \in Int /\ Refill(w) \in Int /\ v \in Int /\ Refill(v) \in Int
  <2>1. s.recv \in Int
    BY <1>2 DEF StreamRec
  <2>2. w \in Int /\ v \in Int
    BY <1>1, <2>1
  <2> QED  BY <2>2, RefillType
<1> HIDE DEF w, v, s
<1>4. /\ s1 \in StreamRec /\ s1.of = s.of /\ s1.send = s.send /\ s1.state = s.state
      /\ s1.headers = s.headers /\ s1.body = s.body /\ s1.null = s.null /\ s1.handled = s.handled
      /\ s1.recv = IF f.t = "DATA" THEN v + Refill(v) ELSE s.recv
  <2>1. CASE f.t = "DATA"
    <3>1. s1 = [s EXCEPT !.recv = v + Refill(v)]
      BY <2>1
    <3>2. v + Refill(v) \in Int
      BY <1>3
    <3> HIDE DEF s1
    <3> QED  BY <1>2, <2>1, <3>1, <3>2, Zenon DEF StreamRec
  <2>2. CASE f.t # "DATA"
    BY <1>2, <2>2
  <2> QED  BY <2>1, <2>2
<1>5. /\ d \in CliRec /\ d.sn = e.sn /\ d.send = e.send /\ d.sendTable = e.sendTable
      /\ d.recvTable = e.recvTable /\ d.ctxs = e.ctxs /\ d.pending = e.pending /\ d.held = e.held
      /\ d.recv = IF f.t = "DATA" THEN w + Refill(w) ELSE e.recv
      /\ d.streams = [e.streams EXCEPT ![f.id] = s1]
  <2>1. CASE f.t = "DATA"
    <3> DEFINE m == [e.streams EXCEPT ![f.id] = s1]
    <3>1. d = [e EXCEPT !.recv = w + Refill(w), !.streams = m]
      BY <2>1 DEF handleRecvData, w, v, s
    <3>2. m \in Map(StreamRec) /\ w + Refill(w) \in Int
      BY <1>1, <1>3, <1>4, PutFacts
    <3> HIDE DEF m, d, s1
    <3>3. /\ d \in CliRec /\ d.sn = e.sn /\ d.send = e.send /\ d.sendTable = e.sendTable
          /\ d.recvTable = e.recvTable /\ d.ctxs = e.ctxs /\ d.pending = e.pending /\ d.held = e.held /\ d.recv = w + Refill(w) /\ d.streams = m
      BY <3>1, <3>2, Zenon DEF CliRec
    <3> QED  BY <2>1, <3>3 DEF m
  <2>2. CASE f.t # "DATA"
    <3>1. e.streams = [e.streams EXCEPT ![f.id] = s]
      BY <1>2 DEF s
    <3> QED  BY <2>2, <3>1
  <2> QED  BY <2>1, <2>2
<1> HIDE DEF s1, d
<1> DEFINE s2 == [s1 EXCEPT !.ended = f.end,
                            !.state = IF f.end \/ f.t = "RST_STREAM" THEN "CLOSED" ELSE @]
           p == parse(d.recvTable, f.block)
           s3 == CASE f.t = "HEADERS" -> [s2 EXCEPT !.headers = @ \o p.headers]
                   [] f.t = "DATA" -> [s2 EXCEPT !.body = @ + f.n]
                   [] OTHER -> s2
           m2 == [d.streams EXCEPT ![f.id] = s3]
           T2 == IF f.t = "HEADERS" THEN p.table ELSE d.recvTable
<1>6. d.streams \in Map(StreamRec) /\ DOMAIN d.streams = DOMAIN e.streams /\ d.streams[f.id] = s1
      /\ \A id \in DOMAIN e.streams : id # f.id => d.streams[id] = e.streams[id]
  BY <1>1, <1>4, <1>5, PutFacts
<1>7. p.headers \in Seq(Pair) /\ p.table \in Table
  BY <1>1, <1>5, ParseType
<1> HIDE DEF p
<1>8. s2 \in StreamRec /\ s2.of = s1.of /\ s2.send = s1.send /\ s2.recv = s1.recv
      /\ s2.headers = s1.headers /\ s2.body = s1.body /\ s2.null = s1.null
      /\ s2.handled = s1.handled /\ s2.ended = f.end
      /\ s2.state = IF f.end \/ f.t = "RST_STREAM" THEN "CLOSED" ELSE s1.state
  BY <1>1, <1>4, Zenon DEF StreamRec
<1>9. a = [d EXCEPT !.streams = m2, !.recvTable = T2]
  <2>1. CASE f.t = "HEADERS"
    BY <1>6, <2>1 DEF handleFrame, PutStream, p, CliRec
  <2>2. CASE f.t = "DATA"
    <3>1. a = [d EXCEPT !.streams = m2]
      BY <1>6, <2>2 DEF handleFrame, PutStream
    <3>2. T2 = d.recvTable
      BY <2>2
    <3> HIDE DEF m2
    <3> QED  BY <1>5, <3>1, <3>2, Zenon DEF CliRec
  <2>3. CASE f.t \notin {"HEADERS", "DATA"}
    <3>1. a = [d EXCEPT !.streams = m2]
      BY <1>6, <2>3 DEF handleFrame, PutStream
    <3>2. T2 = d.recvTable
      BY <2>3
    <3> HIDE DEF m2
    <3> QED  BY <1>5, <3>1, <3>2, Zenon DEF CliRec
  <2> QED  BY <2>1, <2>2, <2>3
<1> HIDE DEF s2
<1>10. s3 = Fed(s, f, e.recvTable) /\ s3 \in StreamRec
  <2>1. Fed(s, f, e.recvTable) \in StreamRec
    BY <1>1, <1>2, FedType
  <2>3. /\ s3 \in StreamRec
        /\ s3.of = s.of /\ s3.send = s.send
        /\ s3.recv = IF f.t = "DATA" THEN v + Refill(v) ELSE s.recv
        /\ s3.state = IF f.end \/ f.t = "RST_STREAM" THEN "CLOSED" ELSE s.state
        /\ s3.ended = f.end
        /\ s3.headers = IF f.t = "HEADERS" THEN s.headers \o p.headers ELSE s.headers
        /\ s3.body = IF f.t = "DATA" THEN s.body + f.n ELSE s.body
        /\ s3.null = s.null /\ s3.handled = s.handled
    <3>1. CASE f.t = "HEADERS"
      <4>1. s3 = [s2 EXCEPT !.headers = @ \o p.headers]
        BY <3>1
      <4>2. s2.headers \o p.headers \in Seq(Pair)
        BY <1>7, <1>8 DEF StreamRec
      <4> HIDE DEF s3
      <4> QED  BY <1>4, <1>8, <3>1, <4>1, <4>2, Zenon DEF StreamRec
    <3>2. CASE f.t = "DATA"
      <4>1. s3 = [s2 EXCEPT !.body = @ + f.n]
        BY <3>2
      <4>2. s2.body + f.n \in Int
        BY <1>1, <1>8 DEF StreamRec
      <4> HIDE DEF s3
      <4> QED  BY <1>4, <1>8, <3>2, <4>1, <4>2 DEF StreamRec
    <3>3. CASE f.t \notin {"HEADERS", "DATA"}
      <4>1. s3 = s2
        BY <3>3, Zenon
      <4> HIDE DEF s3
      <4> QED  BY <1>4, <1>8, <3>3, <4>1
    <3> QED  BY <3>1, <3>2, <3>3
  <2>4. p = parse(e.recvTable, f.block)
    BY <1>5 DEF p
  <2> DEFINE g == Fed(s, f, e.recvTable)
  <2>5. /\ g.of = s.of /\ g.send = s.send
        /\ g.recv = IF f.t = "DATA" THEN v + Refill(v) ELSE s.recv
        /\ g.state = IF f.end \/ f.t = "RST_STREAM" THEN "CLOSED" ELSE s.state
        /\ g.ended = f.end
        /\ g.headers = IF f.t = "HEADERS" THEN s.headers \o p.headers ELSE s.headers
        /\ g.body = IF f.t = "DATA" THEN s.body + f.n ELSE s.body
        /\ g.null = s.null /\ g.handled = s.handled
    BY <2>4 DEF Fed, v
  <2>6. g \in StreamRec
    BY <2>1
  <2> HIDE DEF g, s3
  <2>7. s3 = g
    BY <2>3, <2>5, <2>6, StreamEqual
  <2> QED  BY <2>3, <2>7 DEF g
<1> HIDE DEF s3
<1>11. /\ m2 \in Map(StreamRec) /\ DOMAIN m2 = DOMAIN e.streams /\ m2[f.id] = s3
       /\ \A id \in DOMAIN e.streams : id # f.id => m2[id] = e.streams[id]
  <2>1. f.id \in DOMAIN d.streams
    BY <1>6
  <2>2. /\ m2 \in Map(StreamRec) /\ DOMAIN m2 = DOMAIN d.streams /\ m2[f.id] = s3
        /\ \A id \in DOMAIN d.streams : id # f.id => m2[id] = d.streams[id]
    BY <1>6, <1>10, <2>1, PutFacts
  <2> HIDE DEF m2
  <2> QED  BY <1>6, <2>2
<1>12. T2 \in Table /\ T2 = IF f.t = "HEADERS" THEN parse(e.recvTable, f.block).table ELSE e.recvTable
  BY <1>1, <1>5, <1>7 DEF p
<1> HIDE DEF m2, T2, a
<1>13. /\ a \in CliRec /\ a.sn = d.sn /\ a.send = d.send /\ a.sendTable = d.sendTable
       /\ a.recv = d.recv /\ a.recvTable = T2 /\ a.streams = m2 /\ a.ctxs = d.ctxs /\ a.pending = d.pending /\ a.held = d.held
  BY <1>5, <1>9, <1>11, <1>12, Zenon DEF CliRec
<1>14. a = After(e, f)
  BY DEF After, a, d
<1> QED  BY <1>5, <1>10, <1>11, <1>12, <1>13, <1>14 DEF AfterFacts, s, w

LEMMA AlikeSame == ASSUME NEW s \in StreamRec PROVE Alike(s, s) /\ s.send \in Int /\ s.send + 0 = s.send
  BY DEF Alike, StreamRec

LEMMA SendStream ==
    ASSUME NEW s \in StreamRec, NEW d \in Int
    PROVE  /\ [s EXCEPT !.send = @ + d] \in StreamRec
           /\ Alike(s, [s EXCEPT !.send = @ + d])
           /\ [s EXCEPT !.send = @ + d].send = s.send + d
<1>1. s.send \in Int /\ s.send + d \in Int
  BY DEF StreamRec
<1> DEFINE s2 == [s EXCEPT !.send = @ + d]
<1>2. s2 \in StreamRec /\ s2.send = s.send + d
  BY <1>1 DEF StreamRec
<1>3. Alike(s, s2)
  BY <1>1 DEF StreamRec, Alike
<1> QED  BY <1>2, <1>3

LEMMA WindowSrv ==
    ASSUME NEW e \in SrvRec, NEW f \in FrameRec
    PROVE  /\ handleWindowUpdate(e, f) \in SrvRec
           /\ OnlySend(e, handleWindowUpdate(e, f), Granted(e, f, 0), f.id,
                       IF f.id = 0 THEN 0 ELSE Granted(e, f, f.id))
           /\ windowError(e, f) \in SUBSET {"no stream", "overflow"}
<1> DEFINE h == handleWindowUpdate(e, f)
<1>1. e.streams \in Map(StreamRec) /\ f.n \in Int /\ f.id \in Int /\ e.send \in Int
  BY DEF SrvRec, FrameRec
<1>2. DOMAIN e.streams \subseteq Int /\ e.streams \in [DOMAIN e.streams -> StreamRec]
  BY <1>1, MapFacts
<1>3. \A id \in DOMAIN e.streams : Alike(e.streams[id], e.streams[id])
        /\ e.streams[id].send + 0 = e.streams[id].send
  BY <1>2, AlikeSame
<1>4. windowError(e, f) \in SUBSET {"no stream", "overflow"}
  BY DEF windowError
<1>5. CASE windowError(e, f) # {}
  <2>1. h = e
    BY <1>5 DEF handleWindowUpdate
  <2>2. OnlySend(e, e, 0, f.id, 0)
    BY <1>1, <1>3 DEF OnlySend
  <2>3. Granted(e, f, 0) = 0 /\ Granted(e, f, f.id) = 0
    BY <1>5 DEF Granted
  <2> HIDE DEF h
  <2> QED  BY <1>4, <2>1, <2>2, <2>3, Zenon DEF h
<1>6. CASE windowError(e, f) = {} /\ f.id # 0
  <2>1. f.id \in DOMAIN e.streams
    BY <1>6, Zenon DEF windowError, Exists
  <2> DEFINE s2 == [e.streams[f.id] EXCEPT !.send = @ + f.n]
             m == [e.streams EXCEPT ![f.id] = s2]
  <2>2. e.streams[f.id] \in StreamRec
    BY <1>2, <2>1
  <2>3. s2 \in StreamRec /\ Alike(e.streams[f.id], s2) /\ s2.send = e.streams[f.id].send + f.n
    BY <1>1, <2>2, SendStream
  <2>4. h = [e EXCEPT !.streams = m]
    BY <1>6, <2>1 DEF handleWindowUpdate
  <2> HIDE DEF s2
  <2>5. /\ m \in Map(StreamRec) /\ DOMAIN m = DOMAIN e.streams /\ m[f.id] = s2
        /\ \A id \in DOMAIN e.streams : id # f.id => m[id] = e.streams[id]
    BY <1>1, <2>1, <2>3, PutFacts
  <2> HIDE DEF m, h
  <2>6. /\ h \in SrvRec /\ h.streams = m /\ h.sn = e.sn /\ h.recv = e.recv /\ h.send = e.send
        /\ h.sendTable = e.sendTable /\ h.recvTable = e.recvTable
    BY <2>4, <2>5 DEF SrvRec
  <2>7. Granted(e, f, 0) = 0 /\ Granted(e, f, f.id) = f.n
    BY <1>6 DEF Granted
  <2>8. ASSUME NEW id \in DOMAIN e.streams
        PROVE  /\ Alike(e.streams[id], m[id])
               /\ m[id].send = e.streams[id].send + IF id = f.id THEN f.n ELSE 0
    <3>1. CASE id = f.id
      BY <2>3, <2>5, <3>1
    <3>2. CASE id # f.id
      BY <1>3, <2>5, <3>2
    <3> QED  BY <3>1, <3>2
  <2>9. OnlySend(e, h, 0, f.id, f.n)
    BY <1>1, <2>5, <2>6, <2>8 DEF OnlySend
  <2>10. OnlySend(e, h, Granted(e, f, 0), f.id, IF f.id = 0 THEN 0 ELSE Granted(e, f, f.id))
    BY <1>6, <2>7, <2>9
  <2> QED  BY <1>4, <2>6, <2>10, Zenon DEF h
<1>7. CASE windowError(e, f) = {} /\ f.id = 0
  <2>1. h = [e EXCEPT !.send = @ + f.n]
    BY <1>7 DEF handleWindowUpdate
  <2> HIDE DEF h
  <2>2. /\ h \in SrvRec /\ h.streams = e.streams /\ h.sn = e.sn /\ h.recv = e.recv
        /\ h.send = e.send + f.n
        /\ h.sendTable = e.sendTable /\ h.recvTable = e.recvTable
    BY <1>1, <2>1 DEF SrvRec
  <2>3. Granted(e, f, 0) = f.n
    BY <1>7 DEF Granted
  <2>4. OnlySend(e, h, f.n, f.id, 0)
    BY <1>3, <2>2 DEF OnlySend
  <2>5. OnlySend(e, h, Granted(e, f, 0), f.id, IF f.id = 0 THEN 0 ELSE Granted(e, f, f.id))
    BY <1>7, <2>3, <2>4
  <2> QED  BY <1>4, <2>2, <2>5, Zenon DEF h
<1> QED  BY <1>5, <1>6, <1>7, Zenon

LEMMA ChargeSrv ==
    ASSUME NEW e \in SrvRec, NEW id, NEW of, NEW vain \in BOOLEAN
    PROVE  /\ Charge(e, id, of, vain) \in SrvRec
           /\ OnlySend(e, Charge(e, id, of, vain), IF vain THEN 0 ELSE -1, id,
                       IF Exists(e, id) /\ e.streams[id].of = of THEN -1 ELSE 0)
<1> DEFINE h == Charge(e, id, of, vain)
           hit == Exists(e, id) /\ e.streams[id].of = of
           n == IF vain THEN 0 ELSE -1
<1>1. e.streams \in Map(StreamRec) /\ e.send \in Int /\ n \in Int
  BY DEF SrvRec
<1>2. DOMAIN e.streams \subseteq Int /\ e.streams \in [DOMAIN e.streams -> StreamRec]
  BY <1>1, MapFacts
<1>3. \A k \in DOMAIN e.streams : Alike(e.streams[k], e.streams[k])
        /\ e.streams[k].send + 0 = e.streams[k].send
  BY <1>2, AlikeSame
<1>4. CASE hit
  <2>1. id \in DOMAIN e.streams
    BY <1>4 DEF Exists
  <2> DEFINE s2 == [e.streams[id] EXCEPT !.send = @ + (-1)]
             m == [e.streams EXCEPT ![id] = s2]
  <2>2. e.streams[id] \in StreamRec
    BY <1>2, <2>1
  <2>3. s2 \in StreamRec /\ Alike(e.streams[id], s2) /\ s2.send = e.streams[id].send + (-1)
    <3>1. -1 \in Int
      OBVIOUS
    <3> QED  BY <2>2, <3>1, SendStream, Zenon
  <2> DEFINE o == ChargeObject(e, id, of)
  <2>4. o = [e EXCEPT !.streams = m] /\ h = [o EXCEPT !.send = e.send + n]
    <3>1. e.streams[id].send - 1 = e.streams[id].send + (-1)
      BY <2>2 DEF StreamRec
    <3>2. o = [e EXCEPT !.streams[id].send = @ - 1]
      BY <1>4 DEF ChargeObject
    <3>3. o = [e EXCEPT !.streams = m]
      BY <3>1, <3>2
    <3>4. o.send = e.send
      BY <3>3 DEF SrvRec
    <3>5. h = [o EXCEPT !.send = IF vain THEN @ ELSE @ - 1]
      BY DEF Charge
    <3>6. (IF vain THEN e.send ELSE e.send - 1) = e.send + n
      BY <1>1
    <3> HIDE DEF h, o, m, n
    <3> QED  BY <3>3, <3>4, <3>5, <3>6
  <2> HIDE DEF s2
  <2>5. /\ m \in Map(StreamRec) /\ DOMAIN m = DOMAIN e.streams /\ m[id] = s2
        /\ \A k \in DOMAIN e.streams : k # id => m[k] = e.streams[k]
    BY <1>1, <2>1, <2>3, PutFacts
  <2> HIDE DEF m, h, o, hit, n
  <2>9. /\ o \in SrvRec /\ o.streams = m /\ o.sn = e.sn /\ o.recv = e.recv /\ o.send = e.send
        /\ o.sendTable = e.sendTable /\ o.recvTable = e.recvTable
    BY <1>1, <2>4, <2>5 DEF SrvRec
  <2>6. /\ h \in SrvRec /\ h.streams = m /\ h.sn = e.sn /\ h.recv = e.recv /\ h.send = e.send + n
        /\ h.sendTable = e.sendTable /\ h.recvTable = e.recvTable
    <3>1. h = [o EXCEPT !.send = e.send + n]
      BY <2>4
    <3>2. o \in SrvRec /\ o.send \in Int
      BY <1>1, <2>9
    <3>3. /\ h \in SrvRec /\ h.streams = o.streams /\ h.sn = o.sn /\ h.recv = o.recv
          /\ h.send = e.send + n
          /\ h.sendTable = o.sendTable /\ h.recvTable = o.recvTable
      BY <1>1, <3>1, <3>2 DEF SrvRec
    <3> QED  BY <2>9, <3>3
  <2>7. ASSUME NEW k \in DOMAIN e.streams
        PROVE  /\ Alike(e.streams[k], m[k])
               /\ m[k].send = e.streams[k].send + IF k = id THEN -1 ELSE 0
    <3>1. CASE k = id
      BY <2>3, <2>5, <3>1
    <3>2. CASE k # id
      BY <1>3, <2>5, <3>2
    <3> QED  BY <3>1, <3>2
  <2>8. OnlySend(e, h, n, id, -1)
    BY <1>1, <2>5, <2>6, <2>7 DEF OnlySend
  <2> QED  BY <1>4, <2>6, <2>8 DEF h, hit, n
<1>5. CASE ~hit
  <2>1. h = [e EXCEPT !.send = e.send + n]
    BY <1>1, <1>5 DEF Charge, ChargeObject
  <2> HIDE DEF h, hit, n
  <2>2. /\ h \in SrvRec /\ h.streams = e.streams /\ h.sn = e.sn /\ h.recv = e.recv
        /\ h.send = e.send + n
        /\ h.sendTable = e.sendTable /\ h.recvTable = e.recvTable
    BY <1>1, <2>1 DEF SrvRec
  <2>3. OnlySend(e, h, n, id, 0)
    BY <1>1, <1>3, <2>2 DEF OnlySend
  <2> QED  BY <1>5, <2>2, <2>3 DEF h, hit, n
<1> QED  BY <1>4, <1>5

LEMMA WindowCli ==
    ASSUME NEW e \in CliRec, NEW f \in FrameRec
    PROVE  /\ handleWindowUpdate(e, f) \in CliRec
           /\ handleWindowUpdate(e, f).ctxs = e.ctxs
           /\ handleWindowUpdate(e, f).pending = e.pending
           /\ handleWindowUpdate(e, f).held = e.held
           /\ OnlySend(e, handleWindowUpdate(e, f), Granted(e, f, 0), f.id,
                       IF f.id = 0 THEN 0 ELSE Granted(e, f, f.id))
           /\ windowError(e, f) \in SUBSET {"no stream", "overflow"}
<1> DEFINE h == handleWindowUpdate(e, f)
<1>1. e.streams \in Map(StreamRec) /\ f.n \in Int /\ f.id \in Int /\ e.send \in Int
  BY DEF CliRec, FrameRec
<1>2. DOMAIN e.streams \subseteq Int /\ e.streams \in [DOMAIN e.streams -> StreamRec]
  BY <1>1, MapFacts
<1>3. \A id \in DOMAIN e.streams : Alike(e.streams[id], e.streams[id])
        /\ e.streams[id].send + 0 = e.streams[id].send
  BY <1>2, AlikeSame
<1>4. windowError(e, f) \in SUBSET {"no stream", "overflow"}
  BY DEF windowError
<1>5. CASE windowError(e, f) # {}
  <2>1. h = e
    BY <1>5 DEF handleWindowUpdate
  <2>2. OnlySend(e, e, 0, f.id, 0)
    BY <1>1, <1>3 DEF OnlySend
  <2>3. Granted(e, f, 0) = 0 /\ Granted(e, f, f.id) = 0
    BY <1>5 DEF Granted
  <2> HIDE DEF h
  <2> QED  BY <1>4, <2>1, <2>2, <2>3, Zenon DEF h
<1>6. CASE windowError(e, f) = {} /\ f.id # 0
  <2>1. f.id \in DOMAIN e.streams
    BY <1>6, Zenon DEF windowError, Exists
  <2> DEFINE s2 == [e.streams[f.id] EXCEPT !.send = @ + f.n]
             m == [e.streams EXCEPT ![f.id] = s2]
  <2>2. e.streams[f.id] \in StreamRec
    BY <1>2, <2>1
  <2>3. s2 \in StreamRec /\ Alike(e.streams[f.id], s2) /\ s2.send = e.streams[f.id].send + f.n
    BY <1>1, <2>2, SendStream
  <2>4. h = [e EXCEPT !.streams = m]
    BY <1>6, <2>1 DEF handleWindowUpdate
  <2> HIDE DEF s2
  <2>5. /\ m \in Map(StreamRec) /\ DOMAIN m = DOMAIN e.streams /\ m[f.id] = s2
        /\ \A id \in DOMAIN e.streams : id # f.id => m[id] = e.streams[id]
    BY <1>1, <2>1, <2>3, PutFacts
  <2> HIDE DEF m, h
  <2>6. /\ h \in CliRec /\ h.streams = m /\ h.sn = e.sn /\ h.recv = e.recv /\ h.send = e.send
        /\ h.sendTable = e.sendTable /\ h.recvTable = e.recvTable /\ h.ctxs = e.ctxs /\ h.pending = e.pending /\ h.held = e.held
    BY <2>4, <2>5 DEF CliRec
  <2>7. Granted(e, f, 0) = 0 /\ Granted(e, f, f.id) = f.n
    BY <1>6 DEF Granted
  <2>8. ASSUME NEW id \in DOMAIN e.streams
        PROVE  /\ Alike(e.streams[id], m[id])
               /\ m[id].send = e.streams[id].send + IF id = f.id THEN f.n ELSE 0
    <3>1. CASE id = f.id
      BY <2>3, <2>5, <3>1
    <3>2. CASE id # f.id
      BY <1>3, <2>5, <3>2
    <3> QED  BY <3>1, <3>2
  <2>9. OnlySend(e, h, 0, f.id, f.n)
    BY <1>1, <2>5, <2>6, <2>8 DEF OnlySend
  <2>10. OnlySend(e, h, Granted(e, f, 0), f.id, IF f.id = 0 THEN 0 ELSE Granted(e, f, f.id))
    BY <1>6, <2>7, <2>9
  <2> QED  BY <1>4, <2>6, <2>10, Zenon DEF h
<1>7. CASE windowError(e, f) = {} /\ f.id = 0
  <2>1. h = [e EXCEPT !.send = @ + f.n]
    BY <1>7 DEF handleWindowUpdate
  <2> HIDE DEF h
  <2>2. /\ h \in CliRec /\ h.streams = e.streams /\ h.sn = e.sn /\ h.recv = e.recv
        /\ h.send = e.send + f.n
        /\ h.sendTable = e.sendTable /\ h.recvTable = e.recvTable /\ h.ctxs = e.ctxs /\ h.pending = e.pending /\ h.held = e.held
    BY <1>1, <2>1 DEF CliRec
  <2>3. Granted(e, f, 0) = f.n
    BY <1>7 DEF Granted
  <2>4. OnlySend(e, h, f.n, f.id, 0)
    BY <1>3, <2>2 DEF OnlySend
  <2>5. OnlySend(e, h, Granted(e, f, 0), f.id, IF f.id = 0 THEN 0 ELSE Granted(e, f, f.id))
    BY <1>7, <2>3, <2>4
  <2> QED  BY <1>4, <2>2, <2>5, Zenon DEF h
<1> QED  BY <1>5, <1>6, <1>7, Zenon

LEMMA ChargeCli ==
    ASSUME NEW e \in CliRec, NEW id, NEW of, NEW vain \in BOOLEAN
    PROVE  /\ Charge(e, id, of, vain) \in CliRec
           /\ Charge(e, id, of, vain).ctxs = e.ctxs
           /\ Charge(e, id, of, vain).pending = e.pending
           /\ Charge(e, id, of, vain).held = e.held
           /\ OnlySend(e, Charge(e, id, of, vain), IF vain THEN 0 ELSE -1, id,
                       IF Exists(e, id) /\ e.streams[id].of = of THEN -1 ELSE 0)
<1> DEFINE h == Charge(e, id, of, vain)
           hit == Exists(e, id) /\ e.streams[id].of = of
           n == IF vain THEN 0 ELSE -1
<1>1. e.streams \in Map(StreamRec) /\ e.send \in Int /\ n \in Int
  BY DEF CliRec
<1>2. DOMAIN e.streams \subseteq Int /\ e.streams \in [DOMAIN e.streams -> StreamRec]
  BY <1>1, MapFacts
<1>3. \A k \in DOMAIN e.streams : Alike(e.streams[k], e.streams[k])
        /\ e.streams[k].send + 0 = e.streams[k].send
  BY <1>2, AlikeSame
<1>4. CASE hit
  <2>1. id \in DOMAIN e.streams
    BY <1>4 DEF Exists
  <2> DEFINE s2 == [e.streams[id] EXCEPT !.send = @ + (-1)]
             m == [e.streams EXCEPT ![id] = s2]
  <2>2. e.streams[id] \in StreamRec
    BY <1>2, <2>1
  <2>3. s2 \in StreamRec /\ Alike(e.streams[id], s2) /\ s2.send = e.streams[id].send + (-1)
    <3>1. -1 \in Int
      OBVIOUS
    <3> QED  BY <2>2, <3>1, SendStream, Zenon
  <2> DEFINE o == ChargeObject(e, id, of)
  <2>4. o = [e EXCEPT !.streams = m] /\ h = [o EXCEPT !.send = e.send + n]
    <3>1. e.streams[id].send - 1 = e.streams[id].send + (-1)
      BY <2>2 DEF StreamRec
    <3>2. o = [e EXCEPT !.streams[id].send = @ - 1]
      BY <1>4 DEF ChargeObject
    <3>3. o = [e EXCEPT !.streams = m]
      BY <3>1, <3>2
    <3>4. o.send = e.send
      BY <3>3 DEF CliRec
    <3>5. h = [o EXCEPT !.send = IF vain THEN @ ELSE @ - 1]
      BY DEF Charge
    <3>6. (IF vain THEN e.send ELSE e.send - 1) = e.send + n
      BY <1>1
    <3> HIDE DEF h, o, m, n
    <3> QED  BY <3>3, <3>4, <3>5, <3>6
  <2> HIDE DEF s2
  <2>5. /\ m \in Map(StreamRec) /\ DOMAIN m = DOMAIN e.streams /\ m[id] = s2
        /\ \A k \in DOMAIN e.streams : k # id => m[k] = e.streams[k]
    BY <1>1, <2>1, <2>3, PutFacts
  <2> HIDE DEF m, h, o, hit, n
  <2>9. /\ o \in CliRec /\ o.streams = m /\ o.sn = e.sn /\ o.recv = e.recv /\ o.send = e.send
        /\ o.sendTable = e.sendTable /\ o.recvTable = e.recvTable /\ o.ctxs = e.ctxs /\ o.pending = e.pending /\ o.held = e.held
    BY <1>1, <2>4, <2>5 DEF CliRec
  <2>6. /\ h \in CliRec /\ h.streams = m /\ h.sn = e.sn /\ h.recv = e.recv /\ h.send = e.send + n
        /\ h.sendTable = e.sendTable /\ h.recvTable = e.recvTable /\ h.ctxs = e.ctxs /\ h.pending = e.pending /\ h.held = e.held
    <3>1. h = [o EXCEPT !.send = e.send + n]
      BY <2>4
    <3>2. o \in CliRec /\ o.send \in Int
      BY <1>1, <2>9
    <3>3. /\ h \in CliRec /\ h.streams = o.streams /\ h.sn = o.sn /\ h.recv = o.recv
          /\ h.send = e.send + n
          /\ h.sendTable = o.sendTable /\ h.recvTable = o.recvTable /\ h.ctxs = o.ctxs /\ h.pending = o.pending /\ h.held = o.held
      BY <1>1, <3>1, <3>2 DEF CliRec
    <3> QED  BY <2>9, <3>3
  <2>7. ASSUME NEW k \in DOMAIN e.streams
        PROVE  /\ Alike(e.streams[k], m[k])
               /\ m[k].send = e.streams[k].send + IF k = id THEN -1 ELSE 0
    <3>1. CASE k = id
      BY <2>3, <2>5, <3>1
    <3>2. CASE k # id
      BY <1>3, <2>5, <3>2
    <3> QED  BY <3>1, <3>2
  <2>8. OnlySend(e, h, n, id, -1)
    BY <1>1, <2>5, <2>6, <2>7 DEF OnlySend
  <2> QED  BY <1>4, <2>6, <2>8 DEF h, hit, n
<1>5. CASE ~hit
  <2>1. h = [e EXCEPT !.send = e.send + n]
    BY <1>1, <1>5 DEF Charge, ChargeObject
  <2> HIDE DEF h, hit, n
  <2>2. /\ h \in CliRec /\ h.streams = e.streams /\ h.sn = e.sn /\ h.recv = e.recv
        /\ h.send = e.send + n
        /\ h.sendTable = e.sendTable /\ h.recvTable = e.recvTable /\ h.ctxs = e.ctxs /\ h.pending = e.pending /\ h.held = e.held
    BY <1>1, <2>1 DEF CliRec
  <2>3. OnlySend(e, h, n, id, 0)
    BY <1>1, <1>3, <2>2 DEF OnlySend
  <2> QED  BY <1>5, <2>2, <2>3 DEF h, hit, n
<1> QED  BY <1>4, <1>5

-----------------------------------------------------------------------------
(***************************************************************************)
(* What each action does, field by field.                                  *)
(***************************************************************************)

LEMMA StreamType ==
    ASSUME NEW p \in Nat, NEW o \in Nat, NEW f \in Fibers \union {None}
    PROVE  Stream(p, o, f) \in StreamRec
  BY DEF Stream, StreamRec

LEMMA Windows ==
    /\ MAX_WINDOW \in Nat /\ CLIENT_WINDOW \in Nat /\ DEFAULT_WINDOW \in Nat /\ MaxConnects \in Nat
    /\ DEFAULT_WINDOW < MAX_WINDOW \div 4 /\ CLIENT_WINDOW <= MAX_WINDOW \div 4
  BY Http2Assumption

LEMMA NewStreamFacts ==
    ASSUME TypeOK, NEW f \in Fibers, NEW header \in Headers, NEW body \in {0, 1},
           NewStream(f, header, body)
    PROVE  NewStreamDoes(f, header, body)
<1> DEFINE id == cli.sn + 2
           s == Stream(CLIENT_WINDOW, DEFAULT_WINDOW, f)
           c == [cli EXCEPT !.sn = @ + 2]
           m == With(cli.streams, id, s)
<1>1. cli \in CliRec /\ req \in [Fibers -> ReqRec] /\ header \in Pair
  BY HeaderType, Zenon DEF TypeOK
<1>2. cli.sn \in Int /\ cli.streams \in Map(StreamRec) /\ id \in Int
  BY <1>1 DEF CliRec
<1>3. s \in StreamRec
  BY Windows, StreamType
<1>4. cli' = [c EXCEPT !.streams = m]
  <2>1. c.streams = cli.streams
    BY <1>1 DEF CliRec
  <2>2. cli' = [c EXCEPT !.streams = With(c.streams, id, s)]
    BY DEF NewStream, AddStream
  <2> HIDE DEF c, s, id
  <2> QED  BY <2>1, <2>2
<1> HIDE DEF s
<1>5. /\ m \in Map(StreamRec) /\ DOMAIN m = DOMAIN cli.streams \union {id} /\ m[id] = s
      /\ \A k \in DOMAIN cli.streams : k # id => m[k] = cli.streams[k]
  <2>1. PICK cs \in Map(StreamRec), n \in Int : cs = cli.streams /\ n = id
    BY <1>2
  <2>2. WithDoes(StreamRec, cs, n, s)
    BY <1>3, WithFacts
  <2> QED  BY <2>1, <2>2 DEF WithDoes
<1> HIDE DEF m
<1>6. /\ c \in CliRec /\ c.sn = id /\ c.ctxs = cli.ctxs /\ c.pending = cli.pending
      /\ c.held = cli.held /\ c.send = cli.send /\ c.recv = cli.recv
      /\ c.sendTable = cli.sendTable /\ c.recvTable = cli.recvTable
  BY <1>1, <1>2 DEF CliRec
<1> HIDE DEF c
<1>7. /\ cli' \in CliRec /\ cli'.sn = c.sn /\ cli'.ctxs = c.ctxs /\ cli'.pending = c.pending
      /\ cli'.held = c.held /\ cli'.send = c.send /\ cli'.recv = c.recv
      /\ cli'.sendTable = c.sendTable /\ cli'.recvTable = c.recvTable /\ cli'.streams = m
  BY <1>4, <1>5, <1>6 DEF CliRec
<1>8. PICK r : r = [req[f] EXCEPT !.pc = "numbered", !.sn = id, !.header = header, !.body = body]
  OBVIOUS
<1>9. req' = [req EXCEPT ![f] = r]
  BY <1>1, <1>8, Zenon DEF NewStream
<1>10. /\ r \in ReqRec /\ r.pc = "numbered" /\ r.sn = id /\ r.header = header /\ r.body = body
       /\ r.timer = req[f].timer /\ r.result = req[f].result /\ r.got = req[f].got
  <2>1. PICK q \in ReqRec, n \in Int : q = req[f] /\ n = id
    BY <1>1, <1>2
  <2>2. r = [q EXCEPT !.pc = "numbered", !.sn = n, !.header = header, !.body = body]
    BY <1>8, <2>1
  <2>3. /\ r \in ReqRec /\ r.pc = "numbered" /\ r.sn = n /\ r.header = header /\ r.body = body
        /\ r.timer = q.timer /\ r.result = q.result /\ r.got = q.got
    BY <1>1, <2>2, Zenon DEF ReqRec
  <2> QED  BY <2>1, <2>3
<1>11. req' \in [Fibers -> ReqRec] /\ req'[f] = r /\ OthersKept(f)
  BY <1>1, <1>9, <1>10 DEF OthersKept
<1> HIDE DEF id
<1> QED
  BY <1>2, <1>5, <1>6, <1>7, <1>10, <1>11 DEF NewStreamDoes, CliTables, CliWindows, s, id

LEMMA RequestFacts ==
    ASSUME TypeOK, NEW f \in Fibers, Request(f)
    PROVE  RequestDoes(f)
<1> DEFINE id == req[f].sn
           m == IF id \in DOMAIN cli.ctxs THEN cli.ctxs ELSE With(cli.ctxs, id, f)
<1>1. cli \in CliRec /\ req \in [Fibers -> ReqRec]
  BY Zenon DEF TypeOK
<1>2. cli.ctxs \in Map(Fibers) /\ id \in Int
  BY <1>1 DEF CliRec, ReqRec
<1>3. cli' = [cli EXCEPT !.ctxs = m]
  BY DEF Request
<1>4. /\ m \in Map(Fibers) /\ DOMAIN m = DOMAIN cli.ctxs \union {id}
      /\ id \notin DOMAIN cli.ctxs => m[id] = f
      /\ \A k \in DOMAIN cli.ctxs : m[k] = cli.ctxs[k]
  <2>1. PICK cs \in Map(Fibers), n \in Int : cs = cli.ctxs /\ n = id
    BY <1>2
  <2>2. WithDoes(Fibers, cs, n, f)
    BY WithFacts
  <2> QED  BY <2>1, <2>2 DEF WithDoes
<1> HIDE DEF m
<1>5. /\ cli' \in CliRec /\ cli'.sn = cli.sn /\ cli'.ctxs = m /\ cli'.pending = cli.pending
      /\ cli'.held = cli.held /\ cli'.send = cli.send /\ cli'.recv = cli.recv
      /\ cli'.sendTable = cli.sendTable /\ cli'.recvTable = cli.recvTable
      /\ cli'.streams = cli.streams
  BY <1>1, <1>3, <1>4 DEF CliRec
<1>6. PICK r : r = [req[f] EXCEPT !.pc = "waiting", !.timer = "armed"]
  OBVIOUS
<1>7. req' = [req EXCEPT ![f] = r]
  BY <1>1, <1>6, Zenon DEF Request
<1>8. /\ r \in ReqRec /\ r.pc = "waiting" /\ r.timer = "armed" /\ r.sn = req[f].sn
      /\ r.header = req[f].header /\ r.body = req[f].body /\ r.result = req[f].result
      /\ r.got = req[f].got
  BY <1>1, <1>6, Zenon DEF ReqRec
<1>9. req' \in [Fibers -> ReqRec] /\ req'[f] = r /\ OthersKept(f)
  BY <1>1, <1>7, <1>8 DEF OthersKept
<1>10. \E a \in AskRec : a.t = "request" /\ a.f = f /\ queue' = Append(queue, a)
  BY DEF Request, AskRec
<1> QED  BY <1>4, <1>5, <1>8, <1>9, <1>10 DEF RequestDoes, CliTables, CliWindows

LEMMA HeadTail ==
    ASSUME NEW S, NEW q \in Seq(S), q # <<>>
    PROVE  /\ Head(q) \in S /\ Tail(q) \in Seq(S)
           /\ Len(q) \in Nat /\ Len(q) > 0 /\ DOMAIN q = 1 .. Len(q) /\ 1 \in DOMAIN q
           /\ q[1] = Head(q)
           /\ Len(Tail(q)) = Len(q) - 1 /\ DOMAIN Tail(q) = 1 .. Len(q) - 1
           /\ \A i \in 1 .. Len(q) - 1 : Tail(q)[i] = q[i + 1]
<1>1. Len(q) \in Nat /\ DOMAIN q = 1 .. Len(q) /\ \A i \in 1 .. Len(q) : q[i] \in S
  OBVIOUS
<1>2. Len(q) # 0
  BY EmptySeq
<1>3. Tail(q) \in Seq(S) /\ Len(Tail(q)) = Len(q) - 1 /\ \A i \in 1 .. Len(q) - 1 : Tail(q)[i] = q[i + 1]
  BY <1>1, <1>2
<1>4. DOMAIN Tail(q) = 1 .. Len(q) - 1
  BY <1>3
<1>5. q[1] = Head(q)
  BY <1>1, <1>2
<1> QED  BY <1>1, <1>2, <1>3, <1>4, <1>5

LEMMA QueueHead ==
    ASSUME TypeOK, queue # <<>>
    PROVE  /\ Head(queue) \in FrameRec \union AskRec
           /\ Head(queue).t = "request" => Head(queue) \in AskRec /\ Head(queue).f \in Fibers
           /\ Head(queue).t # "request" => Head(queue) \in FrameRec
           /\ Tail(queue) \in Seq(FrameRec \union AskRec)
<1>1. Head(queue) \in FrameRec \union AskRec /\ Tail(queue) \in Seq(FrameRec \union AskRec)
  <2>1. PICK q \in Seq(FrameRec \union AskRec) : q = queue
    BY Zenon DEF TypeOK
  <2>2. Head(q) \in FrameRec \union AskRec /\ Tail(q) \in Seq(FrameRec \union AskRec)
    BY <2>1, HeadTail
  <2> QED  BY <2>1, <2>2
<1>2. \A x \in FrameRec : x.t # "request"
  BY DEF FrameRec
<1>3. \A x \in AskRec : x.t = "request" /\ x.f \in Fibers
  BY DEF AskRec
<1> QED  BY <1>1, <1>2, <1>3

LEMMA MessageType ==
    ASSUME NEW q \in Seq(FrameRec), NEW r, NEW id, NEW block, NEW none, IsMessage(r, id, block, none)
    PROVE  r \in Seq(FrameRec) /\ q \o r \in Seq(FrameRec)
<1>1. PICK h \in FrameRec, d \in FrameRec : r = <<h>> \o (IF none THEN <<>> ELSE <<d>>)
  BY Zenon DEF IsMessage, IsFrame
<1>2. <<h>> \in Seq(FrameRec) /\ <<d>> \in Seq(FrameRec) /\ <<>> \in Seq(FrameRec)
  OBVIOUS
<1>3. PICK x \in Seq(FrameRec), y \in Seq(FrameRec) : x = <<h>> /\ y = IF none THEN <<>> ELSE <<d>>
  BY <1>2, Zenon
<1>4. x \o y \in Seq(FrameRec)
  OBVIOUS
<1>5. r \in Seq(FrameRec)
  BY <1>1, <1>3, <1>4, Zenon
<1> QED  BY <1>5

LEMMA MessageFacts ==
    ASSUME NEW q \in Seq(FrameRec), NEW id \in Int, NEW block \in Seq(Field), NEW none \in BOOLEAN
    PROVE  \E r : /\ IsMessage(r, id, block, none)
                  /\ q \o <<HEADERS(id, block, none)>> \o (IF none THEN <<>> ELSE <<DATA(id)>>) = q \o r
<1> DEFINE h == HEADERS(id, block, none)
           d == DATA(id)
           y == IF none THEN <<>> ELSE <<d>>
<1>1. IsFrame(h, "HEADERS", id, block, 0, none) /\ IsFrame(d, "DATA", id, <<>>, 1, TRUE)
  BY FrameFacts, Zenon
<1>2. h \in FrameRec /\ d \in FrameRec
  BY <1>1 DEF IsFrame
<1> HIDE DEF h, d
<1>3. <<h>> \in Seq(FrameRec) /\ y \in Seq(FrameRec)
  BY <1>2
<1>4. IsMessage(<<h>> \o y, id, block, none)
  BY <1>1, Zenon DEF IsMessage
<1> HIDE DEF y
<1>5. q \o <<h>> \o y = q \o (<<h>> \o y)
  BY <1>3, ConcatAssociative
<1> QED  BY <1>4, <1>5, Zenon DEF h, d, y

LEMMA SentType ==
    ASSUME TypeOK, NEW f \in Fibers, req[f].header \in Headers
    PROVE  Sent(f) \in Seq(Pair) /\ Len(Sent(f)) = 2 /\ Sent(f)[1] = req[f].header
<1>1. req[f].sn \in Int
  BY Zenon DEF TypeOK, ReqRec
<1>2. req[f].header \in Pair
  BY HeaderType
<1>3. PICK n \in Int : n = req[f].sn
  BY <1>1
<1>4. "stream_id" \in Text
  BY Zenon DEF Text
<1>5. ToString(n) \in Text
  BY Zenon DEF Text
<1>6. <<"stream_id", ToString(n)>> \in Pair
  BY <1>4, <1>5 DEF Pair
<1>7. PICK a \in Pair, b \in Pair : a = req[f].header /\ b = <<"stream_id", ToString(n)>>
  BY <1>2, <1>6
<1>8. Sent(f) = <<a, b>>
  BY <1>3, <1>7 DEF Sent
<1> QED  BY <1>7, <1>8

LEMMA CliWriteFacts ==
    ASSUME TypeOK, CliWrite, \A i \in DOMAIN queue : queue[i].t = "request" => req[queue[i].f].header \in Headers
    PROVE  CliWriteDoes
<1>1. cli \in CliRec /\ req \in [Fibers -> ReqRec] /\ toSrv \in Seq(FrameRec) /\ queue # <<>>
  BY Zenon DEF TypeOK, CliWrite
<1>2. CASE Head(queue).t # "request"
  BY <1>1, <1>2, QueueHead DEF CliWrite, CliWriteDoes
<1>3. CASE Head(queue).t = "request"
  <2>1. PICK f \in Fibers : f = Head(queue).f
    BY <1>1, <1>3, QueueHead
  <2>2. req[f].header \in Headers
    <3>1. 1 \in DOMAIN queue /\ queue[1] = Head(queue)
      <4>1. PICK q \in Seq(FrameRec \union AskRec) : q = queue
        BY Zenon DEF TypeOK
      <4>2. 1 \in DOMAIN q /\ q[1] = Head(q)
        BY <1>1, <4>1, HeadTail
      <4> QED  BY <4>1, <4>2
    <3> QED  BY <1>3, <2>1, <3>1
  <2>3. CASE ~Exists(cli, req[f].sn)
    BY <1>3, <2>1, <2>3 DEF CliWrite, CliWriteDoes, Exists
  <2>4. CASE Exists(cli, req[f].sn)
    <3>1. PICK T \in Table, hs \in Seq(Pair) : T = cli.sendTable /\ hs = Sent(f) /\ Len(hs) = 2
      BY <1>1, <2>2, SentType DEF CliRec
    <3>2. PICK b \in Seq(Field), U \in Table :
              b = pack(T, hs).block /\ U = pack(T, hs).table /\ Len(b) = 2
      BY <3>1, RoundTrip, Zenon
    <3>3. PICK id \in Int, none \in BOOLEAN, n \in {0, 1} :
             id = req[f].sn /\ none = (req[f].body = 0) /\ n = req[f].body /\ none = (n = 0)
      BY <1>1, Zenon DEF ReqRec
    <3>4. /\ toSrv' = toSrv \o <<HEADERS(id, b, n = 0)>> \o (IF n = 0 THEN <<>> ELSE <<DATA(id)>>)
          /\ cli' = [cli EXCEPT !.sendTable = U, !.pending = IF n = 0 THEN None ELSE f]
      BY <1>3, <2>1, <2>4, <3>1, <3>2, <3>3 DEF CliWrite
    <3>5. PICK q \in Seq(FrameRec) : q = toSrv
      BY <1>1
    <3>6. \E r : IsMessage(r, id, b, none) /\ toSrv' = q \o r
      <4>1. PICK r : /\ IsMessage(r, id, b, none)
                     /\ q \o <<HEADERS(id, b, none)>> \o (IF none THEN <<>> ELSE <<DATA(id)>>) = q \o r
        BY MessageFacts, Zenon
      <4>2. none = (n = 0)
        BY <3>3
      <4> QED  BY <3>4, <3>5, <4>1, <4>2, Zenon
    <3>7. PICK pd \in Fibers \union {None} : pd = IF n = 0 THEN None ELSE f
      OBVIOUS
    <3>8. /\ cli' \in CliRec /\ cli'.sn = cli.sn /\ cli'.streams = cli.streams /\ cli'.ctxs = cli.ctxs
          /\ cli'.recvTable = cli.recvTable /\ CliWindows /\ cli'.held = cli.held
          /\ cli'.sendTable = U /\ cli'.pending = pd
      <4>1. cli' = [cli EXCEPT !.sendTable = U, !.pending = pd]
        BY <3>4, <3>7
      <4> QED  BY <1>1, <4>1, Zenon DEF CliRec, CliWindows
    <3>9. b # <<>>
      <4>1. Len(<<>>) = 0 /\ 2 # 0
        OBVIOUS
      <4> QED  BY <3>2, <4>1, Zenon
    <3>10. pack(cli.sendTable, Sent(f)) = pack(T, hs)
      BY <3>1
    <3>11. WroteRequest(f)
      BY <2>4, <3>1, <3>2, <3>3, <3>5, <3>6, <3>7, <3>8, <3>9, <3>10, Zenon DEF WroteRequest, Exists
    <3> QED  BY <1>3, <2>1, <3>11 DEF CliWriteDoes
  <2> QED  BY <2>3, <2>4
<1> QED  BY <1>2, <1>3

LEMMA Truth == ASSUME NEW x, NEW S PROVE \E v \in BOOLEAN : v <=> x \in S
<1>1. CASE x \in S
  <2> WITNESS TRUE \in BOOLEAN
  <2> QED  BY <1>1
<1>2. CASE x \notin S
  <2> WITNESS FALSE \in BOOLEAN
  <2> QED  BY <1>2
<1> QED  BY <1>1, <1>2

LEMMA CliChargeFacts ==
    ASSUME TypeOK, CliCharge
    PROVE  CliChargeDoes
<1>1. PICK e \in CliRec, p \in Fibers : e = cli /\ p = cli.pending
  BY Zenon DEF TypeOK, CliRec, CliCharge
<1>2. PICK id : id = req[p].sn
  OBVIOUS
<1>8. PICK v \in BOOLEAN : v <=> "cli" \in adding
  BY Truth
<1> DEFINE d == IF Exists(e, id) /\ e.streams[id].of = p THEN -1 ELSE 0
           c == Charge(e, id, p, v)
           n == IF v THEN 0 ELSE -1
<1>3. c \in CliRec /\ c.ctxs = e.ctxs /\ c.held = e.held /\ OnlySend(e, c, n, id, d)
  BY ChargeCli
<1>4. cli' = [c EXCEPT !.pending = None]
  BY <1>1, <1>2, <1>8 DEF CliCharge
<1> HIDE DEF c
<1>5. /\ cli' \in CliRec /\ cli'.pending = None /\ cli'.ctxs = c.ctxs /\ cli'.held = c.held
      /\ cli'.sn = c.sn /\ cli'.streams = c.streams /\ cli'.send = c.send /\ cli'.recv = c.recv
      /\ cli'.sendTable = c.sendTable /\ cli'.recvTable = c.recvTable
  BY <1>3, <1>4 DEF CliRec
<1> HIDE DEF d
<1>6. OnlySend(e, cli', n, id, d)
  BY <1>3, <1>5 DEF OnlySend
<1>7. d = IF id \in DOMAIN cli.streams /\ cli.streams[id].of = p THEN -1 ELSE 0
  BY <1>1 DEF d, Exists
<1> QED  BY <1>1, <1>2, <1>3, <1>5, <1>6, <1>7, <1>8 DEF CliChargeDoes

LEMMA CliReadFacts ==
    ASSUME TypeOK, CliRead
    PROVE  Head(toCli) \in FrameRec /\ CliReadDoes(Head(toCli))
<1>1. PICK e \in CliRec, f \in FrameRec : e = cli /\ f = Head(toCli)
  <2>1. PICK q \in Seq(FrameRec) : q = toCli /\ q # <<>>
    BY Zenon DEF TypeOK, CliRead
  <2>2. Head(q) \in FrameRec
    BY <2>1, HeadTail
  <2> QED  BY <2>1, <2>2, Zenon DEF TypeOK
<1>2. CASE f.t = "WINDOW_UPDATE"
  <2> DEFINE h == handleWindowUpdate(e, f)
  <2>1. /\ h \in CliRec /\ h.ctxs = e.ctxs /\ h.pending = e.pending /\ h.held = e.held
        /\ OnlySend(e, h, Granted(e, f, 0), f.id, IF f.id = 0 THEN 0 ELSE Granted(e, f, f.id))
        /\ windowError(e, f) \in SUBSET {"no stream", "overflow"}
    BY WindowCli, Zenon
  <2>2. /\ cli' = h /\ goaways' = goaways \union windowError(e, f) /\ toCli' = Tail(toCli)
        /\ skipped' = skipped
    BY <1>1, <1>2 DEF CliRead
  <2>3. goaways' \in SUBSET {"no stream", "overflow"}
    BY <2>1, <2>2, Zenon DEF TypeOK
  <2> HIDE DEF h
  <2> QED  BY <1>1, <1>2, <2>1, <2>2, <2>3, Zenon DEF CliReadDoes
<1>3. CASE f.t # "WINDOW_UPDATE" /\ f.id \notin DOMAIN cli.streams
  <2>1. /\ skipped' = (skipped \/ f.t # "RST_STREAM")
        /\ toCli' = Tail(toCli) /\ cli' = cli /\ goaways' = goaways
    BY <1>1, <1>3, Zenon DEF CliRead, Exists
  <2> QED  BY <1>1, <1>3, <2>1, Zenon DEF CliReadDoes
<1>4. CASE f.t # "WINDOW_UPDATE" /\ f.id \in DOMAIN cli.streams
  <2>1. cli' = [e EXCEPT !.held = "in"] /\ toCli' = toCli /\ skipped' = skipped /\ goaways' = goaways
    BY <1>1, <1>4 DEF CliRead, Exists
  <2>2. /\ cli' \in CliRec /\ cli'.sn = cli.sn /\ cli'.streams = cli.streams /\ cli'.ctxs = cli.ctxs
        /\ cli'.pending = cli.pending /\ cli'.held = "in" /\ CliTables /\ CliWindows
    BY <1>1, <2>1 DEF CliRec, CliTables, CliWindows
  <2> QED  BY <1>1, <1>4, <2>1, <2>2, Zenon DEF CliReadDoes
<1> QED  BY <1>1, <1>2, <1>3, <1>4

LEMMA DoRspFacts ==
    ASSUME TypeOK, NEW f \in Fibers, NEW result \in {"ok", "rst_stream", "timeout", "io_error"},
           NEW got \in Pair \union {None}
    PROVE  /\ DoRsp(f, result, got) \in [Fibers -> ReqRec]
           /\ Answered(DoRsp(f, result, got)[f], req[f], result, got)
           /\ DoRsp(f, result, got)[f].timer = IF req[f].timer = "armed" THEN "off" ELSE req[f].timer
           /\ \A g \in Fibers : g # f => DoRsp(f, result, got)[g] = req[g]
<1>1. PICK rs \in [Fibers -> ReqRec] : rs = req
  BY Zenon DEF TypeOK
<1>2. PICK r \in ReqRec : r = rs[f]
  OBVIOUS
<1> DEFINE q == [r EXCEPT !.pc = "done", !.result = result, !.got = got,
                          !.timer = IF @ = "armed" THEN "off" ELSE @]
           t == IF r.timer = "armed" THEN "off" ELSE r.timer
<1>3. DoRsp(f, result, got) = [rs EXCEPT ![f] = q]
  BY <1>1, <1>2, Zenon DEF DoRsp
<1>4. q = [r EXCEPT !.pc = "done", !.result = result, !.got = got, !.timer = t] /\ t \in {"off", "armed", "due"}
  BY DEF ReqRec
<1> HIDE DEF t, q
<1>5. q \in ReqRec /\ Answered(q, r, result, got) /\ q.timer = t
  BY <1>4, Zenon DEF ReqRec, Answered
<1> QED  BY <1>1, <1>2, <1>3, <1>5 DEF t

LEMMA CliHandleFacts ==
    ASSUME TypeOK, HeldOk, CliHandle
    PROVE  /\ toCli # <<>> /\ Head(toCli) \in FrameRec /\ Head(toCli).t # "WINDOW_UPDATE"
           /\ Head(toCli).id \in DOMAIN cli.streams
           /\ CliHandleDoes(Head(toCli), cli.streams[Head(toCli).id],
                            Fed(cli.streams[Head(toCli).id], Head(toCli), cli.recvTable))
<1>1. PICK e \in CliRec : e = cli /\ e.held = "in"
  BY Zenon DEF TypeOK, CliHandle
<1>2. toCli # <<>> /\ Head(toCli).t # "WINDOW_UPDATE" /\ Head(toCli).id \in DOMAIN cli.streams
  BY <1>1, Http2Assumption DEF HeldOk
<1>3. PICK f \in FrameRec : f = Head(toCli)
  <2>1. PICK q \in Seq(FrameRec) : q = toCli /\ q # <<>>
    BY <1>2, Zenon DEF TypeOK
  <2>2. Head(q) \in FrameRec
    BY <2>1, HeadTail
  <2> QED  BY <2>1, <2>2
<1>4. e.streams \in Map(StreamRec) /\ e.ctxs \in Map(Fibers) /\ e.recvTable \in Table /\ f.id \in DOMAIN e.streams
  BY <1>1, <1>2, <1>3 DEF CliRec
<1>5. PICK s \in StreamRec : s = e.streams[f.id]
  BY <1>4, MapFacts
<1>6. PICK s2 \in StreamRec : s2 = Fed(s, f, e.recvTable)
  BY <1>4, <1>5, FedType
<1> DEFINE a == After(e, f)
           end == [a EXCEPT !.held = None]
<1>7. /\ a \in CliRec /\ a.ctxs = e.ctxs /\ a.pending = e.pending
      /\ DOMAIN a.streams = DOMAIN e.streams /\ a.streams[f.id] = s2
      /\ \A id \in DOMAIN e.streams : id # f.id => a.streams[id] = e.streams[id]
      /\ a.sn = e.sn /\ a.send = e.send /\ a.sendTable = e.sendTable
      /\ a.recv = IF f.t = "DATA" THEN e.recv - f.n + Refill(e.recv - f.n) ELSE e.recv
      /\ a.recvTable = IF f.t = "HEADERS" THEN parse(e.recvTable, f.block).table ELSE e.recvTable
  <2>1. a \in CliRec /\ AfterFacts(e, f) /\ a.ctxs = e.ctxs /\ a.pending = e.pending
    BY <1>4, AfterCli
  <2> QED  BY <1>5, <1>6, <2>1 DEF AfterFacts
<1>8. /\ toCli' = Tail(toCli)
      /\ queue' = IF f.t = "DATA" THEN queue \o handleRecvData(e, f).out ELSE queue
      /\ crashed' = (f.end /\ s.null)
      /\ IF end.streams[f.id].state = "CLOSED" THEN CliClose(end, f.id) ELSE cli' = end /\ req' = req
  BY <1>1, <1>3, <1>5 DEF CliHandle, After
<1>9. handleRecvData(e, f).out = Updates(0, Refill(e.recv - f.n)) \o Updates(f.id, Refill(s.recv - f.n))
  BY <1>5 DEF handleRecvData
<1> HIDE DEF a
<1>10. /\ end \in CliRec /\ end.held = None /\ end.ctxs = a.ctxs /\ end.pending = a.pending
       /\ end.streams = a.streams /\ end.sn = a.sn /\ end.send = a.send /\ end.recv = a.recv
       /\ end.sendTable = a.sendTable /\ end.recvTable = a.recvTable
  BY <1>7 DEF CliRec
<1>11. PICK b \in CliRec : b = end
  BY <1>10
<1>12. /\ b.held = None /\ b.ctxs = e.ctxs /\ b.pending = e.pending
       /\ DOMAIN b.streams = DOMAIN e.streams /\ b.streams[f.id] = s2
       /\ \A id \in DOMAIN e.streams : id # f.id => b.streams[id] = e.streams[id]
       /\ b.sn = e.sn /\ b.send = e.send /\ b.sendTable = e.sendTable
       /\ b.recv = a.recv /\ b.recvTable = a.recvTable
  BY <1>7, <1>10, <1>11
<1> HIDE DEF end
<1>13. CASE s2.state # "CLOSED"
  <2>1. cli' = b /\ req' = req
    BY <1>8, <1>11, <1>12, <1>13
  <2> QED  BY <1>1, <1>2, <1>3, <1>4, <1>5, <1>6, <1>7, <1>8, <1>9, <1>12, <1>13, <2>1, Zenon DEF CliHandleDoes
<1>14. CASE s2.state = "CLOSED"
  <2>1. CliClose(b, f.id)
    BY <1>8, <1>11, <1>12, <1>14
  <2> DEFINE m == Less(b.streams, f.id)
             n == Less(b.ctxs, f.id)
  <2>2. cli' = [b EXCEPT !.streams = m, !.ctxs = n]
    <3>1. DelStream(b, f.id) = [b EXCEPT !.streams = m]
      BY DEF DelStream, Less
    <3>2. cli' = [DelStream(b, f.id) EXCEPT !.ctxs = Restrict(@, DOMAIN @ \ {f.id})]
      BY <2>1 DEF CliClose
    <3> DEFINE c == [b EXCEPT !.streams = m]
    <3>3. c.ctxs = b.ctxs
      BY DEF CliRec
    <3> HIDE DEF c
    <3>4. cli' = [c EXCEPT !.ctxs = n]
      BY <3>1, <3>2, <3>3 DEF Less, c
    <3> QED  BY <3>4 DEF c
  <2>3. LessDoes(StreamRec, b.streams, f.id) /\ LessDoes(Fibers, b.ctxs, f.id)
    <3>1. b.streams \in Map(StreamRec) /\ b.ctxs \in Map(Fibers)
      BY DEF CliRec
    <3> QED  BY <3>1, LessFacts
  <2>4. /\ m \in Map(StreamRec) /\ DOMAIN m = DOMAIN e.streams \ {f.id}
        /\ \A id \in DOMAIN e.streams : id # f.id => m[id] = e.streams[id]
        /\ n \in Map(Fibers) /\ DOMAIN n = DOMAIN e.ctxs \ {f.id}
        /\ \A id \in DOMAIN e.ctxs : id # f.id => n[id] = e.ctxs[id]
    BY <1>12, <2>3 DEF LessDoes
  <2> HIDE DEF m, n
  <2>5. /\ cli' \in CliRec /\ cli'.streams = m /\ cli'.ctxs = n /\ cli'.held = b.held
        /\ cli'.pending = b.pending /\ cli'.sn = b.sn /\ cli'.send = b.send /\ cli'.recv = b.recv
        /\ cli'.sendTable = b.sendTable /\ cli'.recvTable = b.recvTable
    BY <2>2, <2>4, Zenon DEF CliRec
  <2> DEFINE same == (f.id \notin DOMAIN cli.ctxs \/ req[cli.ctxs[f.id]].pc # "waiting") /\ req' = req
             told == \E g \in Fibers :
                 /\ f.id \in DOMAIN cli.ctxs /\ g = cli.ctxs[f.id] /\ req[g].pc = "waiting"
                 /\ req' \in [Fibers -> ReqRec] /\ OthersKept(g)
                 /\ req'[g].timer = IF req[g].timer = "armed" THEN "off" ELSE req[g].timer
                 /\ \/ ~s2.ended /\ Answered(req'[g], req[g], "rst_stream", None)
                    \/ /\ s2.ended
                       /\ Answered(req'[g], req[g], "ok", IF s2.headers = <<>> THEN None ELSE s2.headers[1])
  <2>6. same \/ told
    <3>1. CASE f.id \notin DOMAIN e.ctxs \/ req[e.ctxs[f.id]].pc # "waiting"
      <4>1. req' = req
        BY <1>12, <2>1, <3>1 DEF CliClose
      <4> QED  BY <1>1, <3>1, <4>1
    <3>2. CASE f.id \in DOMAIN e.ctxs /\ req[e.ctxs[f.id]].pc = "waiting"
      <4>1. PICK g \in Fibers : g = e.ctxs[f.id]
        BY <1>4, <3>2, MapFacts
      <4>2. PICK got \in Pair \union {None} : got = IF s2.headers = <<>> THEN None ELSE s2.headers[1]
        <5>1. PICK hs \in Seq(Pair) : hs = s2.headers
          BY DEF StreamRec
        <5>2. hs # <<>> => hs[1] \in Pair
          BY HeadTail
        <5> QED  BY <5>1, <5>2
      <4>3. req' = IF ~s2.ended THEN DoRsp(g, "rst_stream", None) ELSE DoRsp(g, "ok", got)
        BY <1>12, <2>1, <3>2, <4>1, <4>2 DEF CliClose
      <4>4. None \in Pair \union {None}
        OBVIOUS
      <4>5. CASE s2.ended
        <5>1. /\ req' \in [Fibers -> ReqRec] /\ OthersKept(g)
              /\ req'[g].timer = IF req[g].timer = "armed" THEN "off" ELSE req[g].timer
              /\ Answered(req'[g], req[g], "ok", got)
          BY <4>3, <4>5, DoRspFacts DEF OthersKept
        <5> QED  BY <1>1, <3>2, <4>1, <4>2, <4>5, <5>1
      <4>6. CASE ~s2.ended
        <5>1. /\ req' \in [Fibers -> ReqRec] /\ OthersKept(g)
              /\ req'[g].timer = IF req[g].timer = "armed" THEN "off" ELSE req[g].timer
              /\ Answered(req'[g], req[g], "rst_stream", None)
          BY <4>3, <4>4, <4>6, DoRspFacts DEF OthersKept
        <5> QED  BY <1>1, <3>2, <4>1, <4>6, <5>1
      <4> QED  BY <4>5, <4>6
    <3> QED  BY <3>1, <3>2
  <2> HIDE DEF same, told
  <2>7. CliHandleDoes(f, s, s2)
    BY <1>1, <1>7, <1>8, <1>9, <1>12, <1>14, <2>4, <2>5, <2>6 DEF CliHandleDoes, same, told
  <2> QED  BY <1>1, <1>2, <1>3, <1>5, <1>6, <2>7
<1> QED  BY <1>13, <1>14

LEMMA CliHandleDeletedFacts ==
    ASSUME TypeOK, HeldOk, CliHandleDeleted
    PROVE  /\ toCli # <<>> /\ Head(toCli) \in FrameRec /\ Head(toCli).t # "WINDOW_UPDATE"
           /\ CliHandleDeletedDoes(Head(toCli))
<1>1. PICK e \in CliRec : e = cli /\ e.held = "out"
  BY Zenon DEF TypeOK, CliHandleDeleted
<1>2. toCli # <<>> /\ Head(toCli).t # "WINDOW_UPDATE"
  BY <1>1, Http2Assumption DEF HeldOk
<1>3. PICK f \in FrameRec : f = Head(toCli)
  <2>1. PICK q \in Seq(FrameRec) : q = toCli /\ q # <<>>
    BY <1>2, Zenon DEF TypeOK
  <2>2. Head(q) \in FrameRec
    BY <2>1, HeadTail
  <2> QED  BY <2>1, <2>2
<1>4. PICK T \in Table : T = parse(e.recvTable, f.block).table
  <2>1. e.recvTable \in Table /\ f.block \in Seq(Field)
    BY DEF CliRec, FrameRec
  <2> QED  BY <2>1, ParseType
<1>5. cli' = [e EXCEPT !.held = None, !.recvTable = T] /\ toCli' = Tail(toCli) /\ crashed' = f.end
  BY <1>1, <1>3, <1>4 DEF CliHandleDeleted
<1>6. /\ cli' \in CliRec /\ cli'.sn = e.sn /\ cli'.streams = e.streams /\ cli'.ctxs = e.ctxs
      /\ cli'.pending = e.pending /\ cli'.held = None /\ cli'.send = e.send /\ cli'.recv = e.recv
      /\ cli'.sendTable = e.sendTable /\ cli'.recvTable = T
  BY <1>5, Zenon DEF CliRec
<1> QED  BY <1>1, <1>2, <1>3, <1>4, <1>5, <1>6 DEF CliHandleDeletedDoes, CliWindows

LEMMA DueFacts ==
    ASSUME TypeOK, NEW f \in Fibers, Due(f)
    PROVE  DueDoes(f)
<1>1. PICK rs \in [Fibers -> ReqRec] : rs = req
  BY Zenon DEF TypeOK
<1>2. PICK r \in ReqRec : r = rs[f]
  OBVIOUS
<1>3. PICK q : q = [r EXCEPT !.timer = "due"]
  OBVIOUS
<1>4. q \in ReqRec /\ Retimed(q, r, "due")
  BY <1>3 DEF ReqRec, Retimed
<1>5. req' = [rs EXCEPT ![f] = q]
  BY <1>1, <1>2, <1>3 DEF Due
<1> QED  BY <1>1, <1>2, <1>4, <1>5 DEF DueDoes, OthersKept

LEMMA OnTimeOutFacts ==
    ASSUME TypeOK, NEW f \in Fibers, OnTimeOut(f)
    PROVE  OnTimeOutDoes(f)
<1>1. PICK rs \in [Fibers -> ReqRec], e \in CliRec : rs = req /\ e = cli
  BY Zenon DEF TypeOK
<1>2. PICK r \in ReqRec, id \in Int : r = rs[f] /\ id = r.sn
  BY DEF ReqRec
<1> DEFINE m == Less(e.streams, id)
           n == Less(e.ctxs, id)
           hd == IF e.held = "in" /\ Head(toCli).id = id THEN "out" ELSE e.held
           c == [e EXCEPT !.streams = m]
<1>3. cli' = [c EXCEPT !.ctxs = n, !.held = hd]
  <2>1. DelStream(e, id) = c
    BY DEF DelStream, Less
  <2>2. cli' = [DelStream(e, id) EXCEPT !.ctxs = Restrict(@, DOMAIN @ \ {id}),
                   !.held = IF @ = "in" /\ Head(toCli).id = id THEN "out" ELSE @]
    BY <1>1, <1>2 DEF OnTimeOut
  <2>3. c.ctxs = e.ctxs /\ c.held = e.held
    BY DEF CliRec
  <2> HIDE DEF c
  <2> QED  BY <2>1, <2>2, <2>3 DEF Less
<1>4. LessDoes(StreamRec, e.streams, id) /\ LessDoes(Fibers, e.ctxs, id)
  <2>1. e.streams \in Map(StreamRec) /\ e.ctxs \in Map(Fibers)
    BY DEF CliRec
  <2> QED  BY <2>1, LessFacts
<1>5. /\ m \in Map(StreamRec) /\ DOMAIN m = DOMAIN e.streams \ {id}
      /\ \A k \in DOMAIN e.streams : k # id => m[k] = e.streams[k]
      /\ n \in Map(Fibers) /\ DOMAIN n = DOMAIN e.ctxs \ {id}
      /\ \A k \in DOMAIN e.ctxs : k # id => n[k] = e.ctxs[k]
  BY <1>4 DEF LessDoes
<1>6. hd \in {None, "in", "out"}
  BY DEF CliRec
<1> HIDE DEF m, n, hd
<1>7. /\ c \in CliRec /\ c.streams = m /\ c.sn = e.sn /\ c.pending = e.pending /\ c.send = e.send
      /\ c.recv = e.recv /\ c.sendTable = e.sendTable /\ c.recvTable = e.recvTable
  BY <1>5 DEF CliRec
<1> HIDE DEF c
<1>8. /\ cli' \in CliRec /\ cli'.streams = m /\ cli'.sn = c.sn /\ cli'.pending = c.pending
      /\ cli'.send = c.send /\ cli'.recv = c.recv /\ cli'.sendTable = c.sendTable
      /\ cli'.recvTable = c.recvTable /\ cli'.ctxs = n /\ cli'.held = hd
  BY <1>3, <1>5, <1>6, <1>7, Zenon DEF CliRec
<1>9. /\ req' \in [Fibers -> ReqRec] /\ OthersKept(f) /\ req'[f].timer = "off"
      /\ \/ req[f].pc = "waiting" /\ Answered(req'[f], req[f], "timeout", None)
         \/ req[f].pc # "waiting" /\ Retimed(req'[f], req[f], "off")
  <2>1. PICK ps \in [Fibers -> ReqRec] : ps = IF r.pc = "waiting" THEN DoRsp(f, "timeout", None) ELSE req
    <3>1. None \in Pair \union {None}
      OBVIOUS
    <3> QED  BY <1>1, <3>1, DoRspFacts
  <2>2. PICK p \in ReqRec : p = ps[f]
    OBVIOUS
  <2>3. PICK q : q = [p EXCEPT !.timer = "off"]
    OBVIOUS
  <2>4. q \in ReqRec /\ Retimed(q, p, "off")
    BY <2>3, Zenon DEF ReqRec, Retimed
  <2>5. req' = [ps EXCEPT ![f] = q]
    BY <1>1, <1>2, <2>1, <2>2, <2>3 DEF OnTimeOut
  <2>6. req' \in [Fibers -> ReqRec] /\ req'[f] = q /\ \A g \in Fibers : g # f => req'[g] = ps[g]
    BY <2>4, <2>5
  <2>7. CASE r.pc = "waiting"
    <3>1. None \in Pair \union {None}
      OBVIOUS
    <3>2. Answered(p, req[f], "timeout", None) /\ \A g \in Fibers : g # f => ps[g] = req[g]
      BY <2>1, <2>2, <2>7, <3>1, DoRspFacts
    <3>3. Answered(q, req[f], "timeout", None)
      BY <2>4, <3>2 DEF Answered, Retimed
    <3> QED  BY <1>1, <1>2, <2>4, <2>6, <2>7, <3>2, <3>3 DEF OthersKept, Retimed
  <2>8. CASE r.pc # "waiting"
    <3>1. ps = req /\ p = req[f]
      BY <2>1, <2>2, <2>8
    <3> QED  BY <1>1, <1>2, <2>4, <2>6, <2>8, <3>1 DEF OthersKept, Retimed
  <2> QED  BY <2>7, <2>8
<1> QED  BY <1>1, <1>2, <1>5, <1>7, <1>8, <1>9 DEF OnTimeOutDoes, CliTables, CliWindows, hd

LEMMA ReconnectFacts ==
    ASSUME TypeOK, Reconnect
    PROVE  ReconnectDoes
<1>1. PICK e \in CliRec, rs \in [Fibers -> ReqRec] : e = cli /\ rs = req
  BY Zenon DEF TypeOK
<1>2. e.streams \in [DOMAIN e.streams -> StreamRec] /\ DOMAIN e.streams \subseteq Int
  <2>1. e.streams \in Map(StreamRec)
    BY DEF CliRec
  <2> QED  BY <2>1, MapFacts
<1> DEFINE cl(s) == [s EXCEPT !.null = TRUE, !.recv = @ + CLIENT_WINDOW - DEFAULT_WINDOW]
           m == [id \in DOMAIN e.streams |-> cl(e.streams[id])]
<1>3. ASSUME NEW s \in StreamRec PROVE cl(s) \in StreamRec /\ Cleared(s, cl(s))
  <2>1. PICK n \in Int : n = s.recv + CLIENT_WINDOW - DEFAULT_WINDOW
    BY Windows DEF StreamRec
  <2>2. cl(s) = [s EXCEPT !.null = TRUE, !.recv = n]
    BY <2>1
  <2> HIDE DEF cl
  <2> QED  BY <2>1, <2>2, Zenon DEF StreamRec, Cleared
<1>4. cli' = [Client EXCEPT !.streams = m]
  BY <1>1, Zenon DEF Reconnect
<1> HIDE DEF cl
<1>5. m \in [DOMAIN e.streams -> StreamRec] /\ \A id \in DOMAIN e.streams : Cleared(e.streams[id], m[id])
  BY <1>2, <1>3
<1>6. DOMAIN m = DOMAIN e.streams
  OBVIOUS
<1> HIDE DEF m
<1>7. m \in Map(StreamRec)
  BY <1>2, <1>5, <1>6, MapFacts
<1>8. PICK c : c = Client
  OBVIOUS
<1>9. /\ c \in CliRec /\ c.sn = -1 /\ c.ctxs = <<>> /\ c.send = DEFAULT_WINDOW /\ c.recv = MAX_WINDOW
      /\ c.sendTable = <<>> /\ c.recvTable = <<>> /\ c.pending = None /\ c.held = None
  BY <1>8, EmptyMap, Windows DEF Client, CliRec, Table
<1>10. cli' = [c EXCEPT !.streams = m]
  BY <1>4, <1>8
<1>11. /\ cli' \in CliRec /\ cli'.sn = -1 /\ cli'.ctxs = <<>> /\ cli'.send = DEFAULT_WINDOW
       /\ cli'.recv = MAX_WINDOW /\ cli'.streams = m
       /\ cli'.sendTable = <<>> /\ cli'.recvTable = <<>> /\ cli'.pending = None /\ cli'.held = None
  BY <1>7, <1>9, <1>10 DEF CliRec
<1>12. Server \in SrvRec /\ DOMAIN Server.streams = {}
  BY EmptyMap, Windows DEF Server, SrvRec, Table
<1>13. /\ req' \in [Fibers -> ReqRec]
       /\ \A g \in Fibers :
             \/ req'[g] = req[g] /\ (req[g].pc = "waiting" => g \notin Range(cli.ctxs))
             \/ /\ req[g].pc = "waiting" /\ Answered(req'[g], req[g], "io_error", None)
                /\ req'[g].timer = IF req[g].timer = "armed" THEN "off" ELSE req[g].timer
  <2> DEFINE failed == {f \in Fibers : req[f].pc = "waiting" /\ f \in Range(cli.ctxs)}
  <2>1. req' = [f \in Fibers |-> IF f \in failed THEN DoRsp(f, "io_error", None)[f] ELSE req[f]]
    BY Zenon DEF Reconnect
  <2>2. None \in Pair \union {None}
    OBVIOUS
  <2>3. ASSUME NEW g \in Fibers
        PROVE  /\ req'[g] \in ReqRec
               /\ \/ req'[g] = req[g] /\ (req[g].pc = "waiting" => g \notin Range(cli.ctxs))
                  \/ /\ req[g].pc = "waiting" /\ Answered(req'[g], req[g], "io_error", None)
                     /\ req'[g].timer = IF req[g].timer = "armed" THEN "off" ELSE req[g].timer
    <3>1. CASE g \in failed
      <4>1. req[g].pc = "waiting" /\ req'[g] = DoRsp(g, "io_error", None)[g]
        BY <2>1, <3>1
      <4> QED  BY <2>2, <4>1, DoRspFacts
    <3>2. CASE g \notin failed
      <4>1. req'[g] = req[g] /\ (req[g].pc = "waiting" => g \notin Range(cli.ctxs))
        BY <2>1, <3>2
      <4> QED  BY <1>1, <4>1
    <3> QED  BY <3>1, <3>2
  <2>4. DOMAIN req' = Fibers /\ req' = [f \in Fibers |-> req'[f]]
    BY <2>1
  <2> QED  BY <2>3, <2>4
<1> QED  BY <1>1, <1>5, <1>6, <1>11, <1>12, <1>13, EmptyMap, Zenon DEF ReconnectDoes, Reconnect

LEMMA TargetType ==
    ASSUME TypeOK, NEW f \in FrameRec
    PROVE  Target(f) \in StreamRec
<1>1. PICK e \in SrvRec : e = srv
  BY Zenon DEF TypeOK
<1>2. e.streams \in [DOMAIN e.streams -> StreamRec]
  <2>1. e.streams \in Map(StreamRec)
    BY DEF SrvRec
  <2> QED  BY <2>1, MapFacts
<1>3. Stream(DEFAULT_WINDOW, CLIENT_WINDOW, None) \in StreamRec
  <2>1. None \in Fibers \union {None}
    OBVIOUS
  <2> QED  BY <2>1, Windows, StreamType
<1> QED  BY <1>1, <1>2, <1>3 DEF Target

LEMMA SrvReadFacts ==
    ASSUME TypeOK, SrvRead
    PROVE  /\ toSrv # <<>> /\ Head(toSrv) \in FrameRec
           /\ \/ SrvWindowDoes(Head(toSrv))
              \/ SrvRefuseDoes(Head(toSrv))
              \/ SrvAcceptDoes(Head(toSrv), Target(Head(toSrv)))
<1>1. PICK e \in SrvRec, f \in FrameRec : e = srv /\ f = Head(toSrv)
  <2>1. PICK q \in Seq(FrameRec) : q = toSrv /\ q # <<>>
    BY Zenon DEF TypeOK, SrvRead
  <2>2. Head(q) \in FrameRec
    BY <2>1, HeadTail
  <2> QED  BY <2>1, <2>2, Zenon DEF TypeOK
<1>2. toSrv # <<>>
  BY Zenon DEF SrvRead
<1>3. e.streams \in Map(StreamRec) /\ e.recvTable \in Table /\ e.sn \in Int /\ f.id \in Int
  BY DEF SrvRec, FrameRec
<1>4. CASE f.t = "WINDOW_UPDATE"
  <2>1. PICK h \in SrvRec :
           /\ h = handleWindowUpdate(e, f)
           /\ OnlySend(e, h, Granted(e, f, 0), f.id, IF f.id = 0 THEN 0 ELSE Granted(e, f, f.id))
           /\ windowError(e, f) \in SUBSET {"no stream", "overflow"}
    BY WindowSrv, Zenon
  <2>2. srv' = h /\ goaways' = goaways \union windowError(e, f)
        /\ toCli' = toCli /\ refused' = refused /\ skipped' = skipped /\ Calm
    BY <1>1, <1>4, <2>1, Zenon DEF SrvRead, Calm
  <2>3. goaways' \in SUBSET {"no stream", "overflow"}
    BY <2>1, <2>2, Zenon DEF TypeOK
  <2>4. SrvWindowDoes(f)
    BY <1>1, <1>4, <2>1, <2>2, <2>3, Zenon DEF SrvWindowDoes
  <2> QED  BY <1>1, <1>2, <2>4
<1>5. CASE f.t # "WINDOW_UPDATE" /\ Refused(f.id)
  <2>1. /\ toCli' = Append(toCli, RST_STREAM(e.sn)) /\ refused' = refused \union {f.id}
        /\ skipped' = TRUE /\ srv' = srv /\ goaways' = goaways /\ Calm
    BY <1>1, <1>5 DEF SrvRead, Calm
  <2>2. IsFrame(RST_STREAM(e.sn), "RST_STREAM", e.sn, <<>>, 0, FALSE)
    BY <1>3, FrameFacts, Zenon
  <2>3. SrvRefuseDoes(f)
    BY <1>1, <1>5, <2>1, <2>2, Zenon DEF SrvRefuseDoes, Refused, Exists
  <2> QED  BY <1>1, <1>2, <2>3
<1>6. CASE f.t # "WINDOW_UPDATE" /\ ~Refused(f.id)
  <2> DEFINE s0 == Stream(DEFAULT_WINDOW, CLIENT_WINDOW, None)
             known == IF Exists(e, f.id) THEN e
                      ELSE AddStream([e EXCEPT !.sn = f.id], f.id, s0)
  <2>1. PICK s \in StreamRec : s = Target(f)
    BY TargetType
  <2>2. /\ known \in SrvRec
        /\ known.sn = IF f.id \in DOMAIN e.streams THEN e.sn ELSE f.id
        /\ known.send = e.send /\ known.recv = e.recv /\ known.sendTable = e.sendTable
        /\ known.recvTable = e.recvTable
        /\ DOMAIN known.streams = DOMAIN e.streams \union {f.id} /\ known.streams[f.id] = s
        /\ \A id \in DOMAIN e.streams : id # f.id => known.streams[id] = e.streams[id]
    <3>1. CASE f.id \in DOMAIN e.streams
      <4>1. known = e /\ s = e.streams[f.id] /\ DOMAIN e.streams = DOMAIN e.streams \union {f.id}
        BY <1>1, <2>1, <3>1 DEF Exists, Target
      <4> HIDE DEF known
      <4> QED  BY <3>1, <4>1
    <3>2. CASE f.id \notin DOMAIN e.streams
      <4>1. s = s0
        BY <1>1, <2>1, <3>2 DEF Target
      <4> DEFINE c == [e EXCEPT !.sn = f.id]
                 m == With(e.streams, f.id, s)
      <4>2. /\ c \in SrvRec /\ c.sn = f.id /\ c.send = e.send /\ c.recv = e.recv
            /\ c.sendTable = e.sendTable /\ c.recvTable = e.recvTable /\ c.streams = e.streams
        BY <1>3 DEF SrvRec
      <4>3. known = [c EXCEPT !.streams = m]
        <5>1. known = [c EXCEPT !.streams = With(c.streams, f.id, s)]
          BY <3>2, <4>1 DEF Exists, AddStream
        <5> HIDE DEF known, c
        <5> QED  BY <4>2, <5>1
      <4>4. WithDoes(StreamRec, e.streams, f.id, s)
        BY <1>3, WithFacts
      <4>5. /\ m \in Map(StreamRec) /\ DOMAIN m = DOMAIN e.streams \union {f.id} /\ m[f.id] = s
            /\ \A id \in DOMAIN e.streams : id # f.id => m[id] = e.streams[id]
        BY <4>4 DEF WithDoes
      <4> HIDE DEF c, m, known
      <4>6. /\ known \in SrvRec /\ known.sn = c.sn /\ known.send = c.send /\ known.recv = c.recv
            /\ known.sendTable = c.sendTable /\ known.recvTable = c.recvTable /\ known.streams = m
        BY <4>2, <4>3, <4>5 DEF SrvRec
      <4> QED  BY <3>2, <4>2, <4>5, <4>6
    <3> QED  BY <3>1, <3>2
  <2>3. PICK k \in SrvRec : k = known
    BY <2>2
  <2>4. /\ k.sn = IF f.id \in DOMAIN e.streams THEN e.sn ELSE f.id
        /\ k.send = e.send /\ k.recv = e.recv /\ k.sendTable = e.sendTable
        /\ k.recvTable = e.recvTable
        /\ DOMAIN k.streams = DOMAIN e.streams \union {f.id} /\ k.streams[f.id] = s
        /\ \A id \in DOMAIN e.streams : id # f.id => k.streams[id] = e.streams[id]
    BY <2>2, <2>3
  <2> DEFINE a == After(k, f)
             t == Fed(s, f, e.recvTable)
  <2>5. /\ a \in SrvRec /\ a.sn = k.sn /\ a.send = k.send /\ a.sendTable = k.sendTable
        /\ DOMAIN a.streams = DOMAIN k.streams /\ a.streams[f.id] = t
        /\ \A id \in DOMAIN k.streams : id # f.id => a.streams[id] = k.streams[id]
        /\ a.recv = IF f.t = "DATA" THEN k.recv - f.n + Refill(k.recv - f.n) ELSE k.recv
        /\ a.recvTable = IF f.t = "HEADERS" THEN parse(k.recvTable, f.block).table ELSE k.recvTable
    <3>1. f.id \in DOMAIN k.streams
      BY <2>4
    <3>2. a \in SrvRec /\ AfterFacts(k, f)
      BY <3>1, AfterSrv
    <3> QED  BY <2>4, <3>2 DEF AfterFacts
  <2>6. t \in StreamRec
    BY <1>3, FedType
  <2> HIDE DEF t
  <2>7. /\ toCli' = IF f.t = "DATA" THEN toCli \o handleRecvData(k, f).out ELSE toCli
        /\ srv' = IF a.streams[f.id].state = "CLOSED" /\ a.streams[f.id].handled = "no"
                  THEN [a EXCEPT !.streams[f.id].handled = "scheduled"] ELSE a
        /\ refused' = refused /\ skipped' = skipped /\ goaways' = goaways /\ Reads(f)
    BY <1>1, <1>6, <2>3, Zenon DEF SrvRead, After, Reads
  <2>8. handleRecvData(k, f).out = Updates(0, Refill(e.recv - f.n)) \o Updates(f.id, Refill(s.recv - f.n))
    BY <2>4 DEF handleRecvData
  <2>9. PICK b \in SrvRec : b = a
    BY <2>5
  <2> HIDE DEF a
  <2>10. /\ srv' \in SrvRec /\ srv'.sn = b.sn /\ srv'.send = b.send /\ srv'.sendTable = b.sendTable
         /\ srv'.recv = b.recv /\ srv'.recvTable = b.recvTable
         /\ DOMAIN srv'.streams = DOMAIN b.streams /\ Handed(t, srv'.streams[f.id])
         /\ \A id \in DOMAIN b.streams : id # f.id => srv'.streams[id] = b.streams[id]
    <3>1. CASE t.state = "CLOSED" /\ t.handled = "no"
      <4> DEFINE u == [t EXCEPT !.handled = "scheduled"]
                 m == [b.streams EXCEPT ![f.id] = u]
      <4>1. u \in StreamRec /\ Handed(t, u)
        BY <2>6, <3>1, Zenon DEF StreamRec, Handed
      <4>2. srv' = [b EXCEPT !.streams = m]
        <5>1. srv' = [b EXCEPT !.streams[f.id].handled = "scheduled"]
          BY <2>5, <2>7, <2>9, <3>1
        <5> QED  BY <2>5, <2>9, <5>1
      <4> HIDE DEF u
      <4>3. /\ m \in Map(StreamRec) /\ DOMAIN m = DOMAIN b.streams /\ m[f.id] = u
            /\ \A id \in DOMAIN b.streams : id # f.id => m[id] = b.streams[id]
        <5>1. b.streams \in Map(StreamRec) /\ f.id \in DOMAIN b.streams
          BY <2>4, <2>5, <2>9 DEF SrvRec
        <5> QED  BY <4>1, <5>1, PutFacts
      <4> HIDE DEF m
      <4>4. /\ srv' \in SrvRec /\ srv'.sn = b.sn /\ srv'.send = b.send
            /\ srv'.sendTable = b.sendTable /\ srv'.recv = b.recv /\ srv'.recvTable = b.recvTable
            /\ srv'.streams = m
        BY <4>2, <4>3 DEF SrvRec
      <4> QED  BY <4>1, <4>3, <4>4
    <3>2. CASE ~(t.state = "CLOSED" /\ t.handled = "no")
      <4>1. srv' = b /\ b.streams[f.id] = t
        BY <2>5, <2>7, <2>9, <3>2
      <4>2. Handed(t, t)
        BY <3>2 DEF Handed
      <4> QED  BY <4>1, <4>2
    <3> QED  BY <3>1, <3>2
  <2>11. f.id \in DOMAIN srv.streams \/ ~(f.id <= srv.sn)
    BY <1>1, <1>6 DEF Refused, Exists
  <2>13. /\ srv' \in SrvRec /\ srv'.send = srv.send /\ srv'.sendTable = srv.sendTable
         /\ srv'.sn = IF f.id \in DOMAIN srv.streams THEN srv.sn ELSE f.id
         /\ srv'.recv = IF f.t = "DATA" THEN srv.recv - f.n + Refill(srv.recv - f.n) ELSE srv.recv
         /\ srv'.recvTable = IF f.t = "HEADERS" THEN parse(srv.recvTable, f.block).table ELSE srv.recvTable
    BY <1>1, <2>4, <2>5, <2>9, <2>10
  <2>14. /\ DOMAIN srv'.streams = DOMAIN srv.streams \union {f.id}
         /\ \A id \in DOMAIN srv.streams : id # f.id => srv'.streams[id] = srv.streams[id]
    BY <1>1, <2>4, <2>5, <2>9, <2>10
  <2>15. Handed(Fed(s, f, srv.recvTable), srv'.streams[f.id])
    BY <1>1, <2>10 DEF t
  <2>12. SrvAcceptDoes(f, s)
    BY <1>1, <1>6, <2>7, <2>8, <2>11, <2>13, <2>14, <2>15, Zenon DEF SrvAcceptDoes
  <2> QED  BY <1>1, <1>2, <2>1, <2>12
<1> QED  BY <1>4, <1>5, <1>6

LEMMA RespondFacts ==
    ASSUME TypeOK, Led, NEW id \in DOMAIN srv.streams, Respond(id)
    PROVE  RespondDoes(id, srv.streams[id])
<1>1. PICK e \in SrvRec, q \in Seq(FrameRec) : e = srv /\ q = toCli
  BY Zenon DEF TypeOK
<1>2. e.streams \in Map(StreamRec) /\ e.sendTable \in Table /\ id \in DOMAIN e.streams /\ id \in Int
  <2>1. e.streams \in Map(StreamRec) /\ e.sendTable \in Table
    BY DEF SrvRec
  <2>2. id \in DOMAIN e.streams
    BY <1>1
  <2> QED  BY <2>1, <2>2, MapFacts
<1>3. PICK s \in StreamRec : s = e.streams[id] /\ s.handled = "scheduled" /\ s.headers # <<>>
  BY <1>1, <1>2, MapFacts DEF Respond, Led
<1>4. PICK hs \in Seq(Pair) : hs = <<s.headers[1]>>
  <2>1. PICK h \in Seq(Pair) : h = s.headers
    BY DEF StreamRec
  <2>2. h[1] \in Pair
    BY <1>3, <2>1, HeadTail
  <2>3. <<h[1]>> \in Seq(Pair)
    BY <2>2
  <2> QED  BY <2>1, <2>3, Zenon
<1>5. PICK T \in Table, b \in Seq(Field), U \in Table :
          T = e.sendTable /\ b = pack(T, hs).block /\ U = pack(T, hs).table
  BY <1>2, RoundTrip, Zenon
<1>6. PICK none \in BOOLEAN : none = (s.body = 0)
  OBVIOUS
<1>7. /\ toCli' = q \o <<HEADERS(id, b, none)>> \o (IF none THEN <<>> ELSE <<DATA(id)>>)
      /\ srv' = [e EXCEPT !.sendTable = U, !.streams[id].handled = "responded"]
  <2>1. /\ toCli' = q \o <<HEADERS(id, b, s.body = 0)>> \o (IF s.body = 0 THEN <<>> ELSE <<DATA(id)>>)
        /\ srv' = [e EXCEPT !.sendTable = U, !.streams[id].handled = "responded"]
    BY <1>1, <1>3, <1>4, <1>5 DEF Respond
  <2> QED  BY <1>6, <2>1, Zenon
<1>8. \E r : IsMessage(r, id, b, none) /\ toCli' = q \o r
  <2>1. PICK r : /\ IsMessage(r, id, b, none)
                 /\ q \o <<HEADERS(id, b, none)>> \o (IF none THEN <<>> ELSE <<DATA(id)>>) = q \o r
    BY <1>2, MessageFacts, Zenon
  <2> QED  BY <1>7, <2>1, Zenon
<1> DEFINE u == [s EXCEPT !.handled = "responded"]
           m == [e.streams EXCEPT ![id] = u]
<1>9. u \in StreamRec /\ Marked(s, u)
  BY Zenon DEF StreamRec, Marked
<1>10. srv' = [e EXCEPT !.sendTable = U, !.streams = m]
  BY <1>3, <1>7
<1> HIDE DEF u
<1>11. /\ m \in Map(StreamRec) /\ DOMAIN m = DOMAIN e.streams /\ m[id] = u
       /\ \A k \in DOMAIN e.streams : k # id => m[k] = e.streams[k]
  BY <1>2, <1>9, PutFacts
<1> HIDE DEF m
<1>12. /\ srv' \in SrvRec /\ srv'.sn = e.sn /\ srv'.send = e.send /\ srv'.recv = e.recv
       /\ srv'.recvTable = e.recvTable /\ srv'.sendTable = U /\ srv'.streams = m
  BY <1>10, <1>11, Zenon DEF SrvRec
<1>13. pack(srv.sendTable, <<s.headers[1]>>) = pack(T, hs)
  BY <1>1, <1>4, <1>5
<1>14. RespondDoes(id, s)
  BY <1>1, <1>3, <1>4, <1>5, <1>6, <1>8, <1>9, <1>11, <1>12, <1>13, Zenon DEF RespondDoes
<1> QED  BY <1>1, <1>3, <1>14

LEMMA SrvDoneFacts ==
    ASSUME TypeOK, NEW id \in DOMAIN srv.streams, SrvDone(id)
    PROVE  SrvDoneDoes(id, srv.streams[id])
<1>0. PICK e \in SrvRec : e = srv
  BY Zenon DEF TypeOK
<1>1. PICK s : e = srv /\ s = e.streams[id] /\ s.handled = "responded" /\ id \in DOMAIN e.streams
  BY <1>0 DEF SrvDone
<1>2. e.streams \in Map(StreamRec) /\ e.send \in Int
  BY DEF SrvRec
<1>3. e.streams \in [DOMAIN e.streams -> StreamRec]
  BY <1>2, MapFacts
<1>10. PICK vain \in BOOLEAN : vain <=> "srv" \in adding
  BY Truth
<1> DEFINE n == IF s.body = 0 \/ vain THEN 0 ELSE 1
<1>4. PICK c \in SrvRec :
         /\ c = IF s.body = 0 THEN e ELSE Charge(e, id, None, vain)
         /\ c.sn = e.sn /\ c.recv = e.recv /\ c.sendTable = e.sendTable /\ c.recvTable = e.recvTable
         /\ c.send = e.send - n
         /\ DOMAIN c.streams = DOMAIN e.streams
         /\ \A k \in DOMAIN e.streams : k # id =>
               Alike(e.streams[k], c.streams[k]) /\ c.streams[k].send = e.streams[k].send
  <2>1. \A k \in DOMAIN e.streams : Alike(e.streams[k], e.streams[k]) /\ e.streams[k].send \in Int
    BY <1>3, AlikeSame
  <2>2. CASE s.body = 0
    BY <1>2, <2>1, <2>2
  <2>3. CASE s.body # 0
    <3>0. PICK c \in SrvRec : c = Charge(e, id, None, vain) /\ \E d : OnlySend(e, c, IF vain THEN 0 ELSE -1, id, d)
      BY ChargeSrv
    <3>1. PICK d : c = Charge(e, id, None, vain) /\ OnlySend(e, c, IF vain THEN 0 ELSE -1, id, d)
      BY <3>0
    <3>2. /\ c.sn = e.sn /\ c.recv = e.recv /\ c.sendTable = e.sendTable /\ c.recvTable = e.recvTable
          /\ c.send = e.send + (IF vain THEN 0 ELSE -1) /\ DOMAIN c.streams = DOMAIN e.streams
          /\ \A k \in DOMAIN e.streams :
                Alike(e.streams[k], c.streams[k]) /\ c.streams[k].send = e.streams[k].send + IF k = id THEN d ELSE 0
      BY <3>1 DEF OnlySend
    <3>3. c.send = e.send - n
      BY <1>2, <2>3, <3>2
    <3>4. \A k \in DOMAIN e.streams : k # id => c.streams[k].send = e.streams[k].send
      BY <2>1, <3>2
    <3> QED  BY <2>3, <3>1, <3>2, <3>3, <3>4
  <2> QED  BY <2>2, <2>3
<1> DEFINE m == Less(c.streams, id)
<1>5. srv' = [c EXCEPT !.streams = m]
  BY <1>1, <1>4, <1>10 DEF SrvDone, DelStream, Less
<1>6. LessDoes(StreamRec, c.streams, id)
  <2>1. c.streams \in Map(StreamRec)
    BY DEF SrvRec
  <2> QED  BY <2>1, LessFacts
<1>7. /\ m \in Map(StreamRec) /\ DOMAIN m = DOMAIN c.streams \ {id}
      /\ \A k \in DOMAIN c.streams : k # id => m[k] = c.streams[k]
  BY <1>6 DEF LessDoes
<1> HIDE DEF m, n
<1>8. /\ srv' \in SrvRec /\ srv'.sn = c.sn /\ srv'.send = c.send /\ srv'.recv = c.recv
      /\ srv'.recvTable = c.recvTable /\ srv'.sendTable = c.sendTable /\ srv'.streams = m
  BY <1>5, <1>7 DEF SrvRec
<1>9. SrvDoneDoes(id, s)
  BY <1>1, <1>4, <1>7, <1>8, <1>10 DEF SrvDoneDoes, n
<1> QED  BY <1>1, <1>9

-----------------------------------------------------------------------------
(***************************************************************************)
(* The steps of the specification, each with what it needs and what it     *)
(* leaves alone.                                                           *)
(***************************************************************************)

LEMMA AskedHeaders ==
    ASSUME TypeOK, Requests
    PROVE  \A i \in DOMAIN queue : queue[i].t = "request" => req[queue[i].f].header \in Headers
<1> SUFFICES ASSUME NEW i \in DOMAIN queue, queue[i].t = "request"
             PROVE  req[queue[i].f].header \in Headers
  OBVIOUS
<1>1. queue[i] \in FrameRec \union AskRec
  <2>1. PICK q \in Seq(FrameRec \union AskRec) : q = queue
    BY Zenon DEF TypeOK
  <2>2. \A k \in DOMAIN q : q[k] \in FrameRec \union AskRec
    BY ElementOfSeq, LenProperties
  <2> QED  BY <2>1, <2>2
<1>2. PICK f \in Fibers : f = queue[i].f
  BY <1>1 DEF FrameRec, AskRec
<1>3. Asks(queue, f)
  BY <1>2 DEF Asks
<1>4. req[f].pc # "idle"
  BY <1>3 DEF Requests, Life, Began
<1> QED  BY <1>2, <1>4 DEF Requests, Life

LEMMA StreamAt ==
    ASSUME TypeOK
    PROVE  /\ \A id \in DOMAIN srv.streams : srv.streams[id] \in StreamRec /\ id \in Int
           /\ \A id \in DOMAIN cli.streams : cli.streams[id] \in StreamRec /\ id \in Int
           /\ \A id \in DOMAIN cli.ctxs : cli.ctxs[id] \in Fibers /\ id \in Int
<1>1. PICK a \in Map(StreamRec), b \in Map(StreamRec), c \in Map(Fibers) :
         a = srv.streams /\ b = cli.streams /\ c = cli.ctxs
  BY Zenon DEF TypeOK, CliRec, SrvRec
<1>2. /\ \A id \in DOMAIN a : a[id] \in StreamRec /\ id \in Int
      /\ \A id \in DOMAIN b : b[id] \in StreamRec /\ id \in Int
      /\ \A id \in DOMAIN c : c[id] \in Fibers /\ id \in Int
  BY MapFacts
<1> QED  BY <1>1, <1>2

LEMMA StepFacts ==
    ASSUME BaseInv, [Next]_vars
    PROVE  Step
<1> USE DEF BaseInv
<1>1. ASSUME NEW f \in Fibers, NEW header \in Headers, NEW body \in {0, 1}, NewStream(f, header, body)
      PROVE  Step
  <2>1. NewStreamDoes(f, header, body)
    BY <1>1, NewStreamFacts
  <2>2. NewStreamStep(f, header, body)
    BY <1>1, <2>1 DEF NewStream, NewStreamStep, WireKept, ServerKept, Rest, Calm, history
  <2> QED  BY <2>2 DEF Step, FiberStep
<1>2. ASSUME NEW f \in Fibers, Request(f) PROVE Step
  <2>1. RequestDoes(f)
    BY <1>2, RequestFacts
  <2>2. RequestStep(f)
    BY <1>2, <2>1 DEF Request, RequestStep, WireKept, ServerKept, Rest, Calm, history
  <2> QED  BY <2>2 DEF Step, FiberStep
<1>3. ASSUME NEW f \in Fibers, Due(f) PROVE Step
  <2>1. DueDoes(f)
    BY <1>3, DueFacts
  <2>2. DueStep(f)
    BY <1>3, <2>1 DEF Due, DueStep, WireKept, ServerKept, Rest, Calm, history
  <2> QED  BY <2>2 DEF Step, FiberStep
<1>4. ASSUME NEW f \in Fibers, OnTimeOut(f) PROVE Step
  <2>1. OnTimeOutDoes(f)
    BY <1>4, OnTimeOutFacts
  <2>2. OnTimeOutStep(f)
    BY <1>4, <2>1 DEF OnTimeOut, OnTimeOutStep, WireKept, ServerKept, Calm
  <2> QED  BY <2>2 DEF Step, FiberStep
<1>5. ASSUME CliWrite PROVE Step
  <2>1. CliWriteDoes
    BY <1>5, AskedHeaders, CliWriteFacts
  <2>2. CliWriteStep
    BY <1>5, <2>1 DEF CliWrite, CliWriteStep, ServerKept, Rest, Calm, history
  <2> QED  BY <2>2 DEF Step
<1>6. ASSUME CliCharge PROVE Step
  <2>1. CliChargeDoes
    BY <1>6, CliChargeFacts
  <2>2. CliChargeStep
    BY <1>6, <2>1 DEF CliCharge, CliChargeStep, WireKept, ServerKept, Rest, Charges, history
  <2> QED  BY <2>2 DEF Step
<1>7. ASSUME CliRead PROVE Step
  <2>1. PICK f \in FrameRec : f = Head(toCli) /\ CliReadDoes(f)
    BY <1>7, CliReadFacts
  <2>2. CliReadStep(f)
    BY <1>7, <2>1 DEF CliRead, CliReadStep, ServerKept, Calm
  <2> QED  BY <2>2 DEF Step, ReaderStep
<1>8. ASSUME CliHandle PROVE Step
  <2>1. PICK f \in FrameRec : f = Head(toCli)
    BY <1>8, CliHandleFacts
  <2>2. toCli # <<>> /\ f.t # "WINDOW_UPDATE" /\ f.id \in DOMAIN cli.streams
        /\ CliHandleDoes(f, cli.streams[f.id], Fed(cli.streams[f.id], f, cli.recvTable))
    BY <1>8, <2>1, CliHandleFacts
  <2>3. PICK s \in StreamRec : s = cli.streams[f.id]
    BY <2>2, StreamAt
  <2>4. CliHandleStep(f, s)
    BY <1>8, <2>1, <2>2, <2>3 DEF CliHandle, CliHandleStep, ServerKept, Rest, Reads, history
  <2> QED  BY <2>4 DEF Step
<1>9. ASSUME CliHandleDeleted PROVE Step
  <2>1. PICK f \in FrameRec :
           f = Head(toCli) /\ toCli # <<>> /\ f.t # "WINDOW_UPDATE" /\ CliHandleDeletedDoes(f)
    BY <1>9, CliHandleDeletedFacts
  <2>2. CliHandleDeletedStep(f)
    BY <1>9, <2>1 DEF CliHandleDeleted, CliHandleDeletedStep, ServerKept, Rest, Reads, history
  <2> QED  BY <2>2 DEF Step, ReaderStep
<1>10. ASSUME SrvRead PROVE Step
  <2>1. PICK f \in FrameRec :
           /\ f = Head(toSrv) /\ toSrv # <<>>
           /\ SrvWindowDoes(f) \/ SrvRefuseDoes(f) \/ SrvAcceptDoes(f, Target(f))
    BY <1>10, SrvReadFacts
  <2>2. SrvReadStep(f)
    BY <1>10, <2>1, Zenon DEF SrvRead, SrvReadStep, ClientKept
  <2> QED  BY <2>2 DEF Step, ReaderStep
<1>11. ASSUME NEW id \in DOMAIN srv.streams, Respond(id) PROVE Step
  <2>1. PICK s \in StreamRec : s = srv.streams[id]
    BY StreamAt
  <2>2. RespondDoes(id, s)
    BY <1>11, <2>1, RespondFacts
  <2>3. RespondStep(id, s)
    BY <1>11, <2>1, <2>2 DEF Respond, RespondStep, ClientKept, Rest, Calm, history
  <2> QED  BY <2>3 DEF Step, ServletStep
<1>12. ASSUME NEW id \in DOMAIN srv.streams, SrvDone(id) PROVE Step
  <2>1. PICK s \in StreamRec : s = srv.streams[id]
    BY StreamAt
  <2>2. SrvDoneDoes(id, s)
    BY <1>12, <2>1, SrvDoneFacts
  <2>3. SrvDoneStep(id, s)
    BY <1>12, <2>1, <2>2 DEF SrvDone, SrvDoneStep, ClientKept, WireKept, Rest, Charges, history
  <2> QED  BY <2>3 DEF Step, ServletStep
<1>13. ASSUME Reconnect PROVE Step
  <2>1. ReconnectDoes
    BY <1>13, ReconnectFacts
  <2>2. ReconnectStep
    BY <1>13, <2>1, Zenon DEF Reconnect, ReconnectStep, Calm
  <2> QED  BY <2>2 DEF Step
<1>14. ASSUME UNCHANGED vars \/ \E end \in adding : Added(end) PROVE Step
  <2>1. Still
    BY <1>14 DEF Still, Calm, vars, Added, history
  <2> QED  BY <2>1 DEF Step
<1> QED
  BY <1>1, <1>2, <1>3, <1>4, <1>5, <1>6, <1>7, <1>8, <1>9, <1>10, <1>11, <1>12, <1>13, <1>14
  DEF Next

-----------------------------------------------------------------------------
(***************************************************************************)
(* What is on the way: questions about a sequence of frames, and how they  *)
(* are answered when a frame is taken off or frames are added.             *)
(***************************************************************************)

LEMMA RangeTail ==
    ASSUME NEW S, NEW q \in Seq(S), q # <<>>
    PROVE  Range(q) = {Head(q)} \union Range(Tail(q))
<1>1. /\ Len(q) \in Nat /\ Len(q) > 0 /\ DOMAIN q = 1 .. Len(q) /\ q[1] = Head(q)
      /\ DOMAIN Tail(q) = 1 .. Len(q) - 1 /\ \A i \in 1 .. Len(q) - 1 : Tail(q)[i] = q[i + 1]
  BY HeadTail
<1>2. \A i \in DOMAIN q : i = 1 \/ (i - 1 \in DOMAIN Tail(q) /\ Tail(q)[i - 1] = q[i])
  BY <1>1
<1>3. \A i \in DOMAIN Tail(q) : i + 1 \in DOMAIN q /\ Tail(q)[i] = q[i + 1]
  BY <1>1
<1>4. ASSUME NEW x \in Range(q) PROVE x \in {Head(q)} \union Range(Tail(q))
  <2>1. PICK i \in DOMAIN q : x = q[i]
    BY DEF Range
  <2>2. CASE i = 1
    BY <1>1, <2>1, <2>2
  <2>3. CASE i # 1
    <3>1. i - 1 \in DOMAIN Tail(q) /\ Tail(q)[i - 1] = x
      BY <1>2, <2>1, <2>3
    <3>2. x \in Range(Tail(q))
      BY <3>1 DEF Range
    <3> QED  BY <3>2
  <2> QED  BY <2>2, <2>3
<1>5. \A x \in {Head(q)} \union Range(Tail(q)) : x \in Range(q)
  BY <1>1, <1>3 DEF Range
<1> QED  BY <1>4, <1>5

LEMMA CatFacts ==
    ASSUME NEW S, NEW q \in Seq(S), NEW r \in Seq(S)
    PROVE  CatDoes(q, r) /\ q \o r \in Seq(S)
<1>1. Len(q) \in Nat /\ Len(r) \in Nat /\ DOMAIN q = 1 .. Len(q) /\ DOMAIN r = 1 .. Len(r)
  BY LenProperties
<1>2. /\ q \o r \in Seq(S) /\ Len(q \o r) = Len(q) + Len(r)
      /\ \A i \in 1 .. Len(q) + Len(r) : (q \o r)[i] = IF i <= Len(q) THEN q[i] ELSE r[i - Len(q)]
  BY ConcatProperties
<1>3. DOMAIN (q \o r) = 1 .. Len(q) + Len(r)
  BY <1>2, LenProperties
<1>4. PICK z : z = q \o r
  OBVIOUS
<1>5. /\ DOMAIN z = 1 .. Len(q) + Len(r)
      /\ \A i \in 1 .. Len(q) + Len(r) : z[i] = IF i <= Len(q) THEN q[i] ELSE r[i - Len(q)]
  BY <1>2, <1>3, <1>4
<1>6. /\ \A i \in DOMAIN q : i \in DOMAIN z /\ z[i] = q[i]
      /\ \A i \in DOMAIN r : Len(q) + i \in DOMAIN z /\ z[Len(q) + i] = r[i]
      /\ \A i \in DOMAIN z :
            \/ i \in DOMAIN q /\ z[i] = q[i]
            \/ i - Len(q) \in DOMAIN r /\ z[i] = r[i - Len(q)]
  <2>1. \A i \in DOMAIN q : i \in DOMAIN z /\ z[i] = q[i]
    BY <1>1, <1>5
  <2>2. \A i \in DOMAIN r : Len(q) + i \in DOMAIN z /\ z[Len(q) + i] = r[i]
    <3> SUFFICES ASSUME NEW i \in DOMAIN r
                 PROVE  Len(q) + i \in DOMAIN z /\ z[Len(q) + i] = r[i]
      OBVIOUS
    <3>1. Len(q) + i \in 1 .. Len(q) + Len(r) /\ ~(Len(q) + i <= Len(q)) /\ (Len(q) + i) - Len(q) = i
      BY <1>1
    <3> QED  BY <1>5, <3>1
  <2>3. \A i \in DOMAIN z :
            \/ i \in DOMAIN q /\ z[i] = q[i]
            \/ i - Len(q) \in DOMAIN r /\ z[i] = r[i - Len(q)]
    BY <1>1, <1>5
  <2> QED  BY <2>1, <2>2, <2>3
<1> QED  BY <1>1, <1>2, <1>4, <1>5, <1>6, Zenon DEF CatDoes

LEMMA RangeOne == ASSUME NEW x PROVE Range(<<x>>) = {x}
  BY DEF Range

LEMMA RangeEmpty == Range(<<>>) = {}
  BY DEF Range

LEMMA AppendCat ==
    ASSUME NEW S, NEW q \in Seq(S), NEW x \in S
    PROVE  Append(q, x) = q \o <<x>> /\ <<x>> \in Seq(S)
<1>1. <<x>> \in Seq(S)
  OBVIOUS
<1>2. Append(q, x) = q \o <<x>>
  BY AppendIsConcat, Zenon
<1> QED  BY <1>1, <1>2

LEMMA SeqUnion ==
    ASSUME NEW S, NEW T, NEW q \in Seq(S)
    PROVE  q \in Seq(S \union T)
<1>1. S \subseteq S \union T
  OBVIOUS
<1> QED  BY <1>1, SeqMonotonic

LEMMA CoveredTail ==
    ASSUME NEW q \in Seq(FrameRec), q # <<>>, NEW n \in Int, NEW m \in Int, n <= m, Covered(q, n),
           Head(q).t = "HEADERS" => Head(q).id <= m
    PROVE  Covered(Tail(q), m)
<1>1. /\ Len(q) \in Nat /\ Len(q) > 0 /\ DOMAIN q = 1 .. Len(q) /\ q[1] = Head(q)
      /\ DOMAIN Tail(q) = 1 .. Len(q) - 1 /\ \A i \in 1 .. Len(q) - 1 : Tail(q)[i] = q[i + 1]
  BY HeadTail
<1> SUFFICES ASSUME NEW i \in DOMAIN Tail(q), Tail(q)[i].t = "DATA"
             PROVE  \/ Tail(q)[i].id <= m
                    \/ \E k \in DOMAIN Tail(q) :
                          k < i /\ Tail(q)[k].t = "HEADERS" /\ Tail(q)[k].id = Tail(q)[i].id
  BY DEF Covered
<1>2. i + 1 \in DOMAIN q /\ Tail(q)[i] = q[i + 1] /\ q[i + 1] \in FrameRec
  BY <1>1
<1>3. q[i + 1].id \in Int
  BY <1>2 DEF FrameRec
<1>4. CASE q[i + 1].id <= n
  BY <1>2, <1>3, <1>4
<1>5. ASSUME NEW k \in DOMAIN q, k < i + 1, q[k].t = "HEADERS", q[k].id = q[i + 1].id
      PROVE  \/ q[i + 1].id <= m
             \/ \E j \in DOMAIN Tail(q) :
                   j < i /\ Tail(q)[j].t = "HEADERS" /\ Tail(q)[j].id = q[i + 1].id
  <2>1. CASE k = 1
    BY <1>1, <1>5, <2>1
  <2>2. CASE k # 1
    <3>1. k - 1 \in DOMAIN Tail(q) /\ k - 1 < i /\ Tail(q)[k - 1] = q[k]
      BY <1>1, <1>5, <2>2
    <3> QED  BY <1>5, <3>1
  <2> QED  BY <2>1, <2>2
<1> QED  BY <1>2, <1>4, <1>5 DEF Covered

LEMMA CoveredCat ==
    ASSUME NEW q \in Seq(FrameRec), NEW r \in Seq(FrameRec), NEW n \in Int,
           Covered(q, n), Covered(r, n)
    PROVE  Covered(q \o r, n)
<1>1. CatDoes(q, r)
  BY CatFacts
<1>2. PICK z : z = q \o r
  OBVIOUS
<1>3. /\ Len(q) \in Nat /\ DOMAIN q = 1 .. Len(q) /\ DOMAIN r = 1 .. Len(r) /\ Len(r) \in Nat
      /\ DOMAIN z = 1 .. Len(q) + Len(r)
      /\ \A i \in DOMAIN q : i \in DOMAIN z /\ z[i] = q[i]
      /\ \A i \in DOMAIN r : Len(q) + i \in DOMAIN z /\ z[Len(q) + i] = r[i]
      /\ \A i \in DOMAIN z :
            \/ i \in DOMAIN q /\ z[i] = q[i]
            \/ i - Len(q) \in DOMAIN r /\ z[i] = r[i - Len(q)]
  BY <1>1, <1>2, Zenon DEF CatDoes
<1> SUFFICES ASSUME NEW i \in DOMAIN z, z[i].t = "DATA"
             PROVE  \/ z[i].id <= n
                    \/ \E k \in DOMAIN z : k < i /\ z[k].t = "HEADERS" /\ z[k].id = z[i].id
  BY <1>2 DEF Covered
<1>4. CASE i \in DOMAIN q /\ z[i] = q[i]
  BY <1>3, <1>4 DEF Covered
<1>5. CASE i - Len(q) \in DOMAIN r /\ z[i] = r[i - Len(q)]
  <2>1. PICK j \in DOMAIN r : j = i - Len(q) /\ z[i] = r[j]
    BY <1>5
  <2>2. CASE r[j].id <= n
    BY <2>1, <2>2
  <2>3. ASSUME NEW k \in DOMAIN r, k < j, r[k].t = "HEADERS", r[k].id = r[j].id
        PROVE  \E l \in DOMAIN z : l < i /\ z[l].t = "HEADERS" /\ z[l].id = z[i].id
    <3>1. Len(q) + k \in DOMAIN z /\ z[Len(q) + k] = r[k] /\ Len(q) + k < i
      BY <1>3, <2>1, <2>3
    <3> QED  BY <2>1, <2>3, <3>1
  <2> QED  BY <2>1, <2>2, <2>3 DEF Covered
<1> QED  BY <1>3, <1>4, <1>5

LEMMA One ==
    ASSUME NEW S, NEW x \in S
    PROVE  <<x>> \in Seq(S) /\ Len(<<x>>) = 1 /\ <<x>>[1] = x /\ DOMAIN <<x>> = 1 .. 1
  OBVIOUS

LEMMA MessageParts ==
    ASSUME NEW r, NEW id, NEW block, NEW none \in BOOLEAN, IsMessage(r, id, block, none)
    PROVE  \E h, d : MessageDoes(r, h, d, id, block, none)
<1>1. PICK h, d : /\ IsFrame(h, "HEADERS", id, block, 0, none)
                  /\ IsFrame(d, "DATA", id, <<>>, 1, TRUE)
                  /\ r = <<h>> \o (IF none THEN <<>> ELSE <<d>>)
  BY Zenon DEF IsMessage
<1>2. h \in FrameRec /\ d \in FrameRec
  BY <1>1 DEF IsFrame
<1>3. PICK x \in Seq(FrameRec) : x = <<h>> /\ Len(x) = 1 /\ x[1] = h
  BY <1>2, One, Zenon
<1>4. CASE none
  <2>1. r = x \o <<>>
    BY <1>1, <1>3, <1>4, Zenon
  <2>2. x \o <<>> = x
    BY ConcatEmptySeq
  <2>3. DOMAIN x = 1 .. 1
    BY <1>3
  <2> QED  BY <1>1, <1>3, <1>4, <2>1, <2>2, <2>3, Zenon DEF MessageDoes
<1>5. CASE ~none
  <2>1. PICK y \in Seq(FrameRec) : y = <<d>> /\ Len(y) = 1 /\ y[1] = d
    BY <1>2, One, Zenon
  <2>2. PICK z \in Seq(FrameRec) : z = x \o y
    BY ConcatProperties, Zenon
  <2>3. Len(z) = 2 /\ z[1] = h /\ z[2] = d
    <3>1. /\ Len(x \o y) = Len(x) + Len(y)
          /\ \A i \in 1 .. Len(x) + Len(y) : (x \o y)[i] = IF i <= Len(x) THEN x[i] ELSE y[i - Len(x)]
      BY ConcatProperties
    <3>2. Len(z) = 2 /\ \A i \in 1 .. 2 : z[i] = IF i <= 1 THEN x[i] ELSE y[i - 1]
      BY <1>3, <2>1, <2>2, <3>1
    <3>3. 1 \in 1 .. 2 /\ 2 \in 1 .. 2 /\ 2 - 1 = 1 /\ ~(2 <= 1)
      OBVIOUS
    <3> QED  BY <1>3, <2>1, <3>2, <3>3
  <2>4. r = z
    BY <1>1, <1>3, <1>5, <2>1, <2>2, Zenon
  <2>5. DOMAIN z = 1 .. 2
    BY <2>3
  <2> QED  BY <1>1, <1>5, <2>3, <2>4, <2>5, Zenon DEF MessageDoes
<1> QED  BY <1>4, <1>5

LEMMA MessageRange ==
    ASSUME NEW r, NEW id, NEW block, NEW none \in BOOLEAN, IsMessage(r, id, block, none)
    PROVE  \E h, d : MessageSet(r, h, d, id, block, none)
<1> USE DEF MessageSet
<1>1. PICK h, d : MessageDoes(r, h, d, id, block, none)
  BY MessageParts
<1>2. CASE none
  <2>1. 1 .. 1 = {1}
    OBVIOUS
  <2>2. DOMAIN r = {1} /\ r[1] = h
    BY <1>1, <1>2, <2>1 DEF MessageDoes
  <2>3. Range(r) = {h}
    BY <2>2 DEF Range
  <2> QED  BY <1>1, <1>2, <2>3, Zenon DEF MessageDoes
<1>3. CASE ~none
  <2>1. 1 .. 2 = {1, 2}
    OBVIOUS
  <2>2. DOMAIN r = {1, 2} /\ r[1] = h /\ r[2] = d
    BY <1>1, <1>3, <2>1 DEF MessageDoes
  <2>3. Range(r) = {h, d}
    BY <2>2 DEF Range
  <2> QED  BY <1>1, <1>3, <2>3, Zenon DEF MessageDoes
<1> QED  BY <1>2, <1>3, Zenon

LEMMA MessageCovered ==
    ASSUME NEW r, NEW id, NEW block, NEW none \in BOOLEAN, NEW n, IsMessage(r, id, block, none)
    PROVE  Covered(r, n)
<1>1. PICK h, d : MessageDoes(r, h, d, id, block, none)
  BY MessageParts
<1>2. h.t = "HEADERS" /\ h.id = id /\ d.id = id
  BY <1>1 DEF MessageDoes, IsFrame
<1>3. 1 \in DOMAIN r /\ r[1] = h /\ \A i \in DOMAIN r : r[i] = h \/ (1 < i /\ r[i] = d)
  BY <1>1 DEF MessageDoes
<1> QED  BY <1>2, <1>3 DEF Covered

\* What handleRecvData sends back.
LEMMA OutFacts ==
    ASSUME NEW id \in Int, NEW n \in Int, NEW m \in Int
    PROVE  /\ Updates(0, n) \o Updates(id, m) \in Seq(FrameRec)
           /\ \A x \in Range(Updates(0, n) \o Updates(id, m)) :
                 x \in FrameRec /\ x.t = "WINDOW_UPDATE" /\ x.id \in {0, id}
<1>1. ASSUME NEW k \in Int, NEW j \in Int
      PROVE  /\ Updates(k, j) \in Seq(FrameRec)
             /\ \A x \in Range(Updates(k, j)) : x \in FrameRec /\ x.t = "WINDOW_UPDATE" /\ x.id = k
  <2>1. IsFrame(WINDOW_UPDATE(k, j), "WINDOW_UPDATE", k, <<>>, j, FALSE)
    BY FrameFacts, Zenon
  <2>2. /\ Updates(k, j) \in Seq(FrameRec)
        /\ Updates(k, j) = <<>> \/ Updates(k, j) = <<WINDOW_UPDATE(k, j)>>
    BY UpdatesFacts
  <2>3. Range(Updates(k, j)) \subseteq {WINDOW_UPDATE(k, j)}
    BY <2>2, RangeOne, RangeEmpty
  <2> QED  BY <2>1, <2>2, <2>3 DEF IsFrame
<1>2. PICK x \in Seq(FrameRec), y \in Seq(FrameRec) : x = Updates(0, n) /\ y = Updates(id, m)
  BY <1>1
<1>3. x \o y \in Seq(FrameRec) /\ Range(x \o y) = Range(x) \union Range(y)
  BY ConcatProperties, RangeConcatenation
<1>4. \A z \in Range(x) : z \in FrameRec /\ z.t = "WINDOW_UPDATE" /\ z.id = 0
  BY <1>1, <1>2
<1>5. \A z \in Range(y) : z \in FrameRec /\ z.t = "WINDOW_UPDATE" /\ z.id = id
  BY <1>1, <1>2
<1> QED  BY <1>2, <1>3, <1>4, <1>5

LEMMA QueueTypes ==
    ASSUME TypeOK, Step
    PROVE  QueuesTyped'
<1> USE DEF QueuesTyped
<1>1. PICK q \in Seq(FrameRec \union AskRec), s \in Seq(FrameRec), c \in Seq(FrameRec) :
         q = queue /\ s = toSrv /\ c = toCli
  BY Zenon DEF TypeOK
<1>2. /\ (q # <<>> => Tail(q) \in Seq(FrameRec \union AskRec))
      /\ (s # <<>> => Tail(s) \in Seq(FrameRec)) /\ (c # <<>> => Tail(c) \in Seq(FrameRec))
  BY HeadTail
<1>3. ASSUME NEW f \in Fibers, FiberStep(f) PROVE QueuesTyped'
  <2>1. CASE \E header \in Headers, body \in {0, 1} : NewStreamStep(f, header, body)
    BY <1>1, <2>1 DEF NewStreamStep, WireKept
  <2>2. CASE RequestStep(f)
    <3>1. PICK a \in AskRec : queue' = Append(q, a)
      BY <1>1, <2>2 DEF RequestStep, RequestDoes
    <3>2. a \in FrameRec \union AskRec
      OBVIOUS
    <3> QED  BY <1>1, <2>2, <3>1, <3>2, AppendProperties DEF RequestStep, WireKept
  <2>3. CASE DueStep(f) \/ OnTimeOutStep(f)
    BY <1>1, <2>3 DEF DueStep, OnTimeOutStep, WireKept
  <2> QED  BY <1>3, <2>1, <2>2, <2>3 DEF FiberStep
<1>4. CASE CliWriteStep
  <2>1. queue' \in Seq(FrameRec \union AskRec) /\ toCli' \in Seq(FrameRec)
    BY <1>1, <1>2, <1>4 DEF CliWriteStep
  <2>2. CASE Head(queue) \in FrameRec /\ toSrv' = Append(toSrv, Head(queue))
    <3>1. PICK x \in FrameRec : toSrv' = Append(s, x)
      BY <1>1, <2>2
    <3> QED  BY <2>1, <3>1, AppendProperties
  <2>3. CASE \E f \in Fibers : toSrv' = toSrv \/ WroteRequest(f)
    <3>1. PICK f \in Fibers : toSrv' = s \/ WroteRequest(f)
      BY <1>1, <2>3
    <3>2. CASE WroteRequest(f)
      <4>1. PICK r, id, block, none : IsMessage(r, id, block, none) /\ toSrv' = s \o r
        BY <1>1, <3>2, Zenon DEF WroteRequest
      <4> QED  BY <2>1, <4>1, MessageType
    <3> QED  BY <1>1, <2>1, <3>1, <3>2
  <2> QED  BY <1>4, <2>2, <2>3 DEF CliWriteStep, CliWriteDoes
<1>5. CASE CliChargeStep
  BY <1>1, <1>5 DEF CliChargeStep, WireKept
<1>6. CASE ReconnectStep
  BY <1>6 DEF ReconnectStep, ReconnectDoes
<1>7. ASSUME NEW f \in FrameRec, ReaderStep(f) PROVE QueuesTyped'
  <2>1. CASE CliReadStep(f)
    BY <1>1, <1>2, <2>1, Zenon DEF CliReadStep, CliReadDoes
  <2>2. CASE CliHandleDeletedStep(f)
    BY <1>1, <1>2, <2>2 DEF CliHandleDeletedStep, CliHandleDeletedDoes
  <2>3. CASE SrvReadStep(f)
    <3>1. queue' = q /\ toSrv' \in Seq(FrameRec)
      BY <1>1, <1>2, <2>3 DEF SrvReadStep, ClientKept
    <3>2. CASE SrvWindowDoes(f)
      BY <1>1, <3>1, <3>2, Zenon DEF SrvWindowDoes
    <3>3. CASE SrvRefuseDoes(f)
      <4>1. PICK x \in FrameRec : toCli' = Append(c, x)
        BY <1>1, <3>3 DEF SrvRefuseDoes, IsFrame
      <4> QED  BY <3>1, <4>1, AppendProperties
    <3>4. CASE SrvAcceptDoes(f, Target(f))
      <4>1. PICK r \in StreamRec : r = Target(f)
        BY TargetType
      <4>2. PICK n \in Int, m \in Int, id \in Int :
               n = Refill(srv.recv - f.n) /\ m = Refill(r.recv - f.n) /\ id = f.id
        <5>0. srv.recv \in Int /\ r.recv \in Int /\ f.n \in Int /\ f.id \in Int
          BY Zenon DEF TypeOK, SrvRec, StreamRec, FrameRec
        <5>1. srv.recv - f.n \in Int /\ r.recv - f.n \in Int /\ f.id \in Int
          BY <5>0
        <5> QED  BY <5>1, RefillType, Zenon
      <4>3. toCli' = IF f.t = "DATA" THEN c \o (Updates(0, n) \o Updates(id, m)) ELSE c
        BY <1>1, <3>4, <4>1, <4>2 DEF SrvAcceptDoes
      <4>4. PICK o \in Seq(FrameRec) : o = Updates(0, n) \o Updates(id, m)
        BY OutFacts, Zenon
      <4>5. c \o o \in Seq(FrameRec)
        BY ConcatProperties
      <4> QED  BY <3>1, <4>3, <4>4, <4>5
    <3> QED  BY <2>3, <3>2, <3>3, <3>4 DEF SrvReadStep
  <2> QED  BY <1>7, <2>1, <2>2, <2>3 DEF ReaderStep
<1>8. ASSUME NEW f \in FrameRec, NEW r \in StreamRec, CliHandleStep(f, r) PROVE QueuesTyped'
  <2>1. toSrv' = s /\ toCli' \in Seq(FrameRec)
    BY <1>1, <1>2, <1>8, Zenon DEF CliHandleStep, CliHandleDoes
  <2>2. PICK n \in Int, m \in Int, id \in Int :
           n = Refill(cli.recv - f.n) /\ m = Refill(r.recv - f.n) /\ id = f.id
    <3>0. cli.recv \in Int /\ r.recv \in Int /\ f.n \in Int /\ f.id \in Int
      BY Zenon DEF TypeOK, CliRec, StreamRec, FrameRec
    <3>1. cli.recv - f.n \in Int /\ r.recv - f.n \in Int /\ f.id \in Int
      BY <3>0
    <3> QED  BY <3>1, RefillType, Zenon
  <2>3. queue' = IF f.t = "DATA" THEN q \o (Updates(0, n) \o Updates(id, m)) ELSE q
    BY <1>1, <1>8, <2>2, Zenon DEF CliHandleStep, CliHandleDoes
  <2>4. PICK o \in Seq(FrameRec) : o = Updates(0, n) \o Updates(id, m)
    BY OutFacts, Zenon
  <2>5. o \in Seq(FrameRec \union AskRec)
    BY SeqUnion
  <2>6. q \o o \in Seq(FrameRec \union AskRec)
    BY <2>5, ConcatProperties
  <2> QED  BY <2>1, <2>3, <2>4, <2>6
<1>9. ASSUME NEW id \in DOMAIN srv.streams, NEW r \in StreamRec, ServletStep(id, r) PROVE QueuesTyped'
  <2>1. CASE RespondStep(id, r)
    <3>1. PICK m, block, none : IsMessage(m, id, block, none) /\ toCli' = c \o m
      BY <1>1, <2>1, Zenon DEF RespondStep, RespondDoes
    <3>2. toCli' \in Seq(FrameRec)
      BY <3>1, MessageType
    <3> QED  BY <1>1, <2>1, <3>2 DEF RespondStep, ClientKept
  <2>2. CASE SrvDoneStep(id, r)
    BY <1>1, <2>2 DEF SrvDoneStep, ClientKept, WireKept
  <2> QED  BY <1>9, <2>1, <2>2 DEF ServletStep
<1>10. CASE Still
  BY <1>1, <1>10 DEF Still
<1> QED  BY <1>3, <1>4, <1>5, <1>6, <1>7, <1>8, <1>9, <1>10 DEF Step

LEMMA TypeStep ==
    ASSUME TypeOK, Step
    PROVE  TypeOK'
<1> DEFINE Parts ==
       /\ cli' \in CliRec /\ srv' \in SrvRec /\ req' \in [Fibers -> ReqRec] /\ connects' \in Nat
       /\ refused' \in SUBSET Int /\ skipped' \in BOOLEAN
       /\ goaways' \in SUBSET {"no stream", "overflow"}
       /\ timeouts' \in BOOLEAN /\ crashed' \in BOOLEAN
<1>1. /\ cli \in CliRec /\ srv \in SrvRec /\ req \in [Fibers -> ReqRec] /\ connects \in Nat
      /\ refused \in SUBSET Int /\ skipped \in BOOLEAN
      /\ goaways \in SUBSET {"no stream", "overflow"} /\ timeouts \in BOOLEAN /\ crashed \in BOOLEAN
  BY Zenon DEF TypeOK
<1>2. QueuesTyped'
  BY QueueTypes
<1> SUFFICES Parts
  BY <1>2, Zenon DEF TypeOK, QueuesTyped
<1>3. ASSUME NEW f \in Fibers, FiberStep(f) PROVE Parts
  <2>1. CASE \E header \in Headers, body \in {0, 1} : NewStreamStep(f, header, body)
    BY <1>1, <2>1, Zenon DEF NewStreamStep, NewStreamDoes, ServerKept, Rest
  <2>2. CASE RequestStep(f)
    BY <1>1, <2>2, Zenon DEF RequestStep, RequestDoes, ServerKept, Rest
  <2>3. CASE DueStep(f)
    BY <1>1, <2>3, Zenon DEF DueStep, DueDoes, ServerKept, Rest
  <2>4. CASE OnTimeOutStep(f)
    <3>1. timeouts' \in BOOLEAN
      BY <2>4 DEF OnTimeOutStep
    <3> QED  BY <1>1, <2>4, <3>1, Zenon DEF OnTimeOutStep, OnTimeOutDoes, ServerKept
  <2> QED  BY <1>3, <2>1, <2>2, <2>3, <2>4, Zenon DEF FiberStep
<1>4. CASE CliWriteStep
  <2>1. cli' \in CliRec
    BY <1>1, <1>4, Zenon DEF CliWriteStep, CliWriteDoes, WroteRequest
  <2> QED  BY <1>1, <1>4, <2>1, Zenon DEF CliWriteStep, ServerKept, Rest
<1>5. CASE CliChargeStep
  BY <1>1, <1>5, Zenon DEF CliChargeStep, CliChargeDoes, ServerKept, Rest
<1>6. CASE ReconnectStep
  <2>1. connects' \in Nat
    <3>1. connects' = connects + 1
      BY <1>6, Zenon DEF ReconnectStep, ReconnectDoes
    <3>2. PICK n \in Nat : n = connects
      BY <1>1, Zenon
    <3>3. n + 1 \in Nat
      OBVIOUS
    <3> QED  BY <3>1, <3>2, <3>3, Zenon
  <2>2. refused' \in SUBSET Int
    BY <1>6 DEF ReconnectStep, ReconnectDoes
  <2> QED  BY <1>1, <1>6, <2>1, <2>2, Zenon DEF ReconnectStep, ReconnectDoes
<1>7. ASSUME NEW f \in FrameRec, ReaderStep(f) PROVE Parts
  <2>1. f.id \in Int /\ f.end \in BOOLEAN
    BY DEF FrameRec
  <2>2. CASE CliReadStep(f)
    <3>1. cli' \in CliRec /\ goaways' \in SUBSET {"no stream", "overflow"}
      BY <1>1, <2>2, Zenon DEF CliReadStep, CliReadDoes
    <3>2. skipped' \in BOOLEAN
      BY <1>1, <2>2, Zenon DEF CliReadStep, CliReadDoes
    <3> QED  BY <1>1, <2>2, <3>1, <3>2, Zenon DEF CliReadStep, ServerKept
  <2>3. CASE CliHandleDeletedStep(f)
    BY <1>1, <2>1, <2>3, Zenon DEF CliHandleDeletedStep, CliHandleDeletedDoes, ServerKept, Rest
  <2>4. CASE SrvReadStep(f)
    <3>1. srv' \in SrvRec /\ goaways' \in SUBSET {"no stream", "overflow"}
      BY <1>1, <2>4, Zenon DEF SrvReadStep, SrvWindowDoes, SrvRefuseDoes, SrvAcceptDoes
    <3>2. refused' = refused \/ refused' = refused \union {f.id}
      BY <2>4, Zenon DEF SrvReadStep, SrvWindowDoes, SrvRefuseDoes, SrvAcceptDoes
    <3>3. refused' \in SUBSET Int
      BY <1>1, <2>1, <3>2, Zenon
    <3>4. skipped' = skipped \/ skipped' = TRUE
      BY <2>4, Zenon DEF SrvReadStep, SrvWindowDoes, SrvRefuseDoes, SrvAcceptDoes
    <3>5. skipped' \in BOOLEAN
      BY <1>1, <3>4, Zenon
    <3> QED  BY <1>1, <2>4, <3>1, <3>3, <3>5, Zenon DEF SrvReadStep, ClientKept
  <2> QED  BY <1>7, <2>2, <2>3, <2>4, Zenon DEF ReaderStep
<1>8. ASSUME NEW f \in FrameRec, NEW s \in StreamRec, CliHandleStep(f, s) PROVE Parts
  <2>1. f.end \in BOOLEAN /\ s.null \in BOOLEAN
    BY DEF FrameRec, StreamRec
  <2>2. crashed' \in BOOLEAN
    BY <1>8, <2>1, Zenon DEF CliHandleStep, CliHandleDoes
  <2>3. cli' \in CliRec /\ req' \in [Fibers -> ReqRec]
    BY <1>1, <1>8, Zenon DEF CliHandleStep, CliHandleDoes
  <2> QED  BY <1>1, <1>8, <2>2, <2>3, Zenon DEF CliHandleStep, ServerKept, Rest
<1>9. ASSUME NEW id \in DOMAIN srv.streams, NEW s \in StreamRec, ServletStep(id, s) PROVE Parts
  BY <1>1, <1>9, Zenon
  DEF ServletStep, RespondStep, RespondDoes, SrvDoneStep, SrvDoneDoes, ClientKept, Rest
<1>10. CASE Still
  BY <1>1, <1>10, Zenon DEF Still
<1> HIDE DEF Parts
<1> QED  BY <1>3, <1>4, <1>5, <1>6, <1>7, <1>8, <1>9, <1>10 DEF Step

LEMMA HeadCat ==
    ASSUME NEW S, NEW q \in Seq(S), NEW r \in Seq(S), q # <<>>
    PROVE  q \o r # <<>> /\ Head(q \o r) = Head(q)
<1>1. PICK z \in Seq(S) : z = q \o r
  BY CatFacts, Zenon
<1>2. Len(q) \in Nat /\ Len(q) > 0 /\ 1 \in DOMAIN q /\ q[1] = Head(q)
  BY HeadTail
<1>3. 1 \in DOMAIN z /\ z[1] = q[1]
  BY <1>1, <1>2, CatFacts DEF CatDoes
<1>4. z # <<>>
  BY <1>3
<1>5. z[1] = Head(z)
  BY <1>4, HeadTail
<1> QED  BY <1>1, <1>2, <1>3, <1>4, <1>5

LEMMA NothingFed ==
    ASSUME TypeOK, toCli' = toCli
    PROVE  CliFed(<<>>)
<1>1. PICK c \in Seq(FrameRec) : c = toCli
  BY Zenon DEF TypeOK
<1>2. c \o <<>> = c /\ <<>> \in Seq(FrameRec)
  BY ConcatEmptySeq
<1> QED  BY <1>1, <1>2 DEF CliFed

LEMMA SrvReadAdds ==
    ASSUME TypeOK, NEW f \in FrameRec, SrvReadStep(f)
    PROVE  \E r : CliFed(r) /\ SrvReadAnswers(f, r)
<1>1. PICK c \in Seq(FrameRec) : c = toCli
  BY Zenon DEF TypeOK
<1>2. GaveUpdates(<<>>, f.id)
  BY RangeEmpty DEF GaveUpdates
<1>3. CASE SrvWindowDoes(f)
  <2>1. CliFed(<<>>)
    BY <1>3, NothingFed, Zenon DEF SrvWindowDoes
  <2> QED  BY <1>2, <1>3, <2>1 DEF SrvReadAnswers
<1>4. CASE SrvRefuseDoes(f)
  <2>1. PICK x \in FrameRec : toCli' = Append(c, x) /\ x.t = "RST_STREAM" /\ x.id = srv.sn
    BY <1>1, <1>4 DEF SrvRefuseDoes, IsFrame
  <2>2. PICK r \in Seq(FrameRec) : r = <<x>> /\ Append(c, x) = c \o r
    BY AppendCat, Zenon
  <2>3. Range(r) = {x}
    BY <2>2, RangeOne
  <2>4. GaveReset(r) /\ CliFed(r)
    BY <1>1, <2>1, <2>2, <2>3 DEF GaveReset, CliFed
  <2> QED  BY <1>4, <2>4 DEF SrvReadAnswers
<1>5. CASE SrvAcceptDoes(f, Target(f))
  <2>1. CASE f.t # "DATA"
    <3>1. CliFed(<<>>)
      BY <1>5, <2>1, NothingFed DEF SrvAcceptDoes
    <3> QED  BY <1>2, <1>5, <3>1 DEF SrvReadAnswers
  <2>2. CASE f.t = "DATA"
    <3>1. PICK r \in StreamRec : r = Target(f)
      BY TargetType
    <3>2. srv.recv \in Int /\ r.recv \in Int /\ f.n \in Int /\ f.id \in Int
      BY Zenon DEF TypeOK, SrvRec, StreamRec, FrameRec
    <3>3. srv.recv - f.n \in Int /\ r.recv - f.n \in Int
      BY <3>2
    <3>4. PICK n \in Int, m \in Int, id \in Int :
             n = Refill(srv.recv - f.n) /\ m = Refill(r.recv - f.n) /\ id = f.id
      BY <3>2, <3>3, RefillType, Zenon
    <3>5. PICK o \in Seq(FrameRec) :
             /\ o = Updates(0, n) \o Updates(id, m)
             /\ \A x \in Range(o) : x.t = "WINDOW_UPDATE" /\ x.id \in {0, id}
      BY OutFacts, Zenon
    <3>6. toCli' = toCli \o o
      BY <1>5, <2>2, <3>1, <3>4, <3>5 DEF SrvAcceptDoes
    <3>7. CliFed(o) /\ GaveUpdates(o, f.id)
      BY <3>4, <3>5, <3>6 DEF CliFed, GaveUpdates
    <3> QED  BY <1>5, <3>7 DEF SrvReadAnswers
  <2> QED  BY <2>1, <2>2
<1> QED  BY <1>3, <1>4, <1>5 DEF SrvReadStep

LEMMA RespondAdds ==
    ASSUME TypeOK, NEW id \in DOMAIN srv.streams, NEW s \in StreamRec, RespondStep(id, s)
    PROVE  \E r : CliFed(r) /\ Responds(id, s, r)
<1>1. PICK c \in Seq(FrameRec) : c = toCli
  BY Zenon DEF TypeOK
<1>2. PICK none : none = (s.body = 0)
  OBVIOUS
<1>0. PICK block \in Seq(Field) : \E r : IsMessage(r, id, block, none) /\ toCli' = c \o r
  BY <1>1, <1>2, Zenon DEF RespondStep, RespondDoes
<1>3. PICK r : IsMessage(r, id, block, none) /\ toCli' = c \o r
  BY <1>0
<1>4. r \in Seq(FrameRec)
  BY <1>3, MessageType
<1> QED  BY <1>1, <1>2, <1>3, <1>4, Zenon DEF CliFed, Responds

LEMMA ServerAdds ==
    ASSUME TypeOK,
           \/ \E f \in FrameRec : SrvReadStep(f)
           \/ \E id \in DOMAIN srv.streams, s \in StreamRec : ServletStep(id, s)
    PROVE  \E r : CliFed(r)
<1>1. ASSUME NEW id \in DOMAIN srv.streams, NEW s \in StreamRec, SrvDoneStep(id, s) PROVE \E r : CliFed(r)
  BY <1>1, NothingFed DEF SrvDoneStep, WireKept
<1> QED  BY <1>1, SrvReadAdds, RespondAdds DEF ServletStep

LEMMA HeldStep ==
    ASSUME TypeOK, HeldOk, Step
    PROVE  HeldOk'
<1>1. ASSUME NEW f \in Fibers, FiberStep(f) PROVE HeldOk'
  <2>1. CASE \E header \in Headers, body \in {0, 1} : NewStreamStep(f, header, body)
    BY <2>1 DEF HeldOk, NewStreamStep, NewStreamDoes, WireKept
  <2>2. CASE RequestStep(f)
    BY <2>2 DEF HeldOk, RequestStep, RequestDoes, WireKept
  <2>3. CASE DueStep(f)
    BY <2>3 DEF HeldOk, DueStep, WireKept
  <2>4. CASE OnTimeOutStep(f)
    BY <2>4, Http2Assumption DEF HeldOk, OnTimeOutStep, OnTimeOutDoes, WireKept
  <2> QED  BY <1>1, <2>1, <2>2, <2>3, <2>4 DEF FiberStep
<1>2. CASE CliWriteStep
  BY <1>2 DEF HeldOk, CliWriteStep, CliWriteDoes, WroteRequest
<1>3. CASE CliChargeStep
  BY <1>3 DEF HeldOk, CliChargeStep, CliChargeDoes, OnlySend, WireKept
<1>4. CASE ReconnectStep
  BY <1>4, Http2Assumption DEF HeldOk, ReconnectStep, ReconnectDoes
<1>5. ASSUME NEW f \in FrameRec, CliReadStep(f) PROVE HeldOk'
  BY <1>5, Http2Assumption, Zenon DEF HeldOk, CliReadStep, CliReadDoes
<1>6. ASSUME NEW f \in FrameRec, CliHandleDeletedStep(f) PROVE HeldOk'
  BY <1>6, Http2Assumption DEF HeldOk, CliHandleDeletedStep, CliHandleDeletedDoes
<1>7. ASSUME NEW f \in FrameRec, NEW s \in StreamRec, CliHandleStep(f, s) PROVE HeldOk'
  BY <1>7, Http2Assumption, Zenon DEF HeldOk, CliHandleStep, CliHandleDoes
<1>8. ASSUME \/ \E f \in FrameRec : SrvReadStep(f)
             \/ \E id \in DOMAIN srv.streams, s \in StreamRec : ServletStep(id, s)
      PROVE  HeldOk'
  <2>1. PICK r : CliFed(r)
    BY <1>8, ServerAdds
  <2>2. cli' = cli
    BY <1>8 DEF SrvReadStep, ServletStep, RespondStep, SrvDoneStep, ClientKept
  <2>3. PICK c \in Seq(FrameRec) : c = toCli
    BY Zenon DEF TypeOK
  <2>4. c # <<>> => toCli' # <<>> /\ Head(toCli') = Head(c)
    BY <2>1, <2>3, HeadCat DEF CliFed
  <2>5. cli.held # None => toCli' # <<>> /\ Head(toCli') = Head(toCli)
    BY <2>3, <2>4 DEF HeldOk
  <2>6. cli.held = "in" => cli.held # None
    BY Http2Assumption
  <2> QED  BY <2>2, <2>5, <2>6, Zenon DEF HeldOk
<1>9. CASE Still
  BY <1>9 DEF HeldOk, Still
<1> QED  BY <1>1, <1>2, <1>3, <1>4, <1>5, <1>6, <1>7, <1>8, <1>9 DEF Step, ReaderStep

LEMMA WriterAdds ==
    ASSUME TypeOK, Led, CliWriteStep
    PROVE  \E r : SrvFed(r) /\ WriterDoes(r)
<1>1. PICK s \in Seq(FrameRec), q \in Seq(FrameRec \union AskRec) : s = toSrv /\ q = queue /\ q # <<>>
  BY Zenon DEF TypeOK, CliWriteStep
<1>2. CASE Head(queue) \in FrameRec /\ Head(queue).t # "request" /\ toSrv' = Append(toSrv, Head(queue)) /\ cli' = cli
  <2>1. PICK x \in FrameRec : x = Head(q)
    BY <1>1, <1>2
  <2>2. x \in Range(q)
    BY <1>1, <2>1, RangeTail
  <2>3. x.t = "WINDOW_UPDATE"
    BY <1>1, <1>2, <2>1, <2>2 DEF Led
  <2>4. Append(s, x) = s \o <<x>> /\ <<x>> \in Seq(FrameRec)
    BY AppendCat
  <2>5. Range(<<x>>) = {x}
    BY RangeOne
  <2>6. OnlyUpdates(<<x>>)
    BY <2>3, <2>5 DEF OnlyUpdates
  <2> QED  BY <1>1, <1>2, <2>1, <2>3, <2>4, <2>6, Zenon DEF SrvFed, WriterDoes
<1>3. ASSUME NEW f \in Fibers, Head(queue).t = "request", Head(queue).f = f,
             req[f].sn \notin DOMAIN cli.streams, toSrv' = toSrv, cli' = cli
      PROVE  \E r : SrvFed(r) /\ WriterDoes(r)
  <2>1. s \o <<>> = s /\ <<>> \in Seq(FrameRec)
    BY ConcatEmptySeq
  <2>2. AskDropped(f)
    BY <1>3 DEF AskDropped
  <2> QED  BY <1>1, <1>3, <2>1, <2>2, Zenon DEF SrvFed, WriterDoes
<1>4. ASSUME NEW f \in Fibers, Head(queue).t = "request", Head(queue).f = f, WroteRequest(f)
      PROVE  \E r : SrvFed(r) /\ WriterDoes(r)
  <2>0. PICK block \in Seq(Field) :
           block # <<>> /\ \E r : IsMessage(r, req[f].sn, block, req[f].body = 0) /\ toSrv' = toSrv \o r
    BY <1>4, Zenon DEF WroteRequest
  <2>1. PICK r :
           block # <<>> /\ IsMessage(r, req[f].sn, block, req[f].body = 0) /\ toSrv' = toSrv \o r
    BY <2>0, Zenon
  <2>2. r \in Seq(FrameRec)
    <3>1. PICK id, none : IsMessage(r, id, block, none)
      BY <2>1
    <3> QED  BY <1>1, <3>1, MessageType
  <2>3. req[f].sn \in DOMAIN cli.streams
    BY <1>4 DEF WroteRequest
  <2>4. AskWritten(f, r)
    BY <1>4, <2>1, <2>3 DEF AskWritten
  <2> QED  BY <2>1, <2>2, <2>4, Zenon DEF SrvFed, WriterDoes
<1> QED  BY <1>2, <1>3, <1>4 DEF CliWriteStep, CliWriteDoes

LEMMA ReaderAdds ==
    ASSUME TypeOK, NEW f \in FrameRec, NEW s \in StreamRec, CliHandleStep(f, s)
    PROVE  \E r : QueueFed(r, f.id)
<1>1. PICK q \in Seq(FrameRec \union AskRec) : q = queue
  BY Zenon DEF TypeOK
<1>2. CASE f.t # "DATA"
  <2>1. q \o <<>> = q /\ <<>> \in Seq(FrameRec) /\ <<>> \in Seq(FrameRec \union AskRec)
    BY ConcatEmptySeq
  <2>2. queue' = queue
    BY <1>2, Zenon DEF CliHandleStep, CliHandleDoes
  <2> QED  BY <1>1, <2>1, <2>2, RangeEmpty, Zenon DEF QueueFed
<1>3. CASE f.t = "DATA"
  <2>1. cli.recv \in Int /\ s.recv \in Int /\ f.n \in Int /\ f.id \in Int
    BY Zenon DEF TypeOK, CliRec, StreamRec, FrameRec
  <2>2. cli.recv - f.n \in Int /\ s.recv - f.n \in Int
    BY <2>1
  <2>3. PICK n \in Int, m \in Int, id \in Int :
           n = Refill(cli.recv - f.n) /\ m = Refill(s.recv - f.n) /\ id = f.id
    BY <2>1, <2>2, RefillType, Zenon
  <2>4. PICK o \in Seq(FrameRec) :
           /\ o = Updates(0, n) \o Updates(id, m)
           /\ \A x \in Range(o) : x \in FrameRec /\ x.t = "WINDOW_UPDATE" /\ x.id \in {0, id}
    BY OutFacts, Zenon
  <2>5. queue' = queue \o o
    BY <1>3, <2>3, <2>4, Zenon DEF CliHandleStep, CliHandleDoes
  <2>6. o \in Seq(FrameRec \union AskRec)
    BY SeqUnion
  <2> QED  BY <2>3, <2>4, <2>5, <2>6, Zenon DEF QueueFed
<1> QED  BY <1>2, <1>3

\* Who changes the queue, who changes toSrv and who the server.
LEMMA QueueCases ==
    ASSUME Step
    PROVE  \/ queue' = queue \/ CliWriteStep \/ ReconnectStep \/ (\E f \in Fibers : RequestStep(f))
           \/ (\E f \in FrameRec, s \in StreamRec : CliHandleStep(f, s))
  BY DEF Step, FiberStep, NewStreamStep, DueStep, OnTimeOutStep, CliChargeStep, ReaderStep,
         CliReadStep, CliHandleDeletedStep, SrvReadStep, ServletStep, RespondStep, SrvDoneStep,
         ClientKept, Still

LEMMA ServerCases ==
    ASSUME Step
    PROVE  \/ srv' = srv /\ toSrv' = toSrv
           \/ CliWriteStep /\ srv' = srv
           \/ ReconnectStep
           \/ (\E f \in FrameRec : SrvReadStep(f))
           \/ (\E id \in DOMAIN srv.streams, s \in StreamRec : ServletStep(id, s) /\ toSrv' = toSrv)
  BY DEF Step, FiberStep, NewStreamStep, RequestStep, DueStep, OnTimeOutStep, CliWriteStep, CliChargeStep,
         ReaderStep, CliReadStep, CliHandleStep, CliHandleDeletedStep, ServletStep, RespondStep,
         SrvDoneStep, WireKept, ServerKept, Still

LEMMA QueueKinds ==
    ASSUME TypeOK, Led, Step
    PROVE  \A x \in Range(queue') : x.t \in {"request", "WINDOW_UPDATE"}
<1> DEFINE Goal == \A x \in Range(queue') : x.t \in {"request", "WINDOW_UPDATE"}
<1>1. PICK q \in Seq(FrameRec \union AskRec) : q = queue
  BY Zenon DEF TypeOK
<1>2. \A x \in Range(q) : x.t \in {"request", "WINDOW_UPDATE"}
  BY <1>1 DEF Led
<1>3. queue' = queue => Goal
  BY <1>1, <1>2
<1>4. ASSUME NEW f \in Fibers, RequestStep(f) PROVE Goal
  <2>1. PICK a \in AskRec : a.t = "request" /\ queue' = Append(q, a)
    BY <1>1, <1>4 DEF RequestStep, RequestDoes
  <2>2. a \in FrameRec \union AskRec
    OBVIOUS
  <2>3. PICK o \in Seq(FrameRec \union AskRec) : o = <<a>> /\ Append(q, a) = q \o o
    BY <2>2, AppendCat, Zenon
  <2>4. Range(o) = {a}
    BY <2>3, RangeOne
  <2>5. Range(q \o o) = Range(q) \union Range(o)
    BY RangeConcatenation
  <2> QED  BY <1>2, <2>1, <2>3, <2>4, <2>5
<1>5. ASSUME CliWriteStep PROVE Goal
  <2>1. queue' = Tail(q) /\ q # <<>>
    BY <1>1, <1>5 DEF CliWriteStep
  <2> QED  BY <1>2, <2>1, RangeTail
<1>6. ASSUME ReconnectStep PROVE Goal
  BY <1>6, RangeEmpty DEF ReconnectStep, ReconnectDoes
<1>7. ASSUME NEW f \in FrameRec, NEW s \in StreamRec, CliHandleStep(f, s) PROVE Goal
  <2>1. PICK r \in Seq(FrameRec \union AskRec) :
           queue' = q \o r /\ \A x \in Range(r) : x.t = "WINDOW_UPDATE"
    BY <1>1, <1>7, ReaderAdds, Zenon DEF QueueFed
  <2>2. Range(q \o r) = Range(q) \union Range(r)
    BY RangeConcatenation
  <2> QED  BY <1>2, <2>1, <2>2
<1> HIDE DEF Goal
<1>8. Goal
  BY <1>3, <1>4, <1>5, <1>6, <1>7, QueueCases
<1> QED  BY <1>8 DEF Goal

LEMMA LedStep ==
    ASSUME TypeOK, Led, Step
    PROVE  Led'
<1>1. PICK s \in Seq(FrameRec), n \in Int : s = toSrv /\ n = srv.sn
  BY Zenon DEF TypeOK, SrvRec
<1>2. /\ \A x \in Range(s) : x.t # "RST_STREAM" /\ (x.t = "HEADERS" => x.block # <<>>)
      /\ Covered(s, n)
      /\ \A id \in DOMAIN srv.streams : srv.streams[id].headers # <<>> /\ id <= srv.sn
  BY <1>1 DEF Led
<1> DEFINE Wire == /\ \A x \in Range(toSrv') : x.t # "RST_STREAM" /\ (x.t = "HEADERS" => x.block # <<>>)
                   /\ Covered(toSrv', srv'.sn)
           Known == \A id \in DOMAIN srv'.streams : srv'.streams[id].headers # <<>> /\ id <= srv'.sn
<1>3. CASE srv' = srv /\ toSrv' = toSrv
  <2>1. Wire /\ Known
    BY <1>1, <1>2, <1>3
  <2> QED  BY <2>1, QueueKinds DEF Led
<1>4. CASE CliWriteStep /\ srv' = srv
  <2>1. PICK r \in Seq(FrameRec) : toSrv' = s \o r /\ WriterDoes(r)
    BY <1>1, <1>4, WriterAdds, Zenon DEF SrvFed
  <2>2. /\ \A x \in Range(r) : x.t # "RST_STREAM" /\ (x.t = "HEADERS" => x.block # <<>>)
        /\ Covered(r, n)
    <3>1. CASE OnlyUpdates(r)
      <4>1. \A i \in DOMAIN r : r[i] \in Range(r)
        BY DEF Range
      <4> QED  BY <3>1, <4>1 DEF OnlyUpdates, Covered
    <3>2. CASE r = <<>>
      BY <3>2, RangeEmpty DEF Covered
    <3>3. ASSUME NEW f \in Fibers, AskWritten(f, r)
          PROVE  /\ \A x \in Range(r) : x.t # "RST_STREAM" /\ (x.t = "HEADERS" => x.block # <<>>)
                 /\ Covered(r, n)
      <4>0. PICK id, none : id = req[f].sn /\ none = (req[f].body = 0)
        OBVIOUS
      <4>1. PICK block \in Seq(Field) :
               none \in BOOLEAN /\ block # <<>> /\ IsMessage(r, id, block, none)
        BY <3>3, <4>0 DEF AskWritten
      <4>2. Covered(r, n)
        BY <4>1, MessageCovered
      <4>3. PICK h, d : MessageSet(r, h, d, id, block, none)
        BY <4>1, MessageRange
      <4>4. h.t = "HEADERS" /\ h.block = block /\ d.t = "DATA"
        BY <4>3 DEF MessageSet, IsFrame
      <4>5. Range(r) \subseteq {h, d}
        BY <4>3 DEF MessageSet
      <4> QED  BY <4>1, <4>2, <4>4, <4>5
    <3> QED  BY <2>1, <3>1, <3>2, <3>3 DEF WriterDoes
  <2>3. Range(s \o r) = Range(s) \union Range(r)
    BY RangeConcatenation
  <2>4. Covered(s \o r, n)
    BY <1>2, <2>2, CoveredCat
  <2>5. Wire
    BY <1>1, <1>2, <1>4, <2>1, <2>2, <2>3, <2>4
  <2>6. Known
    BY <1>2, <1>4
  <2> QED  BY <2>5, <2>6, QueueKinds DEF Led
<1>5. CASE ReconnectStep
  <2>1. toSrv' = <<>> /\ DOMAIN srv'.streams = {}
    BY <1>5 DEF ReconnectStep, ReconnectDoes
  <2>2. Covered(<<>>, srv'.sn)
    BY DEF Covered
  <2>3. Wire /\ Known
    BY <2>1, <2>2, RangeEmpty
  <2> QED  BY <2>3, QueueKinds DEF Led
<1>6. ASSUME NEW f \in FrameRec, SrvReadStep(f) PROVE Led'
  <2>1. s # <<>> /\ f = Head(s) /\ toSrv' = Tail(s) /\ Range(s) = {f} \union Range(Tail(s))
    BY <1>1, <1>6, RangeTail DEF SrvReadStep
  <2>2. f.t # "RST_STREAM" /\ (f.t = "HEADERS" => f.block # <<>>)
    BY <1>2, <2>1
  <2>3. f.t = "DATA" => f.id <= n
    <3>1. 1 \in DOMAIN s /\ s[1] = f /\ \A k \in DOMAIN s : ~(k < 1)
      BY <2>1, HeadTail
    <3> QED  BY <1>2, <3>1 DEF Covered
  <2>4. f.id \in Int /\ f.t \in {"HEADERS", "DATA", "WINDOW_UPDATE", "RST_STREAM"} /\ f.block \in Seq(Field)
    BY DEF FrameRec
  <2>5. /\ srv'.sn \in Int /\ n <= srv'.sn /\ (f.t = "HEADERS" => f.id <= srv'.sn)
        /\ Known
    <3>1. CASE SrvWindowDoes(f)
      <4>1. srv'.sn = srv.sn /\ DOMAIN srv'.streams = DOMAIN srv.streams
            /\ \A id \in DOMAIN srv.streams : srv'.streams[id].headers = srv.streams[id].headers
        BY <3>1, Zenon DEF SrvWindowDoes, OnlySend, Alike
      <4>2. f.t = "WINDOW_UPDATE"
        BY <3>1, Zenon DEF SrvWindowDoes
      <4> QED  BY <1>1, <1>2, <4>1, <4>2
    <3>2. CASE SrvRefuseDoes(f)
      BY <1>1, <1>2, <3>2 DEF SrvRefuseDoes
    <3>3. CASE SrvAcceptDoes(f, Target(f))
      <4>1. PICK r \in StreamRec, T \in Table : r = Target(f) /\ T = srv.recvTable
        BY TargetType, Zenon DEF TypeOK, SrvRec
      <4>2. /\ f.id \in DOMAIN srv.streams \/ ~(f.id <= srv.sn)
            /\ srv'.sn = IF f.id \in DOMAIN srv.streams THEN srv.sn ELSE f.id
            /\ DOMAIN srv'.streams = DOMAIN srv.streams \union {f.id}
            /\ \A id \in DOMAIN srv.streams : id # f.id => srv'.streams[id] = srv.streams[id]
            /\ srv'.streams[f.id].headers = Fed(r, f, T).headers
            /\ f.t # "WINDOW_UPDATE"
        BY <3>3, <4>1 DEF SrvAcceptDoes, Handed
      <4>3. srv'.streams[f.id].headers # <<>>
        <5>1. r.headers \in Seq(Pair)
          BY DEF StreamRec
        <5>2. CASE f.t = "HEADERS"
          <6>1. PICK hs \in Seq(Pair) : hs = parse(T, f.block).headers /\ (f.block # <<>> => hs # <<>>)
            BY <2>4, ParseType
          <6>2. Len(f.block) # 0
            BY <2>2, <2>4, <5>2, EmptySeq
          <6>3. PICK rs \in Seq(Pair) : rs = r.headers
            BY <5>1
          <6>4. Len(rs \o hs) = Len(rs) + Len(hs) /\ Len(rs) \in Nat /\ Len(hs) \in Nat
            BY ConcatProperties, LenProperties
          <6>5. rs \o hs # <<>>
            <7>1. Len(rs \o hs) # 0
              BY <6>1, <6>2, <6>4
            <7> QED  BY <7>1
          <6>6. Fed(r, f, T).headers = rs \o hs
            BY <5>2, <6>1, <6>3, Zenon DEF Fed
          <6> QED  BY <4>2, <6>5, <6>6
        <5>3. CASE f.t = "DATA"
          <6>1. f.id \in DOMAIN srv.streams
            BY <1>1, <2>3, <4>2, <5>3
          <6>2. r.headers # <<>>
            BY <1>2, <4>1, <6>1 DEF Target
          <6>3. Fed(r, f, T).headers = r.headers
            BY <5>3 DEF Fed
          <6> QED  BY <4>2, <6>2, <6>3
        <5> QED  BY <2>2, <2>4, <4>2, <5>2, <5>3
      <4>4. srv'.sn \in Int /\ n <= srv'.sn /\ f.id <= srv'.sn
        BY <1>1, <1>2, <2>4, <4>2
      <4>5. ASSUME NEW id \in DOMAIN srv'.streams
            PROVE  srv'.streams[id].headers # <<>> /\ id <= srv'.sn
        <5>1. CASE id = f.id
          BY <4>3, <4>4, <5>1
        <5>2. CASE id # f.id
          <6>1. id \in DOMAIN srv.streams /\ id \in Int
            BY <4>2, <5>2, StreamAt
          <6>2. id <= n /\ srv'.streams[id].headers # <<>>
            BY <1>1, <1>2, <4>2, <5>2, <6>1
          <6> QED  BY <4>4, <6>1, <6>2
        <5> QED  BY <5>1, <5>2
      <4> QED  BY <4>4, <4>5
    <3> QED  BY <1>6, <3>1, <3>2, <3>3 DEF SrvReadStep
  <2>6. Covered(Tail(s), srv'.sn)
    <3>1. PICK m \in Int : m = srv'.sn
      BY <2>5
    <3> QED  BY <1>2, <2>1, <2>5, <3>1, CoveredTail
  <2>7. Wire
    BY <1>2, <2>1, <2>6
  <2> QED  BY <2>5, <2>7, QueueKinds DEF Led
<1>7. ASSUME NEW id \in DOMAIN srv.streams, NEW r \in StreamRec, ServletStep(id, r), toSrv' = toSrv
      PROVE  Led'
  <2>1. /\ srv'.sn = srv.sn /\ DOMAIN srv'.streams \subseteq DOMAIN srv.streams
        /\ \A k \in DOMAIN srv'.streams : srv'.streams[k].headers = srv.streams[k].headers
    <3>1. CASE RespondStep(id, r)
      BY <3>1 DEF RespondStep, RespondDoes, Marked
    <3>2. CASE SrvDoneStep(id, r)
      BY <3>2 DEF SrvDoneStep, SrvDoneDoes, Alike
    <3> QED  BY <1>7, <3>1, <3>2 DEF ServletStep
  <2>2. Wire /\ Known
    BY <1>1, <1>2, <1>7, <2>1
  <2> QED  BY <2>2, QueueKinds DEF Led
<1> QED  BY <1>3, <1>4, <1>5, <1>6, <1>7, ServerCases

LEMMA AsksTail ==
    ASSUME NEW S, NEW q \in Seq(S), q # <<>>, NEW f, OnceAsked(q, f)
    PROVE  TailAsks(q, f)
<1>1. /\ Len(q) \in Nat /\ Len(q) > 0 /\ DOMAIN q = 1 .. Len(q) /\ q[1] = Head(q)
      /\ DOMAIN Tail(q) = 1 .. Len(q) - 1 /\ \A i \in 1 .. Len(q) - 1 : Tail(q)[i] = q[i + 1]
  BY HeadTail
<1>2. PICK z : z = Tail(q)
  OBVIOUS
<1>3. \A i \in DOMAIN z : i \in Int /\ i + 1 \in DOMAIN q /\ i + 1 # 1 /\ z[i] = q[i + 1]
  BY <1>1, <1>2
<1>4. \A i \in DOMAIN q : i \in Int /\ (i = 1 \/ (i - 1 \in DOMAIN z /\ z[i - 1] = q[i])) /\ 1 \in DOMAIN q
  BY <1>1, <1>2
<1>5. OnceAsked(z, f)
  <2> SUFFICES ASSUME NEW i \in DOMAIN z, NEW k \in DOMAIN z, AskIs(z[i], f), AskIs(z[k], f)
               PROVE  i = k
    BY DEF OnceAsked, AskIs
  <2>1. i + 1 = k + 1
    BY <1>3 DEF OnceAsked, AskIs
  <2> QED  BY <1>3, <2>1
<1>6. ASSUME Asks(z, f) PROVE Asks(q, f) /\ ~AskIs(q[1], f)
  <2>1. PICK i \in DOMAIN z : AskIs(z[i], f)
    BY <1>6 DEF Asks, AskIs
  <2>2. i + 1 \in DOMAIN q /\ i + 1 # 1 /\ AskIs(q[i + 1], f)
    BY <1>3, <2>1
  <2>3. 1 \in DOMAIN q
    BY <1>4, <2>2
  <2> QED  BY <2>2, <2>3 DEF Asks, AskIs, OnceAsked
<1>7. ASSUME Asks(q, f) PROVE AskIs(q[1], f) \/ Asks(z, f)
  <2>1. PICK i \in DOMAIN q : AskIs(q[i], f)
    BY <1>7 DEF Asks, AskIs
  <2>2. i = 1 \/ (i - 1 \in DOMAIN z /\ AskIs(z[i - 1], f))
    BY <1>4, <2>1
  <2> QED  BY <2>1, <2>2 DEF Asks, AskIs
<1> QED  BY <1>1, <1>2, <1>5, <1>6, <1>7 DEF TailAsks

LEMMA AsksCat ==
    ASSUME NEW S, NEW q \in Seq(S), NEW r \in Seq(S), NEW f
    PROVE  CatAsks(q, r, f)
<1>1. CatDoes(q, r)
  BY CatFacts
<1>2. PICK z, n : z = q \o r /\ n = Len(q)
  OBVIOUS
<1>3. /\ n \in Nat /\ DOMAIN q = 1 .. n /\ DOMAIN r \subseteq Int /\ DOMAIN z \subseteq Int
      /\ \A i \in DOMAIN q : i \in DOMAIN z /\ z[i] = q[i]
      /\ \A i \in DOMAIN r : n + i \in DOMAIN z /\ z[n + i] = r[i]
      /\ \A i \in DOMAIN z :
            \/ i \in DOMAIN q /\ z[i] = q[i]
            \/ i - n \in DOMAIN r /\ z[i] = r[i - n]
  BY <1>1, <1>2 DEF CatDoes
<1>4. Asks(z, f) <=> Asks(q, f) \/ Asks(r, f)
  BY <1>3 DEF Asks
<1>5. ASSUME OnceAsked(q, f), OnceAsked(r, f), ~(Asks(q, f) /\ Asks(r, f)) PROVE OnceAsked(z, f)
  <2> SUFFICES ASSUME NEW i \in DOMAIN z, NEW k \in DOMAIN z, AskIs(z[i], f), AskIs(z[k], f)
               PROVE  i = k
    BY DEF OnceAsked, AskIs
  <2>1. \A j \in DOMAIN z : AskIs(z[j], f) =>
           \/ j \in DOMAIN q /\ AskIs(q[j], f) /\ Asks(q, f)
           \/ j - n \in DOMAIN r /\ AskIs(r[j - n], f) /\ Asks(r, f)
    BY <1>3 DEF Asks, AskIs
  <2>2. CASE i \in DOMAIN q /\ AskIs(q[i], f) /\ Asks(q, f)
    <3>1. k \in DOMAIN q /\ AskIs(q[k], f)
      BY <1>5, <2>1, <2>2
    <3> QED  BY <1>5, <2>2, <3>1 DEF OnceAsked, AskIs
  <2>3. CASE i - n \in DOMAIN r /\ AskIs(r[i - n], f) /\ Asks(r, f)
    <3>1. k - n \in DOMAIN r /\ AskIs(r[k - n], f)
      BY <1>5, <2>1, <2>3
    <3>2. i - n = k - n
      BY <1>5, <2>3, <3>1 DEF OnceAsked, AskIs
    <3> QED  BY <1>3, <3>2
  <2> QED  BY <2>1, <2>2, <2>3
<1> QED  BY <1>2, <1>4, <1>5 DEF CatAsks

LEMMA OneAsks ==
    ASSUME NEW a, NEW f
    PROVE  OnceAsked(<<a>>, f) /\ (Asks(<<a>>, f) <=> AskIs(a, f))
<1>0. a \in {a}
  OBVIOUS
<1>1. PICK z : z = <<a>> /\ DOMAIN z = 1 .. 1 /\ z[1] = a
  BY <1>0, One, Zenon
<1>2. DOMAIN z = {1}
  BY <1>1
<1>3. OnceAsked(z, f) /\ (Asks(z, f) <=> AskIs(a, f))
  BY <1>1, <1>2 DEF OnceAsked, Asks, AskIs
<1> QED  BY <1>1, <1>3

LEMMA QueueAsks ==
    ASSUME TypeOK, Requests, Step, NEW g \in Fibers
    PROVE  QueueDoes(g)
<1>1. PICK q \in Seq(FrameRec \union AskRec) : q = queue
  BY Zenon DEF TypeOK
<1>2. OnceAsked(q, g)
  BY <1>1 DEF Requests, Life
<1>3. ASSUME CliWriteStep
      PROVE  queue' = Tail(queue) /\ q # <<>> /\ TailAsks(q, g)
  <2>1. queue' = Tail(queue) /\ q # <<>>
    BY <1>1, <1>3 DEF CliWriteStep
  <2> QED  BY <1>2, <2>1, AsksTail
<1>4. CliWriteStep /\ HeadAsks(g) => Asks(queue, g) /\ ~Asks(queue', g)
  <2> SUFFICES ASSUME CliWriteStep, HeadAsks(g) PROVE Asks(queue, g) /\ ~Asks(queue', g)
    OBVIOUS
  <2>1. 1 \in DOMAIN q /\ q[1] = Head(q)
    BY <1>3, HeadTail
  <2>2. Asks(q, g)
    BY <1>1, <2>1 DEF HeadAsks, AskIs, Asks
  <2> QED  BY <1>1, <1>3, <2>2, Zenon DEF TailAsks, HeadAsks
<1>5. ASSUME NEW f \in Fibers, RequestStep(f)
      PROVE  /\ Asks(queue', g) <=> Asks(queue, g) \/ f = g
             /\ OnceAsked(queue', g)
  <2>1. PICK a \in AskRec : AskIs(a, f) /\ queue' = Append(q, a)
    BY <1>1, <1>5 DEF RequestStep, RequestDoes, AskIs
  <2>2. PICK o \in Seq(FrameRec \union AskRec) : o = <<a>> /\ Append(q, a) = q \o o
    <3>1. a \in FrameRec \union AskRec
      OBVIOUS
    <3> QED  BY <3>1, AppendCat, Zenon
  <2>3. OnceAsked(o, g) /\ (Asks(o, g) <=> AskIs(a, g))
    BY <2>2, OneAsks
  <2>4. AskIs(a, g) <=> f = g
    BY <2>1 DEF AskIs
  <2>5. CatAsks(q, o, g)
    BY AsksCat
  <2>6. f = g => ~Asks(q, g)
    BY <1>1, <1>5 DEF Requests, Life, RequestStep, Began
  <2> QED  BY <1>1, <1>2, <2>1, <2>2, <2>3, <2>4, <2>5, <2>6 DEF CatAsks
<1>6. RequestStep(g) => Asks(queue', g)
  BY <1>5
<1>7. CASE queue' = queue
  BY <1>1, <1>2, <1>4, <1>6, <1>7 DEF QueueDoes
<1>8. CASE CliWriteStep
  BY <1>1, <1>3, <1>4, <1>6, <1>8, Zenon DEF QueueDoes, TailAsks, HeadAsks
<1>9. CASE ReconnectStep
  <2>1. queue' = <<>>
    BY <1>9 DEF ReconnectStep, ReconnectDoes
  <2>2. OnceAsked(<<>>, g) /\ ~Asks(<<>>, g)
    BY DEF OnceAsked, Asks
  <2> QED  BY <1>4, <1>6, <1>9, <2>1, <2>2 DEF QueueDoes
<1>10. ASSUME NEW f \in Fibers, RequestStep(f) PROVE QueueDoes(g)
  BY <1>4, <1>5, <1>6, <1>10 DEF QueueDoes
<1>11. ASSUME NEW f \in FrameRec, NEW s \in StreamRec, CliHandleStep(f, s) PROVE QueueDoes(g)
  <2>1. PICK r \in Seq(FrameRec \union AskRec) :
           queue' = q \o r /\ \A x \in Range(r) : x.t = "WINDOW_UPDATE"
    BY <1>1, <1>11, ReaderAdds, Zenon DEF QueueFed
  <2>2. \A i \in DOMAIN r : r[i].t # "request"
    BY <2>1, Zenon DEF Range
  <2>3. OnceAsked(r, g) /\ ~Asks(r, g)
    BY <2>2 DEF OnceAsked, Asks
  <2>4. CatAsks(q, r, g)
    BY AsksCat
  <2> QED  BY <1>1, <1>2, <1>4, <1>6, <2>1, <2>3, <2>4 DEF CatAsks, QueueDoes
<1> QED  BY <1>7, <1>8, <1>9, <1>10, <1>11, QueueCases

LEMMA ReqCases ==
    ASSUME TypeOK, Step, NEW g \in Fibers
    PROVE  Starts(g) \/ RequestStep(g) \/ Lasts(g)
<1>1. req'[g] = req[g] => Lasts(g)
  BY DEF Lasts
<1>2. ASSUME NEW f \in Fibers, FiberStep(f) PROVE Starts(g) \/ RequestStep(g) \/ Lasts(g)
  <2>1. CASE f # g
    <3>1. OthersKept(f)
      BY <1>2 DEF FiberStep, NewStreamStep, NewStreamDoes, RequestStep, RequestDoes, DueStep, DueDoes,
                  OnTimeOutStep, OnTimeOutDoes
    <3> QED  BY <1>1, <2>1, <3>1 DEF OthersKept
  <2>2. CASE f = g
    <3>1. CASE DueStep(g)
      BY <3>1 DEF DueStep, DueDoes, Retimed, Lasts
    <3>2. CASE OnTimeOutStep(g)
      BY <3>2 DEF OnTimeOutStep, OnTimeOutDoes, Retimed, Answered, Lasts
    <3> QED  BY <1>2, <2>2, <3>1, <3>2 DEF FiberStep, Starts
  <2> QED  BY <2>1, <2>2
<1>3. ASSUME NEW f \in FrameRec, NEW s \in StreamRec, CliHandleStep(f, s) PROVE Lasts(g)
  <2>1. CASE req' = req
    BY <1>1, <2>1
  <2>2. ASSUME NEW h \in Fibers, req[h].pc = "waiting", OthersKept(h),
               req'[h].timer = IF req[h].timer = "armed" THEN "off" ELSE req[h].timer,
               \E result, got : Answered(req'[h], req[h], result, got)
        PROVE  Lasts(g)
    <3>1. CASE h # g
      BY <1>1, <2>2, <3>1 DEF OthersKept
    <3>2. CASE h = g
      BY <2>2, <3>2 DEF Answered, Lasts
    <3> QED  BY <3>1, <3>2
  <2>3. CliHandleDoes(f, s, Fed(s, f, cli.recvTable))
    BY <1>3 DEF CliHandleStep
  <2>4. \/ req' = req
        \/ \E h \in Fibers :
              /\ req[h].pc = "waiting" /\ OthersKept(h)
              /\ req'[h].timer = IF req[h].timer = "armed" THEN "off" ELSE req[h].timer
              /\ \E result, got : Answered(req'[h], req[h], result, got)
    BY <2>3, Zenon DEF CliHandleDoes
  <2> QED  BY <2>1, <2>2, <2>4
<1>4. ASSUME ReconnectStep PROVE Lasts(g)
  BY <1>1, <1>4 DEF ReconnectStep, ReconnectDoes, Answered, Lasts
<1>5. \/ req' = req \/ (\E f \in Fibers : FiberStep(f)) \/ ReconnectStep
      \/ (\E f \in FrameRec, s \in StreamRec : CliHandleStep(f, s))
  BY DEF Step, CliWriteStep, CliChargeStep, ReaderStep, CliReadStep, CliHandleDeletedStep, SrvReadStep,
         ServletStep, RespondStep, SrvDoneStep, ClientKept, Still
<1> QED  BY <1>1, <1>2, <1>3, <1>4, <1>5

LEMMA RequestsStep ==
    ASSUME TypeOK, Requests, Step
    PROVE  Requests'
<1>1. ASSUME NEW g \in Fibers PROVE Life(g)'
  <2>1. QueueDoes(g)
    BY QueueAsks
  <2>2. Life(g) /\ req[g].sn \in Int
    BY Zenon DEF Requests, TypeOK, ReqRec
  <2>3. Starts(g) => ~RequestStep(g)
    BY DEF Starts, NewStreamStep, RequestStep
  <2>4. CASE Starts(g)
    <3>1. PICK header \in Headers, body \in {0, 1} : NewStreamStep(g, header, body)
      BY <2>4 DEF Starts
    <3>2. /\ req[g].pc = "idle" /\ req'[g].pc = "numbered" /\ req'[g].sn = cli.sn + 2
          /\ req'[g].header = header /\ req'[g].timer = req[g].timer /\ req'[g].result = req[g].result
      BY <3>1 DEF NewStreamStep, NewStreamDoes
    <3>3. cli.sn + 2 > 0
      <4>1. cli.sn \in Int /\ cli.sn >= -1
        BY Zenon DEF Requests, TypeOK, CliRec
      <4> QED  BY <4>1
    <3>4. ~Asks(queue', g) /\ OnceAsked(queue', g)
      BY <2>1, <2>2, <2>3, <2>4, <3>2 DEF QueueDoes, Life, Began
    <3> QED  BY <2>2, <3>2, <3>3, <3>4 DEF Life, Began
  <2>5. CASE RequestStep(g)
    <3>1. /\ req[g].pc = "numbered" /\ req'[g].pc = "waiting" /\ req'[g].sn = req[g].sn
          /\ req'[g].header = req[g].header /\ req'[g].result = req[g].result
      BY <2>5 DEF RequestStep, RequestDoes
    <3> QED  BY <2>1, <2>2, <3>1 DEF QueueDoes, Life, Began
  <2>6. CASE Lasts(g) /\ ~RequestStep(g)
    BY <2>1, <2>2, <2>6 DEF QueueDoes, Life, Began, Lasts
  <2> QED  BY <2>4, <2>5, <2>6, ReqCases
<1>2. cli'.sn >= -1
  <2>1. cli.sn \in Int /\ cli.sn >= -1
    BY Zenon DEF Requests, TypeOK, CliRec
  <2>2. cli'.sn = cli.sn \/ cli'.sn = cli.sn + 2 \/ cli'.sn = -1
    BY ZenonT(40) DEF Step, FiberStep, NewStreamStep, NewStreamDoes, RequestStep, RequestDoes, DueStep,
           OnTimeOutStep, OnTimeOutDoes, CliWriteStep, CliWriteDoes, WroteRequest, CliChargeStep,
           CliChargeDoes, OnlySend, ReconnectStep, ReconnectDoes, ReaderStep, CliReadStep, CliReadDoes,
           CliHandleDeletedStep, CliHandleDeletedDoes, SrvReadStep, CliHandleStep, CliHandleDoes,
           ServletStep, RespondStep, SrvDoneStep, ClientKept, Still
  <2> QED  BY <2>1, <2>2
<1>3. connects' >= 1
  <2>1. connects \in Nat /\ connects >= 1
    BY Zenon DEF Requests, TypeOK
  <2>2. connects' = connects \/ connects' = connects + 1
    BY DEF Step, FiberStep, NewStreamStep, RequestStep, DueStep, OnTimeOutStep, CliWriteStep,
           CliChargeStep, ReconnectStep, ReconnectDoes, ReaderStep, CliReadStep, CliHandleDeletedStep,
           SrvReadStep, CliHandleStep, ServletStep, RespondStep, SrvDoneStep, ClientKept, ServerKept, Still
  <2> QED  BY <2>1, <2>2
<1> QED  BY <1>1, <1>2, <1>3 DEF Requests

LEMMA BaseInit == Init => BaseInv
<1> SUFFICES ASSUME Init PROVE BaseInv
  OBVIOUS
<1>1. TypeOK
  BY TypeInit
<1>2. HeldOk
  BY Http2Assumption DEF Init, HeldOk, Client
<1>3. Led
  BY RangeEmpty DEF Init, Led, Covered, Server
<1>4. Requests
  BY DEF Init, Requests, Life, Began, OnceAsked, Asks, Client
<1> QED  BY <1>1, <1>2, <1>3, <1>4 DEF BaseInv

LEMMA BaseStep == BaseInv /\ [Next]_vars => BaseInv'
<1> SUFFICES ASSUME BaseInv, [Next]_vars PROVE BaseInv'
  OBVIOUS
<1>1. Step
  BY StepFacts
<1> QED  BY <1>1, TypeStep, HeldStep, LedStep, RequestsStep DEF BaseInv

\* Every end of a connection, every frame, every request and every table of the model
\* has its type in all reachable states: in particular the two ends' windows stay
\* integers, and the entries of m_queue are requests or frames.
THEOREM Http2TypeCorrect == Spec => [](TypeOK /\ Marks)
<1>1. BaseInv => TypeOK
  BY DEF BaseInv
<1>2. Init => Marks
  BY DEF Init, Marks
<1>3. ASSUME Marks, [Next]_vars PROVE Marks'
  <2>1. adding' \in SUBSET {"cli", "srv"}
    BY <1>3, ZenonT(60) DEF Marks, Next, NewStream, Request, Due, OnTimeOut, CliWrite, CliCharge, CliRead, CliHandle,
           CliHandleDeleted, SrvRead, Respond, SrvDone, Added, Reconnect, vars
  <2>2. misread' \in BOOLEAN /\ lost' \in BOOLEAN
    BY <1>3, ZenonT(60) DEF Marks, Next, NewStream, Request, Due, OnTimeOut, CliWrite, CliCharge, CliRead, CliHandle,
           CliHandleDeleted, SrvRead, Respond, SrvDone, Added, Reconnect, history, vars
  <2> QED  BY <2>1, <2>2 DEF Marks
<1> QED  BY <1>1, <1>2, <1>3, BaseInit, BaseStep, PTL DEF Spec

-----------------------------------------------------------------------------
(***************************************************************************)
(* The way of a request: once it is written, its frames, its stream at the *)
(* server and the frames that come back are those of its number alone, as  *)
(* long as the number is its own.                                          *)
(***************************************************************************)

LEMMA HasTail ==
    ASSUME NEW S, NEW q \in Seq(S), q # <<>>, NEW ts, NEW id
    PROVE  HasTailDoes(q, ts, id)
<1>1. Range(q) = {Head(q)} \union Range(Tail(q))
  BY RangeTail
<1> QED  BY <1>1, Zenon DEF HasTailDoes, Has

LEMMA HasCat ==
    ASSUME NEW S, NEW q \in Seq(S), NEW r \in Seq(S), NEW ts, NEW id
    PROVE  HasCatDoes(q, r, ts, id)
<1>1. Range(q \o r) = Range(q) \union Range(r)
  BY RangeConcatenation
<1> QED  BY <1>1, Zenon DEF HasCatDoes, Has

LEMMA EndTail ==
    ASSUME NEW S, NEW q \in Seq(S), q # <<>>, NEW id
    PROVE  EndTailDoes(q, id)
<1>1. Range(q) = {Head(q)} \union Range(Tail(q))
  BY RangeTail
<1> QED  BY <1>1, Zenon DEF EndTailDoes, EndOnWay

LEMMA EndCat ==
    ASSUME NEW S, NEW q \in Seq(S), NEW r \in Seq(S), NEW id
    PROVE  EndCatDoes(q, r, id)
<1>1. Range(q \o r) = Range(q) \union Range(r)
  BY RangeConcatenation
<1> QED  BY <1>1, Zenon DEF EndCatDoes, EndOnWay

LEMMA LastEndsTail ==
    ASSUME NEW S, NEW q \in Seq(S), q # <<>>, NEW id, LastEnds(q, id)
    PROVE  LastTail(q, id)
<1>1. /\ Len(q) \in Nat /\ Len(q) > 0 /\ DOMAIN q = 1 .. Len(q) /\ q[1] = Head(q)
      /\ DOMAIN Tail(q) = 1 .. Len(q) - 1 /\ \A i \in 1 .. Len(q) - 1 : Tail(q)[i] = q[i + 1]
  BY HeadTail
<1>2. PICK z : z = Tail(q)
  OBVIOUS
<1>3. \A i \in DOMAIN z : i \in Int /\ i + 1 \in DOMAIN q /\ ~(i + 1 <= 1) /\ z[i] = q[i + 1] /\ 1 \in DOMAIN q
  BY <1>1, <1>2
<1>4. LastEnds(z, id)
  <2> SUFFICES ASSUME NEW i \in DOMAIN z, NEW k \in DOMAIN z, Ends(z[i], id), Is(z[k], Traffic, id)
               PROVE  k <= i
    BY DEF LastEnds
  <2>1. k + 1 <= i + 1
    BY <1>3 DEF LastEnds
  <2> QED  BY <1>3, <2>1
<1>5. ASSUME Ends(q[1], id), Has(z, Traffic, id) PROVE FALSE
  <2>1. PICK k \in DOMAIN z : Is(z[k], Traffic, id)
    BY <1>5 DEF Has, Range
  <2> QED  BY <1>3, <1>5, <2>1 DEF LastEnds
<1> QED  BY <1>1, <1>2, <1>4, <1>5 DEF LastTail

LEMMA LastEndsCat ==
    ASSUME NEW q \in Seq(FrameRec), NEW r \in Seq(FrameRec), NEW id, LastEnds(q, id), LastEnds(r, id),
           ~Has(q, Traffic, id) \/ ~Has(r, Traffic, id)
    PROVE  LastEnds(q \o r, id)
<1>1. CatDoes(q, r)
  BY CatFacts
<1>2. PICK z, n : z = q \o r /\ n = Len(q)
  OBVIOUS
<1>3. /\ n \in Nat /\ DOMAIN q = 1 .. n /\ DOMAIN r \subseteq Int /\ DOMAIN z \subseteq Int
      /\ \A i \in DOMAIN z :
            \/ i \in DOMAIN q /\ z[i] = q[i]
            \/ i - n \in DOMAIN r /\ z[i] = r[i - n]
  BY <1>1, <1>2 DEF CatDoes
<1> SUFFICES ASSUME NEW i \in DOMAIN z, NEW k \in DOMAIN z, Ends(z[i], id), Is(z[k], Traffic, id)
             PROVE  k <= i
  BY <1>2, Zenon DEF LastEnds
<1>4. \A x : Ends(x, id) => Is(x, Traffic, id)
  BY DEF Ends, Is
<1>5. /\ \A j \in DOMAIN q : Is(q[j], Traffic, id) => Has(q, Traffic, id)
      /\ \A j \in DOMAIN r : Is(r[j], Traffic, id) => Has(r, Traffic, id)
  BY DEF Has, Range
<1>6. CASE ~Has(q, Traffic, id)
  <2>1. /\ i - n \in DOMAIN r /\ Ends(r[i - n], id)
        /\ k - n \in DOMAIN r /\ Is(r[k - n], Traffic, id)
    BY <1>3, <1>4, <1>5, <1>6
  <2>2. k - n <= i - n
    BY <2>1 DEF LastEnds
  <2> QED  BY <1>3, <2>2
<1>7. CASE ~Has(r, Traffic, id)
  <2>1. i \in DOMAIN q /\ Ends(q[i], id) /\ k \in DOMAIN q /\ Is(q[k], Traffic, id)
    BY <1>3, <1>4, <1>5, <1>7
  <2> QED  BY <2>1 DEF LastEnds
<1> QED  BY <1>6, <1>7

LEMMA MessageLast ==
    ASSUME NEW r, NEW id, NEW block, NEW none \in BOOLEAN, IsMessage(r, id, block, none)
    PROVE  MessageEnds(r, id)
<1>1. PICK h, d : MessageDoes(r, h, d, id, block, none)
  BY MessageParts
<1>2. /\ h.t = "HEADERS" /\ h.id = id /\ d.id = id /\ d.t = "DATA" /\ h.end = none /\ d.end = TRUE
  BY <1>1 DEF MessageDoes, IsFrame
<1>3. /\ none => DOMAIN r = {1} /\ r[1] = h
      /\ ~none => DOMAIN r = {1, 2} /\ r[1] = h /\ r[2] = d
  <2>1. 1 .. 1 = {1} /\ 1 .. 2 = {1, 2}
    OBVIOUS
  <2> QED  BY <1>1, <2>1 DEF MessageDoes
<1>4. EndOnWay(r, id)
  <2>1. CASE none
    <3>1. h \in Range(r)
      BY <1>3, <2>1 DEF Range
    <3> QED  BY <1>2, <2>1, <3>1, Zenon DEF EndOnWay, Ends, Traffic
  <2>2. CASE ~none
    <3>1. d \in Range(r)
      BY <1>3, <2>2 DEF Range
    <3> QED  BY <1>2, <3>1 DEF EndOnWay, Ends, Traffic
  <2> QED  BY <2>1, <2>2
<1>5. \A k : LastEnds(r, k)
  <2>1. \A i \in DOMAIN r : i = 1 \/ i = 2
    BY <1>3
  <2>2. CASE none
    BY <1>3, <2>2 DEF LastEnds
  <2>3. CASE ~none
    <3>1. \A k : ~Ends(r[1], k)
      BY <1>2, <1>3, <2>3 DEF Ends
    <3> QED  BY <2>1, <3>1 DEF LastEnds
  <2> QED  BY <2>2, <2>3
<1>6. \A x \in Range(r) : x.t \in Traffic /\ x.id = id /\ x.t # "RST_STREAM"
  BY <1>2, <1>3 DEF Range, Traffic
<1> QED  BY <1>4, <1>5, <1>6 DEF MessageEnds, Has, Is

LEMMA AskMessage ==
    ASSUME NEW g, NEW r, AskWritten(g, r)
    PROVE  MessageEnds(r, req[g].sn)
<1>1. PICK k, none : k = req[g].sn /\ none = (req[g].body = 0)
  OBVIOUS
<1>2. PICK block : none \in BOOLEAN /\ IsMessage(r, k, block, none)
  BY <1>1 DEF AskWritten
<1>3. MessageEnds(r, k)
  BY <1>2, MessageLast
<1> QED  BY <1>1, <1>3

\* HEADERS and DATA are written for the first request of the queue.
LEMMA TrafficWritten ==
    ASSUME queue # <<>>, NEW r, WriterDoes(r), NEW id, Has(r, Traffic, id)
    PROVE  \E g \in Fibers : HeadAsks(g) /\ req[g].sn = id /\ AskWritten(g, r) /\ MessageEnds(r, id)
<1>1. ~OnlyUpdates(r)
  BY DEF OnlyUpdates, Has, Is, Traffic
<1>2. r # <<>>
  BY RangeEmpty DEF Has
<1>3. PICK g \in Fibers : AskWritten(g, r)
  BY <1>1, <1>2 DEF WriterDoes
<1>4. MessageEnds(r, req[g].sn)
  BY <1>3, AskMessage
<1>5. req[g].sn = id
  BY <1>4 DEF MessageEnds
<1> QED  BY <1>3, <1>4, <1>5 DEF AskWritten, HeadAsks, AskIs

LEMMA CliCases ==
    ASSUME Step
    PROVE  \/ toCli' = toCli \/ (toCli # <<>> /\ toCli' = Tail(toCli)) \/ ReconnectStep
           \/ (\E f \in FrameRec : SrvReadStep(f))
           \/ (\E id \in DOMAIN srv.streams, s \in StreamRec : RespondStep(id, s))
  BY ZenonT(40) DEF Step, FiberStep, NewStreamStep, RequestStep, DueStep, OnTimeOutStep, CliWriteStep, CliChargeStep,
         ReaderStep, CliReadStep, CliReadDoes, CliHandleStep, CliHandleDoes, CliHandleDeletedStep,
         CliHandleDeletedDoes, ServletStep, SrvDoneStep, WireKept, Still

\* The frames of a number that a step puts on the way, and where they come from.
LEMMA ToSrvGrows ==
    ASSUME TypeOK, Led, Step, NEW id
    PROVE  Has(toSrv', Traffic, id) =>
              \/ Has(toSrv, Traffic, id)
              \/ CliWriteStep /\ \E f \in Fibers : HeadAsks(f) /\ req[f].sn = id
<1> SUFFICES ASSUME Has(toSrv', Traffic, id), ~Has(toSrv, Traffic, id)
             PROVE  CliWriteStep /\ \E f \in Fibers : HeadAsks(f) /\ req[f].sn = id
  OBVIOUS
<1>1. PICK s \in Seq(FrameRec) : s = toSrv
  BY Zenon DEF TypeOK
<1>2. CASE toSrv' = toSrv
  BY <1>2
<1>3. CASE CliWriteStep
  <2>1. PICK r \in Seq(FrameRec) : toSrv' = s \o r /\ WriterDoes(r)
    BY <1>1, <1>3, WriterAdds DEF SrvFed
  <2>2. HasCatDoes(s, r, Traffic, id)
    BY HasCat
  <2>3. Has(r, Traffic, id)
    BY <1>1, <2>1, <2>2 DEF HasCatDoes
  <2>4. queue # <<>>
    BY <1>3 DEF CliWriteStep
  <2> QED  BY <1>3, <2>1, <2>3, <2>4, TrafficWritten
<1>4. CASE ReconnectStep
  BY <1>4, RangeEmpty DEF ReconnectStep, ReconnectDoes, Has
<1>5. ASSUME NEW f \in FrameRec, SrvReadStep(f) PROVE FALSE
  <2>1. s # <<>> /\ toSrv' = Tail(s)
    BY <1>1, <1>5 DEF SrvReadStep
  <2>2. HasTailDoes(s, Traffic, id)
    BY <2>1, HasTail
  <2> QED  BY <1>1, <2>1, <2>2 DEF HasTailDoes
<1> QED  BY <1>2, <1>3, <1>4, <1>5, ServerCases

LEMMA ToCliGrows ==
    ASSUME TypeOK, Step, NEW ts \in SUBSET Answers, NEW id
    PROVE  Has(toCli', ts, id) =>
              \/ Has(toCli, ts, id)
              \/ \E f \in FrameRec : SrvReadStep(f) /\ SrvRefuseDoes(f) /\ id = srv.sn /\ "RST_STREAM" \in ts
              \/ \E s \in StreamRec :
                    id \in DOMAIN srv.streams /\ RespondStep(id, s) /\ ts \intersect Traffic # {}
<1> SUFFICES ASSUME Has(toCli', ts, id), ~Has(toCli, ts, id)
             PROVE  \/ \E f \in FrameRec :
                          SrvReadStep(f) /\ SrvRefuseDoes(f) /\ id = srv.sn /\ "RST_STREAM" \in ts
                    \/ \E s \in StreamRec :
                          id \in DOMAIN srv.streams /\ RespondStep(id, s) /\ ts \intersect Traffic # {}
  OBVIOUS
<1>1. PICK c \in Seq(FrameRec) : c = toCli
  BY Zenon DEF TypeOK
<1>2. CASE toCli' = toCli
  BY <1>2
<1>3. CASE toCli # <<>> /\ toCli' = Tail(toCli)
  <2>1. HasTailDoes(c, ts, id)
    BY <1>1, <1>3, HasTail
  <2> QED  BY <1>1, <1>3, <2>1 DEF HasTailDoes
<1>4. CASE ReconnectStep
  BY <1>4, RangeEmpty DEF ReconnectStep, ReconnectDoes, Has
<1>5. ASSUME NEW r, CliFed(r) PROVE Has(r, ts, id)
  <2>1. HasCatDoes(c, r, ts, id)
    BY <1>5, HasCat DEF CliFed
  <2> QED  BY <1>1, <1>5, <2>1 DEF HasCatDoes, CliFed
<1>6. ASSUME NEW f \in FrameRec, SrvReadStep(f)
      PROVE  SrvRefuseDoes(f) /\ id = srv.sn /\ "RST_STREAM" \in ts
  <2>1. PICK r : CliFed(r) /\ SrvReadAnswers(f, r)
    BY <1>6, SrvReadAdds
  <2>2. PICK x \in Range(r) : x.t \in ts /\ x.id = id
    BY <1>5, <2>1 DEF Has, Is
  <2>3. ~GaveUpdates(r, f.id)
    BY <2>2 DEF GaveUpdates, Answers
  <2>4. SrvRefuseDoes(f) /\ GaveReset(r)
    BY <2>1, <2>3 DEF SrvReadAnswers
  <2> QED  BY <2>2, <2>4 DEF GaveReset
<1>7. ASSUME NEW k \in DOMAIN srv.streams, NEW s \in StreamRec, RespondStep(k, s)
      PROVE  id = k /\ ts \intersect Traffic # {}
  <2>1. PICK r : CliFed(r) /\ Responds(k, s, r)
    BY <1>7, RespondAdds
  <2>2. PICK x \in Range(r) : x.t \in ts /\ x.id = id
    BY <1>5, <2>1 DEF Has, Is
  <2>3. PICK none : none = (s.body = 0)
    OBVIOUS
  <2>4. PICK block : none \in BOOLEAN /\ IsMessage(r, k, block, none)
    BY <2>1, <2>3 DEF Responds
  <2>5. MessageEnds(r, k)
    BY <2>4, MessageLast
  <2> QED  BY <2>2, <2>5 DEF MessageEnds
<1> QED  BY <1>2, <1>3, <1>4, <1>6, <1>7, CliCases

\* The numbers the server knows.
LEMMA ServerGrows ==
    ASSUME TypeOK, Led, Step, NEW id \in Int, id # 0
    PROVE  id \in DOMAIN srv'.streams \/ id = srv'.sn =>
              id \in DOMAIN srv.streams \/ id = srv.sn \/ Has(toSrv, Traffic, id)
<1> SUFFICES ASSUME id \in DOMAIN srv'.streams \/ id = srv'.sn
             PROVE  id \in DOMAIN srv.streams \/ id = srv.sn \/ Has(toSrv, Traffic, id)
  OBVIOUS
<1>1. CASE srv' = srv
  BY <1>1
<1>2. CASE ReconnectStep
  BY <1>2 DEF ReconnectStep, ReconnectDoes, Server
<1>3. ASSUME NEW f \in FrameRec, SrvReadStep(f)
      PROVE  id \in DOMAIN srv.streams \/ id = srv.sn \/ Has(toSrv, Traffic, id)
  <2>1. CASE SrvWindowDoes(f)
    BY <2>1, Zenon DEF SrvWindowDoes, OnlySend
  <2>2. CASE SrvRefuseDoes(f)
    BY <2>2 DEF SrvRefuseDoes
  <2>3. CASE SrvAcceptDoes(f, Target(f))
    <3>1. id \in DOMAIN srv.streams \/ id = srv.sn \/ id = f.id
      BY <2>3 DEF SrvAcceptDoes
    <3>2. f.t \in Traffic
      <4>1. PICK s \in Seq(FrameRec) : s = toSrv /\ s # <<>> /\ f = Head(s)
        BY <1>3, Zenon DEF TypeOK, SrvReadStep
      <4>2. f \in Range(toSrv)
        BY <4>1, RangeTail
      <4>3. f.t # "RST_STREAM" /\ f.t # "WINDOW_UPDATE"
        BY <2>3, <4>2 DEF Led, SrvAcceptDoes
      <4> QED  BY <4>3 DEF FrameRec, Traffic
    <3>3. Has(toSrv, Traffic, f.id)
      <4>1. PICK s \in Seq(FrameRec) : s = toSrv /\ s # <<>> /\ f = Head(s)
        BY <1>3, Zenon DEF TypeOK, SrvReadStep
      <4>2. f \in Range(toSrv)
        BY <4>1, RangeTail
      <4> QED  BY <3>2, <4>2 DEF Has, Is
    <3> QED  BY <3>1, <3>3
  <2> QED  BY <1>3, <2>1, <2>2, <2>3 DEF SrvReadStep
<1>4. ASSUME NEW k \in DOMAIN srv.streams, NEW s \in StreamRec, ServletStep(k, s)
      PROVE  id \in DOMAIN srv.streams \/ id = srv.sn
  BY <1>4 DEF ServletStep, RespondStep, RespondDoes, SrvDoneStep, SrvDoneDoes
<1> QED  BY <1>1, <1>2, <1>3, <1>4, ServerCases

LEMMA OwnerStep ==
    ASSUME TypeOK, Requests, Step, NEW id, Owner(id)
    PROVE  Owner(id)'
<1>1. PICK g \in Fibers : req[g].sn = id /\ Began(g) /\ ~Asks(queue, g)
  BY DEF Owner
<1>2. ~Starts(g) /\ ~RequestStep(g)
  BY <1>1 DEF Starts, NewStreamStep, RequestStep, Began
<1>3. Lasts(g) /\ QueueDoes(g)
  BY <1>2, ReqCases, QueueAsks
<1>4. req'[g].sn = id /\ Began(g)' /\ ~Asks(queue', g)
  BY <1>1, <1>2, <1>3 DEF Lasts, QueueDoes, Began
<1> QED  BY <1>4 DEF Owner

LEMMA PlayedStep ==
    ASSUME TypeOK, Led, Requests, Step, Played
    PROVE  Played'
<1> SUFFICES ASSUME NEW id \in Int \ {0}, InPlay(id)' PROVE Owner(id)'
  BY DEF Played
<1>1. CASE InPlay(id)
  BY <1>1, OwnerStep DEF Played
<1>2. ASSUME CliWriteStep, NEW f \in Fibers, HeadAsks(f), req[f].sn = id PROVE Owner(id)'
  <2>1. Asks(queue, f) /\ ~Asks(queue', f)
    BY <1>2, QueueAsks DEF QueueDoes
  <2>2. Began(f)
    BY <2>1 DEF Requests, Life
  <2>3. req' = req
    BY <1>2 DEF CliWriteStep
  <2> QED  BY <1>2, <2>1, <2>2, <2>3 DEF Owner, Began
<1>3. Has(toSrv', Traffic, id) \/ Has(toCli', Answers, id) \/ id \in DOMAIN srv'.streams \/ id = srv'.sn
  BY DEF InPlay
<1>4. CASE Has(toSrv', Traffic, id)
  BY <1>1, <1>2, <1>4, ToSrvGrows DEF InPlay
<1>5. CASE Has(toCli', Answers, id)
  <2>1. Answers \in SUBSET Answers
    OBVIOUS
  <2>2. Has(toCli, Answers, id) \/ id = srv.sn \/ id \in DOMAIN srv.streams
    BY <1>5, <2>1, ToCliGrows
  <2> QED  BY <1>1, <2>2 DEF InPlay
<1>6. CASE id \in DOMAIN srv'.streams \/ id = srv'.sn
  BY <1>1, <1>6, ServerGrows DEF InPlay
<1> QED  BY <1>3, <1>4, <1>5, <1>6

LEMMA CtxStep ==
    ASSUME TypeOK, Step, Contexts
    PROVE  Contexts'
<1> DEFINE Fewer == /\ DOMAIN cli'.ctxs \subseteq DOMAIN cli.ctxs
                    /\ \A id \in DOMAIN cli'.ctxs : cli'.ctxs[id] = cli.ctxs[id]
<1>1. ASSUME NEW id \in DOMAIN cli.ctxs
      PROVE  req'[cli.ctxs[id]].sn = id /\ req'[cli.ctxs[id]].pc \in {"waiting", "done"}
  <2>1. PICK g \in Fibers : g = cli.ctxs[id] /\ req[g].sn = id /\ Began(g)
    BY StreamAt DEF Contexts
  <2>2. ~Starts(g) /\ ~RequestStep(g)
    BY <2>1 DEF Starts, NewStreamStep, RequestStep, Began
  <2>3. Lasts(g)
    BY <2>2, ReqCases
  <2>4. req'[g].sn = id /\ req'[g].pc \in {"waiting", "done"}
    BY <2>1, <2>3 DEF Lasts, Began
  <2> QED  BY <2>1, <2>4
<1>2. ASSUME Fewer PROVE Contexts'
  BY <1>1, <1>2 DEF Contexts, Began
<1>3. ASSUME NEW f \in Fibers, RequestStep(f) PROVE Contexts'
  <2>1. /\ DOMAIN cli'.ctxs = DOMAIN cli.ctxs \union {req[f].sn}
        /\ req[f].sn \notin DOMAIN cli.ctxs => cli'.ctxs[req[f].sn] = f
        /\ \A k \in DOMAIN cli.ctxs : cli'.ctxs[k] = cli.ctxs[k]
        /\ req'[f].sn = req[f].sn /\ req'[f].pc = "waiting"
    BY <1>3 DEF RequestStep, RequestDoes
  <2> QED  BY <1>1, <2>1 DEF Contexts, Began
<1>4. Fewer \/ \E f \in Fibers : RequestStep(f)
  <2>1. cli'.ctxs = cli.ctxs => Fewer
    OBVIOUS
  <2> HIDE DEF Fewer
  <2>2. CASE \E f \in Fibers : FiberStep(f)
    <3>1. ASSUME NEW f \in Fibers, OnTimeOutStep(f) PROVE Fewer
      BY <3>1 DEF OnTimeOutStep, OnTimeOutDoes, Fewer
    <3> QED  BY <2>1, <2>2, <3>1 DEF FiberStep, NewStreamStep, NewStreamDoes, DueStep
  <2>3. CASE ReconnectStep
    BY <2>3 DEF ReconnectStep, ReconnectDoes, Fewer
  <2>4. ASSUME NEW f \in FrameRec, NEW s \in StreamRec, CliHandleStep(f, s) PROVE Fewer
    BY <2>4, Zenon DEF CliHandleStep, CliHandleDoes, Fewer
  <2> QED  BY <2>1, <2>2, <2>3, <2>4, Zenon
           DEF Step, CliWriteStep, CliWriteDoes, WroteRequest, CliChargeStep, CliChargeDoes, ReaderStep,
               CliReadStep, CliReadDoes, CliHandleDeletedStep, CliHandleDeletedDoes, SrvReadStep,
               ServletStep, RespondStep, SrvDoneStep, ClientKept, Still
<1> QED  BY <1>2, <1>3, <1>4

LEMMA SendKeeps ==
    ASSUME NEW e, NEW e2, NEW n, NEW k, NEW d, OnlySend(e, e2, n, k, d)
    PROVE  Kept(e, e2) /\ e2.sn = e.sn
  BY DEF OnlySend, Kept

LEMMA OpenStep ==
    ASSUME TypeOK, Led, Step, Open
    PROVE  Open'
<1>1. \A id \in DOMAIN cli'.streams : cli'.streams[id].state = "IDLE"
  <2> DEFINE Idle == \A id \in DOMAIN cli'.streams : cli'.streams[id].state = "IDLE"
  <2>1. cli'.streams = cli.streams => Idle
    BY DEF Open
  <2>2. ASSUME NEW f \in Fibers, Starts(f) PROVE Idle
    <3>1. PICK id : /\ DOMAIN cli'.streams = DOMAIN cli.streams \union {id}
                    /\ cli'.streams[id] = Stream(CLIENT_WINDOW, DEFAULT_WINDOW, f)
                    /\ \A k \in DOMAIN cli.streams : k # id => cli'.streams[k] = cli.streams[k]
      BY <2>2 DEF Starts, NewStreamStep, NewStreamDoes
    <3>2. cli'.streams[id].state = "IDLE"
      BY <3>1 DEF Stream
    <3> QED  BY <3>1, <3>2 DEF Open
  <2>3. ASSUME NEW f \in Fibers, OnTimeOutStep(f) PROVE Idle
    BY <2>3 DEF OnTimeOutStep, OnTimeOutDoes, Open
  <2>4. ASSUME CliChargeStep PROVE Idle
    BY <2>4 DEF CliChargeStep, CliChargeDoes, OnlySend, Alike, Open
  <2>5. ASSUME ReconnectStep PROVE Idle
    BY <2>5 DEF ReconnectStep, ReconnectDoes, Cleared, Open
  <2>6. ASSUME NEW f \in FrameRec, CliReadStep(f) PROVE Idle
    <3>1. cli'.streams = cli.streams \/ \E n, k, d : OnlySend(cli, cli', n, k, d)
      BY <2>6, Zenon DEF CliReadStep, CliReadDoes
    <3>2. ASSUME NEW n, NEW k, NEW d, OnlySend(cli, cli', n, k, d) PROVE Idle
      BY <3>2, SendKeeps DEF Kept, Alike, Open
    <3> QED  BY <2>1, <3>1, <3>2
  <2>7. ASSUME NEW f \in FrameRec, NEW s \in StreamRec, CliHandleStep(f, s) PROVE Idle
    <3>1. PICK T \in Table : T = cli.recvTable
      BY Zenon DEF TypeOK, CliRec
    <3>2. Fed(s, f, T) \in StreamRec
      BY FedType
    <3>3. Fed(s, f, T).state \in {"IDLE", "CLOSED"}
      BY <3>2 DEF StreamRec
    <3>4. PICK s2 : s2 = Fed(s, f, T)
      OBVIOUS
    <3>5. CliHandleDoes(f, s, s2) /\ f.id \in DOMAIN cli.streams
      BY <2>7, <3>1, <3>4 DEF CliHandleStep
    <3>6. /\ DOMAIN cli'.streams \subseteq DOMAIN cli.streams
          /\ \A id \in DOMAIN cli.streams : id # f.id => cli'.streams[id] = cli.streams[id]
          /\ f.id \in DOMAIN cli'.streams => s2.state # "CLOSED" /\ cli'.streams[f.id] = s2
      BY <3>5 DEF CliHandleDoes
    <3> QED  BY <3>3, <3>4, <3>6 DEF Open
  <2> HIDE DEF Idle
  <2>8. Idle
    BY <2>1, <2>2, <2>3, <2>4, <2>5, <2>6, <2>7
    DEF Step, FiberStep, Starts, RequestStep, RequestDoes, DueStep, CliWriteStep, CliWriteDoes,
        WroteRequest, ReaderStep, CliHandleDeletedStep, CliHandleDeletedDoes, SrvReadStep,
        ServletStep, RespondStep, SrvDoneStep, ClientKept, Still
  <2> QED  BY <2>8 DEF Idle
<1>2. \A id \in DOMAIN srv'.streams : srv'.streams[id].state = "CLOSED" => srv'.streams[id].handled # "no"
  <2> DEFINE Closed == \A id \in DOMAIN srv'.streams :
                          srv'.streams[id].state = "CLOSED" => srv'.streams[id].handled # "no"
  <2>1. srv' = srv => Closed
    BY DEF Open
  <2>2. CASE ReconnectStep
    BY <2>2 DEF ReconnectStep, ReconnectDoes
  <2>3. ASSUME NEW f \in FrameRec, SrvReadStep(f) PROVE Closed
    <3>1. CASE SrvWindowDoes(f)
      <4>1. PICK n, k, d : OnlySend(srv, srv', n, k, d)
        BY <3>1, Zenon DEF SrvWindowDoes
      <4> QED  BY <4>1, SendKeeps DEF Kept, Alike, Open
    <3>2. CASE SrvRefuseDoes(f)
      BY <2>1, <3>2 DEF SrvRefuseDoes
    <3>3. CASE SrvAcceptDoes(f, Target(f))
      BY <3>3 DEF SrvAcceptDoes, Handed, Open
    <3> QED  BY <2>3, <3>1, <3>2, <3>3 DEF SrvReadStep
  <2>4. ASSUME NEW k \in DOMAIN srv.streams, NEW s \in StreamRec, ServletStep(k, s) PROVE Closed
    <3>1. CASE RespondStep(k, s)
      BY <3>1 DEF RespondStep, RespondDoes, Marked, Open
    <3>2. CASE SrvDoneStep(k, s)
      BY <3>2 DEF SrvDoneStep, SrvDoneDoes, Alike, Open
    <3> QED  BY <2>4, <3>1, <3>2 DEF ServletStep
  <2> HIDE DEF Closed
  <2>5. Closed
    BY <2>1, <2>2, <2>3, <2>4, ServerCases DEF Closed
  <2> QED  BY <2>5 DEF Closed
<1> QED  BY <1>1, <1>2 DEF Open

LEMMA SnStep ==
    ASSUME Step
    PROVE  \/ cli'.sn = cli.sn /\ connects' = connects
           \/ ReconnectStep
           \/ cli'.sn = cli.sn + 2 /\ connects' = connects /\ \E f \in Fibers : Starts(f)
<1> DEFINE Same == cli'.sn = cli.sn /\ connects' = connects
<1>1. ASSUME NEW f \in Fibers, FiberStep(f)
      PROVE Same \/ (Starts(f) /\ cli'.sn = cli.sn + 2 /\ connects' = connects)
  <2>1. CASE Starts(f)
    BY <2>1 DEF Starts, NewStreamStep, NewStreamDoes, ServerKept
  <2>2. CASE RequestStep(f)
    BY <2>2 DEF RequestStep, RequestDoes, ServerKept
  <2>3. CASE DueStep(f)
    BY <2>3 DEF DueStep, ServerKept
  <2>4. CASE OnTimeOutStep(f)
    <3>1. OnTimeOutDoes(f) /\ connects' = connects
      BY <2>4 DEF OnTimeOutStep, ServerKept
    <3>2. cli'.sn = cli.sn
      BY <3>1, Zenon DEF OnTimeOutDoes
    <3> QED  BY <3>1, <3>2
  <2> QED  BY <1>1, <2>1, <2>2, <2>3, <2>4 DEF FiberStep, Starts
<1>2. CliWriteStep => Same
  BY DEF CliWriteStep, CliWriteDoes, WroteRequest, ServerKept
<1>3. CliChargeStep => Same
  BY DEF CliChargeStep, CliChargeDoes, OnlySend, ServerKept
<1>4. ASSUME NEW f \in FrameRec, ReaderStep(f) PROVE Same
  <2>1. CliReadStep(f) => Same
    BY Zenon DEF CliReadStep, CliReadDoes, OnlySend, ServerKept
  <2>2. CliHandleDeletedStep(f) => Same
    BY DEF CliHandleDeletedStep, CliHandleDeletedDoes, ServerKept
  <2>3. SrvReadStep(f) => Same
    BY DEF SrvReadStep, ClientKept
  <2> QED  BY <1>4, <2>1, <2>2, <2>3 DEF ReaderStep
<1>5. ASSUME NEW f \in FrameRec, NEW s \in StreamRec, CliHandleStep(f, s) PROVE Same
  BY <1>5, Zenon DEF CliHandleStep, CliHandleDoes, ServerKept
<1>6. ASSUME NEW id \in DOMAIN srv.streams, NEW s \in StreamRec, ServletStep(id, s) PROVE Same
  BY <1>6 DEF ServletStep, RespondStep, SrvDoneStep, ClientKept
<1>7. Still => Same
  BY DEF Still
<1> HIDE DEF Same
<1>8. Same \/ ReconnectStep \/ \E f \in Fibers : Starts(f) /\ cli'.sn = cli.sn + 2 /\ connects' = connects
  BY <1>1, <1>2, <1>3, <1>4, <1>5, <1>6, <1>7, Zenon DEF Step
<1> QED  BY <1>8, Zenon DEF Same

\* The numbers of the requests after a step.
LEMMA SnKept ==
    ASSUME TypeOK, Requests, Step, NEW g \in Fibers
    PROVE  \/ req'[g].sn = req[g].sn /\ (req'[g].pc # "idle" <=> req[g].pc # "idle")
           \/ /\ Starts(g) /\ req[g].sn = 0 /\ req'[g].sn = cli.sn + 2 /\ cli'.sn = cli.sn + 2
              /\ \A h \in Fibers : h # g => req'[h] = req[h]
<1>1. CASE Starts(g)
  <2>1. PICK header \in Headers, body \in {0, 1} : NewStreamStep(g, header, body)
    BY <1>1 DEF Starts
  <2>2. req[g].pc = "idle" /\ req'[g].sn = cli.sn + 2 /\ cli'.sn = cli.sn + 2 /\ OthersKept(g)
    BY <2>1 DEF NewStreamStep, NewStreamDoes
  <2>3. req[g].sn = 0
    BY <2>2 DEF Requests, Life
  <2> QED  BY <1>1, <2>2, <2>3 DEF OthersKept
<1>2. CASE RequestStep(g)
  BY <1>2 DEF RequestStep, RequestDoes
<1>3. CASE Lasts(g)
  BY <1>3 DEF Lasts
<1> QED  BY <1>1, <1>2, <1>3, ReqCases

LEMMA NumberStep ==
    ASSUME TypeOK, Requests, Step, Numbers
    PROVE  Numbers'
<1> SUFFICES ASSUME connects' = 1
             PROVE  OwnNumbers' /\ \A f \in Fibers : req'[f].pc # "idle" => req'[f].sn <= cli'.sn
  BY DEF Numbers
<1>1. connects \in Nat /\ connects >= 1 /\ cli.sn \in Int /\ cli.sn >= -1
  BY Zenon DEF TypeOK, Requests, CliRec
<1>2. ASSUME ReconnectStep PROVE FALSE
  <2>1. connects' = connects + 1
    BY <1>2 DEF ReconnectStep, ReconnectDoes
  <2> QED  BY <1>1, <2>1
<1>3. /\ connects = 1 /\ (cli'.sn = cli.sn \/ cli'.sn = cli.sn + 2)
  BY <1>2, SnStep
<1>4. OwnNumbers /\ \A f \in Fibers : req[f].pc # "idle" => req[f].sn <= cli.sn
  BY <1>3 DEF Numbers
<1>5. \A f \in Fibers : req[f].sn \in Int /\ (req[f].pc = "idle" => req[f].sn = 0)
  BY Zenon DEF TypeOK, ReqRec, Requests, Life
<1>6. ASSUME NEW f \in Fibers PROVE req'[f].pc # "idle" => req'[f].sn <= cli'.sn
  <2>1. CASE req'[f].sn = req[f].sn /\ (req'[f].pc # "idle" <=> req[f].pc # "idle")
    <3>1. req[f].pc # "idle" => req[f].sn <= cli'.sn
      BY <1>1, <1>3, <1>4, <1>5
    <3> QED  BY <2>1, <3>1
  <2>2. CASE req'[f].sn = cli.sn + 2 /\ cli'.sn = cli.sn + 2
    BY <1>1, <2>2
  <2> QED  BY <2>1, <2>2, SnKept
<1>7. ASSUME NEW f \in Fibers, req'[f].sn > 0, NEW g \in Fibers, g # f PROVE req'[g].sn # req'[f].sn
  <2>1. \A h \in Fibers : req[h].sn < cli.sn + 2
    BY <1>1, <1>4, <1>5
  <2>2. CASE req'[f].sn = req[f].sn
    <3>1. req[g].sn # req[f].sn
      BY <1>4, <1>7, <2>2 DEF OwnNumbers, OwnNumber
    <3>2. CASE req'[g].sn = req[g].sn
      BY <2>2, <3>1, <3>2
    <3>3. CASE req'[g].sn = cli.sn + 2
      <4>1. req[f].sn < cli.sn + 2 /\ req[f].sn \in Int
        BY <1>5, <2>1
      <4> QED  BY <1>1, <2>2, <3>3, <4>1
    <3> QED  BY <3>2, <3>3, SnKept
  <2>3. CASE req'[f].sn = cli.sn + 2 /\ \A h \in Fibers : h # f => req'[h] = req[h]
    <3>1. req[g].sn < cli.sn + 2 /\ req[g].sn \in Int
      BY <1>5, <2>1
    <3>2. req'[g].sn = req[g].sn
      BY <1>7, <2>3
    <3> QED  BY <1>1, <2>3, <3>1, <3>2
  <2> QED  BY <2>2, <2>3, SnKept
<1> QED  BY <1>6, <1>7 DEF OwnNumbers, OwnNumber

LEMMA OwnBefore ==
    ASSUME TypeOK, Requests, Played, Step, NEW f \in Fibers, OwnsNow(f)
    PROVE  \/ req'[f].sn = req[f].sn /\ req[f].sn > 0 /\ OwnNumber(f)
           \/ Starts(f) /\ ~InPlay(req'[f].sn)
<1>1. \A g \in Fibers : req[g].sn \in Int
  BY Zenon DEF TypeOK, ReqRec
<1>2. CASE req'[f].sn = req[f].sn
  <2>1. ASSUME NEW g \in Fibers \ {f} PROVE req[g].sn # req[f].sn
    <3>1. req'[g].sn # req'[f].sn
      BY DEF OwnsNow
    <3>2. req'[g].sn = req[g].sn \/ req[g].sn = 0
      BY SnKept
    <3>3. req[f].sn > 0
      BY <1>2 DEF OwnsNow
    <3> QED  BY <1>1, <1>2, <3>1, <3>2, <3>3
  <2> QED  BY <1>2, <2>1 DEF OwnsNow, OwnNumber
<1>3. CASE Starts(f) /\ req[f].sn = 0 /\ req'[f].sn = cli.sn + 2 /\ \A h \in Fibers : h # f => req'[h] = req[h]
  <2>1. PICK id \in Int : id = req'[f].sn
    <3>1. cli.sn \in Int
      BY Zenon DEF TypeOK, CliRec
    <3> QED  BY <1>3, <3>1
  <2>2. id # 0
    BY <2>1 DEF OwnsNow
  <2>3. ASSUME InPlay(id) PROVE FALSE
    <3>1. PICK g \in Fibers : req[g].sn = id /\ Began(g)
      BY <2>2, <2>3 DEF Played, Owner
    <3>2. g # f
      BY <1>3, <2>2, <3>1
    <3> QED  BY <1>3, <2>1, <3>1, <3>2 DEF OwnsNow
  <2> QED  BY <1>3, <2>1, <2>3
<1> QED  BY <1>2, <1>3, SnKept

LEMMA OwnNumbersBefore ==
    ASSUME TypeOK, Requests, Played, Step, OwnNumbers'
    PROVE  OwnNumbers
<1> SUFFICES ASSUME NEW f \in Fibers, req[f].sn > 0 PROVE OwnNumber(f)
  BY DEF OwnNumbers
<1>1. req'[f].sn = req[f].sn \/ req[f].sn = 0
  BY SnKept
<1>2. req'[f].sn > 0 /\ req'[f].sn = req[f].sn
  BY <1>1
<1>3. OwnsNow(f)
  BY <1>2 DEF OwnNumbers, OwnNumber, OwnsNow
<1>4. OwnNumber(f) \/ Starts(f)
  BY <1>3, OwnBefore
<1>5. ~Starts(f)
  <2>1. Starts(f) => req[f].pc = "idle"
    BY DEF Starts, NewStreamStep
  <2> QED  BY <2>1 DEF Requests, Life
<1> QED  BY <1>4, <1>5

LEMMA NotWritten ==
    ASSUME TypeOK, Played, NEW f \in Fibers, req[f].sn > 0, OwnNumber(f), Asks(queue, f) \/ ~Began(f)
    PROVE  ~InPlay(req[f].sn)
<1>1. PICK id \in Int : id = req[f].sn
  BY Zenon DEF TypeOK, ReqRec
<1>2. id # 0
  BY <1>1
<1>3. \A g \in Fibers : req[g].sn = id => g = f
  BY <1>1 DEF OwnNumber
<1> QED  BY <1>1, <1>2, <1>3 DEF Played, Owner

LEMMA NoneEnds ==
    ASSUME NEW q, NEW id, ~Has(q, Traffic, id)
    PROVE  LastEnds(q, id)
  BY DEF Has, LastEnds, Is, Range

LEMMA UnreadStep ==
    ASSUME TypeOK, Led, Requests, Played, Open, Step, NEW f \in Fibers, req[f].sn > 0, OwnNumber(f),
           NEW id \in Int, id = req[f].sn, Unread(id)
    PROVE  Unread(id)'
<1>1. PICK s \in Seq(FrameRec) : s = toSrv
  BY Zenon DEF TypeOK
<1>2. CASE srv' = srv /\ toSrv' = toSrv
  BY <1>2 DEF Unread
<1>3. CASE CliWriteStep /\ srv' = srv
  <2>1. PICK r \in Seq(FrameRec) : toSrv' = s \o r /\ WriterDoes(r)
    BY <1>1, <1>3, WriterAdds DEF SrvFed
  <2>2. HasCatDoes(s, r, Traffic, id)
    BY HasCat
  <2>3. /\ queue # <<>>
        /\ Has(r, Traffic, id) => \E g \in Fibers : HeadAsks(g) /\ req[g].sn = id /\ MessageEnds(r, id)
    BY <1>3, <2>1, TrafficWritten, Zenon DEF CliWriteStep
  <2>3a. LastEnds(r, id)
    BY <2>3, NoneEnds DEF MessageEnds
  <2>4. CASE Has(s, Traffic, id)
    <3>1. ~(\E g \in Fibers : HeadAsks(g) /\ req[g].sn = id)
      <4> SUFFICES ASSUME NEW g \in Fibers, HeadAsks(g), req[g].sn = id PROVE FALSE
        OBVIOUS
      <4>1. g = f
        BY DEF OwnNumber
      <4>2. Asks(queue, f)
        BY <1>3, <4>1, QueueAsks DEF QueueDoes
      <4> QED  BY <1>1, <2>4, <4>2, NotWritten DEF InPlay
    <3>2. ~Has(r, Traffic, id)
      BY <2>3, <3>1
    <3>3. LastEnds(s \o r, id)
      BY <1>1, <2>3a, <3>2, LastEndsCat DEF Unread
    <3> QED  BY <1>1, <1>3, <2>1, <2>4, <3>3 DEF Unread
  <2>5. CASE ~Has(s, Traffic, id)
    <3>1. LastEnds(s \o r, id)
      BY <1>1, <2>3a, <2>5, LastEndsCat DEF Unread
    <3>2. CASE ~Has(toSrv', Traffic, id)
      BY <2>1, <3>1, <3>2 DEF Unread
    <3>3. CASE Has(toSrv', Traffic, id)
      <4>1. PICK g \in Fibers : HeadAsks(g) /\ req[g].sn = id
        BY <1>1, <2>5, <3>3, ToSrvGrows
      <4>2. g = f
        BY <4>1 DEF OwnNumber
      <4>3. Asks(queue, f)
        BY <1>3, <4>1, <4>2, QueueAsks DEF QueueDoes
      <4>4. ~InPlay(id)
        BY <4>3, NotWritten
      <4> QED  BY <1>3, <2>1, <3>1, <4>4 DEF Unread, InPlay
    <3> QED  BY <3>2, <3>3
  <2> QED  BY <2>4, <2>5
<1>4. CASE ReconnectStep
  <2>1. toSrv' = <<>>
    BY <1>4 DEF ReconnectStep, ReconnectDoes
  <2>2. ~Has(<<>>, Traffic, id)
    BY RangeEmpty DEF Has
  <2>3. LastEnds(<<>>, id)
    BY <2>2, NoneEnds
  <2> QED  BY <2>1, <2>2, <2>3 DEF Unread
<1>5. ASSUME NEW x \in FrameRec, SrvReadStep(x) PROVE Unread(id)'
  <2>1. s # <<>> /\ x = Head(s) /\ toSrv' = Tail(s)
    BY <1>1, <1>5 DEF SrvReadStep
  <2>2. LastTail(s, id)
    BY <1>1, <2>1, LastEndsTail DEF Unread
  <2>3. HasTailDoes(s, Traffic, id)
    BY <2>1, HasTail
  <2>4. LastEnds(toSrv', id)
    BY <2>1, <2>2 DEF LastTail
  <2>5. CASE ~Has(toSrv', Traffic, id)
    BY <2>4, <2>5 DEF Unread
  <2>6. CASE Has(toSrv', Traffic, id)
    <3>1. Has(toSrv, Traffic, id) /\ ~Ends(x, id)
      BY <1>1, <2>1, <2>2, <2>3, <2>6 DEF HasTailDoes, LastTail
    <3>2. /\ id = srv.sn => id \in DOMAIN srv.streams
          /\ id \in DOMAIN srv.streams => srv.streams[id].handled = "no"
      BY <3>1 DEF Unread
    <3>3. CASE SrvWindowDoes(x)
      <4>1. PICK n, k, d : OnlySend(srv, srv', n, k, d)
        BY <3>3, Zenon DEF SrvWindowDoes
      <4>2. srv'.sn = srv.sn /\ Kept(srv, srv')
        BY <4>1, SendKeeps
      <4> QED  BY <2>4, <3>2, <4>2 DEF Unread, Kept, Alike
    <3>4. CASE SrvRefuseDoes(x)
      BY <2>4, <3>2, <3>4 DEF Unread, SrvRefuseDoes
    <3>5. CASE SrvAcceptDoes(x, Target(x))
      <4>1. /\ srv'.sn = IF x.id \in DOMAIN srv.streams THEN srv.sn ELSE x.id
            /\ DOMAIN srv'.streams = DOMAIN srv.streams \union {x.id}
            /\ \A k \in DOMAIN srv.streams : k # x.id => srv'.streams[k] = srv.streams[k]
            /\ x.t # "WINDOW_UPDATE"
        BY <3>5 DEF SrvAcceptDoes
      <4>2. id = srv'.sn => id \in DOMAIN srv'.streams
        BY <3>2, <4>1
      <4>3. CASE id # x.id
        BY <2>4, <3>2, <4>1, <4>2, <4>3 DEF Unread
      <4>4. CASE id = x.id
        <5>1. PICK t \in StreamRec, T \in Table : t = Target(x) /\ T = srv.recvTable
          BY TargetType, Zenon DEF TypeOK, SrvRec
        <5>2. Handed(Fed(t, x, T), srv'.streams[id])
          BY <3>5, <4>4, <5>1 DEF SrvAcceptDoes
        <5>3. x.t \in Traffic
          <6>1. x \in Range(s)
            BY <2>1, RangeTail
          <6>2. x.t # "RST_STREAM"
            BY <1>1, <6>1 DEF Led
          <6> QED  BY <4>1, <6>2 DEF FrameRec, Traffic
        <5>4. ~x.end
          BY <3>1, <4>4, <5>3 DEF Ends
        <5>5. Fed(t, x, T).state = t.state /\ Fed(t, x, T).handled = t.handled
          BY <5>3, <5>4 DEF Fed, Traffic
        <5>6. t.handled = "no" /\ t.state # "CLOSED"
          <6>1. CASE id \in DOMAIN srv.streams
            BY <3>2, <4>4, <5>1, <6>1 DEF Target, Open
          <6>2. CASE id \notin DOMAIN srv.streams
            BY <4>4, <5>1, <6>2 DEF Target, Stream
          <6> QED  BY <6>1, <6>2
        <5>7. srv'.streams[id].handled = "no"
          BY <5>2, <5>5, <5>6 DEF Handed
        <5> QED  BY <2>4, <4>2, <5>7 DEF Unread
      <4> QED  BY <4>3, <4>4
    <3> QED  BY <1>5, <3>3, <3>4, <3>5 DEF SrvReadStep
  <2> QED  BY <2>5, <2>6
<1>6. ASSUME NEW k \in DOMAIN srv.streams, NEW r \in StreamRec, ServletStep(k, r), toSrv' = toSrv
      PROVE  Unread(id)'
  <2>1. r = srv.streams[k] /\ r.handled # "no"
    BY <1>6 DEF ServletStep, RespondStep, RespondDoes, SrvDoneStep, SrvDoneDoes
  <2>2. srv'.sn = srv.sn
    BY <1>6 DEF ServletStep, RespondStep, RespondDoes, SrvDoneStep, SrvDoneDoes
  <2>3. /\ DOMAIN srv'.streams \subseteq DOMAIN srv.streams
        /\ \A j \in DOMAIN srv.streams : j # k =>
              j \in DOMAIN srv'.streams /\ srv'.streams[j].handled = srv.streams[j].handled
    <3>1. CASE RespondStep(k, r)
      BY <3>1 DEF RespondStep, RespondDoes
    <3>2. CASE SrvDoneStep(k, r)
      BY <3>2 DEF SrvDoneStep, SrvDoneDoes, Alike
    <3> QED  BY <1>6, <3>1, <3>2 DEF ServletStep
  <2>4. Has(toSrv, Traffic, id) => id # k
    BY <2>1 DEF Unread
  <2> QED  BY <1>6, <2>2, <2>3, <2>4 DEF Unread
<1> QED  BY <1>2, <1>3, <1>4, <1>5, <1>6, ServerCases

LEMMA RefusedGrows ==
    ASSUME Step
    PROVE  ReconnectStep \/ refused \subseteq refused'
  BY Zenon DEF Step, FiberStep, NewStreamStep, RequestStep, DueStep, OnTimeOutStep, CliWriteStep, CliChargeStep,
         ReaderStep, CliReadStep, CliHandleStep, CliHandleDeletedStep, SrvReadStep, SrvWindowDoes,
         SrvRefuseDoes, SrvAcceptDoes, ServletStep, RespondStep, SrvDoneStep, Rest, Still

\* The frame that the server reads is one of the stream's, if it is no WINDOW_UPDATE.
LEMMA SrvReadHead ==
    ASSUME TypeOK, Led, NEW x \in FrameRec, SrvReadStep(x), x.t # "WINDOW_UPDATE"
    PROVE  x.t \in Traffic /\ Has(toSrv, Traffic, x.id)
<1>1. PICK s \in Seq(FrameRec) : s = toSrv /\ s # <<>> /\ x = Head(s)
  BY Zenon DEF TypeOK, SrvReadStep
<1>2. x \in Range(toSrv)
  BY <1>1, RangeTail
<1>3. x.t # "RST_STREAM"
  BY <1>2 DEF Led
<1>4. x.t \in Traffic
  BY <1>3 DEF FrameRec, Traffic
<1> QED  BY <1>2, <1>4 DEF Has, Is

LEMMA WaysStep ==
    ASSUME TypeOK, Led, Requests, Played, Open, Ways, Step
    PROVE  Ways'
<1> SUFFICES ASSUME NEW f \in Fibers, OwnsNow(f) PROVE \E id : id = req'[f].sn /\ Way(id)'
  BY DEF Ways, OwnsNow, OwnNumber
<1>1. CASE Starts(f) /\ ~InPlay(req'[f].sn)
  <2>1. PICK id : id = req'[f].sn
    OBVIOUS
  <2>2. toSrv' = toSrv /\ toCli' = toCli
    BY <1>1 DEF Starts, NewStreamStep, WireKept
  <2>3. ~Has(toSrv, Traffic, id) /\ ~Has(toCli, Answers, id)
    BY <1>1, <2>1 DEF InPlay
  <2>4. ~Has(toCli, {"RST_STREAM"}, id)
    BY <2>3 DEF Has, Is, Answers
  <2>5. LastEnds(toSrv, id)
    BY <2>3, NoneEnds
  <2> QED  BY <2>1, <2>2, <2>3, <2>4, <2>5 DEF Way
<1>2. CASE req'[f].sn = req[f].sn /\ req[f].sn > 0 /\ OwnNumber(f)
  <2>1. PICK id \in Int : id = req[f].sn
    BY Zenon DEF TypeOK, ReqRec
  <2>2. Way(id)
    BY <1>2, <2>1 DEF Ways
  <2>3. Unread(id)'
    BY <1>2, <2>1, <2>2, UnreadStep DEF Way, Unread
  <2>4. ASSUME Has(toCli', {"RST_STREAM"}, id) PROVE \E k \in refused' : k < id
    <3>1. {"RST_STREAM"} \in SUBSET Answers /\ {"RST_STREAM"} \intersect Traffic = {}
      BY DEF Answers, Traffic
    <3>2. ~ReconnectStep
      BY <2>4, RangeEmpty DEF ReconnectStep, ReconnectDoes, Has
    <3>3. CASE Has(toCli, {"RST_STREAM"}, id)
      BY <2>2, <3>2, <3>3, RefusedGrows DEF Way
    <3>4. ASSUME NEW x \in FrameRec, SrvReadStep(x), SrvRefuseDoes(x), id = srv.sn
          PROVE  \E k \in refused' : k < id
      <4>1. x.t # "WINDOW_UPDATE" /\ x.id \notin DOMAIN srv.streams /\ x.id <= srv.sn /\ x.id \in refused'
        BY <3>4 DEF SrvRefuseDoes
      <4>2. Has(toSrv, Traffic, x.id)
        BY <3>4, <4>1, SrvReadHead
      <4>3. x.id # id
        BY <2>2, <3>4, <4>1, <4>2 DEF Way
      <4>4. x.id \in Int
        BY DEF FrameRec
      <4> QED  BY <3>4, <4>1, <4>3, <4>4
    <3> QED  BY <2>4, <3>1, <3>3, <3>4, ToCliGrows
  <2> QED  BY <1>2, <2>1, <2>3, <2>4 DEF Way, Unread
<1> QED  BY <1>1, <1>2, OwnBefore

\* Who takes a stream or an entry away.
LEMMA FiledCases ==
    ASSUME Step, NEW id
    PROVE  \/ /\ id \in DOMAIN cli.streams => id \in DOMAIN cli'.streams
              /\ id \in DOMAIN cli.ctxs => id \in DOMAIN cli'.ctxs /\ cli'.ctxs[id] = cli.ctxs[id]
           \/ ReconnectStep
           \/ \E f \in Fibers : OnTimeOutStep(f)
           \/ \E x \in FrameRec, s \in StreamRec :
                 /\ CliHandleStep(x, s) /\ id = x.id /\ Fed(s, x, cli.recvTable).state = "CLOSED"
<1> DEFINE Stays == /\ id \in DOMAIN cli.streams => id \in DOMAIN cli'.streams
                    /\ id \in DOMAIN cli.ctxs => id \in DOMAIN cli'.ctxs /\ cli'.ctxs[id] = cli.ctxs[id]
<1>1. cli' = cli => Stays
  OBVIOUS
<1>2. ASSUME NEW f \in Fibers, FiberStep(f), ~OnTimeOutStep(f) PROVE Stays
  BY <1>2 DEF FiberStep, NewStreamStep, NewStreamDoes, RequestStep, RequestDoes, DueStep
<1>3. ASSUME CliWriteStep PROVE Stays
  BY <1>3 DEF CliWriteStep, CliWriteDoes, WroteRequest
<1>4. ASSUME CliChargeStep PROVE Stays
  BY <1>4 DEF CliChargeStep, CliChargeDoes, OnlySend
<1>5. ASSUME NEW f \in FrameRec, ReaderStep(f) PROVE Stays
  BY <1>5, Zenon DEF ReaderStep, CliReadStep, CliReadDoes, OnlySend, CliHandleDeletedStep,
              CliHandleDeletedDoes, SrvReadStep, ClientKept
<1>6. ASSUME NEW x \in FrameRec, NEW s \in StreamRec, CliHandleStep(x, s)
      PROVE  Stays \/ (id = x.id /\ Fed(s, x, cli.recvTable).state = "CLOSED")
  <2>1. PICK s2 : s2 = Fed(s, x, cli.recvTable)
    OBVIOUS
  <2>2. CliHandleDoes(x, s, s2)
    BY <1>6, <2>1 DEF CliHandleStep
  <2>3. CASE s2.state # "CLOSED"
    BY <2>2, <2>3 DEF CliHandleDoes
  <2>4. CASE id # x.id
    BY <2>2, <2>4 DEF CliHandleDoes
  <2> QED  BY <2>1, <2>3, <2>4
<1> HIDE DEF Stays
<1>7. \/ Stays
      \/ ReconnectStep
      \/ \E f \in Fibers : OnTimeOutStep(f)
      \/ \E x \in FrameRec, s \in StreamRec :
            CliHandleStep(x, s) /\ id = x.id /\ Fed(s, x, cli.recvTable).state = "CLOSED"
  BY <1>1, <1>2, <1>3, <1>4, <1>5, <1>6
  DEF Step, ServletStep, RespondStep, SrvDoneStep, ClientKept, Still
<1> QED  BY <1>7 DEF Stays

LEMMA CloseAnswers ==
    ASSUME NEW f \in Fibers, Filed(f), req[f].pc = "waiting", NEW x \in FrameRec, NEW s \in StreamRec,
           CliHandleStep(x, s), x.id = req[f].sn, Fed(s, x, cli.recvTable).state = "CLOSED"
    PROVE  req'[f].pc = "done"
<1>1. PICK s2 : s2 = Fed(s, x, cli.recvTable)
  OBVIOUS
<1>2. CliHandleDoes(x, s, s2) /\ s2.state = "CLOSED" /\ x.id \in DOMAIN cli.ctxs /\ cli.ctxs[x.id] = f
  BY <1>1 DEF CliHandleStep, Filed
<1>3. \E g \in Fibers : g = cli.ctxs[x.id] /\ \E result, got : Answered(req'[g], req[g], result, got)
  BY <1>2 DEF CliHandleDoes
<1> QED  BY <1>2, <1>3 DEF Answered

\* On the first connection, before any timer: what a request waits for moves on.
LEMMA OnwardStep ==
    ASSUME TypeOK, Led, Requests, Played, Open, Ways, Step, ~ReconnectStep, cli.held # "out",
           NEW f \in Fibers, req[f].pc = "waiting", req'[f].pc = "waiting", req'[f].sn = req[f].sn,
           req[f].sn > 0, OwnNumber(f), Filed(f), Onward(f)
    PROVE  Onward(f)'
<1>1. PICK id \in Int : id = req[f].sn /\ id = req'[f].sn
  BY Zenon DEF TypeOK, ReqRec
<1>2. PICK q \in Seq(FrameRec), c \in Seq(FrameRec) : q = toSrv /\ c = toCli
  BY Zenon DEF TypeOK
<1>3. ASSUME NEW r, CliFed(r), EndOnWay(c, id) \/ EndOnWay(r, id) PROVE EndOnWay(toCli', id)
  <2>1. EndCatDoes(c, r, id)
    BY <1>3, EndCat DEF CliFed
  <2> QED  BY <1>2, <1>3, <2>1 DEF EndCatDoes, CliFed
<1>4. CASE Asks(queue, f)
  <2>1. CASE Asks(queue', f)
    BY <2>1 DEF Onward
  <2>2. CASE CliWriteStep /\ HeadAsks(f)
    <3>1. PICK r \in Seq(FrameRec) : toSrv' = q \o r /\ WriterDoes(r)
      BY <1>2, <2>2, WriterAdds, Zenon DEF SrvFed
    <3>2. AskWritten(f, r)
      BY <2>2, <3>1 DEF WriterDoes, HeadAsks, AskIs, AskWritten, AskDropped, Filed
    <3>3. EndOnWay(r, id)
      BY <1>1, <3>2, AskMessage DEF MessageEnds
    <3>4. EndCatDoes(q, r, id)
      BY EndCat
    <3> QED  BY <1>1, <3>1, <3>3, <3>4 DEF EndCatDoes, Onward
  <2> QED  BY <1>4, <2>1, <2>2, QueueAsks DEF QueueDoes
<1>5. CASE EndOnWay(toSrv, id)
  <2>1. CASE toSrv' = toSrv
    BY <1>1, <1>5, <2>1 DEF Onward
  <2>2. CASE CliWriteStep
    <3>1. PICK r \in Seq(FrameRec) : toSrv' = q \o r
      BY <1>2, <2>2, WriterAdds, Zenon DEF SrvFed
    <3>2. EndCatDoes(q, r, id)
      BY EndCat
    <3> QED  BY <1>1, <1>2, <1>5, <3>1, <3>2 DEF EndCatDoes, Onward
  <2>3. ASSUME NEW x \in FrameRec, SrvReadStep(x) PROVE Onward(f)'
    <3>1. q # <<>> /\ x = Head(q) /\ toSrv' = Tail(q)
      BY <1>2, <2>3 DEF SrvReadStep
    <3>2. EndTailDoes(q, id)
      BY <3>1, EndTail
    <3>3. CASE EndOnWay(toSrv', id)
      BY <1>1, <3>3 DEF Onward
    <3>4. CASE Ends(x, id)
      <4>1. x.t \in Traffic /\ x.t # "WINDOW_UPDATE" /\ x.id = id /\ x.end
        BY <3>4 DEF Ends, Traffic
      <4>2. CASE SrvRefuseDoes(x)
        BY <1>1, <4>1, <4>2 DEF SrvRefuseDoes, Onward
      <4>3. CASE SrvAcceptDoes(x, Target(x))
        <5>1. PICK t \in StreamRec, T \in Table : t = Target(x) /\ T = srv.recvTable
          BY TargetType, Zenon DEF TypeOK, SrvRec
        <5>2. Handed(Fed(t, x, T), srv'.streams[id]) /\ id \in DOMAIN srv'.streams
          BY <4>1, <4>3, <5>1 DEF SrvAcceptDoes
        <5>3. Has(toSrv, Traffic, id)
          BY <2>3, <4>1, SrvReadHead
        <5>4. id \in DOMAIN srv.streams => srv.streams[id].handled = "no"
          BY <1>1, <5>3 DEF Ways, Way
        <5>5. t.handled = "no"
          BY <4>1, <5>1, <5>4 DEF Target, Stream
        <5>6. Fed(t, x, T).state = "CLOSED" /\ Fed(t, x, T).handled = "no"
          BY <4>1, <5>5 DEF Fed
        <5>7. srv'.streams[id].handled = "scheduled"
          BY <5>2, <5>6 DEF Handed
        <5> QED  BY <1>1, <5>2, <5>7 DEF Onward
      <4> QED  BY <2>3, <4>1, <4>2, <4>3, Zenon DEF SrvReadStep, SrvWindowDoes
    <3> QED  BY <1>2, <1>5, <3>1, <3>2, <3>3, <3>4 DEF EndTailDoes
  <2> QED  BY <2>1, <2>2, <2>3, ServerCases
<1>6. CASE id \in DOMAIN srv.streams /\ srv.streams[id].handled = "scheduled"
  <2>1. CASE srv' = srv
    BY <1>1, <1>6, <2>1 DEF Onward
  <2>2. ASSUME NEW x \in FrameRec, SrvReadStep(x) PROVE Onward(f)'
    <3>1. id \in DOMAIN srv'.streams /\ srv'.streams[id].handled = "scheduled"
      <4>1. CASE SrvWindowDoes(x)
        <5>1. PICK n, k, d : OnlySend(srv, srv', n, k, d)
          BY <4>1, Zenon DEF SrvWindowDoes
        <5> QED  BY <1>6, <5>1, SendKeeps DEF Kept, Alike
      <4>2. CASE SrvRefuseDoes(x)
        BY <1>6, <4>2 DEF SrvRefuseDoes
      <4>3. CASE SrvAcceptDoes(x, Target(x))
        <5>1. CASE id # x.id
          BY <1>6, <4>3, <5>1 DEF SrvAcceptDoes
        <5>2. CASE id = x.id
          <6>1. PICK t, T : t = srv.streams[id] /\ T = srv.recvTable
            OBVIOUS
          <6>2. Handed(Fed(t, x, T), srv'.streams[id]) /\ id \in DOMAIN srv'.streams
            BY <1>6, <4>3, <5>2, <6>1 DEF SrvAcceptDoes, Target
          <6>3. Fed(t, x, T).handled = "scheduled"
            BY <1>6, <6>1 DEF Fed
          <6> QED  BY <6>2, <6>3 DEF Handed
        <5> QED  BY <5>1, <5>2
      <4> QED  BY <2>2, <4>1, <4>2, <4>3 DEF SrvReadStep
    <3> QED  BY <1>1, <3>1 DEF Onward
  <2>3. ASSUME NEW k \in DOMAIN srv.streams, NEW s \in StreamRec, ServletStep(k, s) PROVE Onward(f)'
    <3>1. CASE RespondStep(k, s)
      <4>1. CASE k # id
        BY <1>1, <1>6, <3>1, <4>1 DEF RespondStep, RespondDoes, Onward
      <4>2. CASE k = id
        <5>1. PICK r : CliFed(r) /\ Responds(k, s, r)
          BY <3>1, RespondAdds
        <5>2. PICK none : none = (s.body = 0)
          OBVIOUS
        <5>3. PICK block : none \in BOOLEAN /\ IsMessage(r, k, block, none)
          BY <5>1, <5>2 DEF Responds
        <5>4. EndOnWay(r, id)
          BY <4>2, <5>3, MessageLast DEF MessageEnds
        <5> QED  BY <1>1, <1>3, <5>1, <5>4 DEF Onward
      <4> QED  BY <4>1, <4>2
    <3>2. CASE SrvDoneStep(k, s)
      <4>1. k # id
        BY <1>6, <3>2 DEF SrvDoneStep, SrvDoneDoes
      <4>2. id \in DOMAIN srv'.streams /\ srv'.streams[id].handled = "scheduled"
        BY <1>6, <3>2, <4>1 DEF SrvDoneStep, SrvDoneDoes, Alike
      <4> QED  BY <1>1, <4>2 DEF Onward
    <3> QED  BY <2>3, <3>1, <3>2 DEF ServletStep
  <2> QED  BY <2>1, <2>2, <2>3, ServerCases
<1>7. CASE EndOnWay(toCli, id)
  <2>1. CASE toCli' = toCli
    BY <1>1, <1>7, <2>1 DEF Onward
  <2>2. ASSUME NEW r, CliFed(r) PROVE Onward(f)'
    BY <1>1, <1>2, <1>3, <1>7, <2>2 DEF Onward
  <2>3. ASSUME c # <<>>, toCli' = Tail(c), ~Ends(Head(c), id) PROVE Onward(f)'
    <3>1. EndTailDoes(c, id)
      BY <2>3, EndTail
    <3> QED  BY <1>1, <1>2, <1>7, <2>3, <3>1 DEF EndTailDoes, Onward
  <2>4. ASSUME NEW x \in FrameRec, CliReadStep(x) PROVE Onward(f)'
    <3>1. c # <<>> /\ x = Head(c)
      BY <1>2, <2>4 DEF CliReadStep
    <3>2. toCli' = toCli \/ (toCli' = Tail(c) /\ ~Ends(x, id))
      BY <1>1, <1>2, <2>4, Zenon DEF CliReadStep, CliReadDoes, Ends, Traffic, Filed
    <3> QED  BY <2>1, <2>3, <3>1, <3>2
  <2>5. ASSUME NEW x \in FrameRec, NEW s \in StreamRec, CliHandleStep(x, s) PROVE Onward(f)'
    <3>1. c # <<>> /\ x = Head(c) /\ toCli' = Tail(c)
      BY <1>2, <2>5, Zenon DEF CliHandleStep, CliHandleDoes
    <3>2. ~Ends(x, id)
      <4> SUFFICES ASSUME Ends(x, id) PROVE FALSE
        OBVIOUS
      <4>1. x.id = id /\ x.end
        BY DEF Ends
      <4>2. Fed(s, x, cli.recvTable).state = "CLOSED"
        BY <4>1 DEF Fed
      <4> QED  BY <1>1, <2>5, <4>1, <4>2, CloseAnswers
    <3> QED  BY <2>3, <3>1, <3>2
  <2>6. CASE (\E x \in FrameRec : SrvReadStep(x)) \/ \E k \in DOMAIN srv.streams, s \in StreamRec : ServletStep(k, s)
    BY <2>2, <2>6, ServerAdds
  <2> QED  BY <2>1, <2>4, <2>5, <2>6
           DEF Step, FiberStep, NewStreamStep, RequestStep, DueStep, OnTimeOutStep, CliWriteStep,
               CliChargeStep, ReaderStep, CliHandleDeletedStep, WireKept, Still
<1>8. CASE id \in refused
  BY <1>1, <1>8, RefusedGrows DEF Onward
<1> QED  BY <1>1, <1>4, <1>5, <1>6, <1>7, <1>8 DEF Onward

LEMMA TimeoutsStep ==
    ASSUME TypeOK, Requests, Step, connects' = 1, ~timeouts'
    PROVE  connects = 1 /\ ~timeouts /\ ~ReconnectStep /\ ~(\E f \in Fibers : OnTimeOutStep(f))
<1>1. connects \in Nat /\ connects >= 1
  BY Zenon DEF TypeOK, Requests
<1>2. ASSUME ReconnectStep PROVE FALSE
  <2>1. connects' = connects + 1
    BY <1>2 DEF ReconnectStep, ReconnectDoes
  <2> QED  BY <1>1, <2>1
<1>3. ~(\E f \in Fibers : OnTimeOutStep(f))
  BY DEF OnTimeOutStep
<1>4. timeouts' = timeouts
  BY <1>2, <1>3 DEF Step, FiberStep, NewStreamStep, RequestStep, DueStep, CliWriteStep, CliChargeStep,
       ReaderStep, CliReadStep, CliHandleStep, CliHandleDeletedStep, SrvReadStep, ServletStep,
       RespondStep, SrvDoneStep, ClientKept, Rest, Still
<1> QED  BY <1>2, <1>3, <1>4, SnStep

\* A request that goes on keeps its stream, and its entry.
LEMMA SettledStep ==
    ASSUME TypeOK, Requests, Played, Contexts, Settled, Step
    PROVE  Settled'
<1> SUFFICES ASSUME OwnNumbers', NEW f \in Fibers
             PROVE  /\ req'[f].pc = "numbered" => req'[f].sn \in DOMAIN cli'.streams
                    /\ req'[f].pc = "waiting" => Filed(f)'
  BY DEF Settled
<1>1. /\ OwnNumbers
      /\ req[f].pc = "numbered" => req[f].sn \in DOMAIN cli.streams
      /\ req[f].pc = "waiting" => Filed(f)
  BY OwnNumbersBefore DEF Settled
<1>2. CASE Starts(f)
  <2>1. req'[f].pc = "numbered" /\ req'[f].sn \in DOMAIN cli'.streams
    BY <1>2 DEF Starts, NewStreamStep, NewStreamDoes
  <2> QED  BY <2>1
<1>3. CASE RequestStep(f)
  <2>1. /\ req[f].pc = "numbered" /\ req'[f].pc = "waiting" /\ req'[f].sn = req[f].sn
        /\ cli'.streams = cli.streams
        /\ DOMAIN cli'.ctxs = DOMAIN cli.ctxs \union {req[f].sn}
        /\ req[f].sn \notin DOMAIN cli.ctxs => cli'.ctxs[req[f].sn] = f
    BY <1>3 DEF RequestStep, RequestDoes
  <2>2. req[f].sn > 0 /\ OwnNumber(f)
    BY <1>1, <2>1 DEF Requests, Life, OwnNumbers
  <2>3. req[f].sn \notin DOMAIN cli.ctxs
    <3> SUFFICES ASSUME req[f].sn \in DOMAIN cli.ctxs PROVE FALSE
      OBVIOUS
    <3>1. PICK g \in Fibers : g = cli.ctxs[req[f].sn] /\ req[g].sn = req[f].sn /\ Began(g)
      BY StreamAt DEF Contexts
    <3>2. g = f
      BY <2>2, <3>1 DEF OwnNumber
    <3> QED  BY <2>1, <3>1, <3>2 DEF Began
  <2> QED  BY <1>1, <2>1, <2>3 DEF Filed
<1>4. ASSUME Lasts(f), req'[f].pc \in {"numbered", "waiting"}
      PROVE  /\ req'[f].pc = "numbered" => req'[f].sn \in DOMAIN cli'.streams
             /\ req'[f].pc = "waiting" => Filed(f)'
  <2>1. req'[f].sn = req[f].sn /\ req'[f].pc = req[f].pc
    BY <1>4 DEF Lasts
  <2>2. req[f].sn > 0 /\ OwnNumber(f)
    BY <1>1, <1>4, <2>1 DEF Requests, Life, OwnNumbers
  <2>3. ASSUME NEW x \in FrameRec, NEW s \in StreamRec, CliHandleStep(x, s), req[f].sn = x.id,
               Fed(s, x, cli.recvTable).state = "CLOSED"
        PROVE  FALSE
    <3>1. PICK c \in Seq(FrameRec) : c = toCli /\ c # <<>> /\ x = Head(c)
      BY <2>3, Zenon DEF TypeOK, CliHandleStep
    <3>2. x \in Range(toCli)
      BY <3>1, RangeTail
    <3>3. x.t \in Answers
      BY <2>3 DEF CliHandleStep, FrameRec, Answers
    <3>4. InPlay(req[f].sn)
      BY <2>3, <3>2, <3>3 DEF InPlay, Has, Is
    <3>5. Began(f)
      BY <2>2, <3>4, NotWritten
    <3> QED  BY <1>1, <1>4, <2>1, <2>3, <3>5, CloseAnswers DEF Began
  <2>4. CASE ReconnectStep
    <3>1. DOMAIN cli'.streams = DOMAIN cli.streams /\ (req[f].pc = "waiting" => f \notin Range(cli.ctxs))
      BY <1>4, <2>1, <2>4 DEF ReconnectStep, ReconnectDoes, Answered
    <3>2. Filed(f) => f \in Range(cli.ctxs)
      BY DEF Filed, Range
    <3> QED  BY <1>1, <2>1, <3>1, <3>2
  <2>5. ASSUME NEW g \in Fibers, OnTimeOutStep(g)
        PROVE  /\ req[f].sn \in DOMAIN cli.streams => req[f].sn \in DOMAIN cli'.streams
               /\ req[f].sn \in DOMAIN cli.ctxs =>
                     req[f].sn \in DOMAIN cli'.ctxs /\ cli'.ctxs[req[f].sn] = cli.ctxs[req[f].sn]
    <3>1. req[g].timer = "due" /\ OnTimeOutDoes(g)
      BY <2>5 DEF OnTimeOutStep
    <3>2. g # f
      <4>1. Began(g) /\ (req[g].pc = "waiting" => req'[g].pc = "done")
        BY <3>1 DEF Requests, Life, OnTimeOutDoes, Answered
      <4> QED  BY <1>4, <2>1, <4>1 DEF Began
    <3>3. req[g].sn # req[f].sn
      BY <2>2, <3>2 DEF OwnNumber
    <3> QED  BY <3>1, <3>3 DEF OnTimeOutDoes
  <2>6. CASE ~ReconnectStep
    <3>1. /\ req[f].sn \in DOMAIN cli.streams => req[f].sn \in DOMAIN cli'.streams
          /\ req[f].sn \in DOMAIN cli.ctxs =>
                req[f].sn \in DOMAIN cli'.ctxs /\ cli'.ctxs[req[f].sn] = cli.ctxs[req[f].sn]
      BY <2>3, <2>5, <2>6, FiledCases
    <3> QED  BY <1>1, <2>1, <3>1 DEF Filed
  <2> QED  BY <2>4, <2>6
<1> QED  BY <1>2, <1>3, <1>4, ReqCases

LEMMA FollowStep ==
    ASSUME TypeOK, HeldOk, Led, Requests, Played, Open, Numbers, Ways, Settled, Follow, Step
    PROVE  Follow'
<1> SUFFICES ASSUME connects' = 1, ~timeouts'
             PROVE  cli'.held # "out" /\ \A f \in Fibers : req'[f].pc = "waiting" => Onward(f)'
  BY DEF Follow
<1>1. connects = 1 /\ ~timeouts /\ ~ReconnectStep /\ ~(\E f \in Fibers : OnTimeOutStep(f))
  BY TimeoutsStep
<1>2. /\ OwnNumbers /\ cli.held # "out"
      /\ \A f \in Fibers : req[f].pc = "waiting" => Filed(f) /\ Onward(f)
  BY <1>1 DEF Follow, Numbers, Settled
<1>3. cli'.held # "out"
  <2>1. cli'.held = cli.held \/ cli'.held = None \/ cli'.held = "in"
    BY <1>1, Zenon DEF Step, FiberStep, NewStreamStep, NewStreamDoes, RequestStep, RequestDoes, DueStep,
           CliWriteStep, CliWriteDoes, WroteRequest, CliChargeStep, CliChargeDoes, ReaderStep,
           CliReadStep, CliReadDoes, CliHandleDeletedStep, CliHandleDeletedDoes, SrvReadStep,
           CliHandleStep, CliHandleDoes, ServletStep, RespondStep, SrvDoneStep, ClientKept, Still
  <2> QED  BY <1>2, <2>1, Http2Assumption
<1>4. ASSUME NEW f \in Fibers, req'[f].pc = "waiting" PROVE Onward(f)'
  <2>1. ~Starts(f)
    BY <1>4 DEF Starts, NewStreamStep, NewStreamDoes
  <2>2. CASE RequestStep(f)
    <3>1. Asks(queue', f)
      BY <2>2, QueueAsks DEF QueueDoes
    <3> QED  BY <3>1 DEF Onward
  <2>3. CASE Lasts(f)
    <3>1. req'[f].sn = req[f].sn /\ req[f].pc = "waiting"
      BY <1>4, <2>3 DEF Lasts
    <3>2. req[f].sn > 0 /\ OwnNumber(f) /\ Filed(f) /\ Onward(f)
      BY <1>2, <3>1 DEF Requests, Life, OwnNumbers
    <3> QED  BY <1>1, <1>2, <1>4, <3>1, <3>2, OnwardStep
  <2> QED  BY <2>1, <2>2, <2>3, ReqCases
<1> QED  BY <1>3, <1>4

LEMMA RouteInit == Init => RouteInv
<1> SUFFICES ASSUME Init PROVE RouteInv
  OBVIOUS
<1>1. BaseInv
  BY BaseInit
<1>2. /\ toSrv = <<>> /\ toCli = <<>> /\ DOMAIN srv.streams = {} /\ srv.sn = 0
      /\ DOMAIN cli.streams = {} /\ DOMAIN cli.ctxs = {} /\ cli.held = None
      /\ \A f \in Fibers : req[f].pc = "idle" /\ req[f].sn = 0
  BY DEF Init, Client, Server
<1>3. Played
  BY <1>2, RangeEmpty DEF Played, InPlay, Has
<1>4. Contexts /\ Open /\ Numbers /\ Ways /\ Settled /\ Follow
  BY <1>2, Http2Assumption DEF Contexts, Open, Numbers, OwnNumbers, Ways, Settled, Follow
<1> QED  BY <1>1, <1>3, <1>4 DEF RouteInv

LEMMA RouteStep == RouteInv /\ [Next]_vars => RouteInv'
<1> SUFFICES ASSUME RouteInv, [Next]_vars PROVE RouteInv'
  OBVIOUS
<1> USE DEF RouteInv
<1>1. BaseInv' /\ Step
  BY BaseStep, StepFacts
<1>2. TypeOK /\ HeldOk /\ Led /\ Requests
  BY DEF BaseInv
<1>3. Played' /\ Contexts' /\ Open' /\ Numbers' /\ Ways' /\ Settled' /\ Follow'
  BY <1>1, <1>2, PlayedStep, CtxStep, OpenStep, NumberStep, WaysStep, SettledStep, FollowStep
<1> QED  BY <1>1, <1>3

\* When both ends have come to rest, a request of the first connection still waits
\* only if the server refused its number or a timer has deleted a stream: no frame is
\* lost between m_queue, doWrite, the server's doRecv, its servlets and the client's
\* doRecv, whatever their order.
THEOREM NoneStrandedCorrect == Spec => []NoneStranded
<1>1. RouteInv => NoneStranded
  <2> SUFFICES ASSUME RouteInv, Quiet, NEW f \in Fibers, req[f].pc = "waiting", ~timeouts,
                      ~(connects > 1)
               PROVE  req[f].sn \in refused
    BY DEF NoneStranded
  <2>1. connects = 1
    <3>1. connects \in Nat /\ connects >= 1
      BY Zenon DEF RouteInv, BaseInv, TypeOK, Requests
    <3> QED  BY <3>1
  <2>2. Onward(f)
    BY <2>1 DEF RouteInv, Follow
  <2>3. queue = <<>> /\ toSrv = <<>> /\ toCli = <<>>
        /\ \A id \in DOMAIN srv.streams : srv.streams[id].handled = "no"
    BY DEF Quiet
  <2>4. ~Asks(<<>>, f)
    BY DEF Asks
  <2>5. ~EndOnWay(<<>>, req[f].sn)
    BY RangeEmpty DEF EndOnWay
  <2> QED  BY <2>2, <2>3, <2>4, <2>5 DEF Onward
<1> QED  BY <1>1, RouteInit, RouteStep, PTL DEF Spec

\* A request ends with "rst_stream" only when its number is shared or the server has
\* refused an older number: the RST_STREAM that doRecv sends for the last stream it
\* knows is the only one there is.
THEOREM RstCorrect == Spec => RstIsMisdirected
<1>1. ASSUME RouteInv, [Next]_vars, NEW f \in Fibers, req[f].result = None, req'[f].result = "rst_stream"
      PROVE  ~OwnNumber(f) \/ \E id \in refused : id < req[f].sn
  <2>1. Step /\ TypeOK /\ HeldOk /\ Led /\ Requests /\ Contexts /\ Open /\ Ways
    BY <1>1, StepFacts DEF RouteInv, BaseInv
  <2>2. PICK x \in FrameRec, s \in StreamRec :
           /\ CliHandleStep(x, s) /\ x.id \in DOMAIN cli.ctxs /\ f = cli.ctxs[x.id]
           /\ Fed(s, x, cli.recvTable).state = "CLOSED" /\ ~Fed(s, x, cli.recvTable).ended
    <3>1. ASSUME NEW x \in FrameRec, NEW s \in StreamRec, CliHandleStep(x, s)
          PROVE  /\ x.id \in DOMAIN cli.ctxs /\ f = cli.ctxs[x.id]
                 /\ Fed(s, x, cli.recvTable).state = "CLOSED" /\ ~Fed(s, x, cli.recvTable).ended
      <4>1. PICK s2 : s2 = Fed(s, x, cli.recvTable)
        OBVIOUS
      <4>2. CliHandleDoes(x, s, s2)
        BY <3>1, <4>1 DEF CliHandleStep
      <4>3. req'[f] # req[f]
        BY <1>1, Http2Assumption
      <4>4. \E g \in Fibers :
               /\ s2.state = "CLOSED" /\ x.id \in DOMAIN cli.ctxs /\ g = cli.ctxs[x.id] /\ OthersKept(g)
               /\ \/ ~s2.ended
                  \/ \E got : Answered(req'[g], req[g], "ok", got)
        BY <4>2, <4>3 DEF CliHandleDoes
      <4>5. PICK g \in Fibers :
               /\ s2.state = "CLOSED" /\ x.id \in DOMAIN cli.ctxs /\ g = cli.ctxs[x.id] /\ OthersKept(g)
               /\ \/ ~s2.ended
                  \/ \E got : Answered(req'[g], req[g], "ok", got)
        BY <4>4
      <4>6. g = f
        BY <4>3, <4>5 DEF OthersKept
      <4> QED  BY <1>1, <4>1, <4>5, <4>6 DEF Answered
    <3>2. ASSUME NEW g \in Fibers, FiberStep(g) PROVE FALSE
      <4>1. CASE g # f
        <5>1. OthersKept(g)
          BY <3>2 DEF FiberStep, NewStreamStep, NewStreamDoes, RequestStep, RequestDoes, DueStep, DueDoes,
                      OnTimeOutStep, OnTimeOutDoes
        <5> QED  BY <1>1, <4>1, <5>1, Http2Assumption DEF OthersKept
      <4>2. CASE g = f
        BY <1>1, <3>2, <4>2, Http2Assumption
        DEF FiberStep, NewStreamStep, NewStreamDoes, RequestStep, RequestDoes, DueStep, DueDoes,
            OnTimeOutStep, OnTimeOutDoes, Retimed, Answered
      <4> QED  BY <4>1, <4>2
    <3>3. ASSUME ReconnectStep PROVE FALSE
      BY <1>1, <3>3, Http2Assumption DEF ReconnectStep, ReconnectDoes, Answered
    <3>4. req' = req => FALSE
      BY <1>1, Http2Assumption
    <3> QED
      BY <2>1, <3>1, <3>2, <3>3, <3>4
      DEF Step, CliWriteStep, CliChargeStep, ReaderStep, CliReadStep, CliHandleDeletedStep, SrvReadStep,
          ServletStep, RespondStep, SrvDoneStep, ClientKept, Still
  <2>3. req[f].sn = x.id /\ Began(f)
    BY <2>1, <2>2 DEF Contexts
  <2>4. x.t = "RST_STREAM"
    <3>1. s.state = "IDLE"
      BY <2>1, <2>2 DEF CliHandleStep, Open
    <3> QED  BY <2>2, <3>1 DEF Fed
  <2>5. Has(toCli, {"RST_STREAM"}, x.id)
    <3>1. PICK c \in Seq(FrameRec) : c = toCli /\ c # <<>> /\ x = Head(c)
      BY <2>1, <2>2, Zenon DEF TypeOK, CliHandleStep
    <3>2. x \in Range(toCli)
      BY <3>1, RangeTail
    <3> QED  BY <2>4, <3>2 DEF Has, Is
  <2>6. req[f].sn > 0
    BY <2>1, <2>3 DEF Requests, Life, Began
  <2> QED  BY <2>1, <2>3, <2>5, <2>6 DEF Ways, Way
<1>2. RouteInv /\ [Next]_vars =>
         [\A f \in Fibers : req[f].result = None /\ req'[f].result = "rst_stream" =>
            ~OwnNumber(f) \/ \E id \in refused : id < req[f].sn]_vars
  BY <1>1
<1> QED  BY <1>2, RouteInit, RouteStep, PTL DEF Spec, RstIsMisdirected

-----------------------------------------------------------------------------
(***************************************************************************)
(* The compression tables of one direction: what was packed and not yet    *)
(* parsed leads from the receiver's table to the sender's.                 *)
(***************************************************************************)

LEMMA PathNone ==
    ASSUME NEW q \in Seq(FrameRec), \A x \in Range(q) : x.t # "HEADERS", NEW T \in Table, NEW G
    PROVE  Path(q, T, T, G)
<1>1. PICK n \in Nat : n = Len(q) /\ \A i \in 1 .. n : q[i] \in Range(q)
  BY DEF Range
<1> DEFINE tabs == [i \in 1 .. n + 1 |-> T]
<1>2. tabs \in [1 .. n + 1 -> Table] /\ \A i \in 1 .. n + 1 : tabs[i] = T
  OBVIOUS
<1>3. \A i \in 1 .. n : i \in 1 .. n + 1 /\ i + 1 \in 1 .. n + 1 /\ q[i].t # "HEADERS"
  BY <1>1
<1>4. 1 \in 1 .. n + 1 /\ n + 1 \in 1 .. n + 1
  OBVIOUS
<1> HIDE DEF tabs
<1> QED  BY <1>1, <1>2, <1>3, <1>4 DEF Path, Hop

LEMMA PathOne ==
    ASSUME NEW x \in FrameRec, NEW T \in Table, NEW U \in Table, NEW G, Hop(x, T, U, G)
    PROVE  Path(<<x>>, T, U, G)
<1> DEFINE tabs == [i \in 1 .. 2 |-> IF i = 1 THEN T ELSE U]
<1>1. tabs \in [1 .. 2 -> Table] /\ tabs[1] = T /\ tabs[2] = U
  OBVIOUS
<1>2. Len(<<x>>) = 1 /\ <<x>>[1] = x
  OBVIOUS
<1> HIDE DEF tabs
<1>3. \A i \in 1 .. Len(<<x>>) : Hop(<<x>>[i], tabs[i], tabs[i + 1], G)
  <2> SUFFICES ASSUME NEW i \in 1 .. Len(<<x>>) PROVE Hop(<<x>>[i], tabs[i], tabs[i + 1], G)
    OBVIOUS
  <2>1. i = 1 /\ i + 1 = 2
    BY <1>2
  <2> QED  BY <1>1, <1>2, <2>1
<1> QED  BY <1>1, <1>2, <1>3 DEF Path

LEMMA PathTail ==
    ASSUME NEW q \in Seq(FrameRec), q # <<>>, NEW T, NEW U, NEW G, Path(q, T, U, G)
    PROVE  \E V \in Table : Hop(Head(q), T, V, G) /\ Path(Tail(q), V, U, G)
<1>1. PICK n \in Nat :
         /\ n = Len(q) /\ n > 0 /\ q[1] = Head(q) /\ Len(Tail(q)) = n - 1
         /\ \A i \in 1 .. n - 1 : Tail(q)[i] = q[i + 1]
  BY HeadTail
<1>2. PICK a \in [1 .. n + 1 -> Table] :
         /\ a[1] = T /\ a[n + 1] = U
         /\ \A i \in 1 .. n : Hop(q[i], a[i], a[i + 1], G)
  BY <1>1 DEF Path
<1> DEFINE b == [i \in 1 .. n |-> a[i + 1]]
<1>3. /\ b \in [1 .. n -> Table] /\ \A i \in 1 .. n : b[i] = a[i + 1]
      /\ 1 \in 1 .. n /\ n \in 1 .. n /\ (n - 1) + 1 = n
  BY <1>1
<1> HIDE DEF b
<1>4. ASSUME NEW i \in 1 .. n - 1 PROVE Hop(Tail(q)[i], b[i], b[i + 1], G)
  <2>1. i \in 1 .. n /\ i + 1 \in 1 .. n /\ Tail(q)[i] = q[i + 1]
    BY <1>1
  <2> QED  BY <1>2, <1>3, <2>1, Zenon
<1>5. Path(Tail(q), b[1], U, G)
  BY <1>1, <1>2, <1>3, <1>4, SMTT(30) DEF Path
<1>6. Hop(q[1], a[1], a[1 + 1], G) /\ b[1] = a[1 + 1] /\ b[1] \in Table
  BY <1>2, <1>3
<1> QED  BY <1>1, <1>2, <1>5, <1>6

LEMMA PathCat ==
    ASSUME NEW q \in Seq(FrameRec), NEW r \in Seq(FrameRec), NEW T, NEW V, NEW U, NEW G,
           Path(q, T, V, G), Path(r, V, U, G)
    PROVE  Path(q \o r, T, U, G)
<1>1. CatDoes(q, r)
  BY CatFacts
<1>0. Len(q \o r) = Len(q) + Len(r)
  BY ConcatProperties
<1>2. PICK n \in Nat, m \in Nat :
         /\ n = Len(q) /\ m = Len(r) /\ DOMAIN q = 1 .. n /\ DOMAIN r = 1 .. m
         /\ DOMAIN (q \o r) = 1 .. n + m /\ Len(q \o r) = n + m
  BY <1>0, <1>1, Zenon DEF CatDoes
<1>3. PICK a \in [1 .. n + 1 -> Table] :
         a[1] = T /\ a[n + 1] = V /\ \A i \in 1 .. n : Hop(q[i], a[i], a[i + 1], G)
  BY <1>2, Zenon DEF Path
<1>4. PICK b \in [1 .. m + 1 -> Table] :
         b[1] = V /\ b[m + 1] = U /\ \A i \in 1 .. m : Hop(r[i], b[i], b[i + 1], G)
  BY <1>2, Zenon DEF Path
<1> DEFINE c == [i \in 1 .. (n + m) + 1 |-> IF i <= n THEN a[i] ELSE b[i - n]]
<1>5. c \in [1 .. (n + m) + 1 -> Table]
  <2> SUFFICES ASSUME NEW i \in 1 .. (n + m) + 1 PROVE (IF i <= n THEN a[i] ELSE b[i - n]) \in Table
    OBVIOUS
  <2>1. i <= n => i \in 1 .. n + 1
    OBVIOUS
  <2>2. ~(i <= n) => i - n \in 1 .. m + 1
    OBVIOUS
  <2> QED  BY <2>1, <2>2
<1>6. /\ \A i \in 1 .. n : c[i] = a[i]
      /\ \A i \in 1 .. m + 1 : c[n + i] = b[i]
  <2>1. ASSUME NEW i \in 1 .. n PROVE c[i] = a[i]
    OBVIOUS
  <2>2. ASSUME NEW i \in 1 .. m + 1 PROVE c[n + i] = b[i]
    <3>1. n + i \in 1 .. (n + m) + 1 /\ ~(n + i <= n) /\ (n + i) - n = i
      OBVIOUS
    <3> QED  BY <3>1
  <2> QED  BY <2>1, <2>2
<1> HIDE DEF c
<1>7. c[n + 1] = a[n + 1]
  <2>1. 1 \in 1 .. m + 1
    OBVIOUS
  <2> QED  BY <1>3, <1>4, <1>6, <2>1
<1>8. \A i \in 1 .. n + 1 : c[i] = a[i]
  BY <1>6, <1>7
<1>9. c[1] = T /\ c[(n + m) + 1] = U
  <2>1. 1 \in 1 .. n + 1 /\ m + 1 \in 1 .. m + 1 /\ n + (m + 1) = (n + m) + 1
    OBVIOUS
  <2> QED  BY <1>3, <1>4, <1>6, <1>8, <2>1
<1>10. ASSUME NEW i \in 1 .. n + m PROVE Hop((q \o r)[i], c[i], c[i + 1], G)
  <2>1. CASE i <= n
    <3>1. i \in 1 .. n /\ i \in 1 .. n + 1 /\ i + 1 \in 1 .. n + 1
      BY <2>1
    <3>2. (q \o r)[i] = q[i]
      BY <1>1, <1>2, <3>1 DEF CatDoes
    <3> QED  BY <1>3, <1>8, <3>1, <3>2
  <2>2. CASE ~(i <= n)
    <3>1. PICK k \in 1 .. m : i = n + k
      <4>1. i - n \in 1 .. m /\ i = n + (i - n)
        BY <2>2
      <4> QED  BY <4>1
    <3>2. (q \o r)[n + k] = r[k]
      BY <1>1, <1>2 DEF CatDoes
    <3>3. k \in 1 .. m + 1 /\ k + 1 \in 1 .. m + 1 /\ (n + k) + 1 = n + (k + 1)
      OBVIOUS
    <3>4. c[n + k] = b[k] /\ c[n + (k + 1)] = b[k + 1]
      BY <1>6, <3>3
    <3> QED  BY <1>4, <3>1, <3>2, <3>3, <3>4, Zenon
  <2> QED  BY <2>1, <2>2, Zenon
<1> QED  BY <1>2, <1>5, <1>9, <1>10, Zenon DEF Path

\* The headers that are allowed matter only for the numbers of the frames.
LEMMA PathAllowed ==
    ASSUME NEW q \in Seq(FrameRec), NEW T, NEW U, NEW G, NEW H, Path(q, T, U, G),
           \A x \in Range(q) : \A h : x.t = "HEADERS" /\ <<x.id, h>> \in G => <<x.id, h>> \in H
    PROVE  Path(q, T, U, H)
<1>1. PICK n \in Nat : n = Len(q) /\ \A i \in 1 .. n : q[i] \in Range(q)
  BY DEF Range
<1>2. PICK a \in [1 .. n + 1 -> Table] :
         a[1] = T /\ a[n + 1] = U /\ \A i \in 1 .. n : Hop(q[i], a[i], a[i + 1], G)
  BY <1>1 DEF Path
<1>3. ASSUME NEW i \in 1 .. n PROVE Hop(q[i], a[i], a[i + 1], H)
  <2>1. PICK x, t, u : x = q[i] /\ t = a[i] /\ u = a[i + 1]
    OBVIOUS
  <2>2. Hop(x, t, u, G) /\ x \in Range(q)
    BY <1>1, <1>2, <2>1
  <2>3. Hop(x, t, u, H)
    BY <2>2 DEF Hop
  <2> QED  BY <2>1, <2>3
<1> QED  BY <1>1, <1>2, <1>3, Zenon DEF Path

LEMMA ParseEmpty ==
    ASSUME NEW T \in Table
    PROVE  parse(T, <<>>).table = T
<1>1. Len(<<>>) = 0
  OBVIOUS
<1>2. PICK t, o : ParseRun(T, <<>>, t, o)
  BY <1>1, ParseSteps, Zenon
<1>3. Garbled(<<>>) = {}
  BY DEF Garbled
<1> QED  BY <1>1, <1>2, <1>3 DEF ParseRun, parse

LEMMA HopParses ==
    ASSUME NEW x \in FrameRec, NEW T \in Table, NEW U, NEW G, Hop(x, T, U, G),
           Garbled(x.block) = {}
    PROVE  HopDoes(x, T, U, G)
<1>1. CASE x.t # "HEADERS"
  <2>1. x.block = <<>> /\ U = T
    BY <1>1 DEF FrameRec, Hop
  <2> QED  BY <1>1, <2>1, ParseEmpty DEF HopDoes
<1>2. CASE x.t = "HEADERS"
  <2>1. PICK hs \in Seq(Pair) : /\ hs # <<>> /\ <<x.id, hs[1]>> \in G
                                /\ x.block = pack(T, hs).block /\ U = pack(T, hs).table
    BY <1>2 DEF Hop
  <2>2. parse(T, pack(T, hs).block) = [headers |-> hs, table |-> pack(T, hs).table]
    BY <2>1, RoundTrip
  <2>3. parse(T, x.block).table = U /\ parse(T, x.block).headers = hs
    BY <2>1, <2>2
  <2> QED  BY <2>1, <2>3, Zenon DEF HopDoes
<1> QED  BY <1>1, <1>2

\* A message takes the table to what pack() left at the sender.
LEMMA MessagePath ==
    ASSUME NEW T \in Table, NEW hs \in Seq(Pair), hs # <<>>, NEW id, NEW G, <<id, hs[1]>> \in G,
           NEW r, NEW none \in BOOLEAN, IsMessage(r, id, pack(T, hs).block, none)
    PROVE  Path(r, T, pack(T, hs).table, G)
<1>1. PICK U \in Table : U = pack(T, hs).table
  BY RoundTrip, Zenon
<1>2. PICK h, d : /\ IsFrame(h, "HEADERS", id, pack(T, hs).block, 0, none)
                  /\ IsFrame(d, "DATA", id, <<>>, 1, TRUE)
                  /\ r = <<h>> \o (IF none THEN <<>> ELSE <<d>>)
  BY Zenon DEF IsMessage
<1>3. h \in FrameRec /\ d \in FrameRec /\ Hop(h, T, U, G) /\ Hop(d, U, U, G)
  BY <1>1, <1>2, Zenon DEF IsFrame, Hop
<1>4. Path(<<h>>, T, U, G) /\ Path(<<d>>, U, U, G)
  BY <1>3, PathOne
<1>6. <<h>> \in Seq(FrameRec) /\ <<d>> \in Seq(FrameRec) /\ <<>> \in Seq(FrameRec)
  BY <1>3
<1>5. Path(<<>>, U, U, G)
  <2>1. PICK e \in Seq(FrameRec) : e = <<>> /\ Range(e) = {}
    BY <1>6, RangeEmpty, Zenon
  <2>2. Path(e, U, U, G)
    BY <2>1, PathNone, Zenon
  <2> QED  BY <2>1, <2>2
<1>7. Path(<<h>> \o <<>>, T, U, G) /\ Path(<<h>> \o <<d>>, T, U, G)
  BY <1>4, <1>5, <1>6, PathCat, Zenon
<1> QED  BY <1>1, <1>2, <1>7, Zenon

-----------------------------------------------------------------------------

LEMMA HeaderKept ==
    ASSUME TypeOK, Requests, Step, NEW f \in Fibers, req[f].sn > 0
    PROVE  req'[f].header = req[f].header /\ req'[f].sn = req[f].sn
<1>1. CASE Starts(f)
  BY <1>1 DEF Starts, NewStreamStep, Requests, Life
<1>2. CASE RequestStep(f)
  BY <1>2 DEF RequestStep, RequestDoes
<1>3. CASE Lasts(f)
  BY <1>3 DEF Lasts
<1> QED  BY <1>1, <1>2, <1>3, ReqCases

LEMMA AllowedKept ==
    ASSUME TypeOK, Requests, Played, Step, NEW id \in Int, InPlay(id), NEW h, <<id, h>> \in Allowed
    PROVE  <<id, h>> \in Allowed'
<1>1. /\ <<id, h>> \in Int \X Pair
      /\ \A f \in Fibers : req[f].sn > 0 /\ OwnNumber(f) /\ id = req[f].sn => h = req[f].header
  BY DEF Allowed
<1>2. ASSUME NEW f \in Fibers, OwnsNow(f), id = req'[f].sn PROVE h = req'[f].header
  <2>1. req'[f].sn = req[f].sn /\ req[f].sn > 0 /\ OwnNumber(f)
    BY <1>2, OwnBefore
  <2> QED  BY <1>1, <1>2, <2>1, HeaderKept
<1> QED  BY <1>1, <1>2 DEF Allowed, OwnNumber, OwnsNow

LEMMA SyncAllowed ==
    ASSUME TypeOK, Requests, Played, Step, Sync, Clear, NEW H, H = Allowed'
    PROVE  Forth(H) /\ Back(H)
<1>1. PICK s \in Seq(FrameRec), c \in Seq(FrameRec) : s = toSrv /\ c = toCli
  BY Zenon DEF TypeOK
<1>2. PICK G : G = Allowed
  OBVIOUS
<1>3. ASSUME NEW x \in FrameRec, x.t = "HEADERS", x \in Range(s) \union Range(c), NEW h, <<x.id, h>> \in G
      PROVE  <<x.id, h>> \in H
  <2>1. x.id \in Int /\ x.t \in Traffic /\ x.t \in Answers
    BY <1>3 DEF FrameRec, Traffic, Answers
  <2>2. InPlay(x.id)
    BY <1>1, <1>3, <2>1 DEF InPlay, Has, Is
  <2> QED  BY <1>2, <1>3, <2>1, <2>2, AllowedKept
<1>4. Range(s) \subseteq FrameRec /\ Range(c) \subseteq FrameRec
  BY DEF Range
<1>5. PICK T, U : T = srv.recvTable /\ U = cli.sendTable /\ Path(s, T, U, G)
  BY <1>1, <1>2 DEF Sync, Forth
<1>6. Path(s, T, U, H)
  BY <1>3, <1>4, <1>5, PathAllowed
<1>7. PICK V, W : V = cli.recvTable /\ W = srv.sendTable /\ Path(c, V, W, G)
  BY <1>1, <1>2 DEF Sync, Back
<1>8. Path(c, V, W, H)
  BY <1>3, <1>4, <1>7, PathAllowed
<1> QED  BY <1>1, <1>5, <1>6, <1>7, <1>8 DEF Forth, Back

\* What each step does to the two directions.
LEMMA WayCases ==
    ASSUME TypeOK, Step
    PROVE  \/ ForthSame /\ BackSame
           \/ ForthSame /\ \E x \in FrameRec : BackRead(x)
           \/ CliWriteStep /\ BackSame
           \/ ReconnectStep
           \/ \E x \in FrameRec : SrvReadStep(x)
           \/ ForthSame /\ \E id \in DOMAIN srv.streams, s \in StreamRec : RespondStep(id, s)
<1> DEFINE Same == ForthSame /\ BackSame
           Read == ForthSame /\ \E x \in FrameRec : BackRead(x)
           Servlet == ForthSame /\ \E id \in DOMAIN srv.streams, s \in StreamRec : RespondStep(id, s)
<1> USE DEF ForthSame, BackSame
<1>1. ASSUME NEW f \in Fibers, FiberStep(f) PROVE Same
  <2>1. CASE Starts(f)
    BY <2>1 DEF Starts, NewStreamStep, NewStreamDoes, ServerKept, WireKept, CliTables
  <2>2. CASE RequestStep(f)
    BY <2>2 DEF RequestStep, RequestDoes, ServerKept, WireKept, CliTables
  <2>3. CASE DueStep(f)
    BY <2>3 DEF DueStep, ServerKept, WireKept
  <2>4. CASE OnTimeOutStep(f)
    <3>1. OnTimeOutDoes(f) /\ srv' = srv /\ toSrv' = toSrv /\ toCli' = toCli
      BY <2>4 DEF OnTimeOutStep, ServerKept, WireKept
    <3>2. CliTables
      BY <3>1, Zenon DEF OnTimeOutDoes
    <3> QED  BY <3>1, <3>2 DEF CliTables
  <2> QED  BY <1>1, <2>1, <2>2, <2>3, <2>4 DEF FiberStep, Starts
<1>2. CliWriteStep => BackSame
  BY DEF CliWriteStep, CliWriteDoes, WroteRequest, ServerKept
<1>3. CliChargeStep => Same
  BY DEF CliChargeStep, CliChargeDoes, OnlySend, ServerKept, WireKept
<1>4. ASSUME NEW f \in FrameRec, CliReadStep(f) PROVE Same \/ Read
  <2>1. CASE f.t = "WINDOW_UPDATE"
    BY <1>4, <2>1, Zenon DEF CliReadStep, CliReadDoes, OnlySend, ServerKept, BackRead, Clear
  <2>2. CASE f.t # "WINDOW_UPDATE" /\ f.id \notin DOMAIN cli.streams
    BY <1>4, <2>2, Zenon DEF CliReadStep, CliReadDoes, ServerKept, BackRead, Clear
  <2>3. CASE f.t # "WINDOW_UPDATE" /\ f.id \in DOMAIN cli.streams
    BY <1>4, <2>3, Zenon DEF CliReadStep, CliReadDoes, ServerKept, CliTables
  <2> QED  BY <2>1, <2>2, <2>3
<1>5. ASSUME NEW f \in FrameRec, CliHandleDeletedStep(f) PROVE Read
  BY <1>5 DEF CliHandleDeletedStep, CliHandleDeletedDoes, ServerKept, BackRead, Reads, Clear
<1>6. ASSUME NEW f \in FrameRec, NEW s \in StreamRec, CliHandleStep(f, s) PROVE Read
  <2>1. /\ toCli # <<>> /\ f = Head(toCli) /\ toSrv' = toSrv /\ srv' = srv
        /\ CliHandleDoes(f, s, Fed(s, f, cli.recvTable))
        /\ ~Clear' \/ Garbled(f.block) = {}
    BY <1>6 DEF CliHandleStep, ServerKept, Reads, Clear
  <2>2. /\ cli'.sendTable = cli.sendTable /\ toCli' = Tail(toCli)
        /\ cli'.recvTable = IF f.t = "HEADERS" THEN parse(cli.recvTable, f.block).table ELSE cli.recvTable
    BY <2>1 DEF CliHandleDoes
  <2> QED  BY <2>1, <2>2 DEF BackRead
<1>7. ASSUME NEW id \in DOMAIN srv.streams, NEW s \in StreamRec, ServletStep(id, s) PROVE Same \/ Servlet
  BY <1>7, Zenon DEF ServletStep, RespondStep, RespondDoes, SrvDoneStep, SrvDoneDoes, ClientKept, WireKept
<1>8. Still => Same
  BY DEF Still
<1> HIDE DEF Same, Read, Servlet, ForthSame, BackSame
<1>9. \/ Same \/ Read \/ (CliWriteStep /\ BackSame) \/ ReconnectStep
      \/ (\E x \in FrameRec : SrvReadStep(x)) \/ Servlet
  BY <1>1, <1>2, <1>3, <1>4, <1>5, <1>6, <1>7, <1>8, Zenon DEF Step, ReaderStep
<1> QED  BY <1>9, Zenon DEF Same, Read, Servlet

LEMMA SkippedStep ==
    ASSUME Step, ~skipped'
    PROVE  ~skipped
<1>1. ASSUME NEW f \in FrameRec, ReaderStep(f) PROVE ~skipped
  BY <1>1, Zenon DEF ReaderStep, CliReadStep, CliReadDoes, CliHandleDeletedStep, SrvReadStep, SrvWindowDoes,
              SrvRefuseDoes, SrvAcceptDoes, Rest
<1>2. ~(\E f \in FrameRec : ReaderStep(f)) => ~skipped
  BY DEF Step, FiberStep, NewStreamStep, RequestStep, DueStep, OnTimeOutStep, CliWriteStep, CliChargeStep,
         ReconnectStep, CliHandleStep, ServletStep, RespondStep, SrvDoneStep, Rest, Still
<1> QED  BY <1>1, <1>2

LEMMA ClearStep ==
    ASSUME Step, Clear'
    PROVE  Clear
<1>1. ~skipped
  BY SkippedStep DEF Clear
<1>2. ~misread' => ~misread
  BY DEF Step, FiberStep, NewStreamStep, RequestStep, DueStep, OnTimeOutStep, CliWriteStep, CliChargeStep,
         ReaderStep, CliReadStep, CliHandleDeletedStep, SrvReadStep, SrvWindowDoes, SrvRefuseDoes, SrvAcceptDoes,
         ReconnectStep, CliHandleStep, ServletStep, RespondStep, SrvDoneStep, Still, Calm, Reads, Charges
<1> QED  BY <1>1, <1>2 DEF Clear

\* A frame without a block is read as it was written.
LEMMA BlockLess == ASSUME NEW x \in FrameRec, x.t # "HEADERS" PROVE Garbled(x.block) = {}
  BY DEF FrameRec, Garbled

\* A reader takes the first frame off.
LEMMA PathRead ==
    ASSUME NEW q \in Seq(FrameRec), q # <<>>, NEW T \in Table, NEW U, NEW G, Path(q, T, U, G),
           Garbled(Head(q).block) = {}
    PROVE  /\ HopDoes(Head(q), T, parse(T, Head(q).block).table, G)
           /\ Path(Tail(q), parse(T, Head(q).block).table, U, G)
           /\ Head(q).t # "HEADERS" => parse(T, Head(q).block).table = T
<1>1. PICK x \in FrameRec : x = Head(q)
  BY HeadTail
<1>2. PICK V \in Table : Hop(x, T, V, G) /\ Path(Tail(q), V, U, G)
  BY <1>1, PathTail
<1>3. HopDoes(x, T, V, G)
  BY <1>1, <1>2, HopParses
<1>4. parse(T, x.block).table = V
  BY <1>3 DEF HopDoes
<1>5. x.t # "HEADERS" => V = T
  BY <1>2 DEF Hop
<1> QED  BY <1>1, <1>2, <1>3, <1>4, <1>5

LEMMA TablesTyped ==
    ASSUME TypeOK
    PROVE  /\ cli.sendTable \in Table /\ cli.recvTable \in Table
           /\ srv.sendTable \in Table /\ srv.recvTable \in Table
  BY Zenon DEF TypeOK, CliRec, SrvRec

LEMMA NoPath == ASSUME NEW G PROVE Path(<<>>, <<>>, <<>>, G)
<1>0. <<>> \in Seq(FrameRec) /\ <<>> \in Table
  BY DEF Table
<1>1. PICK e \in Seq(FrameRec), T \in Table : e = <<>> /\ T = <<>> /\ Range(e) = {}
  BY <1>0, RangeEmpty, Zenon
<1>2. Path(e, T, T, G)
  BY <1>1, PathNone, Zenon
<1> QED  BY <1>1, <1>2

\* Whoever writes adds a stretch that leads on from its table.
LEMMA ForthWrite ==
    ASSUME TypeOK, Led, Requests, CliWriteStep, NEW H, Forth(H),
           \A f \in Fibers : req[f].sn > 0 => <<req[f].sn, req[f].header>> \in H
    PROVE  Forth(H)'
<1>1. PICK q \in Seq(FrameRec), T \in Table, U \in Table :
         q = toSrv /\ T = srv.recvTable /\ U = cli.sendTable /\ Path(q, T, U, H)
  BY TablesTyped, Zenon DEF TypeOK, Forth
<1>2. srv' = srv
  BY DEF CliWriteStep, ServerKept
<1>3. ASSUME NEW r \in Seq(FrameRec), toSrv' = q \o r, cli' = cli, \A x \in Range(r) : x.t # "HEADERS"
      PROVE  Forth(H)'
  <2>1. Path(r, U, U, H)
    BY <1>3, PathNone
  <2>2. Path(q \o r, T, U, H)
    BY <1>1, <2>1, PathCat
  <2> QED  BY <1>1, <1>2, <1>3, <2>2 DEF Forth
<1>4. ASSUME NEW f \in Fibers, WroteRequest(f), Head(queue).t = "request", Head(queue).f = f
      PROVE  Forth(H)'
  <2>1. Asks(queue, f)
    <3>1. PICK u \in Seq(FrameRec \union AskRec) : u = queue /\ u # <<>>
      BY Zenon DEF TypeOK, CliWriteStep
    <3>2. 1 \in DOMAIN u /\ u[1] = Head(u)
      BY <3>1, HeadTail
    <3> QED  BY <1>4, <3>1, <3>2 DEF Asks
  <2>2. req[f].header \in Headers /\ req[f].sn > 0
    BY <2>1 DEF Requests, Life, Began
  <2>3. Sent(f) \in Seq(Pair) /\ Len(Sent(f)) = 2 /\ Sent(f)[1] = req[f].header
    BY <2>2, SentType
  <2>11. PICK hs \in Seq(Pair) : hs = Sent(f) /\ Len(hs) = 2 /\ hs[1] = req[f].header
    BY <2>3
  <2>12. hs # <<>>
    <3>1. Len(<<>>) = 0
      OBVIOUS
    <3>2. ASSUME hs = <<>> PROVE FALSE
      <4>1. Len(hs) = Len(<<>>)
        BY <3>2, Zenon
      <4>2. 0 = 2
        BY <2>11, <3>1, <4>1, Zenon
      <4> QED  BY <4>2
    <3> QED  BY <3>2
  <2>4. PICK id : hs = Sent(f) /\ hs # <<>> /\ id = req[f].sn /\ <<id, hs[1]>> \in H
    BY <2>2, <2>11, <2>12, Zenon
  <2>5. PICK none \in BOOLEAN : none = (req[f].body = 0)
    OBVIOUS
  <2>6. PICK r : IsMessage(r, id, pack(U, hs).block, none) /\ toSrv' = q \o r
    BY <1>1, <1>4, <2>4, <2>5, Zenon DEF WroteRequest
  <2>7. Path(r, U, pack(U, hs).table, H)
    BY <2>4, <2>6, MessagePath, Zenon
  <2>8. r \in Seq(FrameRec)
    BY <2>6, MessageType
  <2>9. Path(q \o r, T, pack(U, hs).table, H)
    BY <1>1, <2>7, <2>8, PathCat
  <2>10. cli'.sendTable = pack(U, hs).table
    BY <1>1, <1>4, <2>4 DEF WroteRequest
  <2> QED  BY <1>1, <1>2, <2>6, <2>9, <2>10 DEF Forth
<1>5. PICK r \in Seq(FrameRec) : toSrv' = q \o r /\ WriterDoes(r)
  BY <1>1, WriterAdds DEF SrvFed
<1>6. CASE OnlyUpdates(r) /\ cli' = cli
  BY <1>3, <1>5, <1>6 DEF OnlyUpdates
<1>7. CASE r = <<>> /\ \E f \in Fibers : AskDropped(f)
  BY <1>3, <1>5, <1>7, RangeEmpty, Zenon DEF AskDropped
<1>8. CASE \E f \in Fibers : AskWritten(f, r)
  BY <1>4, <1>8 DEF AskWritten
<1> QED  BY <1>5, <1>6, <1>7, <1>8 DEF WriterDoes

LEMMA ForthRead ==
    ASSUME TypeOK, NEW x \in FrameRec, SrvReadStep(x), Clear', NEW H, Forth(H)
    PROVE  Forth(H)'
<1>1. PICK q \in Seq(FrameRec), T \in Table, U \in Table :
         /\ q = toSrv /\ T = srv.recvTable /\ U = cli.sendTable /\ Path(q, T, U, H)
         /\ q # <<>> /\ x = Head(q)
  BY TablesTyped, Zenon DEF TypeOK, Forth, SrvReadStep
<1>2. toSrv' = Tail(q) /\ cli' = cli
  BY <1>1 DEF SrvReadStep, ClientKept
<1>7. Garbled(x.block) = {}
  BY BlockLess DEF SrvReadStep, SrvWindowDoes, SrvRefuseDoes, SrvAcceptDoes, Reads, Clear
<1>3. /\ Path(Tail(q), parse(T, x.block).table, U, H)
      /\ x.t # "HEADERS" => parse(T, x.block).table = T
  BY <1>1, <1>7, PathRead
<1>4. CASE SrvWindowDoes(x)
  BY <1>1, <1>2, <1>3, <1>4, Zenon DEF SrvWindowDoes, OnlySend, Forth
<1>5. CASE SrvRefuseDoes(x)
  BY <1>5 DEF SrvRefuseDoes, Clear
<1>6. CASE SrvAcceptDoes(x, Target(x))
  <2>1. srv'.recvTable = IF x.t = "HEADERS" THEN parse(T, x.block).table ELSE T
    BY <1>1, <1>6 DEF SrvAcceptDoes
  <2> QED  BY <1>1, <1>2, <1>3, <2>1 DEF Forth
<1> QED  BY <1>4, <1>5, <1>6 DEF SrvReadStep

LEMMA BackWrite ==
    ASSUME TypeOK, NEW id \in DOMAIN srv.streams, NEW s \in StreamRec, RespondStep(id, s), NEW H, Back(H),
           <<id, s.headers[1]>> \in H
    PROVE  Back(H)'
<1>1. PICK q \in Seq(FrameRec), T \in Table, U \in Table :
         q = toCli /\ T = cli.recvTable /\ U = srv.sendTable /\ Path(q, T, U, H)
  BY TablesTyped, Zenon DEF TypeOK, Back
<1>2. PICK hs \in Seq(Pair) : hs = <<s.headers[1]>> /\ hs # <<>> /\ hs[1] = s.headers[1]
  BY Zenon DEF RespondStep, RespondDoes
<1>3. PICK none \in BOOLEAN : none = (s.body = 0)
  OBVIOUS
<1>4. PICK r : IsMessage(r, id, pack(U, hs).block, none) /\ toCli' = q \o r
  BY <1>1, <1>2, <1>3, Zenon DEF RespondStep, RespondDoes
<1>5. Path(r, U, pack(U, hs).table, H)
  BY <1>2, <1>4, MessagePath, Zenon
<1>6. r \in Seq(FrameRec)
  BY <1>4, MessageType
<1>7. Path(q \o r, T, pack(U, hs).table, H)
  BY <1>1, <1>5, <1>6, PathCat
<1>8. srv'.sendTable = pack(U, hs).table /\ cli' = cli
  BY <1>1, <1>2 DEF RespondStep, RespondDoes, ClientKept
<1> QED  BY <1>1, <1>4, <1>7, <1>8 DEF Back

LEMMA BackSent ==
    ASSUME TypeOK, NEW x \in FrameRec, SrvReadStep(x), NEW H, Back(H)
    PROVE  Back(H)'
<1>1. PICK q \in Seq(FrameRec), T \in Table, U \in Table :
         q = toCli /\ T = cli.recvTable /\ U = srv.sendTable /\ Path(q, T, U, H)
  BY TablesTyped, Zenon DEF TypeOK, Back
<1>2. PICK r \in Seq(FrameRec) : toCli' = q \o r /\ SrvReadAnswers(x, r)
  BY <1>1, SrvReadAdds DEF CliFed
<1>3. \A y \in Range(r) : y.t # "HEADERS"
  BY <1>2 DEF SrvReadAnswers, GaveUpdates, GaveReset
<1>4. Path(r, U, U, H)
  BY <1>3, PathNone
<1>5. Path(q \o r, T, U, H)
  BY <1>1, <1>4, PathCat
<1>6. srv'.sendTable = U /\ cli' = cli
  BY <1>1, Zenon DEF SrvReadStep, SrvWindowDoes, OnlySend, SrvRefuseDoes, SrvAcceptDoes, ClientKept
<1> QED  BY <1>1, <1>2, <1>5, <1>6 DEF Back

LEMMA BackReads ==
    ASSUME TypeOK, NEW x \in FrameRec, BackRead(x), Clear', NEW H, Back(H)
    PROVE  Back(H)'
<1>1. PICK q \in Seq(FrameRec), T \in Table, U \in Table :
         /\ q = toCli /\ T = cli.recvTable /\ U = srv.sendTable /\ Path(q, T, U, H)
         /\ q # <<>> /\ x = Head(q)
  BY TablesTyped, Zenon DEF TypeOK, Back, BackRead
<1>4. Garbled(x.block) = {}
  BY BlockLess DEF BackRead
<1>2. /\ Path(Tail(q), parse(T, x.block).table, U, H)
      /\ x.t # "HEADERS" => parse(T, x.block).table = T
  BY <1>1, <1>4, PathRead
<1>3. cli'.recvTable = parse(T, x.block).table
  BY <1>1, <1>2 DEF BackRead
<1> QED  BY <1>1, <1>2, <1>3 DEF BackRead, Back

-----------------------------------------------------------------------------

LEMMA AheadNone ==
    ASSUME NEW q, NEW id, ~Has(q, {"DATA"}, id)
    PROVE  Ahead(q, id)
  BY DEF Ahead, Has, Range

LEMMA AheadTail ==
    ASSUME NEW q \in Seq(FrameRec), q # <<>>, NEW id, Ahead(q, id), ~Is(Head(q), {"HEADERS"}, id)
    PROVE  Ahead(Tail(q), id)
<1>1. PICK n \in Nat, t \in Seq(FrameRec) :
         /\ n = Len(q) /\ n > 0 /\ DOMAIN q = 1 .. n /\ q[1] = Head(q)
         /\ t = Tail(q) /\ DOMAIN t = 1 .. n - 1 /\ \A i \in 1 .. n - 1 : t[i] = q[i + 1]
  BY HeadTail, Zenon
<1> SUFFICES ASSUME NEW i \in DOMAIN t, Is(t[i], {"DATA"}, id)
             PROVE  \E k \in DOMAIN t : k < i /\ Is(t[k], {"HEADERS"}, id)
  BY <1>1 DEF Ahead
<1>2. i + 1 \in DOMAIN q /\ t[i] = q[i + 1]
  BY <1>1
<1>3. PICK k \in DOMAIN q : k < i + 1 /\ Is(q[k], {"HEADERS"}, id)
  BY <1>2 DEF Ahead
<1>4. k # 1
  BY <1>1, <1>3
<1>5. k - 1 \in DOMAIN t /\ k - 1 < i /\ t[k - 1] = q[k]
  BY <1>1, <1>3, <1>4
<1> QED  BY <1>3, <1>5

LEMMA AheadCat ==
    ASSUME NEW q \in Seq(FrameRec), NEW r \in Seq(FrameRec), NEW id, Ahead(q, id), Ahead(r, id)
    PROVE  Ahead(q \o r, id)
<1>1. CatDoes(q, r)
  BY CatFacts
<1>0. q \o r \in Seq(FrameRec) /\ Len(q) \in Nat
  BY CatFacts
<1>2. PICK z \in Seq(FrameRec), n \in Nat :
         /\ z = q \o r /\ n = Len(q) /\ DOMAIN q = 1 .. n /\ DOMAIN r = 1 .. Len(r) /\ Len(r) \in Nat
         /\ DOMAIN z = 1 .. n + Len(r)
         /\ \A i \in DOMAIN q : i \in DOMAIN z /\ z[i] = q[i]
         /\ \A i \in DOMAIN r : n + i \in DOMAIN z /\ z[n + i] = r[i]
         /\ \A i \in DOMAIN z :
               \/ i \in DOMAIN q /\ z[i] = q[i]
               \/ i - n \in DOMAIN r /\ z[i] = r[i - n]
  BY <1>0, <1>1, Zenon DEF CatDoes
<1> SUFFICES ASSUME NEW i \in DOMAIN z, Is(z[i], {"DATA"}, id)
             PROVE  \E k \in DOMAIN z : k < i /\ Is(z[k], {"HEADERS"}, id)
  BY <1>2, Zenon DEF Ahead
<1>3. CASE i \in DOMAIN q /\ z[i] = q[i]
  <2>1. PICK k \in DOMAIN q : k < i /\ Is(q[k], {"HEADERS"}, id)
    BY <1>3 DEF Ahead
  <2> QED  BY <1>2, <2>1
<1>4. CASE i - n \in DOMAIN r /\ z[i] = r[i - n]
  <2>1. PICK j \in DOMAIN r : j = i - n /\ z[i] = r[j]
    BY <1>4
  <2>2. PICK k \in DOMAIN r : k < j /\ Is(r[k], {"HEADERS"}, id)
    BY <2>1 DEF Ahead
  <2>3. n + k \in DOMAIN z /\ z[n + k] = r[k] /\ n + k < i
    BY <1>2, <2>1, <2>2
  <2> QED  BY <2>2, <2>3
<1> QED  BY <1>2, <1>3, <1>4

LEMMA MessageAhead ==
    ASSUME NEW r, NEW k, NEW block, NEW none \in BOOLEAN, NEW id, IsMessage(r, k, block, none)
    PROVE  Ahead(r, id)
<1>1. PICK h, d : MessageDoes(r, h, d, k, block, none)
  BY MessageParts
<1>2. h.t = "HEADERS" /\ h.id = k /\ d.id = k
  BY <1>1 DEF MessageDoes, IsFrame
<1>3. 1 \in DOMAIN r /\ r[1] = h /\ \A i \in DOMAIN r : r[i] = h \/ (1 < i /\ r[i] = d)
  BY <1>1 DEF MessageDoes
<1> QED  BY <1>2, <1>3 DEF Ahead, Is

\* DATA at the front has no HEADERS before it.
LEMMA AheadFirst ==
    ASSUME NEW q \in Seq(FrameRec), q # <<>>, NEW id, Ahead(q, id)
    PROVE  ~Is(Head(q), {"DATA"}, id)
<1>1. Len(q) \in Nat /\ DOMAIN q = 1 .. Len(q) /\ 1 \in DOMAIN q /\ q[1] = Head(q)
  BY HeadTail
<1>2. \A k \in DOMAIN q : ~(k < 1)
  BY <1>1
<1> QED  BY <1>1, <1>2 DEF Ahead

\* What is added behind, and what is first.
LEMMA CatFirst ==
    ASSUME NEW p \in Seq(Pair), NEW q \in Seq(Pair), p # <<>> \/ q # <<>>
    PROVE  /\ p \o q # <<>>
           /\ p # <<>> => (p \o q)[1] = p[1]
           /\ p = <<>> => (p \o q)[1] = q[1]
<1>1. CASE p = <<>>
  <2>1. p \o q = q
    BY <1>1, ConcatEmptySeq
  <2> QED  BY <1>1, <2>1
<1>2. CASE p # <<>>
  <2>1. CatDoes(p, q)
    BY CatFacts
  <2>2. 1 \in DOMAIN p
    BY <1>2, HeadTail
  <2>3. 1 \in DOMAIN (p \o q) /\ (p \o q)[1] = p[1]
    BY <2>1, <2>2 DEF CatDoes
  <2>4. p \o q # <<>>
    BY <2>3
  <2> QED  BY <1>2, <2>3, <2>4
<1> QED  BY <1>1, <1>2

-----------------------------------------------------------------------------

LEMMA SyncStep ==
    ASSUME TypeOK, Led, Requests, Played, Step, Sync, Heads
    PROVE  Sync'
<1>1. PICK H : H = Allowed'
  OBVIOUS
<1> SUFFICES ASSUME Clear' PROVE Forth(H)' /\ Back(H)'
  BY <1>1 DEF Sync, Forth, Back
<1>2. Clear
  BY ClearStep
<1>3. Forth(H) /\ Back(H)
  BY <1>1, <1>2, SyncAllowed
<1>4. ForthSame => Forth(H)'
  BY <1>3 DEF ForthSame, Forth
<1>5. BackSame => Back(H)'
  BY <1>3 DEF BackSame, Back
<1>6. req' = req => H = Allowed
  BY <1>1 DEF Allowed, OwnNumber
<1>7. CASE CliWriteStep /\ BackSame
  <2>1. ASSUME NEW f \in Fibers, req[f].sn > 0 PROVE <<req[f].sn, req[f].header>> \in H
    <3>1. req' = req
      BY <1>7 DEF CliWriteStep
    <3>2. req[f].sn \in Int
      BY Zenon DEF TypeOK, ReqRec
    <3>6. req[f].sn # 0
      BY <2>1, <3>2
    <3>3. req[f].header \in Pair
      BY <3>6, HeaderType DEF Requests, Life
    <3>4. PICK id \in Int, h \in Pair : id = req[f].sn /\ h = req[f].header
      BY <3>2, <3>3
    <3>5. ASSUME NEW g \in Fibers, req[g].sn > 0, OwnNumber(g), id = req[g].sn PROVE h = req[g].header
      BY <3>4, <3>5, Zenon DEF OwnNumber
    <3> QED  BY <1>6, <3>1, <3>4, <3>5 DEF Allowed
  <2> QED  BY <1>3, <1>5, <1>7, <2>1, ForthWrite
<1>8. ASSUME NEW x \in FrameRec, SrvReadStep(x) PROVE Forth(H)' /\ Back(H)'
  BY <1>3, <1>8, ForthRead, BackSent
<1>9. ASSUME NEW id \in DOMAIN srv.streams, NEW s \in StreamRec, RespondStep(id, s) PROVE Back(H)'
  <2>1. req' = req
    BY <1>9 DEF RespondStep, ClientKept
  <2>2. s = srv.streams[id] /\ id \in Int
    BY <1>9, StreamAt DEF RespondStep
  <2>3. s.headers[1] \in Pair
    <3>1. <<s.headers[1]>> \in Seq(Pair)
      BY <1>9 DEF RespondStep, RespondDoes
    <3> QED  BY <3>1
  <2>4. PICK h \in Pair : h = s.headers[1]
    BY <2>3
  <2>5. ASSUME NEW g \in Fibers, req[g].sn > 0, OwnNumber(g), id = req[g].sn PROVE h = req[g].header
    BY <1>2, <2>2, <2>4, <2>5 DEF Heads, HeadSrv
  <2>6. <<id, h>> \in H
    BY <1>6, <2>1, <2>2, <2>5 DEF Allowed
  <2> QED  BY <1>3, <1>9, <2>4, <2>6, BackWrite
<1>10. ASSUME NEW x \in FrameRec, BackRead(x) PROVE Back(H)'
  BY <1>3, <1>10, BackReads
<1>11. CASE ReconnectStep
  BY <1>11, NoPath DEF ReconnectStep, ReconnectDoes, Server, Forth, Back
<1> QED  BY <1>4, <1>5, <1>7, <1>8, <1>9, <1>10, <1>11, WayCases

\* Whose frame is read: HEADERS of a number begin with its request's header.
LEMMA Begins ==
    ASSUME Sync, Clear, TypeOK, NEW f \in Fibers, req[f].sn > 0, OwnNumber(f),
           NEW x \in FrameRec, x.t = "HEADERS", x.id = req[f].sn, Garbled(x.block) = {},
           NEW T \in Table,
           \/ toSrv # <<>> /\ x = Head(toSrv) /\ T = srv.recvTable
           \/ toCli # <<>> /\ x = Head(toCli) /\ T = cli.recvTable
    PROVE  \E hs \in Seq(Pair) : hs # <<>> /\ hs[1] = req[f].header /\ parse(T, x.block).headers = hs
<1>1. PICK G : G = Allowed
  OBVIOUS
<1>2. PICK q \in Seq(FrameRec) : q # <<>> /\ x = Head(q) /\ \E U : Path(q, T, U, G)
  BY <1>1, Zenon DEF TypeOK, Sync, Forth, Back
<1>3. HopDoes(x, T, parse(T, x.block).table, G)
  BY <1>2, PathRead
<1>4. PICK hs \in Seq(Pair) : hs # <<>> /\ <<x.id, hs[1]>> \in G /\ parse(T, x.block).headers = hs
  BY <1>3 DEF HopDoes
<1>5. hs[1] = req[f].header
  BY <1>1, <1>4 DEF Allowed
<1> QED  BY <1>4, <1>5

\* A stream after a frame of its number: how its headers begin.
LEMMA FedBegins ==
    ASSUME NEW s \in StreamRec, NEW x \in FrameRec, NEW T \in Table, NEW h,
           s.headers # <<>> => s.headers[1] = h,
           x.t = "HEADERS" => \E hs \in Seq(Pair) : hs # <<>> /\ hs[1] = h /\ parse(T, x.block).headers = hs,
           s.headers # <<>> \/ x.t = "HEADERS"
    PROVE  Fed(s, x, T).headers # <<>> /\ Fed(s, x, T).headers[1] = h
<1>1. CASE x.t = "HEADERS"
  <2>1. PICK hs \in Seq(Pair) : hs # <<>> /\ hs[1] = h /\ parse(T, x.block).headers = hs
    BY <1>1
  <2>2. PICK p \in Seq(Pair) : p = s.headers
    BY DEF StreamRec
  <2>3. Fed(s, x, T).headers = p \o hs
    BY <1>1, <2>1, <2>2 DEF Fed
  <2>4. p \o hs # <<>> /\ (p # <<>> => (p \o hs)[1] = p[1]) /\ (p = <<>> => (p \o hs)[1] = hs[1])
    BY <2>1, CatFirst
  <2> QED  BY <2>1, <2>2, <2>3, <2>4
<1>2. CASE x.t # "HEADERS"
  BY <1>2 DEF Fed
<1> QED  BY <1>1, <1>2

LEMMA HeadSrvStep ==
    ASSUME TypeOK, Led, Step, Sync, Clear, Clear', NEW f \in Fibers, req[f].sn > 0, OwnNumber(f),
           NEW id \in Int, NEW h, id = req[f].sn, h = req[f].header, HeadSrv(id, h)
    PROVE  HeadSrv(id, h)'
<1>1. CASE srv' = srv
  BY <1>1 DEF HeadSrv
<1>2. CASE ReconnectStep
  BY <1>2 DEF ReconnectStep, ReconnectDoes, HeadSrv
<1>3. ASSUME NEW k \in DOMAIN srv.streams, NEW s \in StreamRec, ServletStep(k, s) PROVE HeadSrv(id, h)'
  <2>1. CASE RespondStep(k, s)
    BY <2>1, Zenon DEF RespondStep, RespondDoes, Marked, HeadSrv
  <2>2. CASE SrvDoneStep(k, s)
    BY <2>2 DEF SrvDoneStep, SrvDoneDoes, Alike, HeadSrv
  <2> QED  BY <1>3, <2>1, <2>2 DEF ServletStep
<1>4. ASSUME NEW x \in FrameRec, SrvReadStep(x) PROVE HeadSrv(id, h)'
  <2>1. CASE SrvWindowDoes(x)
    <3>1. PICK n, k, d : OnlySend(srv, srv', n, k, d)
      BY <2>1, Zenon DEF SrvWindowDoes
    <3> QED  BY <3>1, SendKeeps DEF Kept, Alike, HeadSrv
  <2>2. CASE SrvRefuseDoes(x)
    BY <1>1, <2>2 DEF SrvRefuseDoes
  <2>3. CASE SrvAcceptDoes(x, Target(x))
    <3>1. CASE x.id # id
      BY <2>3, <3>1 DEF SrvAcceptDoes, HeadSrv
    <3>2. CASE x.id = id
      <4>1. PICK s \in StreamRec, T \in Table : s = Target(x) /\ T = srv.recvTable
        BY TargetType, TablesTyped
      <4>2. /\ x.t # "WINDOW_UPDATE" /\ (id \in DOMAIN srv.streams \/ ~(id <= srv.sn))
            /\ srv'.streams[id].headers = Fed(s, x, T).headers
        BY <2>3, <3>2, <4>1 DEF SrvAcceptDoes, Handed
      <4>3. id \in DOMAIN srv.streams => s.headers # <<>> /\ s.headers[1] = h
        BY <3>2, <4>1 DEF Target, Led, HeadSrv
      <4>4. id \notin DOMAIN srv.streams => s.headers = <<>> /\ x.t = "HEADERS"
        <5> SUFFICES ASSUME id \notin DOMAIN srv.streams PROVE s.headers = <<>> /\ x.t = "HEADERS"
          OBVIOUS
        <5>1. s.headers = <<>>
          BY <3>2, <4>1 DEF Target, Stream
        <5>2. PICK q \in Seq(FrameRec) : q = toSrv /\ q # <<>> /\ x = Head(q)
          BY <1>4, Zenon DEF TypeOK, SrvReadStep
        <5>3. Len(q) \in Nat /\ DOMAIN q = 1 .. Len(q) /\ 1 \in DOMAIN q /\ q[1] = x
          BY <5>2, HeadTail
        <5>4. \A k \in DOMAIN q : ~(k < 1)
          BY <5>3
        <5>5. Covered(q, srv.sn)
          BY <5>2 DEF Led
        <5>6. x.t = "DATA" => x.id <= srv.sn
          BY <5>3, <5>4, <5>5 DEF Covered
        <5>7. x.t # "DATA"
          BY <3>2, <4>2, <5>6
        <5>8. x.t \in Traffic
          BY <1>4, <4>2, SrvReadHead
        <5> QED  BY <5>1, <5>7, <5>8 DEF Traffic
      <4>5. x.t = "HEADERS" =>
               \E hs \in Seq(Pair) : hs # <<>> /\ hs[1] = h /\ parse(T, x.block).headers = hs
        <5>1. toSrv # <<>> /\ x = Head(toSrv) /\ Garbled(x.block) = {}
          BY <1>4, <2>3 DEF SrvReadStep, SrvAcceptDoes, Reads, Clear
        <5> QED  BY <3>2, <4>1, <5>1, Begins
      <4>6. Fed(s, x, T).headers[1] = h
        BY <4>3, <4>4, <4>5, FedBegins
      <4> QED  BY <4>2, <4>6 DEF HeadSrv
    <3> QED  BY <3>1, <3>2
  <2> QED  BY <1>4, <2>1, <2>2, <2>3 DEF SrvReadStep
<1> QED  BY <1>1, <1>2, <1>3, <1>4, ServerCases

\* What a step does to the client's stream of a number.
LEMMA CliStreamCases ==
    ASSUME TypeOK, Step, NEW id, id \in DOMAIN cli'.streams
    PROVE  \/ id \in DOMAIN cli.streams /\ cli'.streams[id].headers = cli.streams[id].headers
           \/ \E g \in Fibers : Starts(g) /\ id = req'[g].sn
           \/ \E x \in FrameRec, s \in StreamRec : CliHandleStep(x, s) /\ x.id = id
<1> DEFINE Same == id \in DOMAIN cli.streams /\ cli'.streams[id].headers = cli.streams[id].headers
<1>1. cli'.streams = cli.streams => Same
  OBVIOUS
<1>2. ASSUME NEW g \in Fibers, Starts(g) PROVE Same \/ (Starts(g) /\ id = req'[g].sn)
  BY <1>2 DEF Starts, NewStreamStep, NewStreamDoes
<1>3. ASSUME NEW g \in Fibers, OnTimeOutStep(g) PROVE Same
  BY <1>3 DEF OnTimeOutStep, OnTimeOutDoes
<1>4. ASSUME CliChargeStep PROVE Same
  BY <1>4 DEF CliChargeStep, CliChargeDoes, OnlySend, Alike
<1>5. ASSUME ReconnectStep PROVE Same
  BY <1>5 DEF ReconnectStep, ReconnectDoes, Cleared
<1>6. ASSUME NEW x \in FrameRec, CliReadStep(x) PROVE Same
  <2>1. cli'.streams = cli.streams \/ \E n, k, d : OnlySend(cli, cli', n, k, d)
    BY <1>6, Zenon DEF CliReadStep, CliReadDoes
  <2>2. ASSUME NEW n, NEW k, NEW d, OnlySend(cli, cli', n, k, d) PROVE Same
    BY <2>2, SendKeeps DEF Kept, Alike
  <2> QED  BY <1>1, <2>1, <2>2
<1>7. ASSUME NEW x \in FrameRec, NEW s \in StreamRec, CliHandleStep(x, s)
      PROVE  Same \/ x.id = id
  <2>1. PICK s2 : s2 = Fed(s, x, cli.recvTable)
    OBVIOUS
  <2>2. CliHandleDoes(x, s, s2)
    BY <1>7, <2>1 DEF CliHandleStep
  <2> QED  BY <2>2 DEF CliHandleDoes
<1> HIDE DEF Same
<1>8. \/ Same
      \/ \E g \in Fibers : Starts(g) /\ id = req'[g].sn
      \/ \E x \in FrameRec, s \in StreamRec : CliHandleStep(x, s) /\ x.id = id
  BY <1>1, <1>2, <1>3, <1>4, <1>5, <1>6, <1>7
  DEF Step, FiberStep, Starts, RequestStep, RequestDoes, DueStep, CliWriteStep, CliWriteDoes,
      WroteRequest, ReaderStep, CliHandleDeletedStep, CliHandleDeletedDoes, SrvReadStep,
      ServletStep, RespondStep, SrvDoneStep, ClientKept, Still
<1> QED  BY <1>8 DEF Same

LEMMA OutCases ==
    ASSUME TypeOK, HeldOk, Step, cli'.held = "out"
    PROVE  \/ cli.held = "out" /\ Head(toCli') = Head(toCli)
           \/ \E g \in Fibers : OnTimeOutStep(g) /\ Head(toCli').id = req[g].sn
<1> DEFINE Goal == \/ cli.held = "out" /\ Head(toCli') = Head(toCli)
                   \/ \E g \in Fibers : OnTimeOutStep(g) /\ Head(toCli').id = req[g].sn
<1>1. cli'.held = cli.held /\ toCli' = toCli => Goal
  OBVIOUS
<1>2. cli'.held \in {None, "in"} => FALSE
  BY Http2Assumption
<1>3. ASSUME NEW f \in Fibers, FiberStep(f) PROVE Goal
  <2>1. CASE OnTimeOutStep(f)
    BY <2>1 DEF OnTimeOutStep, OnTimeOutDoes, WireKept
  <2> QED  BY <1>1, <1>3, <2>1
           DEF FiberStep, NewStreamStep, NewStreamDoes, RequestStep, RequestDoes, DueStep, WireKept
<1>4. ASSUME \/ \E f \in FrameRec : SrvReadStep(f)
             \/ \E id \in DOMAIN srv.streams, s \in StreamRec : ServletStep(id, s)
      PROVE  Goal
  <2>1. PICK r : CliFed(r)
    BY <1>4, ServerAdds
  <2>2. cli' = cli
    BY <1>4 DEF SrvReadStep, ServletStep, RespondStep, SrvDoneStep, ClientKept
  <2>3. PICK c \in Seq(FrameRec) : c = toCli /\ c # <<>>
    BY <2>2, Http2Assumption, Zenon DEF TypeOK, HeldOk
  <2>4. Head(toCli') = Head(c)
    BY <2>1, <2>3, HeadCat DEF CliFed
  <2> QED  BY <2>2, <2>3, <2>4
<1>5. ASSUME NEW f \in FrameRec, CliReadStep(f) PROVE FALSE
  <2>1. cli'.held = cli.held \/ cli'.held = "in"
    BY <1>5, Zenon DEF CliReadStep, CliReadDoes
  <2> QED  BY <1>2, <1>5, <2>1 DEF CliReadStep
<1>6. ASSUME CliWriteStep PROVE cli'.held = cli.held /\ toCli' = toCli
  BY <1>6 DEF CliWriteStep, CliWriteDoes, WroteRequest
<1>7. ASSUME CliChargeStep PROVE cli'.held = cli.held /\ toCli' = toCli
  BY <1>7 DEF CliChargeStep, CliChargeDoes, WireKept
<1>8. ASSUME ReconnectStep PROVE FALSE
  BY <1>2, <1>8 DEF ReconnectStep, ReconnectDoes
<1>9. ASSUME NEW f \in FrameRec, CliHandleDeletedStep(f) PROVE FALSE
  BY <1>2, <1>9 DEF CliHandleDeletedStep, CliHandleDeletedDoes
<1>10. ASSUME NEW f \in FrameRec, NEW s \in StreamRec, CliHandleStep(f, s) PROVE FALSE
  BY <1>2, <1>10, Zenon DEF CliHandleStep, CliHandleDoes
<1>11. Still => cli'.held = cli.held /\ toCli' = toCli
  BY DEF Still
<1> HIDE DEF Goal
<1>12. Goal
  BY <1>1, <1>3, <1>4, <1>5, <1>6, <1>7, <1>8, <1>9, <1>10, <1>11 DEF Step, ReaderStep
<1> QED  BY <1>12 DEF Goal

LEMMA GoneStep ==
    ASSUME TypeOK, HeldOk, Step, NEW id, Gone(id), ~\E g \in Fibers : Starts(g) /\ id = req'[g].sn
    PROVE  Gone(id)'
<1> SUFFICES ASSUME cli'.held = "out", Head(toCli').id = id, id \in DOMAIN cli'.streams PROVE FALSE
  BY DEF Gone
<1>1. CASE cli.held = "out" /\ Head(toCli') = Head(toCli)
  <2>1. id \notin DOMAIN cli.streams
    BY <1>1 DEF Gone
  <2>2. ASSUME NEW x \in FrameRec, NEW s \in StreamRec, CliHandleStep(x, s) PROVE FALSE
    BY <1>1, <2>2 DEF CliHandleStep
  <2> QED  BY <2>1, <2>2, CliStreamCases
<1>2. ASSUME NEW g \in Fibers, OnTimeOutStep(g), Head(toCli').id = req[g].sn PROVE FALSE
  BY <1>2 DEF OnTimeOutStep, OnTimeOutDoes
<1> QED  BY <1>1, <1>2, OutCases

\* Until a stream has headers, its HEADERS are still to come before its DATA.
LEMMA AheadStep ==
    ASSUME TypeOK, Step, Clear', NEW id, id \in DOMAIN cli.streams, Gone(id), Ahead(toCli, id),
           ~\E x \in FrameRec, s \in StreamRec : CliHandleStep(x, s) /\ Is(x, {"HEADERS"}, id)
    PROVE  Ahead(toCli', id)
<1>1. PICK c \in Seq(FrameRec) : c = toCli
  BY Zenon DEF TypeOK
<1>2. ASSUME c # <<>>, toCli' = Tail(c), ~Is(Head(c), {"HEADERS"}, id) PROVE Ahead(toCli', id)
  BY <1>1, <1>2, AheadTail
<1>3. ASSUME NEW r, CliFed(r), Ahead(r, id) PROVE Ahead(toCli', id)
  BY <1>1, <1>3, AheadCat DEF CliFed
<1>4. toCli' = toCli => Ahead(toCli', id)
  OBVIOUS
<1>5. ASSUME NEW x \in FrameRec, CliReadStep(x) PROVE Ahead(toCli', id)
  <2>1. c # <<>> /\ x = Head(c)
    BY <1>1, <1>5 DEF CliReadStep
  <2>2. toCli' = toCli \/ (toCli' = Tail(c) /\ ~Is(x, {"HEADERS"}, id))
    BY <1>1, <1>5, Zenon DEF CliReadStep, CliReadDoes, Is
  <2> QED  BY <1>2, <1>4, <2>1, <2>2
<1>6. ASSUME NEW x \in FrameRec, NEW s \in StreamRec, CliHandleStep(x, s) PROVE Ahead(toCli', id)
  <2>1. c # <<>> /\ x = Head(c) /\ toCli' = Tail(c)
    BY <1>1, <1>6, Zenon DEF CliHandleStep, CliHandleDoes
  <2> QED  BY <1>2, <1>6, <2>1
<1>7. ASSUME NEW x \in FrameRec, CliHandleDeletedStep(x) PROVE Ahead(toCli', id)
  <2>1. c # <<>> /\ x = Head(c) /\ toCli' = Tail(c) /\ cli.held = "out"
    BY <1>1, <1>7 DEF CliHandleDeletedStep, CliHandleDeletedDoes
  <2>2. x.id # id
    BY <1>1, <2>1 DEF Gone
  <2> QED  BY <1>2, <2>1, <2>2 DEF Is
<1>8. ASSUME NEW x \in FrameRec, SrvReadStep(x) PROVE Ahead(toCli', id)
  <2>1. PICK r : CliFed(r) /\ SrvReadAnswers(x, r)
    BY <1>8, SrvReadAdds
  <2>2. ~Has(r, {"DATA"}, id)
    BY <2>1 DEF SrvReadAnswers, GaveUpdates, GaveReset, Has, Is
  <2> QED  BY <1>3, <2>1, <2>2, AheadNone
<1>9. ASSUME NEW k \in DOMAIN srv.streams, NEW s \in StreamRec, RespondStep(k, s) PROVE Ahead(toCli', id)
  <2>1. PICK r : CliFed(r) /\ Responds(k, s, r)
    BY <1>9, RespondAdds
  <2>2. PICK none : none = (s.body = 0)
    OBVIOUS
  <2>3. PICK block : none \in BOOLEAN /\ IsMessage(r, k, block, none)
    BY <2>1, <2>2 DEF Responds
  <2> QED  BY <1>3, <2>1, <2>3, MessageAhead
<1>10. CASE ReconnectStep
  <2>1. ~Has(<<>>, {"DATA"}, id)
    BY RangeEmpty DEF Has
  <2>2. Ahead(<<>>, id)
    BY <2>1, AheadNone
  <2> QED  BY <1>10, <2>2 DEF ReconnectStep, ReconnectDoes
<1> QED  BY <1>4, <1>5, <1>6, <1>7, <1>8, <1>9, <1>10
         DEF Step, FiberStep, NewStreamStep, RequestStep, DueStep, OnTimeOutStep, CliWriteStep,
             CliChargeStep, ReaderStep, ServletStep, SrvDoneStep, WireKept, Still

\* The client's stream of a number after the frame that doRecv gave it.
LEMMA HandledBegins ==
    ASSUME TypeOK, Sync, Clear, Clear', NEW f \in Fibers, req[f].sn > 0, OwnNumber(f),
           HeadCli(req[f].sn, req[f].header), NEW x \in FrameRec, NEW s \in StreamRec, CliHandleStep(x, s),
           x.id = req[f].sn, x.t \in Traffic \/ s.headers # <<>>, NEW T \in Table, T = cli.recvTable
    PROVE  Fed(s, x, T).headers # <<>> /\ Fed(s, x, T).headers[1] = req[f].header
<1>0. PICK c \in Seq(FrameRec) : c = toCli
  BY Zenon DEF TypeOK
<1>1. PICK h : c = toCli /\ h = req[f].header
  BY <1>0
<1>2. c # <<>> /\ x = Head(c) /\ x.id \in DOMAIN cli.streams /\ s = cli.streams[x.id]
  BY <1>1 DEF CliHandleStep
<1>3. s.headers # <<>> => s.headers[1] = h
  BY <1>1, <1>2 DEF HeadCli
<1>4. s.headers = <<>> => x.t = "HEADERS"
  <2>1. s.headers = <<>> => ~Is(x, {"DATA"}, x.id)
    BY <1>1, <1>2, AheadFirst DEF HeadCli
  <2> QED  BY <2>1 DEF Is, Traffic
<1>5. x.t = "HEADERS" =>
         \E hs \in Seq(Pair) : hs # <<>> /\ hs[1] = h /\ parse(T, x.block).headers = hs
  <2>1. Garbled(x.block) = {}
    BY DEF CliHandleStep, Reads, Clear
  <2> QED  BY <1>1, <1>2, <2>1, Begins
<1>6. s.headers # <<>> \/ x.t = "HEADERS"
  BY <1>4
<1>7. Fed(s, x, T).headers # <<>> /\ Fed(s, x, T).headers[1] = h
  BY <1>3, <1>5, <1>6, FedBegins
<1> QED  BY <1>1, <1>7

LEMMA HeadCliStep ==
    ASSUME TypeOK, Step, Sync, Clear, Clear', NEW f \in Fibers, req[f].sn > 0, OwnNumber(f),
           NEW id \in Int, NEW h, id = req[f].sn, h = req[f].header, HeadCli(id, h), Gone(id),
           ~\E g \in Fibers : Starts(g) /\ id = req'[g].sn
    PROVE  HeadCli(id, h)'
<1> SUFFICES ASSUME id \in DOMAIN cli'.streams
             PROVE  /\ cli'.streams[id].headers # <<>> => cli'.streams[id].headers[1] = h
                    /\ cli'.streams[id].headers = <<>> => Ahead(toCli', id)
  BY DEF HeadCli
<1>1. ASSUME NEW x \in FrameRec, NEW s \in StreamRec, CliHandleStep(x, s), x.id = id
      PROVE  /\ cli'.streams[id].headers # <<>> => cli'.streams[id].headers[1] = h
             /\ cli'.streams[id].headers = <<>> => Ahead(toCli', id)
  <2>1. PICK T \in Table : T = cli.recvTable
    BY TablesTyped
  <2>2. PICK s2 : s2 = Fed(s, x, T)
    OBVIOUS
  <2>3. id \in DOMAIN cli.streams /\ s = cli.streams[id] /\ CliHandleDoes(x, s, s2) /\ x = Head(toCli)
    BY <1>1, <2>1, <2>2 DEF CliHandleStep
  <2>4. cli'.streams[id] = s2
    BY <1>1, <2>3, Zenon DEF CliHandleDoes
  <2>5. CASE x.t = "HEADERS" \/ s.headers # <<>>
    <3>1. x.t \in Traffic \/ s.headers # <<>>
      BY <2>5 DEF Traffic
    <3>2. s2.headers # <<>> /\ s2.headers[1] = h
      BY <1>1, <2>1, <2>2, <3>1, HandledBegins
    <3> QED  BY <2>4, <3>2
  <2>6. CASE x.t # "HEADERS" /\ s.headers = <<>>
    <3>1. s2.headers = <<>>
      BY <2>2, <2>6 DEF Fed
    <3>2. Ahead(toCli, id)
      BY <2>3, <2>6 DEF HeadCli
    <3>3. ASSUME NEW y \in FrameRec, NEW t \in StreamRec, CliHandleStep(y, t), Is(y, {"HEADERS"}, id)
          PROVE  FALSE
      BY <2>3, <2>6, <3>3 DEF CliHandleStep, Is
    <3>4. Ahead(toCli', id)
      BY <2>3, <3>2, <3>3, AheadStep
    <3> QED  BY <2>4, <3>1, <3>4
  <2> QED  BY <2>5, <2>6
<1>2. ASSUME ~\E x \in FrameRec, s \in StreamRec : CliHandleStep(x, s) /\ x.id = id
      PROVE  /\ cli'.streams[id].headers # <<>> => cli'.streams[id].headers[1] = h
             /\ cli'.streams[id].headers = <<>> => Ahead(toCli', id)
  <2>1. id \in DOMAIN cli.streams /\ cli'.streams[id].headers = cli.streams[id].headers
    BY <1>2, CliStreamCases
  <2>2. ~\E x \in FrameRec, s \in StreamRec : CliHandleStep(x, s) /\ Is(x, {"HEADERS"}, id)
    BY <1>2 DEF Is
  <2>3. Ahead(toCli, id) => Ahead(toCli', id)
    BY <2>1, <2>2, AheadStep
  <2> QED  BY <2>1, <2>3 DEF HeadCli
<1> QED  BY <1>1, <1>2

LEMMA HeadsStep ==
    ASSUME TypeOK, HeldOk, Led, Requests, Played, Step, Sync, Heads
    PROVE  Heads'
<1> SUFFICES ASSUME Clear', NEW f \in Fibers, OwnsNow(f)
             PROVE  \E id, h : /\ id = req'[f].sn /\ h = req'[f].header
                               /\ HeadSrv(id, h)' /\ HeadCli(id, h)' /\ Gone(id)'
  BY DEF Heads, OwnsNow, OwnNumber
<1>0. Clear
  BY ClearStep
<1>1. CASE Starts(f) /\ ~InPlay(req'[f].sn)
  <2>1. PICK id, h : id = req'[f].sn /\ h = req'[f].header
    OBVIOUS
  <2>2. /\ toCli' = toCli /\ srv' = srv /\ cli'.held = cli.held
        /\ id \in DOMAIN cli'.streams /\ cli'.streams[id] = Stream(CLIENT_WINDOW, DEFAULT_WINDOW, f)
    BY <1>1, <2>1 DEF Starts, NewStreamStep, NewStreamDoes, WireKept, ServerKept
  <2>3. id \notin DOMAIN srv.streams /\ ~Has(toCli, Answers, id)
    BY <1>1, <2>1 DEF InPlay
  <2>4. ~Has(toCli, {"DATA"}, id)
    BY <2>3 DEF Has, Is, Answers
  <2>5. Ahead(toCli, id)
    BY <2>4, AheadNone
  <2>6. cli'.streams[id].headers = <<>>
    BY <2>2 DEF Stream
  <2>7. ASSUME cli.held = "out", Head(toCli).id = id PROVE FALSE
    <3>1. PICK c \in Seq(FrameRec) : c = toCli /\ c # <<>> /\ Head(c).t # "WINDOW_UPDATE"
      BY <2>7, Http2Assumption, Zenon DEF TypeOK, HeldOk
    <3>2. Head(c) \in Range(c) /\ Head(c) \in FrameRec
      BY <3>1, RangeTail, HeadTail
    <3>3. Head(c).t \in Answers
      BY <3>1, <3>2 DEF FrameRec, Answers
    <3> QED  BY <2>3, <2>7, <3>1, <3>2, <3>3 DEF Has, Is
  <2>8. HeadSrv(id, h)' /\ HeadCli(id, h)' /\ Gone(id)'
    BY <2>2, <2>3, <2>5, <2>6, <2>7 DEF HeadSrv, HeadCli, Gone
  <2> QED  BY <2>1, <2>8
<1>2. CASE req'[f].sn = req[f].sn /\ req[f].sn > 0 /\ OwnNumber(f)
  <2>1. PICK id \in Int : id = req[f].sn
    BY Zenon DEF TypeOK, ReqRec
  <2>2. PICK h : h = req[f].header
    OBVIOUS
  <2>3. id = req'[f].sn /\ h = req'[f].header
    BY <1>2, <2>1, <2>2, HeaderKept
  <2>4. HeadSrv(id, h) /\ HeadCli(id, h) /\ Gone(id)
    BY <1>0, <1>2, <2>1, <2>2 DEF Heads
  <2>5. ASSUME NEW g \in Fibers, Starts(g), id = req'[g].sn PROVE FALSE
    <3>1. g = f
      BY <2>3, <2>5 DEF OwnsNow
    <3>2. req[f].pc = "idle"
      BY <2>5, <3>1 DEF Starts, NewStreamStep
    <3>3. req[f].sn = 0
      BY <3>2 DEF Requests, Life
    <3> QED  BY <1>2, <3>3
  <2>6. HeadSrv(id, h)'
    BY <1>0, <1>2, <2>1, <2>2, <2>4, HeadSrvStep
  <2>7. HeadCli(id, h)'
    BY <1>0, <1>2, <2>1, <2>2, <2>4, <2>5, HeadCliStep
  <2>8. Gone(id)'
    BY <2>4, <2>5, GoneStep
  <2> QED  BY <2>3, <2>6, <2>7, <2>8
<1> QED  BY <1>1, <1>2, OwnBefore

\* A request that is answered just now: by onStreamClose, with what its stream holds.
LEMMA OkCases ==
    ASSUME TypeOK, Requests, Step, NEW f \in Fibers, req'[f].result = "ok"
    PROVE  \/ req[f].result = "ok" /\ req'[f].got = req[f].got
           \/ \E x \in FrameRec, s \in StreamRec :
                 /\ CliHandleStep(x, s) /\ x.id \in DOMAIN cli.ctxs /\ f = cli.ctxs[x.id] /\ x.end
                 /\ LET hs == Fed(s, x, cli.recvTable).headers
                    IN  req'[f].got = IF hs = <<>> THEN None ELSE hs[1]
<1> DEFINE Same == req[f].result = "ok" /\ req'[f].got = req[f].got
           Now(x, s) == /\ CliHandleStep(x, s) /\ x.id \in DOMAIN cli.ctxs /\ f = cli.ctxs[x.id] /\ x.end
                        /\ LET hs == Fed(s, x, cli.recvTable).headers
                           IN  req'[f].got = IF hs = <<>> THEN None ELSE hs[1]
<1>1. req'[f] = req[f] => Same
  OBVIOUS
<1>2. ASSUME NEW g \in Fibers, FiberStep(g) PROVE Same
  <2>1. CASE g # f
    <3>1. OthersKept(g)
      BY <1>2 DEF FiberStep, NewStreamStep, NewStreamDoes, RequestStep, RequestDoes, DueStep, DueDoes,
                  OnTimeOutStep, OnTimeOutDoes
    <3> QED  BY <1>1, <2>1, <3>1 DEF OthersKept
  <2>2. CASE g = f
    BY <1>2, <2>2
    DEF FiberStep, NewStreamStep, NewStreamDoes, RequestStep, RequestDoes, DueStep, DueDoes,
        OnTimeOutStep, OnTimeOutDoes, Retimed, Answered
  <2> QED  BY <2>1, <2>2
<1>3. ASSUME ReconnectStep PROVE Same
  BY <1>1, <1>3 DEF ReconnectStep, ReconnectDoes, Answered
<1>4. ASSUME NEW x \in FrameRec, NEW s \in StreamRec, CliHandleStep(x, s) PROVE Same \/ Now(x, s)
  <2>1. PICK s2 : s2 = Fed(s, x, cli.recvTable)
    OBVIOUS
  <2>2. CliHandleDoes(x, s, s2)
    BY <1>4, <2>1 DEF CliHandleStep
  <2>3. s2.ended = x.end
    BY <2>1 DEF Fed
  <2>4. CASE req'[f] = req[f]
    BY <1>1, <2>4
  <2>5. CASE req'[f] # req[f]
    <3>1. PICK g \in Fibers :
             /\ x.id \in DOMAIN cli.ctxs /\ g = cli.ctxs[x.id] /\ OthersKept(g)
             /\ \/ Answered(req'[g], req[g], "rst_stream", None)
                \/ /\ s2.ended
                   /\ Answered(req'[g], req[g], "ok", IF s2.headers = <<>> THEN None ELSE s2.headers[1])
      BY <2>2, <2>5 DEF CliHandleDoes
    <3>2. g = f
      BY <2>5, <3>1 DEF OthersKept
    <3>3. x.end /\ req'[f].got = IF s2.headers = <<>> THEN None ELSE s2.headers[1]
      BY <2>3, <3>1, <3>2 DEF Answered
    <3> QED  BY <1>4, <2>1, <3>1, <3>2, <3>3
  <2> QED  BY <2>4, <2>5
<1>5. req' = req => Same
  BY <1>1
<1> HIDE DEF Same, Now
<1>6. Same \/ \E x \in FrameRec, s \in StreamRec : Now(x, s)
  BY <1>2, <1>3, <1>4, <1>5
  DEF Step, CliWriteStep, CliChargeStep, ReaderStep, CliReadStep, CliHandleDeletedStep, SrvReadStep,
      ServletStep, RespondStep, SrvDoneStep, ClientKept, Still
<1> QED  BY <1>6 DEF Same, Now

LEMMA EchoStep ==
    ASSUME TypeOK, Requests, Requests', Played, Contexts, Step, Sync, Heads, EchoesHeader
    PROVE  EchoesHeader'
<1> SUFFICES ASSUME NEW f \in Fibers, req'[f].result = "ok", Clear',
                    \A g \in Fibers \ {f} : req'[g].sn # req'[f].sn
             PROVE  req'[f].got = req'[f].header
  BY DEF EchoesHeader, OwnNumber, Clear
<1>1. Clear
  BY ClearStep
<1>2. req'[f].pc = "done" /\ req'[f].sn > 0
  <2>1. Life(f)'
    BY DEF Requests
  <2> QED  BY <2>1, Http2Assumption DEF Life
<1>3. OwnsNow(f)
  BY <1>2 DEF OwnsNow
<1>4. ~Starts(f)
  BY <1>2 DEF Starts, NewStreamStep, NewStreamDoes
<1>5. req'[f].sn = req[f].sn /\ req[f].sn > 0 /\ OwnNumber(f)
  BY <1>3, <1>4, OwnBefore
<1>6. req'[f].header = req[f].header
  BY <1>5, HeaderKept
<1>7. CASE req[f].result = "ok" /\ req'[f].got = req[f].got
  BY <1>1, <1>5, <1>6, <1>7 DEF EchoesHeader, Clear
<1>8. ASSUME NEW x \in FrameRec, NEW s \in StreamRec,
             CliHandleStep(x, s), x.id \in DOMAIN cli.ctxs, f = cli.ctxs[x.id], x.end,
             LET hs == Fed(s, x, cli.recvTable).headers
             IN  req'[f].got = IF hs = <<>> THEN None ELSE hs[1]
      PROVE  req'[f].got = req[f].header
  <2>1. x.id = req[f].sn
    BY <1>8 DEF Contexts
  <2>2. x.t \in Traffic
    BY <1>8 DEF FrameRec, Traffic
  <2>3. PICK T \in Table : T = cli.recvTable
    BY TablesTyped
  <2>4. HeadCli(req[f].sn, req[f].header)
    BY <1>1, <1>5 DEF Heads
  <2>5. Fed(s, x, T).headers # <<>> /\ Fed(s, x, T).headers[1] = req[f].header
    BY <1>1, <1>5, <1>8, <2>1, <2>2, <2>3, <2>4, HandledBegins, ZenonT(40)
  <2> QED  BY <1>8, <2>3, <2>5
<1> QED  BY <1>6, <1>7, <1>8, OkCases

LEMMA EchoInit == Init => EchoInv
<1> SUFFICES ASSUME Init PROVE EchoInv
  OBVIOUS
<1>1. RouteInv
  BY RouteInit
<1>2. /\ toSrv = <<>> /\ toCli = <<>> /\ srv.recvTable = <<>> /\ srv.sendTable = <<>>
      /\ cli.recvTable = <<>> /\ cli.sendTable = <<>>
      /\ \A f \in Fibers : req[f].sn = 0 /\ req[f].result = None
  BY DEF Init, Client, Server
<1>3. Sync
  BY <1>2, NoPath DEF Sync, Forth, Back
<1>4. Heads /\ EchoesHeader
  BY <1>2, Http2Assumption DEF Heads, EchoesHeader
<1> QED  BY <1>1, <1>3, <1>4 DEF EchoInv

LEMMA EchoInvStep == EchoInv /\ [Next]_vars => EchoInv'
<1> SUFFICES ASSUME EchoInv, [Next]_vars PROVE EchoInv'
  OBVIOUS
<1> USE DEF EchoInv
<1>1. RouteInv'
  BY RouteStep
<1>2. TypeOK /\ HeldOk /\ Led /\ Requests /\ Played /\ Contexts /\ Requests' /\ Step
  BY <1>1, StepFacts DEF RouteInv, BaseInv
<1>3. Sync' /\ Heads' /\ EchoesHeader'
  BY <1>2, SyncStep, HeadsStep, EchoStep
<1> QED  BY <1>1, <1>3

\* A request that is answered gets back the header it sent, as long as its number is
\* its own and no frame was dropped unread or, for a string of 255 bytes, misread: the tables that the two ends compress with
\* never part, however the frames of several streams, the timers and the reconnects
\* fall, because everything packed and not yet parsed leads from one to the other.
THEOREM EchoCorrect == Spec => []EchoesHeader
<1>1. EchoInv => EchoesHeader
  BY DEF EchoInv
<1> QED  BY <1>1, EchoInit, EchoInvStep, PTL DEF Spec

-----------------------------------------------------------------------------
(***************************************************************************)
(* The windows: a ledger of the DATA and the credits that are on the way.  *)
(***************************************************************************)

LEMMA WeighsEmpty ==
    ASSUME NEW t, NEW ids
    PROVE  Weighs(<<>>, t, ids, 0) /\ \A s : Weighs(<<>>, t, ids, s) => s = 0
<1>1. Len(<<>>) = 0 /\ 1 .. 0 = {} /\ 0 + 1 = 1
  OBVIOUS
<1> DEFINE a == [i \in 1 .. 1 |-> 0]
<1>2. a \in [1 .. 1 -> Nat] /\ a[1] = 0
  OBVIOUS
<1> HIDE DEF a
<1> QED  BY <1>1, <1>2 DEF Weighs

LEMMA WeighsNone ==
    ASSUME NEW S, NEW q \in Seq(S), NEW t, NEW ids, \A x \in Range(q) : ~(x.t = t /\ x.id \in ids)
    PROVE  Weighs(q, t, ids, 0)
<1>1. PICK n \in Nat : n = Len(q) /\ \A i \in 1 .. n : q[i] \in Range(q)
  BY DEF Range
<1> DEFINE a == [i \in 1 .. n + 1 |-> 0]
<1>2. a \in [1 .. n + 1 -> Nat] /\ \A i \in 1 .. n + 1 : a[i] = 0
  OBVIOUS
<1>3. \A i \in 1 .. n : i \in 1 .. n + 1 /\ i + 1 \in 1 .. n + 1 /\ Weight(q[i], t, ids) = 0
  BY <1>1 DEF Weight
<1>4. 1 \in 1 .. n + 1 /\ n + 1 \in 1 .. n + 1
  OBVIOUS
<1> HIDE DEF a
<1> QED  BY <1>1, <1>2, <1>3, <1>4 DEF Weighs

LEMMA WeighsOne ==
    ASSUME NEW x, NEW t, NEW ids, NEW s \in Nat, Weight(x, t, ids) = s
    PROVE  Weighs(<<x>>, t, ids, s)
<1> DEFINE a == [i \in 1 .. 2 |-> IF i = 1 THEN s ELSE 0]
<1>1. a \in [1 .. 2 -> Nat] /\ a[1] = s /\ a[2] = 0
  OBVIOUS
<1>2. Len(<<x>>) = 1 /\ <<x>>[1] = x
  OBVIOUS
<1> HIDE DEF a
<1>3. \A i \in 1 .. 1 : i = 1 /\ i + 1 = 2
  OBVIOUS
<1>4. s = s + 0
  OBVIOUS
<1> QED  BY <1>1, <1>2, <1>3, <1>4 DEF Weighs

LEMMA WeighsTail ==
    ASSUME NEW S, NEW q \in Seq(S), q # <<>>, NEW t, NEW ids, NEW s, Weighs(q, t, ids, s)
    PROVE  \E w \in Nat, r \in Nat :
              w = Weight(Head(q), t, ids) /\ s = w + r /\ Weighs(Tail(q), t, ids, r)
<1>1. PICK n \in Nat :
         /\ n = Len(q) /\ n > 0 /\ q[1] = Head(q) /\ Len(Tail(q)) = n - 1
         /\ \A i \in 1 .. n - 1 : Tail(q)[i] = q[i + 1]
  BY HeadTail
<1>2. PICK a \in [1 .. n + 1 -> Nat] :
         /\ a[1] = s /\ a[n + 1] = 0
         /\ \A i \in 1 .. n : Weight(q[i], t, ids) \in Nat /\ a[i] = Weight(q[i], t, ids) + a[i + 1]
  BY <1>1 DEF Weighs
<1> DEFINE b == [i \in 1 .. n |-> a[i + 1]]
<1>3. /\ b \in [1 .. n -> Nat] /\ \A i \in 1 .. n : b[i] = a[i + 1]
      /\ 1 \in 1 .. n /\ n \in 1 .. n /\ (n - 1) + 1 = n
  BY <1>1
<1> HIDE DEF b
<1>4. ASSUME NEW i \in 1 .. n - 1
      PROVE  Weight(Tail(q)[i], t, ids) \in Nat /\ b[i] = Weight(Tail(q)[i], t, ids) + b[i + 1]
  <2>1. i \in 1 .. n /\ i + 1 \in 1 .. n /\ Tail(q)[i] = q[i + 1]
    BY <1>1
  <2> QED  BY <1>2, <1>3, <2>1, Zenon
<1>5. Weighs(Tail(q), t, ids, b[1])
  <2>1. PICK p : p = Tail(q)
    OBVIOUS
  <2>2. PICK m \in Nat : m = n - 1 /\ Len(p) = m /\ m + 1 = n
    BY <1>1, <2>1
  <2>3. b[m + 1] = 0 /\ b \in [1 .. m + 1 -> Nat]
    BY <1>2, <1>3, <2>2, Zenon
  <2>4. \A i \in 1 .. m : Weight(p[i], t, ids) \in Nat /\ b[i] = Weight(p[i], t, ids) + b[i + 1]
    BY <1>4, <2>1, <2>2, Zenon
  <2>5. Weighs(p, t, ids, b[1])
    BY <2>2, <2>3, <2>4, Zenon DEF Weighs
  <2> QED  BY <2>1, <2>5
<1>6. /\ Weight(q[1], t, ids) \in Nat /\ a[1] = Weight(q[1], t, ids) + b[1] /\ b[1] \in Nat
  BY <1>2, <1>3
<1> QED  BY <1>1, <1>2, <1>5, <1>6

LEMMA WeighsCat ==
    ASSUME NEW S, NEW q \in Seq(S), NEW r \in Seq(S), NEW t, NEW ids, NEW s, NEW u,
           Weighs(q, t, ids, s), Weighs(r, t, ids, u)
    PROVE  Weighs(q \o r, t, ids, s + u) /\ s \in Nat /\ u \in Nat
<1>1. CatDoes(q, r)
  BY CatFacts
<1>0. Len(q \o r) = Len(q) + Len(r)
  BY ConcatProperties
<1>2. PICK n \in Nat, m \in Nat :
         /\ n = Len(q) /\ m = Len(r) /\ DOMAIN q = 1 .. n /\ DOMAIN r = 1 .. m
         /\ DOMAIN (q \o r) = 1 .. n + m /\ Len(q \o r) = n + m
  BY <1>0, <1>1, Zenon DEF CatDoes
<1> DEFINE W(x) == Weight(x, t, ids)
<1>3. PICK a \in [1 .. n + 1 -> Nat] :
         a[1] = s /\ a[n + 1] = 0 /\ \A i \in 1 .. n : W(q[i]) \in Nat /\ a[i] = W(q[i]) + a[i + 1]
  BY <1>2, Zenon DEF Weighs
<1>4. PICK b \in [1 .. m + 1 -> Nat] :
         b[1] = u /\ b[m + 1] = 0 /\ \A i \in 1 .. m : W(r[i]) \in Nat /\ b[i] = W(r[i]) + b[i + 1]
  BY <1>2, Zenon DEF Weighs
<1>5. s \in Nat /\ u \in Nat
  <2>1. 1 \in 1 .. n + 1 /\ 1 \in 1 .. m + 1
    OBVIOUS
  <2> QED  BY <1>3, <1>4, <2>1
<1> HIDE DEF W
<1> DEFINE c == [i \in 1 .. (n + m) + 1 |-> IF i <= n THEN a[i] + u ELSE b[i - n]]
<1>6. c \in [1 .. (n + m) + 1 -> Nat]
  <2> SUFFICES ASSUME NEW i \in 1 .. (n + m) + 1 PROVE (IF i <= n THEN a[i] + u ELSE b[i - n]) \in Nat
    OBVIOUS
  <2>1. i <= n => i \in 1 .. n + 1
    OBVIOUS
  <2>2. ~(i <= n) => i - n \in 1 .. m + 1
    OBVIOUS
  <2> QED  BY <1>5, <2>1, <2>2
<1>7. /\ \A i \in 1 .. n : c[i] = a[i] + u
      /\ \A i \in 1 .. m + 1 : c[n + i] = b[i]
  <2>1. ASSUME NEW i \in 1 .. n PROVE c[i] = a[i] + u
    OBVIOUS
  <2>2. ASSUME NEW i \in 1 .. m + 1 PROVE c[n + i] = b[i]
    <3>1. n + i \in 1 .. (n + m) + 1 /\ ~(n + i <= n) /\ (n + i) - n = i
      OBVIOUS
    <3> QED  BY <3>1
  <2> QED  BY <2>1, <2>2
<1> HIDE DEF c
<1>8. c[n + 1] = a[n + 1] + u
  <2>1. 1 \in 1 .. m + 1
    OBVIOUS
  <2>2. c[n + 1] = u
    BY <1>4, <1>7, <2>1
  <2> QED  BY <1>3, <1>5, <2>2
<1>9. \A i \in 1 .. n + 1 : c[i] = a[i] + u
  <2> SUFFICES ASSUME NEW i \in 1 .. n + 1 PROVE c[i] = a[i] + u
    OBVIOUS
  <2>1. i \in 1 .. n \/ i = n + 1
    OBVIOUS
  <2> QED  BY <1>7, <1>8, <2>1, Zenon
<1>10. c[1] = s + u /\ c[(n + m) + 1] = 0
  <2>1. 1 \in 1 .. n + 1 /\ m + 1 \in 1 .. m + 1 /\ n + (m + 1) = (n + m) + 1
    OBVIOUS
  <2> QED  BY <1>3, <1>4, <1>7, <1>9, <2>1
<1>11. ASSUME NEW i \in 1 .. n + m PROVE W((q \o r)[i]) \in Nat /\ c[i] = W((q \o r)[i]) + c[i + 1]
  <2>1. CASE i <= n
    <3>1. i \in 1 .. n /\ i \in 1 .. n + 1 /\ i + 1 \in 1 .. n + 1
      BY <2>1
    <3>2. (q \o r)[i] = q[i]
      BY <1>1, <1>2, <3>1 DEF CatDoes
    <3>3. a[i] \in Nat /\ a[i + 1] \in Nat /\ W(q[i]) \in Nat /\ a[i] = W(q[i]) + a[i + 1]
      BY <1>3, <3>1
    <3> QED  BY <1>5, <1>9, <3>1, <3>2, <3>3
  <2>2. CASE ~(i <= n)
    <3>1. PICK k \in 1 .. m : i = n + k
      <4>1. i - n \in 1 .. m /\ i = n + (i - n)
        BY <2>2
      <4> QED  BY <4>1
    <3>2. (q \o r)[n + k] = r[k]
      BY <1>1, <1>2 DEF CatDoes
    <3>3. k \in 1 .. m + 1 /\ k + 1 \in 1 .. m + 1 /\ (n + k) + 1 = n + (k + 1)
      OBVIOUS
    <3>4. c[n + k] = b[k] /\ c[n + (k + 1)] = b[k + 1]
      BY <1>7, <3>3, Zenon
    <3> QED  BY <1>4, <3>1, <3>2, <3>3, <3>4
  <2> QED  BY <2>1, <2>2, Zenon
<1>12. Weighs(q \o r, t, ids, s + u)
  BY <1>2, <1>6, <1>10, <1>11, Zenon DEF Weighs, W
<1> QED  BY <1>5, <1>12

\* A weight is a number.
\* A message weighs as much as its DATA.
LEMMA MessageWeighs ==
    ASSUME NEW r, NEW id, NEW block, NEW none \in BOOLEAN, NEW ids, IsMessage(r, id, block, none)
    PROVE  /\ Weighs(r, "WINDOW_UPDATE", ids, 0)
           /\ Weighs(r, "DATA", ids, IF none \/ id \notin ids THEN 0 ELSE 1)
<1>1. PICK h, d : MessageSet(r, h, d, id, block, none)
  BY MessageRange
<1>2. /\ h.t = "HEADERS" /\ d.t = "DATA" /\ d.id = id
      /\ Range(r) = IF none THEN {h} ELSE {h, d}
  BY <1>1 DEF MessageSet, IsFrame
<1>3. PICK q \in Seq(FrameRec) : q = r
  <2>1. <<>> \in Seq(FrameRec)
    OBVIOUS
  <2>2. r \in Seq(FrameRec)
    BY <2>1, MessageType, Zenon
  <2> QED  BY <2>2
<1>4. Weighs(r, "WINDOW_UPDATE", ids, 0)
  BY <1>2, <1>3, WeighsNone
<1>5. CASE none \/ id \notin ids
  BY <1>2, <1>3, <1>5, WeighsNone
<1>6. CASE ~none /\ id \in ids
  <2>1. PICK x, y : /\ IsFrame(x, "HEADERS", id, block, 0, none) /\ IsFrame(y, "DATA", id, <<>>, 1, TRUE)
                    /\ r = <<x>> \o (IF none THEN <<>> ELSE <<y>>)
    BY Zenon DEF IsMessage
  <2>2. /\ x \in FrameRec /\ y \in FrameRec /\ x.t = "HEADERS" /\ y.t = "DATA" /\ y.id = id /\ y.n = 1
    BY <2>1 DEF IsFrame
  <2>3. r = <<x>> \o <<y>>
    BY <1>6, <2>1, Zenon
  <2>4. Weight(x, "DATA", ids) = 0 /\ Weight(y, "DATA", ids) = 1
    BY <1>6, <2>2 DEF Weight
  <2>5. Weighs(<<x>>, "DATA", ids, 0) /\ Weighs(<<y>>, "DATA", ids, 1)
    BY <2>4, WeighsOne
  <2>6. PICK p \in Seq(FrameRec), z \in Seq(FrameRec) : p = <<x>> /\ z = <<y>>
    <3>1. <<x>> \in Seq(FrameRec) /\ <<y>> \in Seq(FrameRec)
      BY <2>2, One
    <3> QED  BY <3>1, Zenon
  <2>7. Weighs(p \o z, "DATA", ids, 0 + 1)
    BY <2>5, <2>6, WeighsCat, Zenon
  <2>8. 0 + 1 = 1 /\ r = p \o z
    BY <2>3, <2>6
  <2> QED  BY <1>4, <1>6, <2>7, <2>8
<1> QED  BY <1>4, <1>5, <1>6

LEMMA MaxWindow == ASSUME NEW w \in Int, w <= MAX_WINDOW
                   PROVE  /\ Refill(w) \in Nat /\ w + Refill(w) \in Int /\ w + Refill(w) <= MAX_WINDOW
  BY Windows DEF Refill

\* What handleRecvData sends back weighs as much as the windows are raised.
LEMMA OutWeighs ==
    ASSUME NEW id \in Int, id # 0, NEW n \in Nat, NEW m \in Nat, NEW o, o = Updates(0, n) \o Updates(id, m)
    PROVE  /\ o \in Seq(FrameRec)
           /\ \A ids : Weighs(o, "DATA", ids, 0)
           /\ Weighs(o, "WINDOW_UPDATE", {0}, n)
           /\ Weighs(o, "WINDOW_UPDATE", {id}, m)
           /\ \A k : k # 0 /\ k # id => Weighs(o, "WINDOW_UPDATE", {k}, 0)
<1>1. n \in Int /\ m \in Int
  OBVIOUS
<1>2. /\ o \in Seq(FrameRec)
      /\ \A x \in Range(o) : x.t = "WINDOW_UPDATE" /\ x.id \in {0, id}
  BY <1>1, OutFacts
<1>3. \A ids : Weighs(o, "DATA", ids, 0)
  BY <1>2, WeighsNone, Zenon
<1>4. \A k : k # 0 /\ k # id => Weighs(o, "WINDOW_UPDATE", {k}, 0)
  <2> SUFFICES ASSUME NEW k, k # 0, k # id PROVE Weighs(o, "WINDOW_UPDATE", {k}, 0)
    OBVIOUS
  <2>1. \A x \in Range(o) : ~(x.t = "WINDOW_UPDATE" /\ x.id \in {k})
    BY <1>2
  <2> QED  BY <1>2, <2>1, WeighsNone, Zenon
<1>5. ASSUME NEW j \in Int, NEW v \in Nat, NEW k \in Int
      PROVE  /\ Updates(j, v) \in Seq(FrameRec)
             /\ Weighs(Updates(j, v), "WINDOW_UPDATE", {k}, IF j = k THEN v ELSE 0)
  <2>1. IsFrame(WINDOW_UPDATE(j, v), "WINDOW_UPDATE", j, <<>>, v, FALSE)
    <3>1. v \in Int
      OBVIOUS
    <3> QED  BY <3>1, FrameFacts, Zenon
  <2>2. PICK x \in FrameRec : x = WINDOW_UPDATE(j, v) /\ x.t = "WINDOW_UPDATE" /\ x.id = j /\ x.n = v
    BY <2>1 DEF IsFrame
  <2>3. /\ Updates(j, v) \in Seq(FrameRec)
        /\ (Updates(j, v) = <<>> /\ ~(v > 0)) \/ Updates(j, v) = <<x>>
    BY <2>2, UpdatesFacts
  <2>4. CASE Updates(j, v) = <<>> /\ ~(v > 0)
    <3>1. v = 0
      BY <2>4
    <3> QED  BY <2>3, <2>4, <3>1, WeighsEmpty
  <2>5. CASE Updates(j, v) = <<x>>
    <3>1. PICK w \in Nat : w = IF j = k THEN v ELSE 0
      OBVIOUS
    <3>2. Weight(x, "WINDOW_UPDATE", {k}) = w
      BY <2>2, <3>1 DEF Weight
    <3> QED  BY <2>3, <2>5, <3>1, <3>2, WeighsOne
  <2> QED  BY <2>3, <2>4, <2>5
<1>0. 0 \in Int
  OBVIOUS
<1>6. PICK x \in Seq(FrameRec), y \in Seq(FrameRec) : x = Updates(0, n) /\ y = Updates(id, m)
  <2>1. Updates(0, n) \in Seq(FrameRec) /\ Updates(id, m) \in Seq(FrameRec)
    BY <1>0, <1>5, Zenon
  <2> QED  BY <2>1
<1>7. /\ Weighs(x, "WINDOW_UPDATE", {0}, n) /\ Weighs(y, "WINDOW_UPDATE", {0}, 0)
      /\ Weighs(x, "WINDOW_UPDATE", {id}, 0) /\ Weighs(y, "WINDOW_UPDATE", {id}, m)
  <2>1. Weighs(x, "WINDOW_UPDATE", {0}, IF 0 = 0 THEN n ELSE 0)
    BY <1>0, <1>5, <1>6, Zenon
  <2>2. Weighs(x, "WINDOW_UPDATE", {id}, IF 0 = id THEN n ELSE 0)
    BY <1>0, <1>5, <1>6, Zenon
  <2>3. Weighs(y, "WINDOW_UPDATE", {0}, IF id = 0 THEN m ELSE 0)
    BY <1>0, <1>5, <1>6, Zenon
  <2>4. Weighs(y, "WINDOW_UPDATE", {id}, IF id = id THEN m ELSE 0)
    BY <1>5, <1>6, Zenon
  <2> QED  BY <2>1, <2>2, <2>3, <2>4
<1>8. Weighs(x \o y, "WINDOW_UPDATE", {0}, n + 0) /\ Weighs(x \o y, "WINDOW_UPDATE", {id}, 0 + m)
  BY <1>7, WeighsCat, Zenon
<1>9. n + 0 = n /\ 0 + m = m /\ o = x \o y
  BY <1>6
<1> QED  BY <1>2, <1>3, <1>4, <1>8, <1>9, Zenon

LEMMA ObjectCases ==
    ASSUME TypeOK, Step, NEW id, id \in DOMAIN cli'.streams
    PROVE  ObjectDoes(id)
<1> DEFINE Same == SameObject(id) /\ cli'.streams[id].send = cli.streams[id].send
<1>1. cli'.streams = cli.streams => Same
  BY DEF SameObject
<1>2. ASSUME NEW g \in Fibers, Starts(g) PROVE ObjectDoes(id)
  BY <1>2 DEF Starts, NewStreamStep, NewStreamDoes, ObjectDoes, SameObject
<1>3. ASSUME NEW g \in Fibers, OnTimeOutStep(g) PROVE Same
  BY <1>3 DEF OnTimeOutStep, OnTimeOutDoes, SameObject
<1>4. ASSUME CliChargeStep PROVE ObjectDoes(id)
  <2>1. PICK p \in Fibers :
           /\ p = cli.pending
           /\ OnlySend(cli, cli', IF "cli" \in adding THEN 0 ELSE -1, req[p].sn,
                  IF req[p].sn \in DOMAIN cli.streams /\ cli.streams[req[p].sn].of = p THEN -1 ELSE 0)
    BY <1>4 DEF CliChargeStep, CliChargeDoes
  <2>2. id \in DOMAIN cli.streams /\ cli'.streams[id].of = cli.streams[id].of
    BY <2>1 DEF OnlySend, Alike
  <2>3. cli.streams[id].send \in Int
    BY <2>2, StreamAt DEF StreamRec
  <2>4. cli'.streams[id].send = cli.streams[id].send +
           IF id = req[p].sn /\ cli.streams[id].of = p THEN -1 ELSE 0
    <3>1. CASE id = req[p].sn
      BY <2>1, <2>2, <3>1 DEF OnlySend
    <3>2. CASE id # req[p].sn
      BY <2>1, <2>2, <3>2 DEF OnlySend
    <3> QED  BY <3>1, <3>2
  <2> QED  BY <1>4, <2>1, <2>2, <2>4 DEF ObjectDoes, SameObject
<1>5. ASSUME ReconnectStep PROVE Same
  BY <1>5 DEF ReconnectStep, ReconnectDoes, Cleared, SameObject
<1>6. ASSUME NEW x \in FrameRec, CliReadStep(x) PROVE Same \/ ObjectDoes(id)
  <2>1. cli'.streams = cli.streams \/
        (x.t = "WINDOW_UPDATE" /\ OnlySend(cli, cli', Granted(cli, x, 0), x.id, IF x.id = 0 THEN 0 ELSE Granted(cli, x, x.id)))
    BY <1>6, Zenon DEF CliReadStep, CliReadDoes
  <2>2. CASE x.t = "WINDOW_UPDATE" /\ OnlySend(cli, cli', Granted(cli, x, 0), x.id, IF x.id = 0 THEN 0 ELSE Granted(cli, x, x.id))
    <3>1. PICK k, d, n : k = x.id /\ d = (IF x.id = 0 THEN 0 ELSE Granted(cli, x, x.id)) /\ OnlySend(cli, cli', n, k, d)
      BY <2>2
    <3>2. SameObject(id) /\ cli'.streams[id].send = cli.streams[id].send + IF id = k THEN d ELSE 0
      BY <3>1 DEF OnlySend, Alike, SameObject
    <3>3. Raised(x, id) = IF id = k THEN d ELSE 0
      BY <3>1 DEF Raised
    <3> QED  BY <1>6, <2>2, <3>2, <3>3 DEF ObjectDoes
  <2> QED  BY <1>1, <2>1, <2>2
<1>7. ASSUME NEW x \in FrameRec, NEW s \in StreamRec, CliHandleStep(x, s)
      PROVE  Same
  <2>1. PICK s2 : s2 = Fed(s, x, cli.recvTable)
    OBVIOUS
  <2>2. CliHandleDoes(x, s, s2)
    BY <1>7, <2>1 DEF CliHandleStep
  <2>3. s2.of = s.of /\ s2.send = s.send
    BY <2>1 DEF Fed
  <2>4. x.id \in DOMAIN cli.streams /\ s = cli.streams[x.id]
    BY <1>7 DEF CliHandleStep
  <2> QED  BY <2>2, <2>3, <2>4 DEF CliHandleDoes, SameObject
<1> HIDE DEF Same
<1>8. Same \/ ObjectDoes(id)
  BY <1>1, <1>2, <1>3, <1>4, <1>5, <1>6, <1>7
  DEF Step, FiberStep, Starts, RequestStep, RequestDoes, DueStep, CliWriteStep, CliWriteDoes,
      WroteRequest, ReaderStep, CliHandleDeletedStep, CliHandleDeletedDoes, SrvReadStep,
      ServletStep, RespondStep, SrvDoneStep, ClientKept, Still
<1> QED  BY <1>8 DEF Same, ObjectDoes

LEMMA ObjectsStep ==
    ASSUME TypeOK, Requests, Step, Objects
    PROVE  Objects'
<1> SUFFICES ASSUME NEW id \in DOMAIN cli'.streams
             PROVE  id > 0 /\ cli'.streams[id].of \in Fibers /\ req'[cli'.streams[id].of].sn = id
  BY DEF Objects
<1>1. ObjectDoes(id)
  BY ObjectCases
<1>2. CASE SameObject(id)
  <2>1. PICK g \in Fibers : g = cli.streams[id].of /\ req[g].sn = id /\ id > 0
    BY <1>2 DEF SameObject, Objects
  <2>2. req'[g].sn = id
    <3>1. req'[g].sn = req[g].sn \/ req[g].sn = 0
      BY SnKept
    <3> QED  BY <2>1, <3>1
  <2> QED  BY <1>2, <2>1, <2>2 DEF SameObject
<1>3. ASSUME NEW f \in Fibers, Starts(f), id = req'[f].sn, cli'.streams[id] = Stream(CLIENT_WINDOW, DEFAULT_WINDOW, f)
      PROVE  id > 0 /\ cli'.streams[id].of \in Fibers /\ req'[cli'.streams[id].of].sn = id
  <2>1. id = cli.sn + 2
    BY <1>3 DEF Starts, NewStreamStep, NewStreamDoes
  <2>2. cli.sn \in Int /\ cli.sn >= -1
    BY Zenon DEF TypeOK, CliRec, Requests
  <2>3. id > 0
    BY <2>1, <2>2
  <2>4. cli'.streams[id].of = f
    BY <1>3 DEF Stream
  <2> QED  BY <1>3, <2>3, <2>4
<1> QED  BY <1>1, <1>2, <1>3 DEF ObjectDoes

LEMMA PositiveStep ==
    ASSUME TypeOK, Led, Requests, Step, Objects, Positive
    PROVE  Positive'
<1>1. ASSUME NEW id, Has(toSrv', Traffic, id) PROVE id > 0
  <2>1. CASE Has(toSrv, Traffic, id)
    BY <2>1 DEF Positive
  <2>2. CASE CliWriteStep /\ \E f \in Fibers : HeadAsks(f) /\ req[f].sn = id
    <3>1. PICK f \in Fibers : HeadAsks(f) /\ req[f].sn = id
      BY <2>2
    <3>2. Asks(queue, f)
      BY <2>2, <3>1, QueueAsks DEF QueueDoes
    <3>3. req[f].pc # "idle"
      BY <3>2 DEF Requests, Life, Began
    <3> QED  BY <3>1, <3>3 DEF Requests, Life
  <2> QED  BY <1>1, <2>1, <2>2, ToSrvGrows
<1>2. \A id \in DOMAIN srv'.streams : id > 0
  <2>1. CASE srv' = srv
    BY <2>1 DEF Positive
  <2>2. CASE ReconnectStep
    BY <2>2 DEF ReconnectStep, ReconnectDoes
  <2>3. ASSUME NEW x \in FrameRec, SrvReadStep(x) PROVE \A id \in DOMAIN srv'.streams : id > 0
    <3>1. CASE SrvWindowDoes(x)
      BY <3>1, Zenon DEF SrvWindowDoes, OnlySend, Positive
    <3>2. CASE SrvRefuseDoes(x)
      BY <3>2 DEF SrvRefuseDoes, Positive
    <3>3. CASE SrvAcceptDoes(x, Target(x))
      <4>1. x.t # "WINDOW_UPDATE" /\ DOMAIN srv'.streams = DOMAIN srv.streams \union {x.id}
        BY <3>3 DEF SrvAcceptDoes
      <4>2. x.id > 0
        BY <2>3, <4>1, SrvReadHead DEF Positive
      <4> QED  BY <4>1, <4>2 DEF Positive
    <3> QED  BY <2>3, <3>1, <3>2, <3>3 DEF SrvReadStep
  <2>4. ASSUME NEW k \in DOMAIN srv.streams, NEW s \in StreamRec, ServletStep(k, s)
        PROVE  \A id \in DOMAIN srv'.streams : id > 0
    BY <2>4 DEF ServletStep, RespondStep, RespondDoes, SrvDoneStep, SrvDoneDoes, Positive
  <2> QED  BY <2>1, <2>2, <2>3, <2>4, ServerCases
<1> QED  BY <1>1, <1>2 DEF Positive

LEMMA DataEndsStep ==
    ASSUME TypeOK, Step, DataEnds
    PROVE  DataEnds'
<1>1. PICK c \in Seq(FrameRec) : c = toCli
  BY Zenon DEF TypeOK
<1>2. ASSUME NEW r, CliFed(r), \A x \in Range(r) : x.t = "DATA" => x.end PROVE DataEnds'
  <2>1. Range(c \o r) = Range(c) \union Range(r)
    BY <1>2, RangeConcatenation DEF CliFed
  <2> QED  BY <1>1, <1>2, <2>1 DEF DataEnds, CliFed
<1>3. CASE toCli' = toCli
  BY <1>3 DEF DataEnds
<1>4. CASE toCli # <<>> /\ toCli' = Tail(toCli)
  <2>1. Range(Tail(c)) \subseteq Range(c)
    BY <1>1, <1>4, RangeTail
  <2> QED  BY <1>1, <1>4, <2>1 DEF DataEnds
<1>5. CASE ReconnectStep
  BY <1>5, RangeEmpty DEF ReconnectStep, ReconnectDoes, DataEnds
<1>6. ASSUME NEW f \in FrameRec, SrvReadStep(f) PROVE DataEnds'
  <2>1. PICK r : CliFed(r) /\ SrvReadAnswers(f, r)
    BY <1>6, SrvReadAdds
  <2>2. \A x \in Range(r) : x.t # "DATA"
    BY <2>1 DEF SrvReadAnswers, GaveUpdates, GaveReset
  <2> QED  BY <1>2, <2>1, <2>2
<1>7. ASSUME NEW k \in DOMAIN srv.streams, NEW s \in StreamRec, RespondStep(k, s) PROVE DataEnds'
  <2>1. PICK r : CliFed(r) /\ Responds(k, s, r)
    BY <1>7, RespondAdds
  <2>2. PICK none : none = (s.body = 0)
    OBVIOUS
  <2>3. PICK block : none \in BOOLEAN /\ IsMessage(r, k, block, none)
    BY <2>1, <2>2 DEF Responds
  <2>4. PICK h, d : MessageSet(r, h, d, k, block, none)
    BY <2>3, MessageRange
  <2>5. h.t = "HEADERS" /\ d.end = TRUE /\ Range(r) \subseteq {h, d}
    BY <2>3, <2>4 DEF MessageSet, IsFrame
  <2> QED  BY <1>2, <2>1, <2>5
<1> QED  BY <1>3, <1>4, <1>5, <1>6, <1>7, CliCases

\* Who changes pending.
LEMMA PendingCases ==
    ASSUME Step
    PROVE  \/ cli'.pending = cli.pending \/ cli'.pending = None
           \/ CliWriteStep /\ \E f \in Fibers : cli'.pending = f /\ Head(queue).t = "request" /\ Head(queue).f = f
  BY ZenonT(40) DEF Step, FiberStep, NewStreamStep, NewStreamDoes, RequestStep, RequestDoes, DueStep, OnTimeOutStep,
         OnTimeOutDoes, CliWriteStep, CliWriteDoes, WroteRequest, CliChargeStep, CliChargeDoes, ReconnectStep,
         ReconnectDoes, ReaderStep, CliReadStep, CliReadDoes, CliHandleStep, CliHandleDoes,
         CliHandleDeletedStep, CliHandleDeletedDoes, SrvReadStep, ServletStep, RespondStep, SrvDoneStep,
         ClientKept, Still

LEMMA ChargedStep ==
    ASSUME TypeOK, Requests, Step, Charged
    PROVE  Charged'
<1> SUFFICES ASSUME cli'.pending # None PROVE Began(cli.pending)' /\ ~Asks(queue', cli'.pending)
  BY DEF Charged
<1>0. cli.pending \in Fibers \union {None}
  BY Zenon DEF TypeOK, CliRec
<1>1. CASE cli'.pending = cli.pending
  <2>1. PICK g \in Fibers : g = cli.pending /\ Began(g) /\ ~Asks(queue, g)
    BY <1>0, <1>1 DEF Charged
  <2>2. ~Starts(g) /\ ~RequestStep(g)
    BY <2>1 DEF Starts, NewStreamStep, RequestStep, Began
  <2>3. Lasts(g) /\ QueueDoes(g)
    BY <2>2, ReqCases, QueueAsks
  <2>4. req'[g].pc \in {"waiting", "done"} /\ ~Asks(queue', g)
    BY <2>1, <2>2, <2>3 DEF Lasts, QueueDoes, Began
  <2> QED  BY <1>1, <2>1, <2>4 DEF Began
<1>2. ASSUME CliWriteStep, NEW f \in Fibers, cli'.pending = f, Head(queue).t = "request", Head(queue).f = f
      PROVE  Began(cli.pending)' /\ ~Asks(queue', cli'.pending)
  <2>1. HeadAsks(f) /\ req' = req
    BY <1>2 DEF CliWriteStep, HeadAsks, AskIs
  <2>2. Asks(queue, f) /\ ~Asks(queue', f)
    BY <1>2, <2>1, QueueAsks DEF QueueDoes
  <2>3. Began(f)
    BY <2>2 DEF Requests, Life
  <2> QED  BY <1>2, <2>1, <2>2, <2>3 DEF Began
<1> QED  BY <1>1, <1>2, PendingCases

LEMMA CrashStep ==
    ASSUME TypeOK, CrashEnds, Step, [Next]_vars
    PROVE  CrashEnds'
<1>1. None # "in" /\ None # "out"
  BY Http2Assumption
<1>2. CASE crashed
  <2>1. cli.held = None
    BY <1>2 DEF CrashEnds
  <2>2. cli' = cli
    BY <1>1, <1>2, <2>1, ZenonT(40) DEF Next, NewStream, Request, Due, OnTimeOut, CliWrite, CliCharge, CliRead, CliHandle,
                            CliHandleDeleted, SrvRead, Respond, SrvDone, Added, Reconnect, vars
  <2> QED  BY <2>1, <2>2 DEF CrashEnds
<1>3. CASE ~crashed
  <2>1. ASSUME NEW f \in FrameRec, NEW s \in StreamRec, CliHandleStep(f, s) PROVE cli'.held = None
    BY <2>1, Zenon DEF CliHandleStep, CliHandleDoes
  <2>2. ASSUME NEW f \in FrameRec, CliHandleDeletedStep(f) PROVE cli'.held = None
    BY <2>2 DEF CliHandleDeletedStep, CliHandleDeletedDoes
  <2>3. \/ crashed' = crashed
        \/ (\E f \in FrameRec, s \in StreamRec : CliHandleStep(f, s))
        \/ (\E f \in FrameRec : CliHandleDeletedStep(f))
    BY DEF Step, FiberStep, NewStreamStep, RequestStep, DueStep, OnTimeOutStep, CliWriteStep, CliChargeStep,
           ReconnectStep, ReaderStep, CliReadStep, SrvReadStep, ServletStep, RespondStep, SrvDoneStep,
           ClientKept, Still
  <2> QED  BY <1>3, <2>1, <2>2, <2>3, Zenon DEF CrashEnds
<1> QED  BY <1>2, <1>3, Zenon DEF TypeOK

LEMMA CreditQueued ==
    ASSUME TypeOK, Step, NEW id, id # 0, Has(queue', Credit, id), ~Has(queue, Credit, id)
    PROVE  \E f \in FrameRec, s \in StreamRec :
              CliHandleStep(f, s) /\ f.id = id /\ f.t = "DATA" /\ f \in Range(toCli)
<1>1. PICK q \in Seq(FrameRec \union AskRec) : q = queue
  BY Zenon DEF TypeOK
<1>2. CASE queue' = queue
  BY <1>2
<1>3. CASE CliWriteStep
  <2>1. q # <<>> /\ queue' = Tail(q)
    BY <1>1, <1>3 DEF CliWriteStep
  <2>2. HasTailDoes(q, Credit, id)
    BY <2>1, HasTail
  <2> QED  BY <1>1, <2>1, <2>2 DEF HasTailDoes
<1>4. CASE ReconnectStep
  BY <1>4, RangeEmpty DEF ReconnectStep, ReconnectDoes, Has
<1>5. ASSUME NEW r \in Seq(FrameRec \union AskRec), queue' = q \o r PROVE Has(r, Credit, id)
  <2>1. HasCatDoes(q, r, Credit, id)
    BY HasCat
  <2> QED  BY <1>1, <1>5, <2>1 DEF HasCatDoes
<1>6. ASSUME NEW f \in Fibers, RequestStep(f) PROVE FALSE
  <2>1. PICK a \in AskRec : a.t = "request" /\ queue' = Append(q, a)
    BY <1>1, <1>6 DEF RequestStep, RequestDoes
  <2>2. PICK o \in Seq(FrameRec \union AskRec) : o = <<a>> /\ Append(q, a) = q \o o
    <3>1. a \in FrameRec \union AskRec
      OBVIOUS
    <3> QED  BY <3>1, AppendCat, Zenon
  <2>3. Range(o) = {a}
    BY <2>2, RangeOne
  <2> QED  BY <1>5, <2>1, <2>2, <2>3, Zenon DEF Has, Is, Credit
<1>7. ASSUME NEW f \in FrameRec, NEW s \in StreamRec, CliHandleStep(f, s)
      PROVE  f.id = id /\ f.t = "DATA" /\ f \in Range(toCli)
  <2>1. PICK r : QueueFed(r, f.id)
    BY <1>7, ReaderAdds
  <2>2. PICK x \in Range(r) : x.id = id
    BY <1>1, <1>5, <2>1 DEF QueueFed, Has, Is
  <2>3. f.id = id
    BY <2>1, <2>2 DEF QueueFed
  <2>4. f.t = "DATA"
    BY <1>2, <1>7, Zenon DEF CliHandleStep, CliHandleDoes
  <2>5. PICK c \in Seq(FrameRec) : c = toCli /\ c # <<>> /\ f = Head(c)
    BY <1>7, Zenon DEF TypeOK, CliHandleStep
  <2>6. f \in Range(toCli)
    BY <2>5, RangeTail
  <2> QED  BY <2>3, <2>4, <2>6
<1> QED  BY <1>2, <1>3, <1>4, <1>6, <1>7, QueueCases

LEMMA CreditWritten ==
    ASSUME TypeOK, Led, Step, NEW id, Has(toSrv', Credit, id), ~Has(toSrv, Credit, id)
    PROVE  Has(queue, Credit, id)
<1>1. PICK s \in Seq(FrameRec) : s = toSrv
  BY Zenon DEF TypeOK
<1>2. CASE toSrv' = toSrv
  BY <1>2
<1>3. CASE CliWriteStep
  <2>1. PICK r \in Seq(FrameRec) : toSrv' = s \o r /\ WriterDoes(r)
    BY <1>1, <1>3, WriterAdds DEF SrvFed
  <2>2. HasCatDoes(s, r, Credit, id)
    BY HasCat
  <2>3. Has(r, Credit, id)
    BY <1>1, <2>1, <2>2 DEF HasCatDoes
  <2>4. ASSUME NEW g \in Fibers, Head(queue).t = "request" PROVE FALSE
    <3>1. \/ r = <<>>
          \/ \E f \in Fibers : AskWritten(f, r)
      BY <2>1, <2>4 DEF WriterDoes
    <3>2. ASSUME NEW f \in Fibers, AskWritten(f, r) PROVE FALSE
      <4>1. PICK k : MessageEnds(r, k)
        BY <3>2, AskMessage
      <4> QED  BY <2>3, <4>1 DEF MessageEnds, Has, Is, Traffic, Credit
    <3> QED  BY <2>3, <3>1, <3>2, RangeEmpty DEF Has
  <2>5. PICK q \in Seq(FrameRec \union AskRec) : q = queue /\ q # <<>>
    BY <1>3, Zenon DEF TypeOK, CliWriteStep
  <2>6. Head(q) \in FrameRec /\ toSrv' = Append(s, Head(q)) /\ Head(q) \in Range(q)
    BY <1>1, <1>3, <2>4, <2>5, RangeTail DEF CliWriteStep, CliWriteDoes
  <2>7. PICK x \in FrameRec : x = Head(q) /\ toSrv' = s \o <<x>> /\ Range(<<x>>) = {x} /\ <<x>> \in Seq(FrameRec)
    BY <2>6, AppendCat, RangeOne, Zenon
  <2>8. HasCatDoes(s, <<x>>, Credit, id)
    BY <2>7, HasCat, Zenon
  <2>9. Is(x, Credit, id)
    BY <1>1, <2>7, <2>8, Zenon DEF HasCatDoes, Has
  <2> QED  BY <2>5, <2>6, <2>7, <2>9 DEF Has
<1>4. CASE ReconnectStep
  BY <1>4, RangeEmpty DEF ReconnectStep, ReconnectDoes, Has
<1>5. ASSUME NEW f \in FrameRec, SrvReadStep(f) PROVE FALSE
  <2>1. s # <<>> /\ toSrv' = Tail(s)
    BY <1>1, <1>5 DEF SrvReadStep
  <2>2. HasTailDoes(s, Credit, id)
    BY <2>1, HasTail
  <2> QED  BY <1>1, <2>1, <2>2 DEF HasTailDoes
<1> QED  BY <1>2, <1>3, <1>4, <1>5, ServerCases

LEMMA CreditGiven ==
    ASSUME TypeOK, Led, Step, NEW id, id # 0, Has(toCli', Credit, id), ~Has(toCli, Credit, id)
    PROVE  Has(toSrv, Traffic, id)
<1>1. PICK c \in Seq(FrameRec) : c = toCli
  BY Zenon DEF TypeOK
<1>2. CASE toCli' = toCli
  BY <1>2
<1>3. CASE toCli # <<>> /\ toCli' = Tail(toCli)
  <2>1. HasTailDoes(c, Credit, id)
    BY <1>1, <1>3, HasTail
  <2> QED  BY <1>1, <1>3, <2>1 DEF HasTailDoes
<1>4. CASE ReconnectStep
  BY <1>4, RangeEmpty DEF ReconnectStep, ReconnectDoes, Has
<1>5. ASSUME NEW r, CliFed(r) PROVE Has(r, Credit, id)
  <2>1. HasCatDoes(c, r, Credit, id)
    BY <1>5, HasCat DEF CliFed
  <2> QED  BY <1>1, <1>5, <2>1 DEF HasCatDoes, CliFed
<1>6. ASSUME NEW f \in FrameRec, SrvReadStep(f) PROVE Has(toSrv, Traffic, id)
  <2>1. PICK r : CliFed(r) /\ SrvReadAnswers(f, r)
    BY <1>6, SrvReadAdds
  <2>2. PICK x \in Range(r) : x.t = "WINDOW_UPDATE" /\ x.id = id
    BY <1>5, <2>1 DEF Has, Is, Credit
  <2>3. GaveUpdates(r, f.id)
    BY <2>1, <2>2 DEF SrvReadAnswers, GaveReset
  <2>4. f.id = id
    BY <2>2, <2>3 DEF GaveUpdates
  <2>5. f.t # "WINDOW_UPDATE"
    BY <1>2, <1>6, Zenon DEF SrvReadStep, SrvWindowDoes, SrvRefuseDoes, SrvAcceptDoes
  <2> QED  BY <1>6, <2>4, <2>5, SrvReadHead
<1>7. ASSUME NEW k \in DOMAIN srv.streams, NEW s \in StreamRec, RespondStep(k, s) PROVE FALSE
  <2>1. PICK r : CliFed(r) /\ Responds(k, s, r)
    BY <1>7, RespondAdds
  <2>2. PICK none : none = (s.body = 0)
    OBVIOUS
  <2>3. PICK block : none \in BOOLEAN /\ IsMessage(r, k, block, none)
    BY <2>1, <2>2 DEF Responds
  <2>4. MessageEnds(r, k)
    BY <2>3, MessageLast
  <2> QED  BY <1>5, <2>1, <2>4 DEF MessageEnds, Has, Is, Traffic, Credit
<1> QED  BY <1>2, <1>3, <1>4, <1>6, <1>7, CliCases

LEMMA CreditedStep ==
    ASSUME TypeOK, Led, Requests, Played, Step, Credited
    PROVE  Credited'
<1> SUFFICES ASSUME NEW id \in Int \ {0}, Has(toCli', {"WINDOW_UPDATE"}, id) PROVE Owner(id)'
  BY DEF Credited
<1>1. Owner(id)
  <2>1. CASE Has(toCli, Credit, id)
    BY <2>1 DEF Credited, Credit
  <2>2. CASE ~Has(toCli, Credit, id)
    <3>1. Has(toSrv, Traffic, id)
      BY <2>2, CreditGiven DEF Credit
    <3> QED  BY <3>1 DEF Played, InPlay
  <2> QED  BY <2>1, <2>2
<1> QED  BY <1>1, OwnerStep

LEMMA ReturnedStep ==
    ASSUME TypeOK, Led, Step, Returned
    PROVE  Returned'
<1> SUFFICES ASSUME NEW id \in Int \ {0}, Returns(id)'
             PROVE  id <= srv'.sn /\ (id \in DOMAIN srv'.streams => srv'.streams[id].handled = "responded")
  BY DEF Returned
<1> DEFINE Now  == id <= srv.sn /\ (id \in DOMAIN srv.streams => srv.streams[id].handled = "responded")
           Then == id <= srv'.sn /\ (id \in DOMAIN srv'.streams => srv'.streams[id].handled = "responded")
<1>0. srv.sn \in Int
  BY Zenon DEF TypeOK, SrvRec
<1>1. \/ Returns(id) \/ \E s \in StreamRec : id \in DOMAIN srv.streams /\ RespondStep(id, s)
  <2>1. Has(toCli', {"DATA"}, id) => Has(toCli, {"DATA"}, id) \/ \E s \in StreamRec : id \in DOMAIN srv.streams /\ RespondStep(id, s)
    <3>1. {"DATA"} \in SUBSET Answers /\ "RST_STREAM" \notin {"DATA"}
      BY DEF Answers
    <3> QED  BY <3>1, ToCliGrows
  <2>2. Has(queue', {"WINDOW_UPDATE"}, id) => Has(queue, {"WINDOW_UPDATE"}, id) \/ Has(toCli, {"DATA"}, id)
    BY CreditQueued DEF Credit, Has, Is
  <2>3. Has(toSrv', {"WINDOW_UPDATE"}, id) => Has(toSrv, {"WINDOW_UPDATE"}, id) \/ Has(queue, {"WINDOW_UPDATE"}, id)
    BY CreditWritten DEF Credit
  <2> QED  BY <2>1, <2>2, <2>3 DEF Returns
<1>2. ASSUME NEW s \in StreamRec, id \in DOMAIN srv.streams, RespondStep(id, s) PROVE Then
  BY <1>2 DEF RespondStep, RespondDoes, Led, Marked
<1>3. ASSUME Returns(id) PROVE Then
  <2>1. Now
    BY <1>3 DEF Returned
  <2>2. CASE srv' = srv
    BY <2>1, <2>2
  <2>3. CASE ReconnectStep
    <3>1. Range(queue') = {} /\ Range(toSrv') = {} /\ Range(toCli') = {}
      BY <2>3, RangeEmpty DEF ReconnectStep, ReconnectDoes
    <3> QED  BY <3>1 DEF Returns, Has
  <2>4. ASSUME NEW x \in FrameRec, SrvReadStep(x) PROVE Then
    <3>1. CASE SrvWindowDoes(x)
      BY <2>1, <3>1, Zenon DEF SrvWindowDoes, OnlySend, Alike
    <3>2. CASE SrvRefuseDoes(x)
      BY <2>1, <3>2 DEF SrvRefuseDoes
    <3>3. CASE SrvAcceptDoes(x, Target(x))
      <4>0. x.id \in Int
        BY DEF FrameRec
      <4>1. id <= srv'.sn
        BY <1>0, <2>1, <3>3, <4>0 DEF SrvAcceptDoes
      <4>2. CASE x.id # id
        BY <2>1, <3>3, <4>1, <4>2 DEF SrvAcceptDoes
      <4>3. CASE x.id = id
        <5>1. id \in DOMAIN srv.streams /\ srv.streams[id].handled = "responded"
          BY <2>1, <3>3, <4>3 DEF SrvAcceptDoes
        <5>2. PICK t : t = Fed(Target(x), x, srv.recvTable) /\ Handed(t, srv'.streams[x.id])
          BY <3>3 DEF SrvAcceptDoes
        <5>3. t.handled = "responded"
          BY <4>3, <5>1, <5>2 DEF Fed, Target
        <5> QED  BY <4>1, <4>3, <5>2, <5>3 DEF Handed
      <4> QED  BY <4>2, <4>3
    <3> QED  BY <2>4, <3>1, <3>2, <3>3 DEF SrvReadStep
  <2>5. ASSUME NEW k \in DOMAIN srv.streams, NEW s \in StreamRec, ServletStep(k, s) PROVE Then
    BY <2>1, <2>5 DEF ServletStep, RespondStep, RespondDoes, SrvDoneStep, SrvDoneDoes, Marked, Alike
  <2> QED  BY <2>2, <2>3, <2>4, <2>5, ServerCases
<1> QED  BY <1>1, <1>2, <1>3

LEMMA OverStep ==
    ASSUME TypeOK, Led, Requests, Played, Settled, DataEnds, Step, Over
    PROVE  Over'
<1> SUFFICES ASSUME OwnNumbers', NEW id \in Int \ {0}, Has(queue', Credit, id) \/ Has(toSrv', Credit, id)
             PROVE  \E g \in Fibers : req'[g].sn = id /\ req'[g].pc = "done"
  BY DEF Over, Credit
<1>1. OwnNumbers
  BY OwnNumbersBefore
<1>2. ASSUME NEW g \in Fibers, req[g].sn = id, Began(g)
      PROVE  req'[g].sn = id /\ (req[g].pc = "done" => req'[g].pc = "done")
  <2>1. ~Starts(g) /\ ~RequestStep(g)
    BY <1>2 DEF Starts, NewStreamStep, RequestStep, Began
  <2> QED  BY <1>2, <2>1, ReqCases DEF Lasts
<1>3. CASE Has(queue, Credit, id) \/ Has(toSrv, Credit, id)
  BY <1>1, <1>2, <1>3 DEF Over, Credit, Began
<1>4. CASE ~(Has(queue, Credit, id) \/ Has(toSrv, Credit, id))
  <2>1. PICK x \in FrameRec, s \in StreamRec :
           CliHandleStep(x, s) /\ x.id = id /\ x.t = "DATA" /\ x \in Range(toCli)
    BY <1>4, CreditQueued, CreditWritten
  <2>2. Fed(s, x, cli.recvTable).state = "CLOSED"
    BY <2>1 DEF DataEnds, Fed
  <2>3. InPlay(id)
    BY <2>1 DEF InPlay, Has, Is, Answers
  <2>4. PICK g \in Fibers : req[g].sn = id /\ Began(g)
    BY <2>3 DEF Played, Owner
  <2>5. req[g].pc = "waiting" => req'[g].pc = "done"
    BY <1>1, <2>1, <2>2, <2>4, CloseAnswers DEF Settled
  <2> QED  BY <1>2, <2>4, <2>5 DEF Began
<1> QED  BY <1>3, <1>4

LEMMA BalanceMoves ==
    ASSUME NEW a \in Int, NEW b \in Int, NEW a2 \in Int, NEW b2 \in Int, NEW e, NEW e2, Balance(a, b, e),
           a2 - a <= b2 - b, e2 => e /\ a2 - a = b2 - b
    PROVE  Balance(a2, b2, e2)
  BY DEF Balance

LEMMA WeighsFed ==
    ASSUME NEW S, NEW q \in Seq(S), NEW r \in Seq(S), NEW t, NEW ids, NEW s,
           Weighs(q, t, ids, s), Weighs(r, t, ids, 0)
    PROVE  Weighs(q \o r, t, ids, s)
<1>1. Weighs(q \o r, t, ids, s + 0) /\ s \in Nat
  BY WeighsCat
<1>2. s + 0 = s
  BY <1>1
<1> QED  BY <1>1, <1>2

LEMMA WeighsSkip ==
    ASSUME NEW S, NEW q \in Seq(S), q # <<>>, NEW t, NEW ids, NEW s, Weighs(q, t, ids, s),
           ~(Head(q).t = t /\ Head(q).id \in ids)
    PROVE  Weighs(Tail(q), t, ids, s)
<1>1. PICK w \in Nat, r \in Nat : w = Weight(Head(q), t, ids) /\ s = w + r /\ Weighs(Tail(q), t, ids, r)
  BY WeighsTail
<1>2. w = 0
  BY <1>1 DEF Weight
<1>3. s = r
  BY <1>1, <1>2
<1> QED  BY <1>1, <1>3

LEMMA ExactStep ==
    ASSUME TypeOK, Step, Exact'
    PROVE  Exact
<1>1. ~skipped
  BY SkippedStep DEF Exact
<1>2. goaways \subseteq goaways'
  <2>1. ASSUME NEW f \in FrameRec, ReaderStep(f) PROVE goaways \subseteq goaways'
    BY <2>1, Zenon DEF ReaderStep, CliReadStep, CliReadDoes, CliHandleDeletedStep, SrvReadStep, SrvWindowDoes,
                SrvRefuseDoes, SrvAcceptDoes, Rest
  <2>2. ~(\E f \in FrameRec : ReaderStep(f)) => goaways' = goaways
    BY DEF Step, FiberStep, NewStreamStep, RequestStep, DueStep, OnTimeOutStep, CliWriteStep, CliChargeStep,
           ReconnectStep, CliHandleStep, ServletStep, RespondStep, SrvDoneStep, Rest, Still
  <2> QED  BY <2>1, <2>2
<1> QED  BY <1>1, <1>2 DEF Exact

\* The first frame on the way is DATA or it is not.
LEMMA DataHead ==
    ASSUME NEW S, NEW q \in Seq(S), q # <<>>, NEW x, x = Head(q), x.t = "DATA", x.id \in Int,
           NEW d, Weighs(q, "DATA", Int, d)
    PROVE  x.n \in Nat /\ \E r \in Nat : d = x.n + r /\ Weighs(Tail(q), "DATA", Int, r)
<1>1. PICK w \in Nat, r \in Nat : w = Weight(Head(q), "DATA", Int) /\ d = w + r /\ Weighs(Tail(q), "DATA", Int, r)
  BY WeighsTail
<1>2. w = x.n
  BY <1>1 DEF Weight
<1> QED  BY <1>1, <1>2

LEMMA SrvTakes ==
    ASSUME TypeOK, Led, Positive, Caps, NEW x \in FrameRec, SrvReadStep(x), SrvAcceptDoes(x, Target(x)),
           x.t = "DATA"
    PROVE  \E n, m, o : Took(x, n, m, o)
<1>1. PICK q \in Seq(FrameRec) : q = toSrv /\ q # <<>> /\ x = Head(q)
  BY Zenon DEF TypeOK, SrvReadStep
<1>2. x.id \in Int
  BY DEF FrameRec
<1>3. PICK k \in Nat : k = x.n
  BY DEF FrameRec
<1>4. x.id > 0
  BY SrvReadHead DEF Positive
<1>5. x.id \in DOMAIN srv.streams
  <2>1. Len(q) \in Nat /\ DOMAIN q = 1 .. Len(q) /\ 1 \in DOMAIN q /\ q[1] = x
    BY <1>1, HeadTail
  <2>2. x.id <= srv.sn \/ \E i \in DOMAIN q : i < 1
    BY <1>1, <2>1 DEF Led, Covered
  <2>3. x.id <= srv.sn
    BY <2>1, <2>2
  <2> QED  BY <2>3 DEF SrvAcceptDoes
<1>6. PICK s \in StreamRec : s = srv.streams[x.id] /\ s = Target(x)
  BY <1>5, StreamAt DEF Target
<1>7. PICK R \in Int, V \in Int : R = srv.recv /\ V = s.recv /\ R <= MAX_WINDOW /\ V <= MAX_WINDOW
  <2>1. srv.recv \in Int /\ s.recv \in Int
    BY Zenon DEF TypeOK, SrvRec, StreamRec
  <2> QED  BY <1>5, <1>6, <2>1, Zenon DEF Caps
<1>8. R - k \in Int /\ R - k <= MAX_WINDOW /\ V - k \in Int /\ V - k <= MAX_WINDOW
  BY <1>7, Windows
<1>9. PICK n \in Nat, m \in Nat :
         /\ n = Refill(R - k) /\ m = Refill(V - k)
         /\ (R - k) + n <= MAX_WINDOW /\ (V - k) + m <= MAX_WINDOW
  BY <1>8, MaxWindow
<1>10. PICK o \in Seq(FrameRec) : o = Updates(0, n) \o Updates(x.id, m)
  <2>1. n \in Int /\ m \in Int
    OBVIOUS
  <2> QED  BY <1>2, <2>1, OutFacts, Zenon
<1>11. toCli' = toCli \o o /\ srv'.recv = (R - k) + n
  BY <1>3, <1>6, <1>7, <1>9, <1>10 DEF SrvAcceptDoes
<1>12. srv'.streams[x.id].recv = (V - k) + m
  <2>1. PICK t : t = Fed(s, x, srv.recvTable) /\ Handed(t, srv'.streams[x.id])
    BY <1>6 DEF SrvAcceptDoes
  <2>2. t.recv = (V - k) + m
    BY <1>3, <1>7, <1>9, <2>1 DEF Fed
  <2> QED  BY <2>1, <2>2 DEF Handed
<1> QED  BY <1>2, <1>3, <1>4, <1>5, <1>6, <1>7, <1>9, <1>10, <1>11, <1>12, Zenon DEF Took

\* The client's connection window and what it is charged for.
LEMMA ForthStep ==
    ASSUME TypeOK, HeldOk, Led, Positive, Caps, Step, ~lost', ForthLedger
    PROVE  ForthLedger'
<1>0. /\ cli.send \in Int /\ cli.recv \in Int /\ srv.recv \in Int
      /\ cli.pending \in Fibers \union {None} /\ Uncharged \in {0, 1}
  BY Zenon DEF TypeOK, CliRec, SrvRec, Uncharged
<1>1. PICK c \in Nat, d \in Nat :
         /\ Weighs(toCli, "WINDOW_UPDATE", {0}, c) /\ Weighs(toSrv, "DATA", Int, d)
         /\ Balance(cli.send + c + d - Uncharged, srv.recv, Exact)
  BY DEF ForthLedger
<1>2. PICK p \in Seq(FrameRec), q \in Seq(FrameRec) : p = toCli /\ q = toSrv
  BY Zenon DEF TypeOK
<1>3. Exact' => Exact
  BY ExactStep
\* Nothing that the ledger counts has changed.
<1>4. ASSUME Weighs(toCli', "WINDOW_UPDATE", {0}, c), Weighs(toSrv', "DATA", Int, d),
             cli'.send = cli.send, cli'.pending = cli.pending, srv'.recv = srv.recv
      PROVE  ForthLedger'
  <2>1. Uncharged' = Uncharged
    BY <1>4 DEF Uncharged
  <2>2. Balance(cli'.send + c + d - Uncharged', srv'.recv, Exact')
    BY <1>1, <1>3, <1>4, <2>1 DEF Balance
  <2> QED  BY <1>4, <2>2 DEF ForthLedger
<1>5. ASSUME NEW f \in Fibers, FiberStep(f) PROVE ForthLedger'
  <2>1. /\ toCli' = toCli /\ toSrv' = toSrv /\ cli'.send = cli.send /\ cli'.pending = cli.pending
        /\ srv'.recv = srv.recv
    BY <1>5 DEF FiberStep, NewStreamStep, NewStreamDoes, RequestStep, RequestDoes, DueStep, OnTimeOutStep,
                OnTimeOutDoes, CliWindows, WireKept, ServerKept
  <2> QED  BY <1>1, <1>4, <2>1
<1>6. CASE CliWriteStep
  <2>1. PICK r \in Seq(FrameRec) : toSrv' = q \o r /\ WriterDoes(r)
    BY <1>2, <1>6, WriterAdds DEF SrvFed
  <2>2. toCli' = toCli /\ srv' = srv /\ cli.pending = None
    BY <1>6 DEF CliWriteStep, ServerKept
  <2>3. ASSUME Weighs(r, "DATA", Int, 0), cli' = cli PROVE ForthLedger'
    <3>1. Weighs(q \o r, "DATA", Int, d)
      BY <1>1, <1>2, <2>3, WeighsFed
    <3> QED  BY <1>1, <1>4, <2>1, <2>2, <2>3, <3>1
  <2>4. CASE OnlyUpdates(r) /\ cli' = cli
    <3>1. \A x \in Range(r) : ~(x.t = "DATA" /\ x.id \in Int)
      BY <2>4 DEF OnlyUpdates
    <3>2. Weighs(r, "DATA", Int, 0)
      BY <3>1, WeighsNone
    <3> QED  BY <2>3, <2>4, <3>2
  <2>5. CASE r = <<>> /\ cli' = cli
    BY <2>3, <2>5, WeighsEmpty
  <2>6. ASSUME NEW f \in Fibers, AskWritten(f, r) PROVE ForthLedger'
    <3>1. PICK none \in BOOLEAN, id \in Int : none = (req[f].body = 0) /\ id = req[f].sn
      BY Zenon DEF TypeOK, ReqRec
    <3>2. PICK block : IsMessage(r, id, block, none)
      BY <2>6, <3>1 DEF AskWritten
    <3>3. PICK k \in {0, 1} : k = (IF none THEN 0 ELSE 1) /\ Weighs(r, "DATA", Int, k)
      <4>1. Weighs(r, "DATA", Int, IF none \/ id \notin Int THEN 0 ELSE 1)
        BY <3>2, MessageWeighs, Zenon
      <4>2. (IF none \/ id \notin Int THEN 0 ELSE 1) = IF none THEN 0 ELSE 1
        OBVIOUS
      <4> QED  BY <4>1, <4>2
    <3>4. Weighs(q \o r, "DATA", Int, d + k) /\ d + k \in Nat
      <4>1. Weighs(q \o r, "DATA", Int, d + k)
        BY <1>1, <1>2, <3>3, WeighsCat, Zenon
      <4> QED  BY <4>1
    <3>5. cli'.send = cli.send /\ cli'.pending = IF none THEN None ELSE f
      BY <2>6, <3>1, Zenon DEF AskWritten, WroteRequest, CliWindows
    <3>6. None # f
      BY Http2Assumption
    <3>7. Uncharged' = k /\ Uncharged = 0
      BY <2>2, <3>3, <3>5, <3>6 DEF Uncharged
    <3>8. Balance(cli'.send + c + (d + k) - Uncharged', srv'.recv, Exact')
      BY <1>0, <1>1, <1>3, <2>2, <3>3, <3>5, <3>7 DEF Balance
    <3> QED  BY <1>1, <2>1, <2>2, <3>4, <3>8 DEF ForthLedger
  <2> QED  BY <2>1, <2>4, <2>5, <2>6 DEF WriterDoes, AskDropped
<1>7. CASE CliChargeStep
  <2>1. cli'.send = cli.send + (-1) /\ cli'.pending = None /\ cli.pending # None
    BY <1>7 DEF CliChargeStep, CliChargeDoes, OnlySend, Charges
  <2>2. toCli' = toCli /\ toSrv' = toSrv /\ srv' = srv
    BY <1>7 DEF CliChargeStep, WireKept, ServerKept
  <2>3. Uncharged = 1 /\ Uncharged' = 0
    BY <2>1 DEF Uncharged
  <2>4. Balance(cli'.send + c + d - Uncharged', srv'.recv, Exact')
    <3>1. PICK S \in Int, R \in Int : S = cli.send /\ R = srv.recv
      BY <1>0
    <3>2. Balance(S + c + d - 1, R, Exact)
      BY <1>1, <2>3, <3>1
    <3>3. Balance(S + (-1) + c + d - 0, R, Exact')
      BY <1>3, <3>2, BalanceMoves
    <3> QED  BY <2>1, <2>2, <2>3, <3>1, <3>3
  <2> QED  BY <1>1, <2>2, <2>4 DEF ForthLedger
<1>8. CASE ReconnectStep
  <2>1. /\ cli'.send = DEFAULT_WINDOW /\ cli'.pending = None /\ srv'.recv = DEFAULT_WINDOW
        /\ toCli' = <<>> /\ toSrv' = <<>>
    BY <1>8 DEF ReconnectStep, ReconnectDoes, Server
  <2>2. Uncharged' = 0
    BY <2>1 DEF Uncharged
  <2>3. Balance(cli'.send + 0 + 0 - Uncharged', srv'.recv, Exact')
    BY <2>1, <2>2, Windows DEF Balance
  <2>4. Weighs(toCli', "WINDOW_UPDATE", {0}, 0) /\ Weighs(toSrv', "DATA", Int, 0)
    BY <2>1, WeighsEmpty
  <2>5. 0 \in Nat
    OBVIOUS
  <2> QED  BY <2>3, <2>4, <2>5 DEF ForthLedger
\* The client takes a frame that is no credit.
<1>9. ASSUME NEW x \in FrameRec, p # <<>>, x = Head(p), x.t # "WINDOW_UPDATE", toCli' = Tail(p), toSrv' = toSrv,
             srv' = srv, cli'.send = cli.send, cli'.pending = cli.pending
      PROVE  ForthLedger'
  <2>1. Weighs(Tail(p), "WINDOW_UPDATE", {0}, c)
    BY <1>1, <1>2, <1>9, WeighsSkip
  <2> QED  BY <1>1, <1>4, <1>9, <2>1
<1>10. ASSUME NEW x \in FrameRec, CliReadStep(x) PROVE ForthLedger'
  <2>1. p # <<>> /\ x = Head(p) /\ toSrv' = toSrv /\ srv' = srv
    BY <1>2, <1>10 DEF CliReadStep, ServerKept
  <2>2. CASE x.t = "WINDOW_UPDATE"
    <3>1. /\ OnlySend(cli, cli', Granted(cli, x, 0), x.id, IF x.id = 0 THEN 0 ELSE Granted(cli, x, x.id))
          /\ goaways' = goaways \union windowError(cli, x) /\ toCli' = Tail(p) /\ cli'.pending = cli.pending
      BY <1>2, <1>10, <2>2, Zenon DEF CliReadStep, CliReadDoes
    <3>2. PICK w \in Nat, r \in Nat :
             w = Weight(x, "WINDOW_UPDATE", {0}) /\ c = w + r /\ Weighs(Tail(p), "WINDOW_UPDATE", {0}, r)
      BY <1>1, <1>2, <2>1, WeighsTail
    <3>3. PICK g \in Int : g = Granted(cli, x, 0) /\ cli'.send = cli.send + g
      <4>1. x.n \in Int
        BY DEF FrameRec
      <4> QED  BY <3>1, <4>1 DEF OnlySend, Granted
    <3>4. g <= w /\ (Exact' => g = w)
      <4>1. CASE x.id # 0
        BY <2>2, <3>2, <3>3, <4>1 DEF Weight, Granted
      <4>2. CASE x.id = 0 /\ windowError(cli, x) = {}
        BY <2>2, <3>2, <3>3, <4>2 DEF Weight, Granted
      <4>3. CASE x.id = 0 /\ windowError(cli, x) # {}
        <5>1. windowError(cli, x) = {"overflow"}
          BY <4>3 DEF windowError
        <5> QED  BY <3>1, <3>2, <3>3, <4>3, <5>1 DEF Granted, Exact
      <4> QED  BY <4>1, <4>2, <4>3
    <3>5. Uncharged' = Uncharged
      BY <3>1 DEF Uncharged
    <3>6. Balance(cli'.send + r + d - Uncharged', srv'.recv, Exact')
      <4>1. PICK S \in Int, R \in Int, U \in Int : S = cli.send /\ R = srv.recv /\ U = Uncharged
        BY <1>0
      <4>2. Balance(S + (w + r) + d - U, R, Exact)
        BY <1>1, <3>2, <4>1
      <4>3. Balance((S + g) + r + d - U, R, Exact')
        BY <1>3, <3>4, <4>2, BalanceMoves
      <4> QED  BY <2>1, <3>3, <3>5, <4>1, <4>3
    <3> QED  BY <1>1, <2>1, <3>1, <3>2, <3>6 DEF ForthLedger
  <2>3. CASE x.t # "WINDOW_UPDATE"
    <3>1. cli'.send = cli.send /\ cli'.pending = cli.pending /\ (toCli' = toCli \/ toCli' = Tail(p))
      BY <1>2, <1>10, <2>3, Zenon DEF CliReadStep, CliReadDoes, CliWindows
    <3> QED  BY <1>1, <1>4, <1>9, <2>1, <2>3, <3>1
  <2> QED  BY <2>2, <2>3
<1>11. ASSUME NEW x \in FrameRec, CliHandleDeletedStep(x) PROVE ForthLedger'
  BY <1>2, <1>9, <1>11 DEF CliHandleDeletedStep, CliHandleDeletedDoes, CliWindows, ServerKept
<1>12. ASSUME NEW x \in FrameRec, NEW s \in StreamRec, CliHandleStep(x, s) PROVE ForthLedger'
  BY <1>2, <1>9, <1>12, Zenon DEF CliHandleStep, CliHandleDoes, ServerKept
<1>13. ASSUME NEW x \in FrameRec, SrvReadStep(x) PROVE ForthLedger'
  <2>1. q # <<>> /\ x = Head(q) /\ toSrv' = Tail(q) /\ cli' = cli
    BY <1>2, <1>13 DEF SrvReadStep, ClientKept
  <2>0. Uncharged' = Uncharged
    BY <2>1 DEF Uncharged
  <2>2. CASE SrvWindowDoes(x)
    <3>1. x.t # "DATA" /\ toCli' = toCli /\ srv'.recv = srv.recv
      BY <2>2, Zenon DEF SrvWindowDoes, OnlySend
    <3>2. Weighs(Tail(q), "DATA", Int, d)
      BY <1>1, <1>2, <2>1, <3>1, WeighsSkip
    <3> QED  BY <1>1, <1>4, <2>1, <3>1, <3>2
  <2>3. CASE SrvRefuseDoes(x)
    <3>1. PICK w \in Nat, r \in Nat : d = w + r /\ Weighs(Tail(q), "DATA", Int, r)
      BY <1>1, <1>2, <2>1, WeighsTail, Zenon
    <3>2. PICK y \in FrameRec : y.t = "RST_STREAM" /\ toCli' = Append(p, y)
      BY <1>2, <2>3 DEF SrvRefuseDoes, IsFrame
    <3>3. PICK o \in Seq(FrameRec) : o = <<y>> /\ Append(p, y) = p \o o
      BY AppendCat, Zenon
    <3>4. Range(o) = {y}
      BY <3>3, RangeOne
    <3>5. Weighs(o, "WINDOW_UPDATE", {0}, 0)
      BY <3>2, <3>4, WeighsNone
    <3>6. Weighs(toCli', "WINDOW_UPDATE", {0}, c)
      BY <1>1, <1>2, <3>2, <3>3, <3>5, WeighsFed, Zenon
    <3>7. ~Exact' /\ srv' = srv
      BY <2>3 DEF SrvRefuseDoes, Exact
    <3>8. Balance(cli'.send + c + r - Uncharged', srv'.recv, Exact')
      BY <1>0, <1>1, <2>0, <2>1, <3>1, <3>7 DEF Balance
    <3> QED  BY <2>1, <3>1, <3>6, <3>8 DEF ForthLedger
  <2>4. CASE SrvAcceptDoes(x, Target(x)) /\ x.t # "DATA"
    <3>1. toCli' = toCli /\ srv'.recv = srv.recv
      BY <2>4 DEF SrvAcceptDoes
    <3>2. Weighs(Tail(q), "DATA", Int, d)
      BY <1>1, <1>2, <2>1, <2>4, WeighsSkip
    <3> QED  BY <1>1, <1>4, <2>1, <3>1, <3>2
  <2>5. CASE SrvAcceptDoes(x, Target(x)) /\ x.t = "DATA"
    <3>1. PICK n, m, o : Took(x, n, m, o)
      BY <1>1, <1>13, <2>5, SrvTakes
    <3>2. /\ n \in Nat /\ m \in Nat /\ o \in Seq(FrameRec) /\ o = Updates(0, n) \o Updates(x.id, m) /\ toCli' = p \o o
          /\ srv'.recv = (srv.recv - x.n) + n /\ x.id \in Int /\ x.id # 0 /\ x.n \in Nat
      BY <1>2, <3>1 DEF Took
    <3>3. Weighs(o, "WINDOW_UPDATE", {0}, n)
      BY <3>2, OutWeighs, Zenon
    <3>4. Weighs(p \o o, "WINDOW_UPDATE", {0}, c + n)
      BY <1>1, <1>2, <3>2, <3>3, WeighsCat, Zenon
    <3>5. PICK r \in Nat : d = x.n + r /\ Weighs(Tail(q), "DATA", Int, r)
      BY <1>1, <1>2, <2>1, <2>5, <3>2, DataHead, Zenon
    <3>6. Balance(cli'.send + (c + n) + r - Uncharged', srv'.recv, Exact')
      <4>1. PICK S \in Int, R \in Int, U \in Int, k \in Nat :
               S = cli.send /\ R = srv.recv /\ U = Uncharged /\ k = x.n
        BY <1>0, <3>2
      <4>2. Balance(S + c + (k + r) - U, R, Exact)
        BY <1>1, <3>5, <4>1
      <4>3. Balance(S + (c + n) + r - U, (R - k) + n, Exact')
        BY <1>3, <3>2, <4>2, BalanceMoves
      <4> QED  BY <2>0, <2>1, <3>2, <4>1, <4>3
    <3>7. c + n \in Nat
      BY <3>2
    <3> QED  BY <2>1, <3>2, <3>4, <3>5, <3>6, <3>7, Zenon DEF ForthLedger
  <2> QED  BY <1>13, <2>2, <2>3, <2>4, <2>5 DEF SrvReadStep
<1>14. ASSUME NEW k \in DOMAIN srv.streams, NEW s \in StreamRec, RespondStep(k, s) PROVE ForthLedger'
  <2>1. PICK r \in Seq(FrameRec) : toCli' = p \o r /\ Responds(k, s, r)
    BY <1>2, <1>14, RespondAdds, Zenon DEF CliFed
  <2>2. PICK none : none = (s.body = 0)
    OBVIOUS
  <2>3. PICK block : none \in BOOLEAN /\ IsMessage(r, k, block, none)
    BY <2>1, <2>2 DEF Responds
  <2>4. Weighs(r, "WINDOW_UPDATE", {0}, 0)
    BY <2>3, MessageWeighs
  <2>5. Weighs(p \o r, "WINDOW_UPDATE", {0}, c)
    BY <1>1, <1>2, <2>4, WeighsFed
  <2>6. cli' = cli /\ toSrv' = toSrv /\ srv'.recv = srv.recv
    BY <1>14 DEF RespondStep, RespondDoes, ClientKept
  <2> QED  BY <1>1, <1>4, <2>1, <2>5, <2>6
<1>15. ASSUME NEW k \in DOMAIN srv.streams, NEW s \in StreamRec, SrvDoneStep(k, s) PROVE ForthLedger'
  BY <1>1, <1>4, <1>15 DEF SrvDoneStep, SrvDoneDoes, WireKept, ClientKept
<1>16. CASE Still
  BY <1>1, <1>4, <1>16 DEF Still
<1> QED  BY <1>5, <1>6, <1>7, <1>8, <1>10, <1>11, <1>12, <1>13, <1>14, <1>15, <1>16
         DEF Step, ReaderStep, ServletStep

LEMMA BackExactStep ==
    ASSUME TypeOK, Requests, Played, Step, CrashEnds, BackExact'
    PROVE  BackExact
<1>1. Exact /\ OwnNumbers
  BY ExactStep, OwnNumbersBefore DEF BackExact
<1>2. ~crashed
  <2>1. None # "in" /\ None # "out"
    BY Http2Assumption
  <2>2. \/ crashed' = crashed
        \/ (\E f \in FrameRec, s \in StreamRec : CliHandleStep(f, s))
        \/ (\E f \in FrameRec : CliHandleDeletedStep(f))
    BY DEF Step, FiberStep, NewStreamStep, RequestStep, DueStep, OnTimeOutStep, CliWriteStep, CliChargeStep,
           ReconnectStep, ReaderStep, CliReadStep, SrvReadStep, ServletStep, RespondStep, SrvDoneStep,
           ClientKept, Still
  <2> QED  BY <2>1, <2>2 DEF CrashEnds, CliHandleStep, CliHandleDeletedStep, BackExact
<1> QED  BY <1>1, <1>2 DEF BackExact

LEMMA RefillNat == ASSUME NEW w \in Int PROVE Refill(w) \in Nat
  BY Windows DEF Refill

LEMMA CliTakes ==
    ASSUME TypeOK, Objects, Caps, NEW x \in FrameRec, NEW s \in StreamRec, CliHandleStep(x, s),
           x.t = "DATA"
    PROVE  \E n, m, o : Got(x, n, m, o)
<1>1. PICK q \in Seq(FrameRec) : q = toCli /\ q # <<>> /\ x = Head(q)
  BY Zenon DEF TypeOK, CliHandleStep
<1>2. x.id \in Int
  BY DEF FrameRec
<1>3. PICK k \in Nat : k = x.n
  BY DEF FrameRec
<1>4. x.id > 0
  BY DEF CliHandleStep, Objects
<1>5. PICK R \in Int, V \in Int : R = cli.recv /\ V = s.recv /\ R <= MAX_WINDOW
  <2>1. cli.recv \in Int /\ s.recv \in Int
    BY Zenon DEF TypeOK, CliRec, StreamRec
  <2> QED  BY <2>1 DEF Caps
<1>6. R - k \in Int /\ R - k <= MAX_WINDOW /\ V - k \in Int
  BY <1>5, Windows
<1>7. PICK n \in Nat, m \in Nat : n = Refill(R - k) /\ m = Refill(V - k) /\ (R - k) + n <= MAX_WINDOW
  BY <1>6, MaxWindow, RefillNat, Zenon
<1>8. PICK o \in Seq(FrameRec) : o = Updates(0, n) \o Updates(x.id, m)
  <2>1. n \in Int /\ m \in Int
    OBVIOUS
  <2> QED  BY <1>2, <2>1, OutFacts, Zenon
<1>9. queue' = queue \o o /\ cli'.recv = (R - k) + n
  BY <1>3, <1>5, <1>7, <1>8, Zenon DEF CliHandleStep, CliHandleDoes
<1> QED  BY <1>2, <1>3, <1>4, <1>5, <1>7, <1>8, <1>9, Zenon DEF Got

\* A stream at the server after a step.
LEMMA SrvCaps ==
    ASSUME TypeOK, Led, Positive, Caps, NEW x \in FrameRec, SrvReadStep(x), SrvAcceptDoes(x, Target(x))
    PROVE  /\ srv'.recv <= MAX_WINDOW
           /\ srv'.streams[x.id].recv <= MAX_WINDOW /\ srv'.streams[x.id].body >= 0
<1>1. PICK s \in StreamRec : s = Target(x)
  BY TargetType
<1>2. s.recv \in Int /\ s.body \in Int /\ s.recv <= MAX_WINDOW /\ s.body >= 0
  <2>1. CASE x.id \in DOMAIN srv.streams
    BY <1>1, <2>1 DEF Target, Caps, StreamRec
  <2>2. CASE x.id \notin DOMAIN srv.streams
    BY <1>1, <2>2, Windows DEF Target, Stream
  <2> QED  BY <2>1, <2>2
<1>3. PICK t : t = Fed(s, x, srv.recvTable) /\ Handed(t, srv'.streams[x.id])
  BY <1>1 DEF SrvAcceptDoes
<1>4. CASE x.t # "DATA"
  <2>1. t.recv = s.recv /\ t.body = s.body
    BY <1>3, <1>4 DEF Fed
  <2>2. srv'.recv = srv.recv
    BY <1>4 DEF SrvAcceptDoes
  <2> QED  BY <1>2, <1>3, <2>1, <2>2 DEF Handed, Caps
<1>5. CASE x.t = "DATA"
  <2>1. PICK n, m, o : Took(x, n, m, o)
    BY <1>5, SrvTakes
  <2>2. x.n \in Nat /\ srv'.recv <= MAX_WINDOW /\ srv'.streams[x.id].recv <= MAX_WINDOW
    BY <2>1 DEF Took
  <2>3. t.body = s.body + x.n
    BY <1>3, <1>5 DEF Fed
  <2>4. srv'.streams[x.id].body = s.body + x.n
    BY <1>3, <2>3 DEF Handed
  <2> QED  BY <1>2, <2>2, <2>4
<1> QED  BY <1>4, <1>5

LEMMA CapsStep ==
    ASSUME TypeOK, Led, Objects, Positive, Caps, Step
    PROVE  Caps'
<1>0. MAX_WINDOW \in Nat /\ CLIENT_WINDOW <= MAX_WINDOW /\ DEFAULT_WINDOW <= MAX_WINDOW /\ 0 <= MAX_WINDOW
  BY Windows
<1>1. ASSUME NEW id \in DOMAIN cli'.streams PROVE cli'.streams[id].send <= MAX_WINDOW
  <2>1. ObjectDoes(id)
    BY ObjectCases
  <2>2. SameObject(id) => cli.streams[id].send \in Int /\ cli.streams[id].send <= MAX_WINDOW
    BY StreamAt DEF SameObject, StreamRec, Caps
  <2>3. ASSUME NEW f, cli'.streams[id] = Stream(CLIENT_WINDOW, DEFAULT_WINDOW, f) PROVE cli'.streams[id].send <= MAX_WINDOW
    BY <1>0, <2>3 DEF Stream
  <2>4. CASE SameObject(id) /\ cli'.streams[id].send = cli.streams[id].send
    BY <2>2, <2>4
  <2>5. CASE /\ SameObject(id)
             /\ cli'.streams[id].send = cli.streams[id].send +
                   IF id = req[cli.pending].sn /\ cli.streams[id].of = cli.pending THEN -1 ELSE 0
    <3>1. PICK S \in Int, k \in {-1, 0} : S = cli.streams[id].send /\ cli'.streams[id].send = S + k /\ S <= MAX_WINDOW
      BY <2>2, <2>5
    <3> QED  BY <1>0, <3>1
  <2>6. ASSUME SameObject(id), NEW x \in FrameRec, CliReadStep(x), x.t = "WINDOW_UPDATE",
               cli'.streams[id].send = cli.streams[id].send + Raised(x, id)
        PROVE  cli'.streams[id].send <= MAX_WINDOW
    <3>1. PICK S \in Int, N \in Int : S = cli.streams[id].send /\ S <= MAX_WINDOW /\ N = x.n
      BY <2>2, <2>6 DEF FrameRec
    <3>2. CASE id = x.id /\ x.id # 0 /\ windowError(cli, x) = {}
      <4>1. x.id \in DOMAIN cli.streams
        BY <2>6, <3>2 DEF SameObject
      <4>2. ~(S + N > MAX_WINDOW)
        BY <3>1, <3>2, <4>1 DEF windowError, Exists
      <4>3. cli'.streams[id].send = S + N
        BY <2>6, <3>1, <3>2 DEF Raised, Granted
      <4> QED  BY <1>0, <3>1, <4>2, <4>3
    <3>3. CASE ~(id = x.id /\ x.id # 0 /\ windowError(cli, x) = {})
      <4>1. Raised(x, id) = 0
        BY <3>3 DEF Raised, Granted
      <4> QED  BY <2>6, <3>1, <4>1
    <3> QED  BY <3>2, <3>3
  <2> QED  BY <2>1, <2>3, <2>4, <2>5, <2>6 DEF ObjectDoes
<1>2. /\ srv'.recv <= MAX_WINDOW
      /\ \A id \in DOMAIN srv'.streams : srv'.streams[id].recv <= MAX_WINDOW /\ srv'.streams[id].body >= 0
  <2> DEFINE Goal == /\ srv'.recv <= MAX_WINDOW
                     /\ \A id \in DOMAIN srv'.streams : srv'.streams[id].recv <= MAX_WINDOW /\ srv'.streams[id].body >= 0
  <2>1. CASE srv' = srv
    BY <2>1 DEF Caps
  <2>2. CASE ReconnectStep
    BY <1>0, <2>2 DEF ReconnectStep, ReconnectDoes, Server
  <2>3. ASSUME NEW x \in FrameRec, SrvReadStep(x) PROVE Goal
    <3>1. CASE SrvWindowDoes(x)
      BY <3>1, Zenon DEF SrvWindowDoes, OnlySend, Alike, Caps
    <3>2. CASE SrvRefuseDoes(x)
      BY <3>2 DEF SrvRefuseDoes, Caps
    <3>3. CASE SrvAcceptDoes(x, Target(x))
      <4>1. /\ srv'.recv <= MAX_WINDOW
            /\ srv'.streams[x.id].recv <= MAX_WINDOW /\ srv'.streams[x.id].body >= 0
        BY <2>3, <3>3, SrvCaps
      <4>2. /\ DOMAIN srv'.streams = DOMAIN srv.streams \union {x.id}
            /\ \A id \in DOMAIN srv.streams : id # x.id => srv'.streams[id] = srv.streams[id]
        BY <3>3 DEF SrvAcceptDoes
      <4> QED  BY <4>1, <4>2 DEF Caps
    <3> QED  BY <2>3, <3>1, <3>2, <3>3 DEF SrvReadStep
  <2>4. ASSUME NEW k \in DOMAIN srv.streams, NEW s \in StreamRec, RespondStep(k, s) PROVE Goal
    BY <2>4 DEF RespondStep, RespondDoes, Marked, Caps
  <2>5. ASSUME NEW k \in DOMAIN srv.streams, NEW s \in StreamRec, SrvDoneStep(k, s) PROVE Goal
    BY <2>5 DEF SrvDoneStep, SrvDoneDoes, Alike, Caps
  <2> QED  BY <2>1, <2>2, <2>3, <2>4, <2>5, ServerCases DEF ServletStep
<1>3. cli'.recv <= MAX_WINDOW
  <2>1. ASSUME cli'.recv = cli.recv PROVE cli'.recv <= MAX_WINDOW
    BY <2>1 DEF Caps
  <2>2. ASSUME NEW x \in FrameRec, NEW s \in StreamRec, CliHandleStep(x, s) PROVE cli'.recv <= MAX_WINDOW
    <3>1. CASE x.t # "DATA"
      BY <2>1, <2>2, <3>1, Zenon DEF CliHandleStep, CliHandleDoes
    <3>2. CASE x.t = "DATA"
      BY <2>2, <3>2, CliTakes DEF Got
    <3> QED  BY <3>1, <3>2
  <2>3. CASE ReconnectStep
    BY <1>0, <2>3 DEF ReconnectStep, ReconnectDoes
  <2>4. \/ cli'.recv = cli.recv \/ ReconnectStep
        \/ \E x \in FrameRec, s \in StreamRec : CliHandleStep(x, s)
    BY Zenon DEF Step, FiberStep, NewStreamStep, NewStreamDoes, RequestStep, RequestDoes, DueStep, OnTimeOutStep,
           OnTimeOutDoes, CliWriteStep, CliWriteDoes, WroteRequest, CliChargeStep, CliChargeDoes, ReaderStep,
           CliReadStep, CliReadDoes, CliHandleDeletedStep, CliHandleDeletedDoes, SrvReadStep, ServletStep,
           RespondStep, SrvDoneStep, ClientKept, CliWindows, OnlySend, Still
  <2> QED  BY <2>1, <2>2, <2>3, <2>4
<1> QED  BY <1>1, <1>2, <1>3 DEF Caps

\* A request whose number is its own has no frame on the way when the servlet is done
\* with it, so a frame changes no body that was sent back.
LEMMA OwingAccept ==
    ASSUME TypeOK, Led, Positive, Played, Ways, Caps, NEW x \in FrameRec, SrvReadStep(x),
           SrvAcceptDoes(x, Target(x))
    PROVE  \/ Owing' = Owing
           \/ x.id \notin Owing /\ Owing' = Owing \union {x.id} /\ ~OwnNumbers
<1>1. PICK s \in StreamRec : s = Target(x)
  BY TargetType
<1>2. PICK t, u : /\ t = Fed(s, x, srv.recvTable) /\ u = srv'.streams[x.id] /\ Handed(t, u)
  BY <1>1 DEF SrvAcceptDoes
<1>3. /\ DOMAIN srv'.streams = DOMAIN srv.streams \union {x.id}
      /\ \A id \in DOMAIN srv.streams : id # x.id => srv'.streams[id] = srv.streams[id]
  BY DEF SrvAcceptDoes
<1>4. \A id : id # x.id => (id \in Owing' <=> id \in Owing)
  BY <1>3 DEF Owing
<1>5. CASE s.handled # "responded"
  <2>1. u.handled # "responded"
    BY <1>2, <1>5 DEF Fed, Handed
  <2>2. x.id \notin Owing' /\ x.id \notin Owing
    BY <1>1, <1>2, <1>5, <2>1 DEF Owing, Target
  <2>3. Owing' = Owing
    BY <1>4, <2>2
  <2> QED  BY <2>3
<1>6. CASE s.handled = "responded"
  <2>1. x.id \in DOMAIN srv.streams /\ s = srv.streams[x.id]
    BY <1>1, <1>6 DEF Target, Stream
  <2>2. ~OwnNumbers
    <3> SUFFICES ASSUME OwnNumbers PROVE FALSE
      OBVIOUS
    <3>1. Has(toSrv, Traffic, x.id) /\ x.id > 0 /\ x.id \in Int
      BY SrvReadHead DEF Positive, SrvAcceptDoes, FrameRec
    <3>2. PICK g \in Fibers : req[g].sn = x.id
      BY <3>1 DEF Played, InPlay, Owner
    <3>3. Way(x.id)
      BY <3>1, <3>2 DEF OwnNumbers, Ways
    <3> QED  BY <1>6, <2>1, <3>1, <3>3 DEF Way
  <2>3. s.body \in Int /\ s.body >= 0
    BY <2>1 DEF Caps, StreamRec
  <2>4. s.body # 0 => u.body # 0
    <3>1. u.body = t.body
      BY <1>2 DEF Handed
    <3>2. CASE x.t # "DATA"
      BY <1>2, <3>1, <3>2 DEF Fed
    <3>3. CASE x.t = "DATA"
      <4>1. x.n \in Nat
        BY <3>3, SrvTakes DEF Took
      <4>2. u.body = s.body + x.n
        BY <1>2, <3>1, <3>3 DEF Fed
      <4> QED  BY <2>3, <4>1, <4>2
    <3> QED  BY <3>2, <3>3
  <2>5. u.handled = "responded"
    BY <1>2, <1>6 DEF Fed, Handed
  <2>6. x.id \in Owing => x.id \in Owing'
    BY <1>2, <1>3, <2>1, <2>4, <2>5 DEF Owing
  <2>7. CASE (x.id \in Owing') <=> (x.id \in Owing)
    <3>1. Owing' = Owing
      BY <1>4, <2>7
    <3> QED  BY <3>1
  <2>8. CASE x.id \in Owing' /\ x.id \notin Owing
    <3>1. Owing' = Owing \union {x.id}
      BY <1>4, <2>8
    <3> QED  BY <2>2, <2>8, <3>1
  <2> QED  BY <2>6, <2>7, <2>8
<1> QED  BY <1>5, <1>6

LEMMA BackStep ==
    ASSUME RouteInv, Objects, Positive, DataEnds, CrashEnds, Caps, Step, ~lost', BackLedger
    PROVE  BackLedger'
<1>a. TypeOK /\ HeldOk /\ Led /\ Requests /\ Played /\ Ways
  BY DEF RouteInv, BaseInv
<1>0. cli.recv \in Int /\ srv.send \in Int
  BY <1>a, Zenon DEF TypeOK, CliRec, SrvRec
<1>1. PICK c \in Nat, e \in Nat, d \in Nat :
         /\ Weighs(queue, "WINDOW_UPDATE", {0}, c) /\ Weighs(toSrv, "WINDOW_UPDATE", {0}, e)
         /\ Weighs(toCli, "DATA", Int, d)
         /\ Balance(srv.send + c + e + d - Cardinality(Owing), cli.recv, BackExact)
  BY DEF BackLedger
<1>2. PICK p \in Seq(FrameRec), q \in Seq(FrameRec), u \in Seq(FrameRec \union AskRec) :
         p = toCli /\ q = toSrv /\ u = queue
  BY <1>a, Zenon DEF TypeOK
<1>3. BackExact' => BackExact
  BY <1>a, BackExactStep
<1>4. PICK S \in Int, R \in Int, N \in Nat :
         S = srv.send /\ R = cli.recv /\ N = Cardinality(Owing) /\ IsFiniteSet(Owing)
  BY <1>0, FS_CardinalityType, Zenon DEF BackLedger
<1>5. Balance(S + c + e + d - N, R, BackExact)
  BY <1>1, <1>4
\* The entries move, and the sum with them.
<1>6. ASSUME NEW c2 \in Nat, NEW e2 \in Nat, NEW d2 \in Nat, NEW S2 \in Int, NEW R2 \in Int, NEW N2 \in Nat,
             Weighs(queue', "WINDOW_UPDATE", {0}, c2), Weighs(toSrv', "WINDOW_UPDATE", {0}, e2),
             Weighs(toCli', "DATA", Int, d2), S2 = srv'.send, R2 = cli'.recv,
             N2 = Cardinality(Owing'), IsFiniteSet(Owing'),
             (S2 + c2 + e2 + d2 - N2) - (S + c + e + d - N) <= R2 - R,
             BackExact' => (S2 + c2 + e2 + d2 - N2) - (S + c + e + d - N) = R2 - R
      PROVE  BackLedger'
  <2>1. Balance(S2 + c2 + e2 + d2 - N2, R2, BackExact')
    <3>1. PICK a \in Int, a2 \in Int : a = S + c + e + d - N /\ a2 = S2 + c2 + e2 + d2 - N2
      OBVIOUS
    <3>2. Balance(a, R, BackExact) /\ a2 - a <= R2 - R /\ (BackExact' => BackExact /\ a2 - a = R2 - R)
      BY <1>3, <1>5, <1>6, <3>1
    <3>3. Balance(a2, R2, BackExact')
      BY <3>2, BalanceMoves
    <3> QED  BY <3>1, <3>3
  <2>2. Balance(srv'.send + c2 + e2 + d2 - Cardinality(Owing'), cli'.recv, BackExact')
    BY <1>6, <2>1
  <2> QED  BY <1>6, <2>2, Zenon DEF BackLedger
<1>7. ASSUME srv' = srv PROVE Owing' = Owing
  BY <1>7 DEF Owing
\* Nothing that the ledger counts has changed.
<1>8. ASSUME Weighs(queue', "WINDOW_UPDATE", {0}, c), Weighs(toSrv', "WINDOW_UPDATE", {0}, e),
             Weighs(toCli', "DATA", Int, d), srv'.send = srv.send, cli'.recv = cli.recv, Owing' = Owing
      PROVE  BackLedger'
  <2>1. Balance(S + c + e + d - N, R, BackExact')
    BY <1>3, <1>5 DEF Balance
  <2>2. Balance(srv'.send + c + e + d - Cardinality(Owing'), cli'.recv, BackExact')
    BY <1>4, <1>8, <2>1
  <2> QED  BY <1>4, <1>8, <2>2, Zenon DEF BackLedger
<1>9. ASSUME NEW f \in Fibers, FiberStep(f) PROVE BackLedger'
  <2>1. toCli' = toCli /\ toSrv' = toSrv /\ cli'.recv = cli.recv /\ srv' = srv
    BY <1>9 DEF FiberStep, NewStreamStep, NewStreamDoes, RequestStep, RequestDoes, DueStep, OnTimeOutStep,
                OnTimeOutDoes, CliWindows, WireKept, ServerKept
  <2>2. Weighs(queue', "WINDOW_UPDATE", {0}, c)
    <3>1. CASE queue' = queue
      BY <1>1, <3>1
    <3>2. CASE RequestStep(f)
      <4>1. PICK a \in AskRec : a.t = "request" /\ queue' = Append(u, a)
        BY <1>2, <3>2 DEF RequestStep, RequestDoes
      <4>2. PICK o \in Seq(FrameRec \union AskRec) : o = <<a>> /\ Append(u, a) = u \o o
        <5>1. a \in FrameRec \union AskRec
          OBVIOUS
        <5> QED  BY <5>1, AppendCat, Zenon
      <4>3. Range(o) = {a}
        BY <4>2, RangeOne
      <4>4. Weighs(o, "WINDOW_UPDATE", {0}, 0)
        BY <4>1, <4>3, WeighsNone
      <4> QED  BY <1>1, <1>2, <4>1, <4>2, <4>4, WeighsFed, Zenon
    <3> QED  BY <1>9, <3>1, <3>2 DEF FiberStep, NewStreamStep, DueStep, OnTimeOutStep
  <2> QED  BY <1>1, <1>7, <1>8, <2>1, <2>2
<1>10. CASE CliWriteStep
  <2>1. u # <<>> /\ queue' = Tail(u) /\ toCli' = toCli /\ srv' = srv
    BY <1>2, <1>10 DEF CliWriteStep, ServerKept
  <2>2. cli'.recv = cli.recv
    BY <1>10 DEF CliWriteStep, CliWriteDoes, WroteRequest, CliWindows
  <2>3. PICK r \in Seq(FrameRec) : toSrv' = q \o r /\ WriterDoes(r)
    BY <1>a, <1>2, <1>10, WriterAdds, Zenon DEF SrvFed
  <2>4. CASE Head(u) \in FrameRec /\ Head(u).t # "request" /\ toSrv' = Append(q, Head(u))
    <3>1. PICK x \in FrameRec : x = Head(u)
      BY <2>4
    <3>2. PICK o \in Seq(FrameRec) : o = <<x>> /\ Append(q, x) = q \o o
      BY AppendCat, Zenon
    <3>3. PICK w \in Nat, r2 \in Nat :
             w = Weight(x, "WINDOW_UPDATE", {0}) /\ c = w + r2 /\ Weighs(Tail(u), "WINDOW_UPDATE", {0}, r2)
      BY <1>1, <1>2, <2>1, <3>1, WeighsTail, Zenon
    <3>4. Weighs(o, "WINDOW_UPDATE", {0}, w)
      BY <3>2, <3>3, WeighsOne
    <3>5. Weighs(q \o o, "WINDOW_UPDATE", {0}, e + w)
      BY <1>1, <1>2, <3>4, WeighsCat, Zenon
    <3>6. e + w \in Nat /\ (S + r2 + (e + w) + d - N) - (S + c + e + d - N) = R - R
      <4>1. c = w + r2
        BY <3>3
      <4> QED  BY <4>1
    <3>7. Weighs(queue', "WINDOW_UPDATE", {0}, r2) /\ Weighs(toSrv', "WINDOW_UPDATE", {0}, e + w)
      BY <2>1, <2>4, <3>1, <3>2, <3>3, <3>5, Zenon
    <3>8. S = srv'.send /\ R = cli'.recv /\ N = Cardinality(Owing') /\ IsFiniteSet(Owing') /\ Weighs(toCli', "DATA", Int, d)
      BY <1>1, <1>4, <1>7, <2>1, <2>2
    <3>9. (S + r2 + (e + w) + d - N) - (S + c + e + d - N) <= R - R
      BY <3>6
    <3> QED  BY <1>6, <3>6, <3>7, <3>8, <3>9, Zenon
  <2>5. CASE Head(u).t = "request"
    <3>1. Weighs(Tail(u), "WINDOW_UPDATE", {0}, c)
      BY <1>1, <1>2, <2>1, <2>5, WeighsSkip
    <3>2. Weighs(r, "WINDOW_UPDATE", {0}, 0)
      <4>1. r = <<>> \/ \E f \in Fibers : AskWritten(f, r)
        BY <1>2, <2>3, <2>5 DEF WriterDoes
      <4>2. ASSUME NEW f \in Fibers, AskWritten(f, r) PROVE Weighs(r, "WINDOW_UPDATE", {0}, 0)
        <5>1. PICK none, id : none = (req[f].body = 0) /\ id = req[f].sn
          OBVIOUS
        <5>2. PICK block : none \in BOOLEAN /\ IsMessage(r, id, block, none)
          BY <4>2, <5>1 DEF AskWritten
        <5> QED  BY <5>2, MessageWeighs
      <4> QED  BY <4>1, <4>2, WeighsEmpty
    <3>3. Weighs(q \o r, "WINDOW_UPDATE", {0}, e)
      BY <1>1, <1>2, <3>2, WeighsFed
    <3> QED  BY <1>1, <1>7, <1>8, <2>1, <2>2, <2>3, <3>1, <3>3
  <2> QED  BY <1>2, <1>10, <2>4, <2>5 DEF CliWriteStep, CliWriteDoes
<1>11. CASE CliChargeStep
  <2>1. toCli' = toCli /\ toSrv' = toSrv /\ queue' = queue /\ srv' = srv /\ cli'.recv = cli.recv
    BY <1>11 DEF CliChargeStep, CliChargeDoes, OnlySend, WireKept, ServerKept
  <2> QED  BY <1>1, <1>7, <1>8, <2>1
<1>12. CASE ReconnectStep
  <2>1. /\ cli'.recv = MAX_WINDOW /\ srv'.send = MAX_WINDOW /\ DOMAIN srv'.streams = {}
        /\ toCli' = <<>> /\ toSrv' = <<>> /\ queue' = <<>>
    BY <1>12 DEF ReconnectStep, ReconnectDoes, Server
  <2>2. Owing' = {}
    BY <2>1 DEF Owing
  <2>3. IsFiniteSet(Owing') /\ Cardinality(Owing') = 0
    BY <2>2, FS_EmptySet
  <2>4. Balance(srv'.send + 0 + 0 + 0 - Cardinality(Owing'), cli'.recv, BackExact')
    BY <2>1, <2>3, Windows DEF Balance
  <2>5. /\ Weighs(toCli', "DATA", Int, 0) /\ Weighs(toSrv', "WINDOW_UPDATE", {0}, 0)
        /\ Weighs(queue', "WINDOW_UPDATE", {0}, 0) /\ 0 \in Nat
    BY <2>1, WeighsEmpty
  <2> QED  BY <2>3, <2>4, <2>5 DEF BackLedger
\* The client loses a frame.
<1>13. ASSUME NEW x \in FrameRec, p # <<>>, x = Head(p), toCli' = Tail(p), toSrv' = toSrv, queue' = queue,
              srv' = srv, cli'.recv = cli.recv, BackExact' => x.t # "DATA"
       PROVE  BackLedger'
  <2>1. PICK w \in Nat, r \in Nat :
           w = Weight(x, "DATA", Int) /\ d = w + r /\ Weighs(Tail(p), "DATA", Int, r)
    BY <1>1, <1>2, <1>13, WeighsTail, Zenon
  <2>2. BackExact' => w = 0
    BY <1>13, <2>1 DEF Weight
  <2>3. /\ (S + c + e + r - N) - (S + c + e + d - N) <= R - R
        /\ BackExact' => (S + c + e + r - N) - (S + c + e + d - N) = R - R
    BY <2>1, <2>2, SMTT(30)
  <2>4. S = srv'.send /\ R = cli'.recv /\ N = Cardinality(Owing') /\ IsFiniteSet(Owing')
    BY <1>4, <1>7, <1>13
  <2>5. Weighs(queue', "WINDOW_UPDATE", {0}, c) /\ Weighs(toSrv', "WINDOW_UPDATE", {0}, e) /\ Weighs(toCli', "DATA", Int, r)
    BY <1>1, <1>13, <2>1
  <2> QED  BY <1>6, <2>3, <2>4, <2>5, Zenon
<1>14. ASSUME NEW x \in FrameRec, CliReadStep(x) PROVE BackLedger'
  <2>1. p # <<>> /\ x = Head(p) /\ toSrv' = toSrv /\ srv' = srv /\ queue' = queue
    BY <1>2, <1>14 DEF CliReadStep, ServerKept
  <2>2. cli'.recv = cli.recv
    BY <1>14, Zenon DEF CliReadStep, CliReadDoes, OnlySend, CliWindows
  <2>3. toCli' = toCli \/ (toCli' = Tail(p) /\ (BackExact' => x.t # "DATA"))
    <3>1. CASE x.t = "WINDOW_UPDATE"
      BY <1>2, <1>14, <3>1, Zenon DEF CliReadStep, CliReadDoes
    <3>2. CASE x.t # "WINDOW_UPDATE"
      BY <1>2, <1>14, <3>2, Zenon DEF CliReadStep, CliReadDoes, BackExact, Exact
    <3> QED  BY <3>1, <3>2
  <2> QED  BY <1>1, <1>7, <1>8, <1>13, <2>1, <2>2, <2>3
<1>15. ASSUME NEW x \in FrameRec, CliHandleDeletedStep(x) PROVE BackLedger'
  <2>1. /\ p # <<>> /\ x = Head(p) /\ toSrv' = toSrv /\ srv' = srv /\ queue' = queue /\ toCli' = Tail(p)
        /\ crashed' = x.end /\ cli'.recv = cli.recv
    BY <1>2, <1>15 DEF CliHandleDeletedStep, CliHandleDeletedDoes, ServerKept, CliWindows
  <2>2. x \in Range(p)
    BY <2>1, RangeTail
  <2>3. BackExact' => x.t # "DATA"
    BY <1>2, <2>1, <2>2 DEF BackExact, DataEnds
  <2> QED  BY <1>13, <2>1, <2>3
<1>16. ASSUME NEW x \in FrameRec, NEW s \in StreamRec, CliHandleStep(x, s) PROVE BackLedger'
  <2>1. p # <<>> /\ x = Head(p) /\ toSrv' = toSrv /\ srv' = srv /\ toCli' = Tail(p)
    BY <1>2, <1>16, Zenon DEF CliHandleStep, CliHandleDoes, ServerKept
  <2>2. CASE x.t # "DATA"
    <3>1. queue' = queue /\ cli'.recv = cli.recv
      BY <1>16, <2>2, Zenon DEF CliHandleStep, CliHandleDoes
    <3> QED  BY <1>13, <2>1, <2>2, <3>1
  <2>3. CASE x.t = "DATA"
    <3>1. PICK n, m, o : Got(x, n, m, o)
      BY <1>a, <1>1, <1>16, <2>3, CliTakes
    <3>2. PICK k \in Nat :
             /\ k = x.n /\ n \in Nat /\ m \in Nat /\ o \in Seq(FrameRec) /\ o = Updates(0, n) \o Updates(x.id, m)
             /\ queue' = u \o o /\ cli'.recv = (R - k) + n /\ x.id \in Int /\ x.id # 0
      BY <1>2, <1>4, <3>1, SMTT(30) DEF Got
    <3>3. Weighs(o, "WINDOW_UPDATE", {0}, n)
      BY <3>2, OutWeighs, Zenon
    <3>4. o \in Seq(FrameRec \union AskRec)
      BY <3>2, SeqUnion, Zenon
    <3>5. Weighs(u \o o, "WINDOW_UPDATE", {0}, c + n)
      BY <1>1, <1>2, <3>3, <3>4, WeighsCat
    <3>6. PICK r \in Nat : d = k + r /\ Weighs(Tail(p), "DATA", Int, r)
      BY <1>1, <1>2, <2>1, <2>3, <3>2, DataHead, Zenon
    <3>7. PICK R2 \in Int, c2 \in Nat : R2 = (R - k) + n /\ c2 = c + n
      BY <3>2
    <3>8. (S + c2 + e + r - N) - (S + c + e + d - N) = R2 - R
      <4>1. n \in Nat /\ d = k + r
        BY <3>2, <3>6
      <4> QED  BY <3>7, <4>1
    <3>9. (S + c2 + e + r - N) - (S + c + e + d - N) <= R2 - R
      BY <3>8
    <3>10. S = srv'.send /\ R2 = cli'.recv /\ N = Cardinality(Owing') /\ IsFiniteSet(Owing')
      BY <1>4, <1>7, <2>1, <3>2, <3>7
    <3>11. Weighs(queue', "WINDOW_UPDATE", {0}, c2) /\ Weighs(toSrv', "WINDOW_UPDATE", {0}, e) /\ Weighs(toCli', "DATA", Int, r)
      BY <1>1, <2>1, <3>2, <3>5, <3>6, <3>7
    <3> QED  BY <1>6, <3>8, <3>9, <3>10, <3>11, Zenon
  <2> QED  BY <2>2, <2>3
<1>17. ASSUME NEW x \in FrameRec, SrvReadStep(x) PROVE BackLedger'
  <2>1. q # <<>> /\ x = Head(q) /\ toSrv' = Tail(q) /\ cli' = cli /\ queue' = queue /\ req' = req
    BY <1>2, <1>17 DEF SrvReadStep, ClientKept
  <2>2. CASE SrvWindowDoes(x)
    <3>1. /\ OnlySend(srv, srv', Granted(srv, x, 0), x.id, IF x.id = 0 THEN 0 ELSE Granted(srv, x, x.id))
          /\ goaways' = goaways \union windowError(srv, x) /\ toCli' = toCli /\ x.t = "WINDOW_UPDATE"
      BY <2>2, Zenon DEF SrvWindowDoes
    <3>2. PICK w \in Nat, r \in Nat :
             w = Weight(x, "WINDOW_UPDATE", {0}) /\ e = w + r /\ Weighs(Tail(q), "WINDOW_UPDATE", {0}, r)
      BY <1>1, <1>2, <2>1, WeighsTail, Zenon
    <3>3. PICK g \in Int : g = Granted(srv, x, 0) /\ srv'.send = S + g
      <4>1. x.n \in Int
        BY DEF FrameRec
      <4> QED  BY <1>4, <3>1, <4>1 DEF OnlySend, Granted
    <3>4. g <= w /\ (BackExact' => g = w)
      <4>1. CASE x.id # 0
        BY <3>1, <3>2, <3>3, <4>1 DEF Weight, Granted
      <4>2. CASE x.id = 0 /\ windowError(srv, x) = {}
        BY <3>1, <3>2, <3>3, <4>2 DEF Weight, Granted
      <4>3. CASE x.id = 0 /\ windowError(srv, x) # {}
        <5>1. windowError(srv, x) = {"overflow"}
          BY <4>3 DEF windowError
        <5> QED  BY <3>1, <3>2, <3>3, <4>3, <5>1 DEF Granted, Exact, BackExact
      <4> QED  BY <4>1, <4>2, <4>3
    <3>5. Owing' = Owing
      <4>1. /\ DOMAIN srv'.streams = DOMAIN srv.streams
            /\ \A id \in DOMAIN srv.streams : Alike(srv.streams[id], srv'.streams[id])
        BY <3>1 DEF OnlySend
      <4> QED  BY <4>1 DEF Alike, Owing
    <3>6. PICK S2 \in Int : S2 = S + g
      BY <3>3
    <3>7. /\ (S2 + c + r + d - N) - (S + c + e + d - N) <= R - R
          /\ BackExact' => (S2 + c + r + d - N) - (S + c + e + d - N) = R - R
      BY <3>2, <3>4, <3>6, SMTT(30)
    <3>8. S2 = srv'.send /\ R = cli'.recv /\ N = Cardinality(Owing') /\ IsFiniteSet(Owing')
      BY <1>4, <2>1, <3>3, <3>5, <3>6
    <3>9. Weighs(queue', "WINDOW_UPDATE", {0}, c) /\ Weighs(toSrv', "WINDOW_UPDATE", {0}, r) /\ Weighs(toCli', "DATA", Int, d)
      BY <1>1, <2>1, <3>1, <3>2
    <3> QED  BY <1>6, <3>7, <3>8, <3>9, Zenon
  <2>3. CASE SrvRefuseDoes(x)
    <3>1. PICK y \in FrameRec : y.t = "RST_STREAM" /\ toCli' = Append(p, y) /\ x.t # "WINDOW_UPDATE" /\ srv' = srv
      BY <1>2, <2>3 DEF SrvRefuseDoes, IsFrame
    <3>2. PICK o \in Seq(FrameRec) : o = <<y>> /\ Append(p, y) = p \o o
      BY AppendCat, Zenon
    <3>3. Range(o) = {y}
      BY <3>2, RangeOne
    <3>4. Weighs(o, "DATA", Int, 0)
      BY <3>1, <3>3, WeighsNone
    <3>5. Weighs(toCli', "DATA", Int, d)
      BY <1>1, <1>2, <3>1, <3>2, <3>4, WeighsFed, Zenon
    <3>6. Weighs(Tail(q), "WINDOW_UPDATE", {0}, e)
      BY <1>1, <1>2, <2>1, <3>1, WeighsSkip
    <3> QED  BY <1>1, <1>7, <1>8, <2>1, <3>1, <3>5, <3>6
  <2>4. CASE SrvAcceptDoes(x, Target(x))
    <3>1. x.t # "WINDOW_UPDATE" /\ srv'.send = srv.send
      BY <2>4 DEF SrvAcceptDoes
    <3>2. Weighs(Tail(q), "WINDOW_UPDATE", {0}, e)
      BY <1>1, <1>2, <2>1, <3>1, WeighsSkip
    <3>3. Weighs(toCli', "DATA", Int, d)
      <4>1. CASE x.t # "DATA"
        BY <1>1, <2>4, <4>1 DEF SrvAcceptDoes
      <4>2. CASE x.t = "DATA"
        <5>1. PICK n, m, o : Took(x, n, m, o)
          BY <1>a, <1>17, <2>4, <4>2, SrvTakes
        <5>2. /\ n \in Nat /\ m \in Nat /\ o \in Seq(FrameRec) /\ o = Updates(0, n) \o Updates(x.id, m)
              /\ toCli' = p \o o /\ x.id \in Int /\ x.id # 0
          BY <1>2, <5>1 DEF Took
        <5>3. Weighs(o, "DATA", Int, 0)
          BY <5>2, OutWeighs, Zenon
        <5> QED  BY <1>1, <1>2, <5>2, <5>3, WeighsFed, Zenon
      <4> QED  BY <4>1, <4>2
    <3>4. \/ Owing' = Owing
          \/ x.id \notin Owing /\ Owing' = Owing \union {x.id} /\ ~OwnNumbers
      BY <1>a, <1>17, <2>4, OwingAccept
    <3>5. CASE Owing' = Owing
      BY <1>1, <1>8, <2>1, <3>1, <3>2, <3>3, <3>5
    <3>6. CASE x.id \notin Owing /\ Owing' = Owing \union {x.id} /\ ~OwnNumbers
      <4>1. IsFiniteSet(Owing') /\ Cardinality(Owing') = N + 1
        BY <1>4, <3>6, FS_AddElement, Zenon
      <4>2. ~BackExact'
        BY <1>3, <3>6 DEF BackExact
      <4>3. PICK N2 \in Nat : N2 = N + 1
        OBVIOUS
      <4>4. (S + c + e + d - N2) - (S + c + e + d - N) <= R - R
        BY <4>3
      <4>5. S = srv'.send /\ R = cli'.recv /\ N2 = Cardinality(Owing')
        BY <1>4, <2>1, <3>1, <4>1, <4>3
      <4>6. Weighs(queue', "WINDOW_UPDATE", {0}, c) /\ Weighs(toSrv', "WINDOW_UPDATE", {0}, e)
        BY <1>1, <2>1, <3>2
      <4> QED  BY <1>6, <3>3, <4>1, <4>2, <4>4, <4>5, <4>6, Zenon
    <3> QED  BY <3>4, <3>5, <3>6
  <2> QED  BY <1>17, <2>2, <2>3, <2>4 DEF SrvReadStep
<1>18. ASSUME NEW k \in DOMAIN srv.streams, NEW s \in StreamRec, RespondStep(k, s) PROVE BackLedger'
  <2>1. PICK r \in Seq(FrameRec) : toCli' = p \o r /\ Responds(k, s, r)
    BY <1>a, <1>2, <1>18, RespondAdds, Zenon DEF CliFed
  <2>2. PICK none \in BOOLEAN : none = (s.body = 0)
    OBVIOUS
  <2>3. PICK block : IsMessage(r, k, block, none)
    BY <2>1, <2>2 DEF Responds
  <2>4. k \in Int
    BY <1>a, StreamAt
  <2>5. PICK v \in {0, 1} : v = (IF none THEN 0 ELSE 1) /\ Weighs(r, "DATA", Int, v)
    <3>1. Weighs(r, "DATA", Int, IF none \/ k \notin Int THEN 0 ELSE 1)
      BY <2>3, MessageWeighs
    <3>2. (IF none \/ k \notin Int THEN 0 ELSE 1) = IF none THEN 0 ELSE 1
      BY <2>4
    <3> QED  BY <3>1, <3>2
  <2>6. Weighs(p \o r, "DATA", Int, d + v)
    BY <1>1, <1>2, <2>5, WeighsCat, Zenon
  <2>7. /\ cli' = cli /\ toSrv' = toSrv /\ queue' = queue /\ srv'.send = srv.send
        /\ DOMAIN srv'.streams = DOMAIN srv.streams /\ s = srv.streams[k] /\ s.handled = "scheduled"
        /\ \A j \in DOMAIN srv.streams : j # k => srv'.streams[j] = srv.streams[j]
        /\ Marked(s, srv'.streams[k])
    BY <1>18 DEF RespondStep, RespondDoes, ClientKept
  <2>8. k \notin Owing /\ Owing' = (IF none THEN Owing ELSE Owing \union {k})
    <3>1. k \notin Owing /\ (k \in Owing' <=> ~none)
      BY <2>2, <2>7, Zenon DEF Owing, Marked
    <3>2. \A j : j # k => (j \in Owing' <=> j \in Owing)
      BY <2>7 DEF Owing
    <3>3. CASE none
      <4>0. k \notin Owing' /\ k \notin Owing
        BY <3>1, <3>3
      <4>a. \A j : j \in Owing' <=> j \in Owing
        BY <3>2, <4>0
      <4>1. Owing' = Owing
        BY <4>a, Zenon
      <4> QED  BY <3>1, <3>3, <4>1
    <3>4. CASE ~none
      <4>1. Owing' = Owing \union {k}
        BY <3>1, <3>2, <3>4
      <4> QED  BY <3>1, <3>4, <4>1
    <3> QED  BY <3>3, <3>4
  <2>9. IsFiniteSet(Owing') /\ Cardinality(Owing') = N + v
    <3>1. CASE none
      BY <1>4, <2>5, <2>8, <3>1
    <3>2. CASE ~none
      BY <1>4, <2>5, <2>8, <3>2, FS_AddElement, Zenon
    <3> QED  BY <3>1, <3>2
  <2>10. PICK d2 \in Nat, N2 \in Nat : d2 = d + v /\ N2 = N + v
    OBVIOUS
  <2>11. (S + c + e + d2 - N2) - (S + c + e + d - N) = R - R
    BY <2>5, <2>10
  <2>12. (S + c + e + d2 - N2) - (S + c + e + d - N) <= R - R
    BY <2>5, <2>10
  <2>13. S = srv'.send /\ R = cli'.recv /\ N2 = Cardinality(Owing') /\ IsFiniteSet(Owing')
    BY <1>4, <2>7, <2>9, <2>10
  <2>14. Weighs(queue', "WINDOW_UPDATE", {0}, c) /\ Weighs(toSrv', "WINDOW_UPDATE", {0}, e) /\ Weighs(toCli', "DATA", Int, d2)
    BY <1>1, <2>1, <2>6, <2>7, <2>10
  <2> QED  BY <1>6, <2>11, <2>12, <2>13, <2>14, Zenon
<1>19. ASSUME NEW k \in DOMAIN srv.streams, NEW s \in StreamRec, SrvDoneStep(k, s) PROVE BackLedger'
  <2>1. /\ cli' = cli /\ toSrv' = toSrv /\ toCli' = toCli /\ queue' = queue
        /\ srv'.send = srv.send - IF s.body = 0 THEN 0 ELSE 1
        /\ DOMAIN srv'.streams = DOMAIN srv.streams \ {k} /\ s = srv.streams[k] /\ s.handled = "responded"
        /\ \A j \in DOMAIN srv.streams : j # k => Alike(srv.streams[j], srv'.streams[j])
    BY <1>19 DEF SrvDoneStep, SrvDoneDoes, ClientKept, WireKept, Charges
  <2>2. Owing' = Owing \ {k} /\ (k \in Owing <=> s.body # 0)
    <3>1. \A j : j # k => (j \in Owing' <=> j \in Owing)
      BY <2>1 DEF Owing, Alike
    <3>2. k \notin Owing' /\ (k \in Owing <=> s.body # 0)
      BY <2>1 DEF Owing
    <3>3. Owing' = Owing \ {k}
      BY <3>1, <3>2
    <3> QED  BY <3>2, <3>3
  <2>3. PICK v \in {0, 1} : v = (IF s.body = 0 THEN 0 ELSE 1) /\ srv'.send = S - v
    BY <1>4, <2>1
  <2>4. IsFiniteSet(Owing') /\ Cardinality(Owing') = N - v
    <3>1. IsFiniteSet(Owing \ {k}) /\ Cardinality(Owing \ {k}) = IF k \in Owing THEN N - 1 ELSE N
      BY <1>4, FS_RemoveElement, Zenon
    <3>2. (IF k \in Owing THEN N - 1 ELSE N) = N - v
      BY <2>2, <2>3
    <3> QED  BY <2>2, <3>1, <3>2, Zenon
  <2>5. PICK S2 \in Int, N2 \in Nat : S2 = S - v /\ N2 = N - v /\ N2 = Cardinality(Owing')
    <3>1. Cardinality(Owing') \in Nat
      BY <2>4, FS_CardinalityType
    <3>2. S - v \in Int /\ Cardinality(Owing') = N - v
      BY <2>4
    <3> QED  BY <3>1, <3>2
  <2>6. (S2 + c + e + d - N2) - (S + c + e + d - N) = R - R
    BY <2>3, <2>5
  <2>7. (S2 + c + e + d - N2) - (S + c + e + d - N) <= R - R
    BY <2>3, <2>5
  <2>8. S2 = srv'.send /\ R = cli'.recv
    BY <1>4, <2>1, <2>3, <2>5
  <2>9. Weighs(queue', "WINDOW_UPDATE", {0}, c) /\ Weighs(toSrv', "WINDOW_UPDATE", {0}, e) /\ Weighs(toCli', "DATA", Int, d)
    BY <1>1, <2>1
  <2> QED  BY <1>6, <2>4, <2>5, <2>6, <2>7, <2>8, <2>9, Zenon
<1>20. CASE Still
  BY <1>1, <1>7, <1>8, <1>20 DEF Still
<1> QED  BY <1>9, <1>10, <1>11, <1>12, <1>14, <1>15, <1>16, <1>17, <1>18, <1>19, <1>20
         DEF Step, ReaderStep, ServletStep

LEMMA CapType ==
    ASSUME TypeOK, Caps, NEW f \in Fibers
    PROVE  Cap(f) \in Int /\ Cap(f) <= MAX_WINDOW
<1>1. MAX_WINDOW \in Int /\ CLIENT_WINDOW \in Int /\ CLIENT_WINDOW <= MAX_WINDOW /\ MAX_WINDOW <= MAX_WINDOW
  BY Windows
<1>2. ASSUME req[f].sn \in DOMAIN srv.streams PROVE srv.streams[req[f].sn].recv \in Int
  BY <1>2, StreamAt DEF StreamRec
<1> QED  BY <1>1, <1>2 DEF Cap, Caps

\* A request does not become fresh again.
LEMMA FreshStep ==
    ASSUME TypeOK, Led, Requests, Step, NEW f \in Fibers, req[f].sn > 0, OwnNumber(f), Fresh(f)'
    PROVE  Fresh(f)
<1>1. ~Starts(f)
  <2>1. Starts(f) => req[f].pc = "idle"
    BY DEF Starts, NewStreamStep
  <2> QED  BY <2>1 DEF Requests, Life
<1>2. CASE RequestStep(f)
  BY <1>2 DEF RequestStep, Fresh
<1>3. CASE Lasts(f) /\ ~RequestStep(f)
  <2>1. CASE req'[f].pc = "numbered"
    BY <1>3, <2>1 DEF Lasts, Fresh
  <2>2. CASE Asks(queue', f)
    BY <1>3, <2>2, QueueAsks DEF QueueDoes, Fresh
  <2>3. CASE Has(toSrv', Traffic, req'[f].sn)
    <3>1. PICK id : id = req[f].sn /\ id = req'[f].sn
      BY <1>3 DEF Lasts
    <3>2. CASE CliWriteStep /\ \E g \in Fibers : HeadAsks(g) /\ req[g].sn = id
      <4>1. HeadAsks(f)
        BY <3>1, <3>2 DEF OwnNumber
      <4> QED  BY <3>2, <4>1, QueueAsks DEF QueueDoes, Fresh
    <3> QED  BY <2>3, <3>1, <3>2, ToSrvGrows DEF Fresh
  <2> QED  BY <2>1, <2>2, <2>3 DEF Fresh
<1> QED  BY <1>1, <1>2, <1>3, ReqCases

\* The cap falls only when DATA is taken.
LEMMA CapGrows ==
    ASSUME RouteInv, Caps, Step, NEW f \in Fibers, req[f].sn > 0, OwnNumber(f), req'[f].sn = req[f].sn,
           ~ReconnectStep,
           \A x \in FrameRec : SrvReadStep(x) /\ SrvAcceptDoes(x, Target(x)) /\ x.id = req[f].sn => x.t # "DATA"
    PROVE  Cap(f) <= Cap(f)'
<1>a. TypeOK /\ Led /\ Requests /\ Played /\ Ways
  BY DEF RouteInv, BaseInv
<1>0. PICK id \in Int : id = req[f].sn /\ id = req'[f].sn /\ id > 0
  BY <1>a, Zenon DEF TypeOK, ReqRec
<1>1. Fresh(f)' => Fresh(f)
  BY <1>a, FreshStep
<1>2. /\ MAX_WINDOW \in Int /\ CLIENT_WINDOW \in Int /\ CLIENT_WINDOW <= MAX_WINDOW
      /\ Cap(f) \in Int /\ Cap(f) <= MAX_WINDOW
  BY <1>a, Windows, CapType
<1>3. ASSUME id \in DOMAIN srv'.streams <=> id \in DOMAIN srv.streams,
             id \in DOMAIN srv.streams => srv'.streams[id].recv = srv.streams[id].recv
      PROVE  Cap(f) <= Cap(f)'
  <2>1. CASE id \in DOMAIN srv.streams
    BY <1>0, <1>2, <1>3, <2>1 DEF Cap
  <2>2. CASE id \notin DOMAIN srv.streams
    <3>1. /\ Cap(f) = IF Fresh(f) THEN CLIENT_WINDOW ELSE MAX_WINDOW
          /\ Cap(f)' = IF Fresh(f)' THEN CLIENT_WINDOW ELSE MAX_WINDOW
      BY <1>0, <1>3, <2>2 DEF Cap
    <3> QED  BY <1>1, <1>2, <3>1
  <2> QED  BY <2>1, <2>2
<1>4. CASE srv' = srv
  BY <1>3, <1>4
<1>5. ASSUME NEW x \in FrameRec, SrvReadStep(x) PROVE Cap(f) <= Cap(f)'
  <2>1. CASE SrvWindowDoes(x)
    BY <1>3, <2>1, Zenon DEF SrvWindowDoes, OnlySend, Alike
  <2>2. CASE SrvRefuseDoes(x)
    BY <1>4, <2>2 DEF SrvRefuseDoes
  <2>3. CASE SrvAcceptDoes(x, Target(x)) /\ x.id # id
    BY <1>3, <2>3 DEF SrvAcceptDoes
  <2>4. CASE SrvAcceptDoes(x, Target(x)) /\ x.id = id
    <3>1. x.t # "DATA"
      BY <1>0, <1>5, <2>4
    <3>2. PICK t : t = Fed(Target(x), x, srv.recvTable) /\ Handed(t, srv'.streams[id])
      BY <2>4 DEF SrvAcceptDoes
    <3>3. srv'.streams[id].recv = Target(x).recv /\ id \in DOMAIN srv'.streams
      BY <2>4, <3>1, <3>2 DEF Fed, Handed, SrvAcceptDoes
    <3>4. CASE id \in DOMAIN srv.streams
      BY <1>3, <2>4, <3>3, <3>4 DEF Target
    <3>5. CASE id \notin DOMAIN srv.streams
      <4>1. Has(toSrv, Traffic, id)
        BY <1>a, <1>5, <2>4, SrvReadHead DEF SrvAcceptDoes
      <4>2. Cap(f) = CLIENT_WINDOW
        BY <1>0, <3>5, <4>1 DEF Cap, Fresh
      <4>3. Target(x).recv = CLIENT_WINDOW
        BY <2>4, <3>5 DEF Target, Stream
      <4>4. Cap(f)' = CLIENT_WINDOW
        BY <1>0, <3>3, <4>3 DEF Cap
      <4> QED  BY <1>2, <4>2, <4>4
    <3> QED  BY <3>4, <3>5
  <2> QED  BY <1>5, <2>1, <2>2, <2>3, <2>4 DEF SrvReadStep
<1>6. ASSUME NEW k \in DOMAIN srv.streams, NEW s \in StreamRec, RespondStep(k, s) PROVE Cap(f) <= Cap(f)'
  BY <1>3, <1>6, Zenon DEF RespondStep, RespondDoes, Marked
<1>7. ASSUME NEW k \in DOMAIN srv.streams, NEW s \in StreamRec, SrvDoneStep(k, s) PROVE Cap(f) <= Cap(f)'
  <2>1. CASE k # id
    BY <1>3, <1>7, <2>1 DEF SrvDoneStep, SrvDoneDoes, Alike
  <2>2. CASE k = id
    <3>1. id \in DOMAIN srv.streams /\ srv.streams[id].handled = "responded" /\ id \notin DOMAIN srv'.streams
      BY <1>7, <2>2 DEF SrvDoneStep, SrvDoneDoes
    <3>2. ~Fresh(f)
      <4>1. InPlay(id)
        BY <3>1 DEF InPlay
      <4>2. ~Asks(queue, f) /\ req[f].pc # "numbered"
        BY <1>a, <1>0, <4>1, NotWritten DEF Began
      <4>3. ~Has(toSrv, Traffic, id)
        BY <1>a, <1>0, <3>1 DEF Ways, Way
      <4> QED  BY <1>0, <4>2, <4>3 DEF Fresh
    <3>3. Cap(f)' = MAX_WINDOW
      BY <1>0, <1>1, <3>1, <3>2 DEF Cap
    <3> QED  BY <1>2, <3>3
  <2> QED  BY <2>1, <2>2
<1> QED  BY <1>4, <1>5, <1>6, <1>7, ServerCases DEF ServletStep

\* Nor does it fall while the server rests.
LEMMA CapKept ==
    ASSUME TypeOK, Led, Requests, Caps, Step, NEW f \in Fibers, req[f].sn > 0, OwnNumber(f), req'[f].sn = req[f].sn,
           srv' = srv
    PROVE  Cap(f) <= Cap(f)'
<1>1. Fresh(f)' => Fresh(f)
  BY FreshStep
<1>2. /\ MAX_WINDOW \in Int /\ CLIENT_WINDOW \in Int /\ CLIENT_WINDOW <= MAX_WINDOW
      /\ Cap(f) \in Int /\ Cap(f) <= MAX_WINDOW
  BY Windows, CapType
<1>3. CASE req[f].sn \in DOMAIN srv.streams
  BY <1>2, <1>3 DEF Cap
<1>4. CASE req[f].sn \notin DOMAIN srv.streams
  <2>1. /\ Cap(f) = IF Fresh(f) THEN CLIENT_WINDOW ELSE MAX_WINDOW
        /\ Cap(f)' = IF Fresh(f)' THEN CLIENT_WINDOW ELSE MAX_WINDOW
    BY <1>4 DEF Cap
  <2> QED  BY <1>1, <1>2, <2>1
<1> QED  BY <1>3, <1>4

\* A request that has just got its number.
LEMMA LaneStarts ==
    ASSUME RouteInv, Caps, Charged, Credited, Step, NEW f \in Fibers, Starts(f), OwnsNow(f), ~InPlay(req'[f].sn)
    PROVE  LaneAt(f, req[f].sn)'
<1>a. TypeOK /\ Led /\ Requests /\ Played
  BY DEF RouteInv, BaseInv
<1>1. PICK header \in Headers, body \in {0, 1} : NewStreamStep(f, header, body)
  BY DEF Starts
<1>2. PICK id \in Int : id = req'[f].sn /\ id # 0
  <2>1. req'[f].sn \in Int /\ req'[f].sn > 0
    BY <1>1 DEF NewStreamStep, NewStreamDoes, OwnsNow
  <2> QED  BY <2>1
<1>3. /\ cli'.streams[id] = Stream(CLIENT_WINDOW, DEFAULT_WINDOW, f) /\ toCli' = toCli /\ toSrv' = toSrv
      /\ srv' = srv /\ req'[f].pc = "numbered" /\ req[f].pc = "idle" /\ cli'.pending = cli.pending
      /\ \A g \in Fibers : g # f => req'[g] = req[g]
  BY <1>1, <1>2 DEF NewStreamStep, NewStreamDoes, WireKept, ServerKept, OthersKept
<1>4. PICK p \in Seq(FrameRec), q \in Seq(FrameRec) : p = toCli /\ q = toSrv
  BY <1>a, Zenon DEF TypeOK
<1>5. Weighs(toCli', "WINDOW_UPDATE", {id}, 0)
  <2>1. ~Has(toCli, {"WINDOW_UPDATE"}, id)
    <3> SUFFICES ASSUME Has(toCli, {"WINDOW_UPDATE"}, id) PROVE FALSE
      OBVIOUS
    <3>1. PICK g \in Fibers : req[g].sn = id /\ Began(g)
      BY <1>2 DEF Credited, Owner
    <3>2. g # f
      BY <1>3, <3>1 DEF Began
    <3> QED  BY <1>2, <1>3, <3>1, <3>2 DEF OwnsNow
  <2>2. \A x \in Range(p) : ~(x.t = "WINDOW_UPDATE" /\ x.id \in {id})
    BY <1>4, <2>1 DEF Has, Is
  <2> QED  BY <1>3, <1>4, <2>2, WeighsNone
<1>6. Weighs(toSrv', "DATA", {id}, 0)
  <2>1. ~Has(toSrv, Traffic, id)
    BY <1>2 DEF InPlay
  <2>2. \A x \in Range(q) : ~(x.t = "DATA" /\ x.id \in {id})
    BY <1>4, <2>1 DEF Has, Is, Traffic
  <2> QED  BY <1>3, <1>4, <2>2, WeighsNone
<1>7. cli'.streams[id].send = CLIENT_WINDOW
  BY <1>3 DEF Stream
<1>8. LaneUncharged(f)' = 0
  BY <1>3, Http2Assumption DEF LaneUncharged, Charged, Began
<1>9. Cap(f)' = CLIENT_WINDOW
  <2>1. id \notin DOMAIN srv'.streams
    BY <1>2, <1>3 DEF InPlay
  <2> QED  BY <1>2, <1>3, <2>1 DEF Cap, Fresh
<1>10. cli'.streams[id].send + 0 + 0 - LaneUncharged(f)' <= Cap(f)' /\ 0 \in Nat
  BY <1>7, <1>8, <1>9, Windows
<1> QED  BY <1>2, <1>5, <1>6, <1>10 DEF LaneAt

\* A request that had its number before.
LEMMA LaneStep ==
    ASSUME RouteInv, Objects, Positive, Caps, Charged, Step, NEW f \in Fibers, req[f].sn > 0, OwnNumber(f),
           req'[f].sn = req[f].sn, SameObject(req[f].sn), LaneAt(f, req[f].sn),
           OwnsNow(f), req[f].sn \in DOMAIN cli'.streams
    PROVE  LaneAt(f, req[f].sn)'
<1>a. TypeOK /\ HeldOk /\ Led /\ Requests /\ Played
  BY DEF RouteInv, BaseInv
<1>0. PICK id \in Int : id = req[f].sn /\ id = req'[f].sn /\ id > 0 /\ id # 0
  <2>1. req[f].sn \in Int
    BY <1>a, Zenon DEF TypeOK, ReqRec
  <2>2. req[f].sn # 0
    BY <2>1
  <2> QED  BY <2>1, <2>2
<1>1. PICK c \in Nat, d \in Nat :
         /\ Weighs(toCli, "WINDOW_UPDATE", {id}, c) /\ Weighs(toSrv, "DATA", {id}, d)
         /\ cli.streams[id].send + c + d - LaneUncharged(f) <= Cap(f)
  BY <1>0 DEF LaneAt
<1>2. PICK p \in Seq(FrameRec), q \in Seq(FrameRec) : p = toCli /\ q = toSrv
  BY <1>a, Zenon DEF TypeOK
<1>3. PICK S \in Int, P \in {0, 1}, K \in Int :
         /\ S = cli.streams[id].send /\ P = LaneUncharged(f) /\ K = Cap(f) /\ S + c + d - P <= K
         /\ cli.streams[id].of = f /\ id \in DOMAIN cli.streams
  <2>1. id \in DOMAIN cli.streams
    BY <1>0 DEF SameObject
  <2>2. cli.streams[id].send \in Int /\ LaneUncharged(f) \in {0, 1} /\ Cap(f) \in Int
    BY <1>a, <2>1, StreamAt, CapType DEF StreamRec, LaneUncharged
  <2>3. cli.streams[id].of = f
    BY <1>0, <2>1 DEF Objects, OwnNumber
  <2> QED  BY <1>1, <2>1, <2>2, <2>3, Zenon
<1>4. PICK K2 \in Int :
         /\ K2 = Cap(f)' /\ (srv' = srv => K <= K2)
         /\ ReconnectStep \/ K <= K2 \/ \E x \in FrameRec :
               SrvReadStep(x) /\ SrvAcceptDoes(x, Target(x)) /\ x.id = id /\ x.t = "DATA"
  <2>1. TypeOK'
    BY <1>a, TypeStep
  <2>2. Cap(f)' \in Int
    <3>1. ASSUME id \in DOMAIN srv'.streams PROVE srv'.streams[id].recv \in Int
      <4>1. PICK m \in Map(StreamRec) : m = srv'.streams
        BY <2>1, Zenon DEF TypeOK, SrvRec
      <4>2. m[id] \in StreamRec
        BY <3>1, <4>1, MapFacts
      <4> QED  BY <4>1, <4>2 DEF StreamRec
    <3> QED  BY <1>0, <3>1, Windows DEF Cap
  <2>3. srv' = srv => K <= Cap(f)'
    BY <1>a, <1>3, CapKept
  <2>4. ReconnectStep \/ K <= Cap(f)' \/ \E x \in FrameRec :
           SrvReadStep(x) /\ SrvAcceptDoes(x, Target(x)) /\ x.id = id /\ x.t = "DATA"
    BY <1>0, <1>3, CapGrows
  <2> QED  BY <2>2, <2>3, <2>4
\* The entries move, and the sum with them.
<1>5. ASSUME NEW c2 \in Nat, NEW d2 \in Nat, NEW S2 \in Int, NEW P2 \in {0, 1},
             Weighs(toCli', "WINDOW_UPDATE", {id}, c2), Weighs(toSrv', "DATA", {id}, d2),
             S2 = cli'.streams[id].send, P2 = LaneUncharged(f)', S2 + c2 + d2 - P2 <= K2
      PROVE  LaneAt(f, req[f].sn)'
  <2>1. cli'.streams[id].send + c2 + d2 - LaneUncharged(f)' <= Cap(f)'
    BY <1>4, <1>5
  <2> QED  BY <1>0, <1>5, <2>1 DEF LaneAt
\* The stream keeps its window.
<1>6. ASSUME NEW c2 \in Nat, NEW d2 \in Nat,
             Weighs(toCli', "WINDOW_UPDATE", {id}, c2), Weighs(toSrv', "DATA", {id}, d2),
             cli'.streams[id].send = S, cli'.pending = cli.pending, c2 + d2 <= c + d, K <= K2
      PROVE  LaneAt(f, req[f].sn)'
  <2>1. P = LaneUncharged(f)'
    BY <1>3, <1>6 DEF LaneUncharged
  <2>2. S + c2 + d2 - P <= K2
    <3>1. S + c + d - P <= K
      BY <1>3
    <3> QED  BY <1>6, <3>1
  <2> QED  BY <1>5, <1>6, <2>1, <2>2, Zenon
<1>7. ObjectDoes(id)
  BY <1>a, <1>0, ObjectCases
<1>8. CASE CliChargeStep
  <2>1. /\ toCli' = toCli /\ toSrv' = toSrv /\ cli'.pending = None /\ srv' = srv
        /\ \E k \in Fibers : cli.pending = k /\ OnlySend(cli, cli', IF "cli" \in adding THEN 0 ELSE -1, req[k].sn,
              IF req[k].sn \in DOMAIN cli.streams /\ cli.streams[req[k].sn].of = k THEN -1 ELSE 0)
    BY <1>8 DEF CliChargeStep, CliChargeDoes, WireKept, ServerKept
  <2>2. K <= K2
    BY <1>4, <2>1
  <2>3. PICK k \in Fibers : cli.pending = k /\ OnlySend(cli, cli', IF "cli" \in adding THEN 0 ELSE -1, req[k].sn,
              IF req[k].sn \in DOMAIN cli.streams /\ cli.streams[req[k].sn].of = k THEN -1 ELSE 0)
    BY <2>1
  <2>4. k = f \/ req[k].sn # id
    BY <1>0 DEF OwnNumber
  <2>5. LaneUncharged(f)' = 0
    BY <2>1, Http2Assumption DEF LaneUncharged
  <2>6. P = (IF k = f THEN 1 ELSE 0) /\ cli'.streams[id].send = S + IF k = f THEN -1 ELSE 0
    <3>1. CASE k = f
      BY <1>0, <1>3, <2>3, <3>1, Zenon DEF LaneUncharged, OnlySend
    <3>2. CASE k # f
      BY <1>0, <1>3, <2>3, <2>4, <3>2, Zenon DEF LaneUncharged, OnlySend
    <3> QED  BY <3>1, <3>2
  <2>7. PICK S2 \in Int : S2 = S - P /\ S2 = cli'.streams[id].send
    BY <2>6
  <2>8. S2 + c + d - 0 <= K2
    <3>1. S + c + d - P <= K
      BY <1>3
    <3> QED  BY <2>2, <2>7, <3>1
  <2> QED  BY <1>1, <1>5, <2>1, <2>5, <2>7, <2>8, Zenon
<1>9. CASE ReconnectStep
  <2>1. /\ cli'.pending = None /\ toCli' = <<>> /\ toSrv' = <<>> /\ queue' = <<>> /\ DOMAIN srv'.streams = {}
        /\ cli'.streams[id].send = S
    BY <1>3, <1>9 DEF ReconnectStep, ReconnectDoes, Cleared
  <2>2. Weighs(toCli', "WINDOW_UPDATE", {id}, 0) /\ Weighs(toSrv', "DATA", {id}, 0) /\ 0 \in Nat /\ 0 \in {0, 1}
    BY <2>1, WeighsEmpty
  <2>3. LaneUncharged(f)' = 0
    BY <2>1, Http2Assumption DEF LaneUncharged
  <2>4. Fresh(f)' => req'[f].pc = "numbered"
    BY <2>1, RangeEmpty DEF Fresh, Asks, Has
  <2>5. K2 = IF Fresh(f)' THEN CLIENT_WINDOW ELSE MAX_WINDOW
    BY <1>4, <2>1 DEF Cap
  <2>6. S <= K2
    <3>1. CASE ~Fresh(f)'
      BY <1>3, <2>5, <3>1 DEF Caps
    <3>2. CASE Fresh(f)'
      <4>1. req[f].pc = "numbered"
        BY <1>9, <2>4, <3>2 DEF ReconnectStep, ReconnectDoes, Answered
      <4>2. ~InPlay(id)
        BY <1>a, <1>0, <4>1, NotWritten DEF Began
      <4>3. K = CLIENT_WINDOW
        BY <1>0, <1>3, <4>1, <4>2 DEF Cap, Fresh, InPlay
      <4>4. P = 0
        BY <1>3, <4>1, Http2Assumption, Zenon DEF LaneUncharged, Charged, Began
      <4>5. K2 = K /\ S + c + d - P <= K
        BY <1>3, <2>5, <3>2, <4>3
      <4> QED  BY <4>4, <4>5
    <3> QED  BY <3>1, <3>2
  <2>7. S + 0 + 0 - 0 <= K2
    BY <2>6
  <2> QED  BY <1>5, <2>1, <2>2, <2>3, <2>7
<1>10. ASSUME NEW x \in FrameRec, CliReadStep(x), x.t = "WINDOW_UPDATE" PROVE LaneAt(f, req[f].sn)'
  <2>1. /\ p # <<>> /\ x = Head(p) /\ toCli' = Tail(p) /\ toSrv' = toSrv /\ srv' = srv /\ cli'.pending = cli.pending
        /\ OnlySend(cli, cli', Granted(cli, x, 0), x.id, IF x.id = 0 THEN 0 ELSE Granted(cli, x, x.id))
    BY <1>2, <1>10, Zenon DEF CliReadStep, CliReadDoes, ServerKept
  <2>2. K <= K2
    BY <1>4, <2>1
  <2>3. PICK w \in Nat, r \in Nat :
           w = Weight(x, "WINDOW_UPDATE", {id}) /\ c = w + r /\ Weighs(Tail(p), "WINDOW_UPDATE", {id}, r)
    BY <1>1, <1>2, <2>1, WeighsTail, Zenon
  <2>4. PICK g \in Int : cli'.streams[id].send = S + g /\ g <= w
    <3>1. x.n \in Int
      BY DEF FrameRec
    <3>2. CASE x.id = id
      <4>1. w = x.n
        BY <1>10, <2>3, <3>2 DEF Weight
      <4>2. cli'.streams[id].send = S + Granted(cli, x, x.id)
        BY <1>0, <1>3, <2>1, <3>2, Zenon DEF OnlySend
      <4>3. Granted(cli, x, x.id) \in Int /\ Granted(cli, x, x.id) <= w
        BY <3>1, <4>1 DEF Granted
      <4> QED  BY <4>2, <4>3, Zenon
    <3>3. CASE x.id # id
      <4>1. cli'.streams[id].send = S + 0
        BY <1>3, <2>1, <3>3, Zenon DEF OnlySend
      <4> QED  BY <4>1
    <3> QED  BY <3>2, <3>3
  <2>5. PICK S2 \in Int : S2 = S + g /\ S2 = cli'.streams[id].send
    BY <2>4
  <2>6. S2 + r + d - P <= K2
    <3>1. S + c + d - P <= K /\ g <= w /\ c = w + r
      BY <1>3, <2>3, <2>4
    <3> QED  BY <2>2, <2>5, <3>1
  <2>7. P = LaneUncharged(f)'
    BY <1>3, <2>1 DEF LaneUncharged
  <2>8. Weighs(toCli', "WINDOW_UPDATE", {id}, r) /\ Weighs(toSrv', "DATA", {id}, d)
    BY <1>1, <2>1, <2>3
  <2> QED  BY <1>5, <2>5, <2>6, <2>7, <2>8, Zenon
\* The client takes a frame that is no credit.
<1>11. ASSUME NEW x \in FrameRec, p # <<>>, x = Head(p), x.t # "WINDOW_UPDATE", toCli' = Tail(p), toSrv' = toSrv,
              srv' = srv, cli'.streams[id].send = S, cli'.pending = cli.pending
       PROVE  LaneAt(f, req[f].sn)'
  <2>1. Weighs(toCli', "WINDOW_UPDATE", {id}, c)
    BY <1>1, <1>2, <1>11, WeighsSkip
  <2>2. K <= K2 /\ c + d <= c + d
    BY <1>4, <1>11
  <2> QED  BY <1>1, <1>6, <1>11, <2>1, <2>2, Zenon
\* Nothing that counts has changed.
<1>12. ASSUME toCli' = toCli, toSrv' = toSrv, cli'.streams[id].send = S, cli'.pending = cli.pending, K <= K2
       PROVE  LaneAt(f, req[f].sn)'
  <2>1. c + d <= c + d
    OBVIOUS
  <2> QED  BY <1>1, <1>6, <1>12, <2>1, Zenon
<1>13. ASSUME NEW g \in Fibers, FiberStep(g) PROVE LaneAt(f, req[f].sn)'
  <2>1. /\ toCli' = toCli /\ toSrv' = toSrv /\ cli'.pending = cli.pending /\ srv' = srv
    BY <1>13 DEF FiberStep, NewStreamStep, NewStreamDoes, RequestStep, RequestDoes, DueStep, OnTimeOutStep,
                OnTimeOutDoes, WireKept, ServerKept
  <2>2. cli'.streams[id].send = S
    <3>1. CASE Starts(g)
      <4>1. req[g].pc = "idle" /\ req[g].sn = 0 /\ req'[g].sn = cli.sn + 2
            /\ \A k \in DOMAIN cli.streams : k # cli.sn + 2 => cli'.streams[k] = cli.streams[k]
        BY <1>a, <3>1 DEF Starts, NewStreamStep, NewStreamDoes, Requests, Life
      <4>2. g # f
        BY <1>0, <4>1
      <4>3. req'[g].sn # id
        BY <1>0, <4>2 DEF OwnsNow
      <4> QED  BY <1>3, <4>1, <4>3
    <3>2. CASE ~Starts(g)
      <4>1. cli'.streams = cli.streams \/ OnTimeOutStep(g)
        BY <1>13, <3>2 DEF FiberStep, Starts, RequestStep, RequestDoes, DueStep
      <4>2. CASE OnTimeOutStep(g)
        BY <1>0, <1>3, <4>2, Zenon DEF OnTimeOutStep, OnTimeOutDoes
      <4> QED  BY <1>3, <4>1, <4>2
    <3> QED  BY <3>1, <3>2
  <2> QED  BY <1>4, <1>12, <2>1, <2>2
<1>14. CASE CliWriteStep
  <2>1. PICK r \in Seq(FrameRec) : toSrv' = q \o r /\ WriterDoes(r)
    BY <1>a, <1>2, <1>14, WriterAdds, Zenon DEF SrvFed
  <2>2. toCli' = toCli /\ srv' = srv /\ cli.pending = None
    BY <1>14 DEF CliWriteStep, ServerKept
  <2>0. K <= K2 /\ c + d <= c + d
    BY <1>4, <2>2
  <2>3. ASSUME Weighs(r, "DATA", {id}, 0), cli' = cli PROVE LaneAt(f, req[f].sn)'
    <3>1. Weighs(toSrv', "DATA", {id}, d)
      BY <1>1, <1>2, <2>1, <2>3, WeighsFed
    <3> QED  BY <1>1, <1>3, <1>6, <2>0, <2>2, <2>3, <3>1, Zenon
  <2>4. CASE OnlyUpdates(r) /\ cli' = cli
    <3>1. \A x \in Range(r) : ~(x.t = "DATA" /\ x.id \in {id})
      BY <2>4 DEF OnlyUpdates
    <3>2. Weighs(r, "DATA", {id}, 0)
      BY <3>1, WeighsNone
    <3> QED  BY <2>3, <2>4, <3>2
  <2>5. CASE r = <<>> /\ cli' = cli
    BY <2>3, <2>5, WeighsEmpty
  <2>6. ASSUME NEW g \in Fibers, AskWritten(g, r) PROVE LaneAt(f, req[f].sn)'
    <3>1. PICK none, k : none \in BOOLEAN /\ none = (req[g].body = 0) /\ k = req[g].sn
      BY <1>a, Zenon DEF TypeOK, ReqRec
    <3>2. PICK block : IsMessage(r, k, block, none)
      BY <2>6, <3>1 DEF AskWritten
    <3>3. PICK a \in {0, 1} : a = (IF none \/ k # id THEN 0 ELSE 1) /\ Weighs(r, "DATA", {id}, a)
      <4>1. Weighs(r, "DATA", {id}, IF none \/ k \notin {id} THEN 0 ELSE 1)
        BY <3>1, <3>2, MessageWeighs, Zenon
      <4>2. (IF none \/ k \notin {id} THEN 0 ELSE 1) = IF none \/ k # id THEN 0 ELSE 1
        OBVIOUS
      <4> QED  BY <4>1, <4>2
    <3>4. Weighs(toSrv', "DATA", {id}, d + a)
      BY <1>1, <1>2, <2>1, <3>3, WeighsCat, Zenon
    <3>5. cli'.streams[id].send = S /\ cli'.pending = IF none THEN None ELSE g
      BY <1>3, <2>6, <3>1, Zenon DEF AskWritten, WroteRequest
    <3>6. None # f /\ (k = id <=> g = f)
      BY <1>0, <3>1, Http2Assumption DEF OwnNumber
    <3>7. LaneUncharged(f)' = a /\ P = 0
      BY <1>3, <2>2, <3>3, <3>5, <3>6 DEF LaneUncharged
    <3>8. d + a \in Nat /\ S + c + (d + a) - a <= K2
      <4>1. S + c + d - 0 <= K
        BY <1>3, <3>7
      <4> QED  BY <2>0, <3>3, <4>1
    <3> QED  BY <1>1, <1>5, <2>2, <3>3, <3>4, <3>5, <3>7, <3>8, Zenon
  <2> QED  BY <2>1, <2>4, <2>5, <2>6 DEF WriterDoes, AskDropped
<1>15. ASSUME NEW x \in FrameRec, CliReadStep(x) PROVE LaneAt(f, req[f].sn)'
  <2>1. CASE x.t # "WINDOW_UPDATE"
    <3>1. /\ p # <<>> /\ x = Head(p) /\ toSrv' = toSrv /\ srv' = srv /\ cli'.streams = cli.streams
          /\ cli'.pending = cli.pending /\ (toCli' = toCli \/ toCli' = Tail(p))
      BY <1>2, <1>15, <2>1, Zenon DEF CliReadStep, CliReadDoes, ServerKept
    <3> QED  BY <1>3, <1>4, <1>11, <1>12, <2>1, <3>1
  <2> QED  BY <1>10, <1>15, <2>1
<1>16. ASSUME NEW x \in FrameRec, CliHandleDeletedStep(x) PROVE LaneAt(f, req[f].sn)'
  BY <1>2, <1>3, <1>11, <1>16 DEF CliHandleDeletedStep, CliHandleDeletedDoes, ServerKept
<1>17. ASSUME NEW x \in FrameRec, NEW s \in StreamRec, CliHandleStep(x, s) PROVE LaneAt(f, req[f].sn)'
  <2>0. PICK s2 : s2 = Fed(s, x, cli.recvTable)
    OBVIOUS
  <2>1. s2 = Fed(s, x, cli.recvTable) /\ s2.send = s.send
    BY <2>0 DEF Fed
  <2>2. /\ CliHandleDoes(x, s, s2) /\ p # <<>> /\ x = Head(p) /\ x.t # "WINDOW_UPDATE"
        /\ toSrv' = toSrv /\ srv' = srv /\ s = cli.streams[x.id]
    BY <1>2, <1>17, <2>1 DEF CliHandleStep, ServerKept
  <2>3. toCli' = Tail(p) /\ cli'.pending = cli.pending /\ cli'.streams[id].send = S
    BY <1>0, <1>2, <1>3, <2>1, <2>2, Zenon DEF CliHandleDoes
  <2> QED  BY <1>11, <2>2, <2>3
<1>18. ASSUME NEW x \in FrameRec, SrvReadStep(x) PROVE LaneAt(f, req[f].sn)'
  <2>1. q # <<>> /\ x = Head(q) /\ toSrv' = Tail(q) /\ cli' = cli /\ connects' = connects
    BY <1>2, <1>18 DEF SrvReadStep, ClientKept
  <2>2. cli'.streams[id].send = S /\ cli'.pending = cli.pending
    BY <1>3, <2>1
  <2>3. K <= K2 \/ (SrvAcceptDoes(x, Target(x)) /\ x.id = id /\ x.t = "DATA")
    <3>1. connects \in Nat
      BY <1>a, Zenon DEF TypeOK
    <3>2. ~ReconnectStep
      BY <2>1, <3>1 DEF ReconnectStep, ReconnectDoes
    <3>3. \A y : SrvReadStep(y) => y = x
      BY <1>2, <2>1 DEF SrvReadStep
    <3> QED  BY <1>4, <3>2, <3>3
  <2>4. PICK w \in Nat, r \in Nat : w = Weight(x, "DATA", {id}) /\ d = w + r /\ Weighs(toSrv', "DATA", {id}, r)
    BY <1>1, <1>2, <2>1, WeighsTail, Zenon
  <2>5. c + r <= c + d
    BY <2>4
  <2>6. CASE K <= K2 /\ Weighs(toCli', "WINDOW_UPDATE", {id}, c)
    BY <1>1, <1>6, <2>2, <2>4, <2>5, <2>6, Zenon
  <2>7. CASE SrvWindowDoes(x)
    BY <1>1, <2>3, <2>6, <2>7, Zenon DEF SrvWindowDoes
  <2>8. CASE SrvRefuseDoes(x)
    <3>1. PICK y \in FrameRec : y.t = "RST_STREAM" /\ toCli' = Append(p, y)
      BY <1>2, <2>8 DEF SrvRefuseDoes, IsFrame
    <3>2. PICK o \in Seq(FrameRec) : o = <<y>> /\ Append(p, y) = p \o o
      BY AppendCat, Zenon
    <3>3. Range(o) = {y}
      BY <3>2, RangeOne
    <3>4. Weighs(o, "WINDOW_UPDATE", {id}, 0)
      BY <3>1, <3>3, WeighsNone
    <3>5. Weighs(toCli', "WINDOW_UPDATE", {id}, c)
      BY <1>1, <1>2, <3>1, <3>2, <3>4, WeighsFed, Zenon
    <3>6. srv' = srv
      BY <2>8 DEF SrvRefuseDoes
    <3> QED  BY <1>4, <2>6, <3>5, <3>6
  <2>9. CASE SrvAcceptDoes(x, Target(x)) /\ x.t # "DATA"
    <3>1. toCli' = toCli
      BY <2>9 DEF SrvAcceptDoes
    <3> QED  BY <1>1, <2>3, <2>6, <2>9, <3>1
  <2>10. CASE SrvAcceptDoes(x, Target(x)) /\ x.t = "DATA"
    <3>1. PICK n, m, o : Took(x, n, m, o)
      BY <1>a, <1>18, <2>10, SrvTakes
    <3>2. /\ n \in Nat /\ m \in Nat /\ o \in Seq(FrameRec) /\ o = Updates(0, n) \o Updates(x.id, m) /\ toCli' = p \o o
          /\ x.id \in Int /\ x.id # 0 /\ x.n \in Nat
      BY <1>2, <3>1 DEF Took
    <3>3. CASE x.id # id
      <4>1. Weighs(o, "WINDOW_UPDATE", {id}, 0)
        BY <1>0, <3>2, <3>3, OutWeighs, Zenon
      <4>2. Weighs(toCli', "WINDOW_UPDATE", {id}, c)
        BY <1>1, <1>2, <3>2, <4>1, WeighsFed, Zenon
      <4> QED  BY <2>3, <2>6, <3>3, <4>2
    <3>4. CASE x.id = id
      <4>1. Weighs(o, "WINDOW_UPDATE", {id}, m)
        BY <3>2, <3>4, OutWeighs, Zenon
      <4>2. Weighs(toCli', "WINDOW_UPDATE", {id}, c + m) /\ c + m \in Nat
        <5>1. Weighs(toCli', "WINDOW_UPDATE", {id}, c + m)
          BY <1>1, <1>2, <3>2, <4>1, WeighsCat, Zenon
        <5> QED  BY <3>2, <5>1
      <4>3. w = x.n
        BY <2>4, <2>10, <3>4 DEF Weight
      <4>4. K2 = (K - w) + m
        <5>1. id \in DOMAIN srv.streams /\ srv'.streams[id].recv = (srv.streams[id].recv - x.n) + m
          BY <3>1, <3>4 DEF Took
        <5>2. id \in DOMAIN srv'.streams
          BY <2>10, <3>4 DEF SrvAcceptDoes
        <5>3. K = srv.streams[id].recv /\ K2 = srv'.streams[id].recv
          BY <1>0, <1>3, <1>4, <5>1, <5>2 DEF Cap
        <5> QED  BY <4>3, <5>1, <5>3
      <4>5. S + (c + m) + r - P <= K2
        <5>1. S + c + d - P <= K /\ d = w + r
          BY <1>3, <2>4
        <5>2. PICK u \in Nat : u = m
          BY <3>2
        <5>3. S + c + r - P <= K - w
          BY <5>1
        <5>4. K2 = (K - w) + u
          BY <4>4, <5>2
        <5>5. S + (c + u) + r - P <= K2
          BY <5>3, <5>4, SMTT(30)
        <5> QED  BY <5>2, <5>5
      <4>6. P = LaneUncharged(f)'
        BY <1>3, <2>1 DEF LaneUncharged
      <4> QED  BY <1>5, <2>2, <2>4, <4>2, <4>5, <4>6, Zenon
    <3> QED  BY <3>3, <3>4
  <2> QED  BY <1>18, <2>7, <2>8, <2>9, <2>10 DEF SrvReadStep
<1>19. ASSUME NEW k \in DOMAIN srv.streams, NEW s \in StreamRec, ServletStep(k, s) PROVE LaneAt(f, req[f].sn)'
  <2>1. toSrv' = toSrv /\ cli' = cli /\ connects' = connects
    BY <1>19 DEF ServletStep, RespondStep, SrvDoneStep, WireKept, ClientKept
  <2>2. K <= K2
    <3>1. connects \in Nat
      BY <1>a, Zenon DEF TypeOK
    <3>2. ~ReconnectStep
      BY <2>1, <3>1 DEF ReconnectStep, ReconnectDoes
    <3>3. ASSUME NEW y \in FrameRec, SrvReadStep(y) PROVE FALSE
      <4>1. q = Tail(q) /\ q # <<>>
        BY <1>2, <2>1, <3>3 DEF SrvReadStep
      <4>2. Len(Tail(q)) = Len(q) - 1 /\ Len(q) \in Nat
        BY <4>1, HeadTail, Zenon
      <4>3. Len(q) = Len(q) - 1
        BY <4>1, <4>2, Zenon
      <4> QED  BY <4>2, <4>3
    <3> QED  BY <1>4, <3>2, <3>3
  <2>3. CASE RespondStep(k, s)
    <3>1. PICK r \in Seq(FrameRec) : toCli' = p \o r /\ Responds(k, s, r)
      BY <1>a, <1>2, <2>3, RespondAdds, Zenon DEF CliFed
    <3>2. PICK none : none = (s.body = 0)
      OBVIOUS
    <3>3. PICK block : none \in BOOLEAN /\ IsMessage(r, k, block, none)
      BY <3>1, <3>2 DEF Responds
    <3>4. Weighs(r, "WINDOW_UPDATE", {id}, 0)
      BY <3>3, MessageWeighs
    <3>5. Weighs(toCli', "WINDOW_UPDATE", {id}, c)
      BY <1>1, <1>2, <3>1, <3>4, WeighsFed
    <3>6. c + d <= c + d
      OBVIOUS
    <3> QED  BY <1>1, <1>3, <1>6, <2>1, <2>2, <3>5, <3>6, Zenon
  <2>4. CASE SrvDoneStep(k, s)
    <3>1. toCli' = toCli
      BY <2>4 DEF SrvDoneStep, WireKept
    <3> QED  BY <1>3, <1>12, <2>1, <2>2, <3>1
  <2> QED  BY <1>19, <2>3, <2>4 DEF ServletStep
<1>20. CASE Still
  <2>1. toCli' = toCli /\ toSrv' = toSrv /\ cli' = cli /\ srv' = srv
    BY <1>20 DEF Still
  <2> QED  BY <1>3, <1>4, <1>12, <2>1
<1> QED  BY <1>8, <1>9, <1>13, <1>14, <1>15, <1>16, <1>17, <1>18, <1>19, <1>20 DEF Step, ReaderStep

LEMMA LanesStep ==
    ASSUME RouteInv, Objects, Positive, Caps, Charged, Credited, Step, Lanes
    PROVE  Lanes'
<1>a. TypeOK /\ Requests /\ Played
  BY DEF RouteInv, BaseInv
<1> SUFFICES ASSUME NEW f \in Fibers, OwnsNow(f), req'[f].sn \in DOMAIN cli'.streams
             PROVE  LaneAt(f, req[f].sn)'
  BY DEF Lanes, OwnNumber, OwnsNow
<1>1. CASE Starts(f) /\ ~InPlay(req'[f].sn)
  BY <1>1, LaneStarts
<1>2. CASE ~Starts(f) /\ req'[f].sn = req[f].sn /\ req[f].sn > 0 /\ OwnNumber(f)
  <2>1. PICK id : id = req[f].sn /\ id \in DOMAIN cli'.streams
    BY <1>2
  <2>2. ObjectDoes(id)
    BY <1>a, <2>1, ObjectCases
  <2>3. SameObject(id)
    <3>1. ASSUME NEW g \in Fibers, Starts(g), id = req'[g].sn PROVE FALSE
      BY <1>2, <2>1, <3>1 DEF OwnsNow
    <3> QED  BY <2>2, <3>1 DEF ObjectDoes
  <2>4. LaneAt(f, req[f].sn)
    BY <1>2, <2>1, <2>3 DEF Lanes, SameObject
  <2> QED  BY <1>2, <2>1, <2>3, <2>4, LaneStep
<1>3. Starts(f) => req[f].sn = 0
  BY <1>a DEF Starts, NewStreamStep, Requests, Life
<1> QED  BY <1>a, <1>1, <1>2, <1>3, OwnBefore

LEMMA LostStep == ASSUME Step, ~lost' PROVE ~lost
  BY DEF Step, FiberStep, NewStreamStep, RequestStep, DueStep, OnTimeOutStep, CliWriteStep, CliChargeStep,
         ReaderStep, CliReadStep, CliHandleDeletedStep, SrvReadStep, SrvWindowDoes, SrvRefuseDoes, SrvAcceptDoes,
         ReconnectStep, CliHandleStep, ServletStep, RespondStep, SrvDoneStep, Still, Calm, Reads, Charges

LEMMA LedgerInit == Init => LedgerInv
<1> SUFFICES ASSUME Init PROVE LedgerInv
  OBVIOUS
<1>1. /\ toSrv = <<>> /\ toCli = <<>> /\ queue = <<>> /\ DOMAIN srv.streams = {} /\ DOMAIN cli.streams = {}
      /\ cli.send = DEFAULT_WINDOW /\ srv.recv = DEFAULT_WINDOW /\ srv.send = MAX_WINDOW /\ cli.recv = MAX_WINDOW
      /\ cli.pending = None /\ ~crashed
  BY DEF Init, Client, Server
<1>2. Objects /\ Positive /\ DataEnds /\ Charged /\ CrashEnds /\ Returned /\ Credited /\ Over /\ Lanes
  BY <1>1, RangeEmpty DEF Objects, Positive, DataEnds, Charged, CrashEnds, Returned, Returns, Credited, Over, Lanes, Has
<1>3. Caps
  BY <1>1, Windows DEF Caps
<1>4. ForthLedger
  <2>1. Weighs(toCli, "WINDOW_UPDATE", {0}, 0) /\ Weighs(toSrv, "DATA", Int, 0) /\ 0 \in Nat
    BY <1>1, WeighsEmpty
  <2>2. Balance(cli.send + 0 + 0 - Uncharged, srv.recv, Exact)
    BY <1>1, Windows DEF Balance, Uncharged
  <2> QED  BY <2>1, <2>2 DEF ForthLedger
<1>5. BackLedger
  <2>1. Owing = {}
    BY <1>1 DEF Owing
  <2>2. IsFiniteSet(Owing) /\ Cardinality(Owing) = 0
    BY <2>1, FS_EmptySet
  <2>3. /\ Weighs(queue, "WINDOW_UPDATE", {0}, 0) /\ Weighs(toSrv, "WINDOW_UPDATE", {0}, 0)
        /\ Weighs(toCli, "DATA", Int, 0) /\ 0 \in Nat
    BY <1>1, WeighsEmpty
  <2>4. Balance(srv.send + 0 + 0 + 0 - Cardinality(Owing), cli.recv, BackExact)
    BY <1>1, <2>2, Windows DEF Balance
  <2> QED  BY <2>2, <2>3, <2>4 DEF BackLedger
<1> QED  BY <1>2, <1>3, <1>4, <1>5, RouteInit DEF LedgerInv

LEMMA LedgerStep == LedgerInv /\ [Next]_vars => LedgerInv'
<1> SUFFICES ASSUME LedgerInv, [Next]_vars PROVE LedgerInv'
  OBVIOUS
<1> USE DEF LedgerInv
<1>1. RouteInv' /\ Step
  BY RouteStep, StepFacts DEF RouteInv
<1>2. TypeOK /\ HeldOk /\ Led /\ Requests /\ Played /\ Settled
  BY DEF RouteInv, BaseInv
<1>3. Objects' /\ Positive' /\ DataEnds' /\ Charged' /\ CrashEnds'
  BY <1>1, <1>2, ObjectsStep, PositiveStep, DataEndsStep, ChargedStep, CrashStep
<1>4. Returned' /\ Credited' /\ Over'
  BY <1>1, <1>2, ReturnedStep, CreditedStep, OverStep
<1>5. Caps' /\ Lanes'
  BY <1>1, <1>2, CapsStep, LanesStep
<1>6. ASSUME ~lost' PROVE ForthLedger' /\ BackLedger'
  <2>1. ForthLedger /\ BackLedger
    BY <1>1, <1>6, LostStep
  <2> QED  BY <1>1, <1>2, <1>6, <2>1, ForthStep, BackStep
<1> QED  BY <1>1, <1>3, <1>4, <1>5, <1>6

\* At rest the connection windows of the two ends agree: sendData and handleRecvData
\* charge them, handleRecvData refills them and handleWindowUpdate raises them so that
\* no unit is lost or counted twice, as long as doRecv dropped no frame, refused no
\* WINDOW_UPDATE, no number was used twice and no charge came between the load and the
\* store of a +=.
THEOREM WindowsCorrect == Spec => []WindowsAgree
<1>1. LedgerInv => WindowsAgree
  <2> SUFFICES ASSUME LedgerInv, Quiet, ~skipped, ~lost, "overflow" \notin goaways, OwnNumbers
               PROVE  cli.send = srv.recv /\ srv.send = cli.recv
    BY DEF WindowsAgree
  <2>1. /\ queue = <<>> /\ toSrv = <<>> /\ toCli = <<>> /\ cli.pending = None /\ ~crashed
        /\ \A id \in DOMAIN srv.streams : srv.streams[id].handled = "no"
    BY DEF Quiet
  <2>2. Exact /\ BackExact
    BY <2>1 DEF Exact, BackExact
  <2>3. cli.send \in Int /\ cli.recv \in Int /\ srv.send \in Int /\ srv.recv \in Int
    BY Zenon DEF LedgerInv, RouteInv, BaseInv, TypeOK, CliRec, SrvRec
  <2>4. cli.send = srv.recv
    <3>1. PICK c \in Nat, d \in Nat :
             /\ Weighs(<<>>, "WINDOW_UPDATE", {0}, c) /\ Weighs(<<>>, "DATA", Int, d)
             /\ Balance(cli.send + c + d - Uncharged, srv.recv, Exact)
      BY <2>1 DEF LedgerInv, ForthLedger
    <3>2. c = 0 /\ d = 0 /\ Uncharged = 0
      BY <2>1, <3>1, WeighsEmpty, Zenon DEF Uncharged
    <3>3. cli.send + 0 + 0 - 0 = srv.recv
      BY <2>2, <3>1, <3>2 DEF Balance
    <3> QED  BY <2>3, <3>3
  <2>5. srv.send = cli.recv
    <3>1. PICK c \in Nat, e \in Nat, d \in Nat :
             /\ Weighs(<<>>, "WINDOW_UPDATE", {0}, c) /\ Weighs(<<>>, "WINDOW_UPDATE", {0}, e)
             /\ Weighs(<<>>, "DATA", Int, d)
             /\ Balance(srv.send + c + e + d - Cardinality(Owing), cli.recv, BackExact)
      BY <2>1 DEF LedgerInv, BackLedger
    <3>2. Owing = {}
      BY <2>1 DEF Owing
    <3>3. c = 0 /\ d = 0 /\ e = 0 /\ Cardinality(Owing) = 0
      BY <3>1, <3>2, WeighsEmpty, FS_EmptySet, Zenon
    <3>4. srv.send + 0 + 0 + 0 - 0 = cli.recv
      BY <2>2, <3>1, <3>3 DEF Balance
    <3> QED  BY <2>3, <3>4
  <2> QED  BY <2>4, <2>5
<1> QED  BY <1>1, LedgerInit, LedgerStep, PTL DEF Spec

\* The client's handleWindowUpdate refuses no credit unless its writer has DATA that is
\* sent and not yet charged, or a number is used twice.
LEMMA CliRefusesNone ==
    ASSUME LedgerInv, ~lost, OwnNumbers, cli.pending = None, NEW x \in FrameRec, toCli # <<>>, x = Head(toCli),
           x.t = "WINDOW_UPDATE"
    PROVE  "overflow" \notin windowError(cli, x)
<1>a. TypeOK /\ Caps /\ Objects /\ Lanes /\ ForthLedger
  BY DEF LedgerInv, RouteInv, BaseInv
<1>1. PICK p \in Seq(FrameRec) : p = toCli /\ p # <<>> /\ x = Head(p)
  BY <1>a, Zenon DEF TypeOK
<1>2. x.n \in Int /\ x.id \in Int /\ MAX_WINDOW \in Int
  BY Windows DEF FrameRec
<1>3. CASE x.id = 0
  <2>1. PICK c \in Nat, d \in Nat :
           /\ Weighs(p, "WINDOW_UPDATE", {0}, c) /\ Balance(cli.send + c + d - Uncharged, srv.recv, Exact)
    BY <1>a, <1>1 DEF ForthLedger
  <2>2. PICK w \in Nat, r \in Nat : w = Weight(x, "WINDOW_UPDATE", {0}) /\ c = w + r
    BY <1>1, <2>1, WeighsTail
  <2>3. w = x.n
    BY <1>3, <2>2 DEF Weight
  <2>4. PICK S \in Int, R \in Int : S = cli.send /\ R = srv.recv /\ R <= MAX_WINDOW
    <3>1. cli.send \in Int /\ srv.recv \in Int
      BY <1>a, Zenon DEF TypeOK, CliRec, SrvRec
    <3> QED  BY <1>a, <3>1 DEF Caps
  <2>5. S + c + d - 0 <= R
    BY <2>1, <2>4 DEF Balance, Uncharged
  <2>6. ~(S + w > MAX_WINDOW)
    <3>1. PICK M \in Int : M = MAX_WINDOW
      BY <1>2
    <3>2. R <= M /\ S + (w + r) + d - 0 <= R
      BY <2>2, <2>4, <2>5, <3>1
    <3>3. ~(S + w > M)
      BY <3>2
    <3> QED  BY <3>1, <3>3
  <2>7. ~(cli.send + x.n > MAX_WINDOW)
    BY <2>3, <2>4, <2>6
  <2> QED  BY <1>3, <2>7 DEF windowError
<1>4. CASE x.id # 0 /\ x.id \in DOMAIN cli.streams
  <2>1. PICK id \in Int : id = x.id /\ id \in DOMAIN cli.streams /\ id > 0
    BY <1>a, <1>2, <1>4 DEF Objects
  <2>2. PICK g \in Fibers : req[g].sn = id
    BY <1>a, <2>1 DEF Objects
  <2>3. LaneAt(g, id)
    BY <1>a, <2>1, <2>2 DEF Lanes, OwnNumbers
  <2>4. PICK c \in Nat, d \in Nat :
           Weighs(p, "WINDOW_UPDATE", {id}, c) /\ cli.streams[id].send + c + d - LaneUncharged(g) <= Cap(g)
    BY <1>1, <2>3 DEF LaneAt
  <2>5. PICK w \in Nat, r \in Nat : w = Weight(x, "WINDOW_UPDATE", {id}) /\ c = w + r
    BY <1>1, <2>4, WeighsTail
  <2>6. w = x.n
    BY <2>1, <2>5 DEF Weight
  <2>7. PICK S \in Int, K \in Int : S = cli.streams[id].send /\ K = Cap(g) /\ K <= MAX_WINDOW
    <3>1. cli.streams[id].send \in Int
      BY <1>a, <2>1, StreamAt DEF StreamRec
    <3> QED  BY <1>a, <3>1, CapType
  <2>8. LaneUncharged(g) = 0
    BY Http2Assumption DEF LaneUncharged
  <2>9. S + c + d - 0 <= K
    BY <2>4, <2>7, <2>8
  <2>10. ~(S + w > MAX_WINDOW)
    <3>1. PICK M \in Int : M = MAX_WINDOW
      BY <1>2
    <3>2. K <= M /\ S + (w + r) + d - 0 <= K
      BY <2>5, <2>7, <2>9, <3>1
    <3>3. ~(S + w > M)
      BY <3>2
    <3> QED  BY <3>1, <3>3
  <2>11. ~(cli.streams[x.id].send + x.n > MAX_WINDOW)
    BY <2>1, <2>6, <2>7, <2>10
  <2> QED  BY <1>4, <2>11 DEF windowError, Exists
<1>5. CASE x.id # 0 /\ x.id \notin DOMAIN cli.streams
  BY <1>5 DEF windowError, Exists
<1> QED  BY <1>3, <1>4, <1>5

\* Nor does the server's, unless a servlet has sent its response and not yet charged it.
LEMMA SrvRefusesNone ==
    ASSUME LedgerInv, ~lost, \A id \in DOMAIN srv.streams : srv.streams[id].handled # "responded",
           NEW x \in FrameRec, toSrv # <<>>, x = Head(toSrv), x.t = "WINDOW_UPDATE"
    PROVE  "overflow" \notin windowError(srv, x)
<1>a. TypeOK /\ Caps /\ Returned /\ BackLedger
  BY DEF LedgerInv, RouteInv, BaseInv
<1>1. PICK q \in Seq(FrameRec) : q = toSrv /\ q # <<>> /\ x = Head(q)
  BY <1>a, Zenon DEF TypeOK
<1>2. x.n \in Int /\ x.id \in Int /\ MAX_WINDOW \in Int
  BY Windows DEF FrameRec
<1>3. CASE x.id = 0
  <2>1. PICK c \in Nat, e \in Nat, d \in Nat :
           /\ Weighs(q, "WINDOW_UPDATE", {0}, e)
           /\ Balance(srv.send + c + e + d - Cardinality(Owing), cli.recv, BackExact)
    BY <1>a, <1>1 DEF BackLedger
  <2>2. PICK w \in Nat, r \in Nat : w = Weight(x, "WINDOW_UPDATE", {0}) /\ e = w + r
    BY <1>1, <2>1, WeighsTail
  <2>3. w = x.n
    BY <1>3, <2>2 DEF Weight
  <2>4. PICK S \in Int, R \in Int : S = srv.send /\ R = cli.recv /\ R <= MAX_WINDOW
    <3>1. srv.send \in Int /\ cli.recv \in Int
      BY <1>a, Zenon DEF TypeOK, CliRec, SrvRec
    <3> QED  BY <1>a, <3>1 DEF Caps
  <2>5. Cardinality(Owing) = 0
    <3>1. Owing = {}
      BY DEF Owing
    <3> QED  BY <3>1, FS_EmptySet
  <2>6. S + c + e + d - 0 <= R
    BY <2>1, <2>4, <2>5 DEF Balance
  <2>7. ~(S + w > MAX_WINDOW)
    <3>1. PICK M \in Int : M = MAX_WINDOW
      BY <1>2
    <3>2. R <= M /\ S + c + (w + r) + d - 0 <= R
      BY <2>2, <2>4, <2>6, <3>1
    <3>3. ~(S + w > M)
      BY <3>2
    <3> QED  BY <3>1, <3>3
  <2>8. ~(srv.send + x.n > MAX_WINDOW)
    BY <2>3, <2>4, <2>7
  <2> QED  BY <1>3, <2>8 DEF windowError
<1>4. CASE x.id # 0
  <2>1. x \in Range(toSrv)
    BY <1>1, RangeTail
  <2>2. Returns(x.id)
    BY <2>1 DEF Returns, Has, Is
  <2>3. x.id \notin DOMAIN srv.streams
    BY <1>a, <1>2, <1>4, <2>2 DEF Returned
  <2> QED  BY <1>4, <2>3 DEF windowError, Exists
<1> QED  BY <1>3, <1>4

\* A WINDOW_UPDATE makes handleWindowUpdate send a GOAWAY for an overflow only when the
\* DATA it answers is not yet taken off the window (the writer, or a servlet, is between
\* sendFrame and the end of sendData), when a charge came in vain between the load and
\* the store of a +=, or when a number is used twice; and for a missing stream only when
\* the request that the stream was made for is over, or a number is used twice.
THEOREM GoAwayCorrect == Spec => []GoAwayHasCause
<1>1. ASSUME LedgerInv PROVE GoAwayHasCause
  <2>0. TypeOK /\ Settled /\ Requests
    BY <1>1 DEF LedgerInv, RouteInv, BaseInv
  <2>1. ASSUME NEW w \in Seq(FrameRec), w # <<>> PROVE Head(w) \in FrameRec /\ Head(w) \in Range(w)
    BY <2>1, RangeTail
  <2>2. toCli \in Seq(FrameRec) /\ toSrv \in Seq(FrameRec)
    BY <2>0, Zenon DEF TypeOK
  <2>3. ASSUME GoAway(cli, toCli, "overflow") \/ GoAway(srv, toSrv, "overflow"), ~lost, OwnNumbers,
               cli.pending = None, \A id \in DOMAIN srv.streams : srv.streams[id].handled # "responded"
        PROVE  FALSE
    BY <1>1, <2>1, <2>2, <2>3, CliRefusesNone, SrvRefusesNone DEF GoAway
  <2>4. ASSUME NEW f \in Fibers, OwnNumbers, GoAway(cli, toCli, "no stream"), Head(toCli).id = req[f].sn
        PROVE  req[f].pc = "done"
    <3>1. PICK x \in FrameRec : x = Head(toCli) /\ x \in Range(toCli) /\ x.t = "WINDOW_UPDATE"
      BY <2>1, <2>2, <2>4 DEF GoAway
    <3>2. x.id \in Int \ {0} /\ x.id \notin DOMAIN cli.streams
      BY <2>4, <3>1 DEF GoAway, windowError, Exists, FrameRec
    <3>3. PICK g \in Fibers : req[g].sn = x.id /\ Began(g)
      BY <1>1, <3>1, <3>2 DEF LedgerInv, Credited, Owner, Has, Is
    <3>4. req[g].sn > 0
      BY <2>0, <3>3 DEF Requests, Life, Began
    <3>5. g = f
      BY <2>4, <3>1, <3>3, <3>4 DEF OwnNumbers, OwnNumber
    <3> QED  BY <2>0, <2>4, <3>2, <3>3, <3>5 DEF Settled, Filed, Began
  <2>5. ASSUME NEW f \in Fibers, OwnNumbers, GoAway(srv, toSrv, "no stream"), Head(toSrv).id = req[f].sn
        PROVE  req[f].pc = "done"
    <3>1. PICK x \in FrameRec : x = Head(toSrv) /\ x \in Range(toSrv) /\ x.t = "WINDOW_UPDATE"
      BY <2>1, <2>2, <2>5 DEF GoAway
    <3>2. x.id \in Int \ {0}
      BY <2>5, <3>1 DEF GoAway, windowError, Exists, FrameRec
    <3>3. PICK g \in Fibers : req[g].sn = x.id /\ req[g].pc = "done"
      BY <1>1, <2>5, <3>1, <3>2 DEF LedgerInv, Over, Has, Is
    <3>4. req[g].sn > 0
      BY <2>0, <3>3 DEF Requests, Life
    <3>5. g = f
      BY <2>5, <3>1, <3>3, <3>4 DEF OwnNumbers, OwnNumber
    <3> QED  BY <3>3, <3>5
  <2> QED  BY <2>3, <2>4, <2>5 DEF GoAwayHasCause
<1> QED  BY <1>1, LedgerInit, LedgerStep, PTL DEF Spec
=============================================================================
