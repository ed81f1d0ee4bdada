------------------------- MODULE HttpReceiveProofs -------------------------
(***************************************************************************)
(* Theorems about HttpReceive, for every text that arrives, every way it   *)
(* is cut into reads, every buffer size and every limit on the body.       *)
(*                                                                         *)
(* The parsers' tables are not looked into: the proof needs only that a    *)
(* transition has a list of actions of the grammar, which TablesAssumption *)
(* states of the two tables.  An induction over the actions of a           *)
(* transition, over the digits of a number or over the characters of a     *)
(* buffer is done by taking the least counterexample.                      *)
(***************************************************************************)
EXTENDS HttpReceive, SequenceTheorems, WellFoundedInduction, TLAPS

-----------------------------------------------------------------------------
(***************************************************************************)
(* Numbers and texts.                                                      *)
(***************************************************************************)

\* Every set of naturals that is not empty has a least element.
LEMMA Least ==
    ASSUME NEW S \in SUBSET Nat, S # {}
    PROVE  \E m \in S : \A n \in S : m <= n
  <1>1. PICK R : R = OpToRel(<, Nat)
    OBVIOUS
  <1>2. \A x, y \in Nat : x < y => <<x, y>> \in R
    BY <1>1, Zenon DEF OpToRel
  <1>3. IsWellFoundedOn(R, Nat)
    BY <1>1, NatLessThanWellFounded, Zenon
  <1>4. PICK m \in S : \A n \in S : ~(<<n, m>> \in R)
    BY <1>3, WFMin, Zenon
  <1>5. \A n \in S : ~(n < m)
    BY <1>2, <1>4
  <1> QED  BY <1>5

\* A part of a text is a text, and has the characters of its place.
Part(t, a, b) ==
    /\ SubSeq(t, a + 1, b) \in Seq(STRING) /\ Len(SubSeq(t, a + 1, b)) = b - a
    /\ \A i \in 1 .. b - a : SubSeq(t, a + 1, b)[i] = t[a + i]

\* std::string(buffer + a, b - a) within a text.
LEMMA PartFacts ==
    ASSUME NEW t \in Seq(STRING), NEW a \in Nat, NEW b \in Nat, a <= b, b <= Len(t)
    PROVE  Part(t, a, b)
  <1>1. PICK n \in Nat : n = Len(t)
    OBVIOUS
  <1>2. a + 1 \in 1 .. n + 1 /\ b \in (a + 1) - 1 .. n /\ (b - (a + 1)) + 1 = b - a
    BY <1>1
  <1>3. /\ SubSeq(t, a + 1, b) \in Seq(STRING)
        /\ Len(SubSeq(t, a + 1, b)) = (b - (a + 1)) + 1
        /\ \A i \in 1 .. (b - (a + 1)) + 1 : SubSeq(t, a + 1, b)[i] = t[(a + 1) + i - 1]
    BY <1>1, <1>2, SubSeqProperties
  <1>4. ASSUME NEW i \in 1 .. b - a PROVE SubSeq(t, a + 1, b)[i] = t[a + i]
    <2>1. (a + 1) + i - 1 = a + i /\ i \in 1 .. (b - (a + 1)) + 1
      BY <1>2
    <2> QED  BY <1>3, <2>1
  <1> QED  BY <1>2, <1>3, <1>4 DEF Part

\* Texts of one length with the same characters are equal.
LEMMA SameText ==
    ASSUME NEW s \in Seq(STRING), NEW t \in Seq(STRING), Len(s) = Len(t), \A i \in 1 .. Len(s) : s[i] = t[i]
    PROVE  s = t
  BY SeqEqual

\* Two neighbouring parts make one.
LEMMA PartCat ==
    ASSUME NEW t \in Seq(STRING), NEW a \in Nat, NEW b \in Nat, NEW c \in Nat, a <= b, b <= c, c <= Len(t)
    PROVE  SubSeq(t, a + 1, b) \o SubSeq(t, b + 1, c) = SubSeq(t, a + 1, c)
  <1>1. PICK x, y, z : x = SubSeq(t, a + 1, b) /\ y = SubSeq(t, b + 1, c) /\ z = SubSeq(t, a + 1, c)
    OBVIOUS
  <1>2. Part(t, a, b) /\ Part(t, b, c) /\ Part(t, a, c)
    <2>1. a <= c /\ b <= Len(t)
      OBVIOUS
    <2> QED  BY <2>1, PartFacts
  <1>3. /\ x \in Seq(STRING) /\ Len(x) = b - a /\ \A i \in 1 .. b - a : x[i] = t[a + i]
        /\ y \in Seq(STRING) /\ Len(y) = c - b /\ \A i \in 1 .. c - b : y[i] = t[b + i]
        /\ z \in Seq(STRING) /\ Len(z) = c - a /\ \A i \in 1 .. c - a : z[i] = t[a + i]
    BY <1>1, <1>2 DEF Part
  <1>4. /\ x \o y \in Seq(STRING) /\ Len(x \o y) = (b - a) + (c - b)
        /\ \A i \in 1 .. (b - a) + (c - b) : (x \o y)[i] = IF i <= b - a THEN x[i] ELSE y[i - (b - a)]
    <2>1. PICK u \in Seq(STRING), v \in Seq(STRING) : u = x /\ v = y
      BY <1>3
    <2>2. /\ u \o v \in Seq(STRING) /\ Len(u \o v) = Len(u) + Len(v)
          /\ \A i \in 1 .. Len(u) + Len(v) : (u \o v)[i] = IF i <= Len(u) THEN u[i] ELSE v[i - Len(u)]
      BY ConcatProperties
    <2>3. Len(u) = b - a /\ Len(v) = c - b
      BY <1>3, <2>1
    <2> QED  BY <2>1, <2>2, <2>3
  <1>5. ASSUME NEW i \in 1 .. c - a PROVE (x \o y)[i] = z[i]
    <2>1. i \in 1 .. (b - a) + (c - b)
      OBVIOUS
    <2>2. CASE i <= b - a
      <3>1. i \in 1 .. b - a
        BY <2>2
      <3> QED  BY <1>3, <1>4, <2>1, <2>2, <3>1
    <2>3. CASE ~(i <= b - a)
      <3>1. i - (b - a) \in 1 .. c - b /\ b + (i - (b - a)) = a + i
        BY <2>3
      <3> QED  BY <1>3, <1>4, <2>1, <2>3, <3>1
    <2> QED  BY <2>2, <2>3
  <1>6. (b - a) + (c - b) = c - a
    OBVIOUS
  <1> QED  BY <1>1, <1>3, <1>4, <1>5, <1>6, SameText

\* A part of a part.
LEMMA PartOfPart ==
    ASSUME NEW t \in Seq(STRING), NEW a \in Nat, NEW b \in Nat, a <= b, b <= Len(t),
           NEW c \in Nat, NEW d \in Nat, c <= d, d <= b - a
    PROVE  SubSeq(SubSeq(t, a + 1, b), c + 1, d) = SubSeq(t, (a + c) + 1, a + d)
  <1>1. PICK x \in Seq(STRING) : x = SubSeq(t, a + 1, b) /\ Len(x) = b - a /\ \A i \in 1 .. b - a : x[i] = t[a + i]
    BY PartFacts DEF Part
  <1>2. PICK y \in Seq(STRING) : y = SubSeq(x, c + 1, d) /\ Len(y) = d - c /\ \A i \in 1 .. d - c : y[i] = x[c + i]
    <2>1. d <= Len(x)
      BY <1>1
    <2>2. Part(x, c, d)
      BY <2>1, PartFacts
    <2> QED  BY <2>2 DEF Part
  <1>3. PICK e \in Nat, f \in Nat : e = a + c /\ f = a + d /\ e <= f /\ f <= Len(t) /\ f - e = d - c
    <2>1. a + c \in Nat /\ a + d \in Nat /\ a + c <= a + d /\ a + d <= Len(t) /\ (a + d) - (a + c) = d - c
      <3>1. Len(t) \in Nat
        OBVIOUS
      <3> QED  BY <3>1
    <2> QED  BY <2>1
  <1>4. PICK z \in Seq(STRING) : z = SubSeq(t, e + 1, f) /\ Len(z) = f - e /\ \A i \in 1 .. f - e : z[i] = t[e + i]
    <2>1. Part(t, e, f)
      BY <1>3, PartFacts
    <2> QED  BY <1>3, <2>1 DEF Part
  <1>5. ASSUME NEW i \in 1 .. d - c PROVE y[i] = z[i]
    <2>1. c + i \in 1 .. b - a /\ a + (c + i) = e + i
      BY <1>3
    <2> QED  BY <1>1, <1>2, <1>3, <1>4, <2>1
  <1> QED  BY <1>1, <1>2, <1>3, <1>4, <1>5, SameText

-----------------------------------------------------------------------------
(***************************************************************************)
(* strtol gives a natural number.                                          *)
(***************************************************************************)

\* A digit has a value.
LEMMA DigitValues == \A d \in DOMAIN Digits : Digits[d] \in Nat
  BY DEF Digits

\* The first place of a text where a test holds.
LEMMA FirstPlace ==
    ASSUME NEW I \in SUBSET Nat, I # {}
    PROVE  Min(I) \in I /\ \A i \in I : Min(I) <= i
  BY Least DEF Min

\* The value of a list of digits: that the recursive function exists is the first thing to show.
ValueRun(ds, base, v, g) ==
    /\ v = g[Len(ds)] /\ g[0] = 0
    /\ \A i \in 1 .. Len(ds) : g[i] = base * g[i - 1] + Digits[ds[i]]
\* What strtol computes of them.
Value(ds, base) ==
    LET value[n \in 0 .. Len(ds)] == IF n = 0 THEN 0 ELSE base * value[n - 1] + Digits[ds[n]]
    IN  value[Len(ds)]

\* Each digit is added to the value of those before it.
LEMMA ValueSteps ==
    ASSUME NEW ds, Len(ds) \in Nat, NEW base
    PROVE  \E g : ValueRun(ds, base, Value(ds, base), g)
  <1> DEFINE next(x, i) == base * x + Digits[ds[i]]
             rec(g, k) == [i \in 0 .. k |-> IF i = 0 THEN 0 ELSE next(g[i - 1], i)]
             bad == {k \in Nat : \A g : g # rec(g, k)}
  <1>1. Value(ds, base) = (CHOOSE g : g = rec(g, Len(ds)))[Len(ds)]
    BY DEF Value
  <1> HIDE DEF next
  <1>2. bad = {}
    <2> SUFFICES ASSUME bad # {} PROVE FALSE
      OBVIOUS
    <2>1. PICK m \in bad : \A k \in bad : m <= k
      <3>1. bad \in SUBSET Nat
        OBVIOUS
      <3> HIDE DEF bad
      <3> QED  BY <3>1, Least
    <2>2. CASE m = 0
      <3>1. [i \in 0 .. 0 |-> 0] = rec([i \in 0 .. 0 |-> 0], 0)
        OBVIOUS
      <3> QED  BY <2>1, <2>2, <3>1
    <2>3. CASE m # 0
      <3>1. m - 1 \in Nat /\ m - 1 \notin bad
        <4>1. m \in Nat
          OBVIOUS
        <4> HIDE DEF bad
        <4> QED  BY <2>1, <2>3, <4>1
      <3>2. PICK g : g = rec(g, m - 1)
        BY <3>1
      <3> DEFINE h == [i \in 0 .. m |-> IF i < m THEN g[i] ELSE next(g[m - 1], m)]
      <3>3. ASSUME NEW i \in 0 .. m
            PROVE  h[i] = IF i = 0 THEN 0 ELSE next(h[i - 1], i)
        BY <2>3, <3>1, <3>2
      <3>4. h = rec(h, m)
        BY <3>3
      <3> QED  BY <2>1, <3>4
    <2> QED  BY <2>2, <2>3
  <1>3. PICK g : g = rec(g, Len(ds)) /\ Value(ds, base) = g[Len(ds)]
    <2>1. \E g : g = rec(g, Len(ds))
      BY <1>2
    <2> HIDE DEF rec
    <2> QED  BY <1>1, <2>1
  <1>4. g[0] = 0 /\ \A i \in 1 .. Len(ds) : g[i] = next(g[i - 1], i)
    BY <1>3
  <1>5. ValueRun(ds, base, Value(ds, base), g)
    BY <1>3, <1>4 DEF ValueRun, next
  <1> QED  BY <1>5

\* So the value is a natural number: the least list of digits with another one cannot be.
LEMMA ValueNat ==
    ASSUME NEW ds, Len(ds) \in Nat, \A i \in 1 .. Len(ds) : ds[i] \in DOMAIN Digits, NEW base \in Nat
    PROVE  Value(ds, base) \in Nat
  <1>1. PICK n \in Nat : n = Len(ds)
    OBVIOUS
  <1>2. PICK g : ValueRun(ds, base, Value(ds, base), g)
    BY ValueSteps
  <1>3. /\ Value(ds, base) = g[n] /\ g[0] = 0
        /\ \A i \in 1 .. n : g[i] = base * g[i - 1] + Digits[ds[i]]
    BY <1>1, <1>2 DEF ValueRun
  <1> DEFINE bad == {k \in 0 .. n : g[k] \notin Nat}
  <1>4. bad = {}
    <2> SUFFICES ASSUME bad # {} PROVE FALSE
      OBVIOUS
    <2>1. PICK m \in bad : \A k \in bad : m <= k
      <3>1. bad \in SUBSET Nat
        OBVIOUS
      <3> HIDE DEF bad
      <3> QED  BY <3>1, Least
    <2>2. m # 0
      BY <1>3
    <2>3. m \in 1 .. n /\ m - 1 \in 0 .. n /\ m - 1 \notin bad
      <3>1. m \in 0 .. n
        OBVIOUS
      <3>2. m \in 1 .. n /\ m - 1 \in 0 .. n /\ ~(m <= m - 1)
        BY <2>2, <3>1
      <3> HIDE DEF bad
      <3> QED  BY <2>1, <3>2
    <2>4. PICK x \in Nat, y \in Nat : x = g[m - 1] /\ y = Digits[ds[m]] /\ g[m] = base * x + y
      <3>1. g[m - 1] \in Nat /\ Digits[ds[m]] \in Nat
        BY <1>1, <2>3, DigitValues
      <3> QED  BY <1>3, <2>3, <3>1
    <2>5. base * x + y \in Nat
      OBVIOUS
    <2> QED  BY <2>4, <2>5
  <1> QED  BY <1>3, <1>4

\* strtol of any text, from its first character that is no space to the last digit.
LEMMA StrtolNat ==
    ASSUME NEW t \in Seq(STRING), NEW base \in Nat
    PROVE  strtol(t, base) \in Nat
  <1> DEFINE from == SelectInSeq(t, LAMBDA c : c \notin {"SP", "TAB", "CR", "LF"})
             rest == IF from = 0 THEN << >> ELSE SubSeq(t, from, Len(t))
             stop == SelectInSeq(rest, LAMBDA c : c \notin DOMAIN Digits)
             ds == IF stop = 0 THEN rest ELSE SubSeq(rest, 1, stop - 1)
  <1>1. strtol(t, base) = Value(ds, base)
    BY DEF strtol, Value
  <1>2. from \in 0 .. Len(t)
    <2> DEFINE I == {i \in 1 .. Len(t) : t[i] \notin {"SP", "TAB", "CR", "LF"}}
    <2>1. from = IF I # {} THEN Min(I) ELSE 0
      BY DEF SelectInSeq
    <2>2. I \in SUBSET Nat
      OBVIOUS
    <2>3. I # {} => Min(I) \in I
      <3> HIDE DEF I
      <3> QED  BY <2>2, FirstPlace
    <2> QED  BY <2>1, <2>3
  <1>3. rest \in Seq(STRING)
    <2>1. CASE from = 0
      BY <2>1
    <2>2. CASE from # 0
      <3>1. PICK a \in Nat : from = a + 1 /\ a <= Len(t) /\ Len(t) \in Nat
        <4>1. from - 1 \in Nat /\ from = (from - 1) + 1 /\ from - 1 <= Len(t) /\ Len(t) \in Nat
          BY <1>2, <2>2
        <4> QED  BY <4>1
      <3>2. SubSeq(t, a + 1, Len(t)) \in Seq(STRING)
        <4>1. Len(t) <= Len(t)
          BY <3>1
        <4> QED  BY <3>1, <4>1, PartFacts DEF Part
      <3> HIDE DEF from
      <3> QED  BY <2>2, <3>1, <3>2
    <2> QED  BY <2>1, <2>2
  <1> HIDE DEF rest
  <1>4. Len(ds) \in Nat /\ \A i \in 1 .. Len(ds) : ds[i] \in DOMAIN Digits
    <2> DEFINE I == {i \in 1 .. Len(rest) : rest[i] \notin DOMAIN Digits}
    <2>1. stop = IF I # {} THEN Min(I) ELSE 0
      BY DEF SelectInSeq
    <2>2. I \in SUBSET Nat /\ Len(rest) \in Nat
      BY <1>3
    <2>3. CASE I = {}
      <3>1. ds = rest
        BY <2>1, <2>3
      <3> QED  BY <2>2, <2>3, <3>1
    <2>4. CASE I # {}
      <3>1. Min(I) \in I /\ \A i \in I : Min(I) <= i
        <4> HIDE DEF I
        <4> QED  BY <2>2, <2>4, FirstPlace
      <3>2. PICK b \in Nat : stop = b + 1 /\ b < Len(rest) /\ stop # 0
        <4>1. stop \in 1 .. Len(rest)
          BY <2>1, <2>4, <3>1
        <4>2. stop - 1 \in Nat /\ stop = (stop - 1) + 1 /\ stop - 1 < Len(rest) /\ stop # 0
          BY <2>2, <4>1
        <4> QED  BY <4>2
      <3>3. ASSUME NEW i \in 1 .. b PROVE rest[i] \in DOMAIN Digits
        <4>1. i \in 1 .. Len(rest) /\ ~(b + 1 <= i)
          BY <2>2, <3>2
        <4>2. i \notin I
          BY <2>1, <2>4, <3>1, <3>2, <4>1
        <4> QED  BY <4>1, <4>2
      <3>4. ds = SubSeq(rest, 0 + 1, b)
        <4>1. stop - 1 = b /\ 0 + 1 = 1
          BY <3>2
        <4> QED  BY <3>2, <4>1
      <3>5. Part(rest, 0, b)
        <4>1. 0 \in Nat /\ 0 <= b /\ b <= Len(rest)
          BY <2>2, <3>2
        <4> QED  BY <1>3, <4>1, PartFacts
      <3>6. PICK d : d = ds
        OBVIOUS
      <3>7. Len(d) = b /\ \A i \in 1 .. b : d[i] = rest[i]
        <4>1. b - 0 = b /\ \A i \in 1 .. b : 0 + i = i
          OBVIOUS
        <4> HIDE DEF ds
        <4> QED  BY <3>4, <3>5, <3>6, <4>1 DEF Part
      <3> HIDE DEF ds
      <3> QED  BY <3>3, <3>6, <3>7
    <2> QED  BY <2>3, <2>4
  <1> HIDE DEF ds
  <1> QED  BY <1>1, <1>4, ValueNat

-----------------------------------------------------------------------------
(***************************************************************************)
(* The parser within a buffer: its marks do not pass the character it is   *)
(* at, and the values of the headers are texts.                            *)
(***************************************************************************)

\* The fields of a parser.
Fields == {"cs", "mark", "field_start", "field_len", "query_start", "content_len", "chunked", "chunks_done",
           "error", "thrown", "nread", "stop", "data"}
\* The fields of the message it fills.
DataFields == {"method", "path", "query", "fragment", "version", "status", "reason", "headers", "close", "body"}
\* The values of the headers are texts.
TextValues(h) == \A x \in DOMAIN h : h[x] \in Seq(STRING)
\* At the position p of the buffer.
ParserOk(st, p) ==
    /\ DOMAIN st = Fields /\ DOMAIN st.data = DataFields
    /\ st.mark \in 0 .. p /\ st.nread \in 0 .. p
    /\ TextValues(st.data.headers)

\* Two states of the parser that do not differ in these.
Alike(st, s) ==
    /\ DOMAIN s = DOMAIN st /\ DOMAIN s.data = DOMAIN st.data
    /\ s.mark = st.mark /\ s.nread = st.nread /\ s.data.headers = st.data.headers

\* What does not differ in them is as good.
LEMMA AlikeOk ==
    ASSUME NEW st, NEW s, NEW p, ParserOk(st, p), Alike(st, s)
    PROVE  ParserOk(s, p)
  BY DEF ParserOk, Alike

\* A part of the text that is kept changes one field of the message.
LEMMA KeepAlike ==
    ASSUME NEW st, NEW p, ParserOk(st, p), NEW f \in {"path", "query", "fragment", "reason"}, NEW buf, NEW from, NEW n
    PROVE  Alike(st, Keep(st, f, buf, from, n))
  BY DEF ParserOk, Alike, Keep, Fields, DataFields

\* on_request_method.
LEMMA MethodAlike ==
    ASSUME NEW st, NEW p, ParserOk(st, p), NEW buf
    PROVE  Alike(st, on_request_method(st, buf))
  <1>1. PICK m : on_request_method(st, buf) \in {[st EXCEPT !.data.method = m], [st EXCEPT !.error = TRUE]}
    BY Zenon DEF on_request_method
  <1> QED  BY <1>1 DEF ParserOk, Alike, Fields, DataFields

\* on_request_version, on_response_version.
LEMMA VersionAlike ==
    ASSUME NEW st, NEW p, ParserOk(st, p), NEW buf
    PROVE  Alike(st, on_version(st, buf, p))
  <1>1. \/ on_version(st, buf, p) = [st EXCEPT !.data.version = V11]
        \/ on_version(st, buf, p) = [st EXCEPT !.data.version = V10]
        \/ on_version(st, buf, p) = [st EXCEPT !.error = TRUE]
    BY Zenon DEF on_version
  <1>2. PICK v1, v2 : v1 = V11 /\ v2 = V10
    OBVIOUS
  <1> QED  BY <1>1, <1>2 DEF ParserOk, Alike, Fields, DataFields

\* on_request_http_field, on_response_http_field: the value is a part of the buffer.
LEMMA FieldOk ==
    ASSUME NEW buf \in Seq(STRING), NEW p \in 0 .. Len(buf), NEW st, ParserOk(st, p)
    PROVE  ParserOk(on_http_field(st, buf, p), p)
  <1>1. SubSeq(buf, st.mark + 1, p) \in Seq(STRING)
    <2>1. PICK m \in Nat, q \in Nat : m = st.mark /\ q = p /\ m <= q /\ q <= Len(buf)
      <3>1. st.mark \in Nat /\ p \in Nat /\ st.mark <= p /\ p <= Len(buf)
        BY DEF ParserOk
      <3> QED  BY <3>1
    <2>2. Part(buf, m, q)
      BY <2>1, PartFacts
    <2> QED  BY <2>1, <2>2 DEF Part
  <1>2. PICK name, value, hs, old :
           /\ name = SubSeq(buf, st.field_start + 1, st.field_start + st.field_len)
           /\ value = SubSeq(buf, st.mark + 1, p)
           /\ old = st.data.headers
           /\ hs = [h \in DOMAIN old \cup {name} |-> IF h = name THEN value ELSE old[h]]
    BY ZenonT(60)
  <1>3. TextValues(hs)
    BY <1>1, <1>2 DEF ParserOk, TextValues
  <1>4. on_http_field(st, buf, p) \in {st, [st EXCEPT !.data.headers = hs]}
    BY <1>2 DEF on_http_field
  <1>5. ParserOk([st EXCEPT !.data.headers = hs], p)
    BY <1>3 DEF ParserOk, Fields, DataFields
  <1> QED  BY <1>4, <1>5

\* Whatever the action, the marks stay in the buffer.
LEMMA ActOk ==
    ASSUME NEW buf \in Seq(STRING), NEW p \in 0 .. Len(buf), NEW st, ParserOk(st, p), NEW a
    PROVE  ParserOk(Act(st, a, buf, p), p)
  <1>1. CASE a \in {"mark", "start_value"}
    <2>1. Act(st, a, buf, p) = [st EXCEPT !.mark = p]
      BY <1>1, Zenon DEF Act
    <2> QED  BY <2>1 DEF ParserOk, Fields
  <1>2. CASE a = "write_value"
    <2>1. Act(st, a, buf, p) = on_http_field(st, buf, p)
      BY <1>2, Zenon DEF Act
    <2> QED  BY <2>1, FieldOk
  <1>3. CASE a = "request_method"
    <2>1. Act(st, a, buf, p) = on_request_method(st, buf)
      BY <1>3, Zenon DEF Act
    <2> QED  BY <2>1, MethodAlike, AlikeOk
  <1>4. CASE a = "http_version"
    <2>1. Act(st, a, buf, p) = on_version(st, buf, p)
      BY <1>4, Zenon DEF Act
    <2> QED  BY <2>1, VersionAlike, AlikeOk
  <1>5. CASE a \in {"request_path", "fragment", "query_string", "reason_phrase"}
    <2>1. \E f \in {"path", "query", "fragment", "reason"} : \E from, n : Act(st, a, buf, p) = Keep(st, f, buf, from, n)
      <3>1. a = "request_path" => Act(st, a, buf, p) = Keep(st, "path", buf, st.mark, p - st.mark)
        BY Zenon DEF Act
      <3>2. a = "fragment" => Act(st, a, buf, p) = Keep(st, "fragment", buf, st.mark, p - st.mark)
        BY Zenon DEF Act
      <3>3. a = "query_string" => Act(st, a, buf, p) = Keep(st, "query", buf, st.query_start, p - st.query_start)
        BY Zenon DEF Act
      <3>4. a = "reason_phrase" => Act(st, a, buf, p) = Keep(st, "reason", buf, st.mark, p - st.mark)
        BY Zenon DEF Act
      <3> QED  BY <1>5, <3>1, <3>2, <3>3, <3>4, Zenon
    <2> QED  BY <2>1, KeepAlike, AlikeOk
  <1>6. CASE a = "start_field"
    <2>1. Act(st, a, buf, p) = [st EXCEPT !.field_start = p]
      BY <1>6, Zenon DEF Act
    <2> QED  BY <2>1 DEF ParserOk, Fields
  <1>7. CASE a = "write_field"
    <2>1. Act(st, a, buf, p) = [st EXCEPT !.field_len = p - st.field_start]
      BY <1>7, Zenon DEF Act
    <2> QED  BY <2>1 DEF ParserOk, Fields
  <1>8. CASE a = "start_query"
    <2>1. Act(st, a, buf, p) = [st EXCEPT !.query_start = p]
      BY <1>8, Zenon DEF Act
    <2> QED  BY <2>1 DEF ParserOk, Fields
  <1>9. CASE a = "trans_chunked"
    <2>1. Act(st, a, buf, p) = [st EXCEPT !.chunked = TRUE]
      BY <1>9, Zenon DEF Act
    <2> QED  BY <2>1 DEF ParserOk, Fields
  <1>10. CASE a = "status_code"
    <2>1. PICK x : Act(st, a, buf, p) = [st EXCEPT !.data.status = x]
      BY <1>10, Zenon DEF Act
    <2> QED  BY <2>1 DEF ParserOk, Fields, DataFields
  <1>11. CASE a = "write_content_len"
    <2>1. PICK x : Act(st, a, buf, p) = [st EXCEPT !.content_len = x]
      BY <1>11, Zenon DEF Act
    <2> QED  BY <2>1 DEF ParserOk, Fields
  <1>12. CASE a = "chunk_size"
    <2>1. PICK x, y : Act(st, a, buf, p) = [st EXCEPT !.chunked = TRUE, !.content_len = x, !.chunks_done = y]
      BY <1>12, Zenon DEF Act
    <2> QED  BY <2>1 DEF ParserOk, Fields
  <1>13. CASE a \notin {"mark", "start_value", "start_field", "write_field", "start_query", "write_value",
                        "request_method", "http_version", "request_path", "fragment", "query_string",
                        "reason_phrase", "status_code", "write_content_len", "trans_chunked", "chunk_size"}
    <2>1. Act(st, a, buf, p) = st
      BY <1>13, Zenon DEF Act
    <2> QED  BY <2>1
  <1> QED  BY <1>1, <1>2, <1>3, <1>4, <1>5, <1>6, <1>7, <1>8, <1>9, <1>10, <1>11, <1>12, <1>13, Zenon

-----------------------------------------------------------------------------
(***************************************************************************)
(* The actions of a transition, one after the other.                       *)
(***************************************************************************)

\* The states between the actions.
ActsRun(st, as, buf, p, s, g) ==
    /\ s = g[Len(as)] /\ g[0] = st
    /\ \A i \in 1 .. Len(as) : g[i] = Act(g[i - 1], as[i], buf, p)

\* Acts does its actions in this order.
LEMMA ActsSteps ==
    ASSUME NEW st, NEW as, Len(as) \in Nat, NEW buf, NEW p
    PROVE  \E g : ActsRun(st, as, buf, p, Acts(st, as, buf, p), g)
  <1> DEFINE next(x, i) == Act(x, as[i], buf, p)
             rec(g, k) == [i \in 0 .. k |-> IF i = 0 THEN st ELSE next(g[i - 1], i)]
             bad == {k \in Nat : \A g : g # rec(g, k)}
  <1>1. Acts(st, as, buf, p) = (CHOOSE g : g = rec(g, Len(as)))[Len(as)]
    BY DEF Acts
  <1> HIDE DEF next
  <1>2. bad = {}
    <2> SUFFICES ASSUME bad # {} PROVE FALSE
      OBVIOUS
    <2>1. PICK m \in bad : \A k \in bad : m <= k
      <3>1. bad \in SUBSET Nat
        OBVIOUS
      <3> HIDE DEF bad
      <3> QED  BY <3>1, Least
    <2>2. CASE m = 0
      <3>1. [i \in 0 .. 0 |-> st] = rec([i \in 0 .. 0 |-> st], 0)
        OBVIOUS
      <3> QED  BY <2>1, <2>2, <3>1
    <2>3. CASE m # 0
      <3>1. m - 1 \in Nat /\ m - 1 \notin bad
        <4>1. m \in Nat
          OBVIOUS
        <4> HIDE DEF bad
        <4> QED  BY <2>1, <2>3, <4>1
      <3>2. PICK g : g = rec(g, m - 1)
        BY <3>1
      <3> DEFINE h == [i \in 0 .. m |-> IF i < m THEN g[i] ELSE next(g[m - 1], m)]
      <3>3. ASSUME NEW i \in 0 .. m
            PROVE  h[i] = IF i = 0 THEN st ELSE next(h[i - 1], i)
        BY <2>3, <3>1, <3>2
      <3>4. h = rec(h, m)
        BY <3>3
      <3> QED  BY <2>1, <3>4
    <2> QED  BY <2>2, <2>3
  <1>3. PICK g : g = rec(g, Len(as)) /\ Acts(st, as, buf, p) = g[Len(as)]
    <2>1. \E g : g = rec(g, Len(as))
      BY <1>2, ZenonT(60)
    <2> HIDE DEF rec
    <2> QED  BY <1>1, <2>1
  <1>4. g[0] = st /\ \A i \in 1 .. Len(as) : g[i] = next(g[i - 1], i)
    <2>1. ASSUME NEW i \in 0 .. Len(as) PROVE g[i] = IF i = 0 THEN st ELSE next(g[i - 1], i)
      BY <1>3, Zenon
    <2>2. 0 \in 0 .. Len(as) /\ \A i \in 1 .. Len(as) : i \in 0 .. Len(as) /\ i # 0
      <3>1. PICK n \in Nat : n = Len(as)
        OBVIOUS
      <3>2. 0 \in 0 .. n /\ \A i \in 1 .. n : i \in 0 .. n /\ i # 0
        OBVIOUS
      <3> QED  BY <3>1, <3>2, Zenon
    <2> HIDE DEF rec
    <2> QED  BY <2>1, <2>2, Zenon
  <1>5. ActsRun(st, as, buf, p, Acts(st, as, buf, p), g)
    BY <1>3, <1>4 DEF ActsRun, next
  <1> QED  BY <1>5

\* And so any list of actions keeps the parser.
LEMMA ActsOk ==
    ASSUME NEW buf \in Seq(STRING), NEW p \in 0 .. Len(buf), NEW st, ParserOk(st, p),
           NEW as, Len(as) \in Nat
    PROVE  ParserOk(Acts(st, as, buf, p), p)
  <1>1. PICK n \in Nat : n = Len(as)
    OBVIOUS
  <1>2. PICK g : ActsRun(st, as, buf, p, Acts(st, as, buf, p), g)
    BY ActsSteps
  <1>3. /\ Acts(st, as, buf, p) = g[n] /\ g[0] = st
        /\ \A i \in 1 .. n : g[i] = Act(g[i - 1], as[i], buf, p)
    BY <1>1, <1>2 DEF ActsRun
  <1> DEFINE bad == {k \in 0 .. n : ~ParserOk(g[k], p)}
  <1>4. bad = {}
    <2> SUFFICES ASSUME bad # {} PROVE FALSE
      OBVIOUS
    <2>1. PICK m \in bad : \A k \in bad : m <= k
      <3>1. bad \in SUBSET Nat
        OBVIOUS
      <3> HIDE DEF bad
      <3> QED  BY <3>1, Least
    <2>2. m # 0
      BY <1>3
    <2>3. m \in 1 .. n /\ m - 1 \in 0 .. n /\ m - 1 \notin bad
      <3>1. m \in 0 .. n
        OBVIOUS
      <3>2. m \in 1 .. n /\ m - 1 \in 0 .. n /\ ~(m <= m - 1)
        BY <2>2, <3>1
      <3> HIDE DEF bad
      <3> QED  BY <2>1, <3>2
    <2>4. ParserOk(g[m - 1], p)
      BY <2>3
    <2>5. ParserOk(Act(g[m - 1], as[m], buf, p), p)
      BY <2>4, ActOk
    <2> QED  BY <1>3, <2>3, <2>5
  <1> QED  BY <1>3, <1>4

-----------------------------------------------------------------------------
(***************************************************************************)
(* One character, and the whole buffer.                                    *)
(***************************************************************************)

\* A place in the buffer stays one when the parser moves on.
LEMMA OkLater ==
    ASSUME NEW st, NEW p \in Nat, NEW q \in Nat, p <= q, ParserOk(st, p)
    PROVE  ParserOk(st, q)
  BY DEF ParserOk

\* A transition moves by one character at most.
LEMMA FollowOk ==
    ASSUME NEW buf \in Seq(STRING), NEW p \in Nat, p < Len(buf), NEW st, ParserOk(st, p),
           NEW tr, Len(tr.do) \in Nat
    PROVE  ParserOk(Follow(st, tr, buf, p), p + 1)
  <1>1. PICK s : s = Acts(st, tr.do, buf, p)
    OBVIOUS
  <1>2. ParserOk(s, p)
    <2>1. p \in 0 .. Len(buf)
      OBVIOUS
    <2> QED  BY <1>1, <2>1, ActsOk
  <1>3. PICK n : n = IF tr.to = 0 THEN p ELSE p + 1
    OBVIOUS
  <1>4. PICK b : b = (tr.to = 0 \/ s.thrown \/ "done" \in Range(tr.do))
    OBVIOUS
  <1>5. Follow(st, tr, buf, p) = [s EXCEPT !.cs = tr.to, !.nread = n, !.stop = b]
    BY <1>1, <1>3, <1>4, Zenon DEF Follow, Take
  <1>6. n \in {p, p + 1}
    BY <1>3
  <1> QED  BY <1>2, <1>5, <1>6 DEF ParserOk, Fields

\* The error transition has no actions, every other one has those of the table.
LEMMA TransitionActs ==
    ASSUME NEW side \in {"request", "response"}, NEW cs, NEW c
    PROVE  Len(Response!OnChar(Table(side), cs, c).do) \in Nat
  <1>1. PICK t : t = Table(side)
    OBVIOUS
  <1>2. CASE cs \in DOMAIN t /\ c \in DOMAIN t[cs]
    <2>1. Response!OnChar(t, cs, c) = t[cs][c]
      BY <1>2 DEF Response!OnChar
    <2>2. t[cs][c].do \in Seq(STRING)
      BY <1>1, <1>2, TablesAssumption
    <2>3. Len(t[cs][c].do) \in Nat
      BY <2>2
    <2> QED  BY <1>1, <2>1, <2>3
  <1>3. CASE ~(cs \in DOMAIN t /\ c \in DOMAIN t[cs])
    <2>1. Response!OnChar(t, cs, c).do = << >>
      BY <1>3 DEF Response!OnChar, Response!Tr
    <2> QED  BY <1>1, <2>1
  <1> QED  BY <1>2, <1>3

\* One character.
LEMMA StepOk ==
    ASSUME NEW side \in {"request", "response"}, NEW buf \in Seq(STRING), NEW p \in Nat, p < Len(buf),
           NEW st, ParserOk(st, p)
    PROVE  ParserOk(Step(side, st, buf, p), p + 1)
  <1>1. CASE st.stop
    <2>1. Step(side, st, buf, p) = st
      BY <1>1 DEF Step
    <2>2. p + 1 \in Nat /\ p <= p + 1
      OBVIOUS
    <2> QED  BY <2>1, <2>2, OkLater
  <1>2. CASE ~st.stop
    <2>1. PICK tr : tr = Response!OnChar(Table(side), st.cs, Class(side, buf[p + 1]))
      OBVIOUS
    <2>2. Len(tr.do) \in Nat
      BY <2>1, TransitionActs
    <2>3. Step(side, st, buf, p) = Follow(st, tr, buf, p)
      BY <1>2, <2>1, Zenon DEF Step
    <2> QED  BY <2>2, <2>3, FollowOk
  <1> QED  BY <1>1, <1>2

\* The states between the characters of a buffer.
BufferRun(side, st, buf, s, g) ==
    /\ s = g[Len(buf)] /\ g[0] = st
    /\ \A i \in 1 .. Len(buf) : g[i] = Step(side, g[i - 1], buf, i - 1)

\* Run takes the characters of the buffer in their order.
LEMMA RunSteps ==
    ASSUME NEW side, NEW st, NEW buf, Len(buf) \in Nat
    PROVE  \E g : BufferRun(side, st, buf, Run(side, st, buf), g)
  <1> DEFINE next(x, i) == Step(side, x, buf, i - 1)
             rec(g, k) == [i \in 0 .. k |-> IF i = 0 THEN st ELSE next(g[i - 1], i)]
             bad == {k \in Nat : \A g : g # rec(g, k)}
  <1>1. Run(side, st, buf) = (CHOOSE g : g = rec(g, Len(buf)))[Len(buf)]
    BY DEF Run
  <1> HIDE DEF next
  <1>2. bad = {}
    <2> SUFFICES ASSUME bad # {} PROVE FALSE
      OBVIOUS
    <2>1. PICK m \in bad : \A k \in bad : m <= k
      <3>1. bad \in SUBSET Nat
        OBVIOUS
      <3> HIDE DEF bad
      <3> QED  BY <3>1, Least
    <2>2. CASE m = 0
      <3>1. [i \in 0 .. 0 |-> st] = rec([i \in 0 .. 0 |-> st], 0)
        OBVIOUS
      <3> QED  BY <2>1, <2>2, <3>1
    <2>3. CASE m # 0
      <3>1. m - 1 \in Nat /\ m - 1 \notin bad
        <4>1. m \in Nat
          OBVIOUS
        <4> HIDE DEF bad
        <4> QED  BY <2>1, <2>3, <4>1
      <3>2. PICK g : g = rec(g, m - 1)
        BY <3>1
      <3> DEFINE h == [i \in 0 .. m |-> IF i < m THEN g[i] ELSE next(g[m - 1], m)]
      <3>3. ASSUME NEW i \in 0 .. m
            PROVE  h[i] = IF i = 0 THEN st ELSE next(h[i - 1], i)
        BY <2>3, <3>1, <3>2
      <3>4. h = rec(h, m)
        BY <3>3
      <3> QED  BY <2>1, <3>4
    <2> QED  BY <2>2, <2>3
  <1>3. PICK g : g = rec(g, Len(buf)) /\ Run(side, st, buf) = g[Len(buf)]
    <2>1. \E g : g = rec(g, Len(buf))
      BY <1>2, ZenonT(60)
    <2> HIDE DEF rec
    <2> QED  BY <1>1, <2>1
  <1>4. g[0] = st /\ \A i \in 1 .. Len(buf) : g[i] = next(g[i - 1], i)
    <2>1. ASSUME NEW i \in 0 .. Len(buf) PROVE g[i] = IF i = 0 THEN st ELSE next(g[i - 1], i)
      BY <1>3, Zenon
    <2>2. 0 \in 0 .. Len(buf) /\ \A i \in 1 .. Len(buf) : i \in 0 .. Len(buf) /\ i # 0
      OBVIOUS
    <2> HIDE DEF rec
    <2> QED  BY <2>1, <2>2, Zenon
  <1>5. BufferRun(side, st, buf, Run(side, st, buf), g)
    BY <1>3, <1>4 DEF BufferRun, next
  <1> QED  BY <1>5

\* After a whole buffer the parser has read no more than there was.
LEMMA RunOk ==
    ASSUME NEW side \in {"request", "response"}, NEW buf \in Seq(STRING), NEW st, ParserOk(st, 0)
    PROVE  ParserOk(Run(side, st, buf), Len(buf))
  <1>1. PICK n \in Nat : n = Len(buf)
    OBVIOUS
  <1>2. PICK g : BufferRun(side, st, buf, Run(side, st, buf), g)
    BY <1>1, RunSteps
  <1>3. /\ Run(side, st, buf) = g[n] /\ g[0] = st
        /\ \A i \in 1 .. n : g[i] = Step(side, g[i - 1], buf, i - 1)
    BY <1>1, <1>2 DEF BufferRun
  <1> DEFINE bad == {k \in 0 .. n : ~ParserOk(g[k], k)}
  <1>4. bad = {}
    <2> SUFFICES ASSUME bad # {} PROVE FALSE
      OBVIOUS
    <2>1. PICK m \in bad : \A k \in bad : m <= k
      <3>1. bad \in SUBSET Nat
        OBVIOUS
      <3> HIDE DEF bad
      <3> QED  BY <3>1, Least
    <2>2. m # 0
      BY <1>3
    <2>3. m \in 1 .. n /\ m - 1 \in 0 .. n /\ m - 1 \notin bad
      <3>1. m \in 0 .. n
        OBVIOUS
      <3>2. m \in 1 .. n /\ m - 1 \in 0 .. n /\ ~(m <= m - 1)
        BY <2>2, <3>1
      <3> HIDE DEF bad
      <3> QED  BY <2>1, <3>2
    <2>4. ParserOk(g[m - 1], m - 1)
      BY <2>3
    <2>5. PICK q \in Nat : q = m - 1 /\ q < Len(buf) /\ q + 1 = m
      <3>1. m - 1 \in Nat /\ m - 1 < Len(buf) /\ (m - 1) + 1 = m
        BY <1>1, <2>3
      <3> QED  BY <3>1
    <2>6. ParserOk(Step(side, g[m - 1], buf, q), q + 1)
      BY <2>4, <2>5, StepOk
    <2>7. g[m] = Step(side, g[m - 1], buf, q)
      BY <1>3, <2>3, <2>5
    <2>8. ParserOk(g[m], m)
      BY <2>5, <2>6, <2>7
    <2> QED  BY <2>8
  <1> QED  BY <1>1, <1>3, <1>4

\* httpclient_parser_execute, http_parser_execute: nread is a place of the buffer.
LEMMA ExecuteOk ==
    ASSUME NEW side \in {"request", "response"}, NEW buf \in Seq(STRING), NEW st, NEW q, ParserOk(st, q)
    PROVE  ParserOk(Execute(side, st, buf), Len(buf))
  <1>1. PICK s : s = [st EXCEPT !.mark = 0, !.field_start = 0, !.field_len = 0, !.nread = 0, !.stop = FALSE]
    OBVIOUS
  <1>2. ParserOk(s, 0)
    BY <1>1 DEF ParserOk, Fields
  <1>3. Execute(side, st, buf) = Run(side, s, buf)
    BY <1>1, Zenon DEF Execute
  <1> QED  BY <1>2, <1>3, RunOk

-----------------------------------------------------------------------------
(***************************************************************************)
(* What the loops know of the text.                                        *)
(***************************************************************************)

\* BodyFollowsHead, of a text of which q characters were read and l are in the buffer.
Follows(t, q, l, b, length) ==
    /\ Len(b) = length
    /\ \E h \in 0 .. q :
          /\ h + Len(b) <= q /\ b = SubSeq(t, h + 1, h + Len(b))
          /\ q = h + Len(b) \/ h = q - l

\* readFixSize: the body so far is what was read since the place h, and the rest of it is to come.
Growing(t, q, b, more, length) ==
    \E h \in Nat : h <= q /\ b = SubSeq(t, h + 1, q) /\ (q - h) + more = length

\* The client was told that the response is chunked.
Chunky == Side = "response" /\ client.chunked

\* What was read is a part of the text.
Reading == text \in Seq(STRING) /\ pos \in Nat /\ pos <= Len(text)
\* While the head is read, the buffer holds the last len characters that were read.
Heading == pc = "head" => (len \in Nat /\ len <= pos /\ \E q : ParserOk(parser, q))
\* The body is read only for a message that is not chunked, and some of it is missing.
Filling == pc = "body" => (~Chunky /\ left \in Nat \ {0} /\ Growing(text, pos, body, left, ContentLength(client)))
\* The chunks are read only for one that is.
Chunking == pc \in {"chunk", "data", "rest"} => Chunky
\* What BodyFollowsHead says, of the message that was returned.
Delivered == ret = "ok" => (pc = "done" /\ (~Chunky => Follows(text, pos, len, body, ContentLength(client))))
\* The inductive invariant.
ReceiveInv == Reading /\ Heading /\ Filling /\ Chunking /\ Delivered

\* ContentLength, of an end that is given.
ContentOf(side, p) ==
    lexical_cast(getHeader(p, (IF side = "request" THEN RequestWords ELSE ResponseWords).content_length))

\* It gives the property.
LEMMA DeliveredFollows == Delivered => BodyFollowsHead
  BY DEF Delivered, Chunky, Follows, BodyFollowsHead

\* There are two ends.
LEMMA SideFacts == Side \in {"request", "response"} /\ \A p : ContentLength(p) = ContentOf(Side, p)
  BY DEF Side, ContentLength, ContentOf

\* No step changes the end.
LEMMA SideStays ==
    ASSUME msg' = msg
    PROVE  Side' = Side /\ \A p : ContentLength(p) = ContentOf(Side, p) /\ ContentLength(client)' = ContentOf(Side, client')
  <1>1. Side' = Side
    BY DEF Side
  <1>2. ContentLength(client)' = ContentOf(Side', client')
    BY DEF ContentLength, ContentOf
  <1> QED  BY <1>1, <1>2, SideFacts, Zenon

\* A Content-Length is a natural number, also when the header is missing or is no number.
LEMMA ContentNat ==
    ASSUME NEW side \in {"request", "response"}, NEW st, NEW q, ParserOk(st, q)
    PROVE  ContentOf(side, st) \in Nat
  <1>1. PICK name : name = (IF side = "request" THEN RequestWords ELSE ResponseWords).content_length
    OBVIOUS
  <1>2. getHeader(st, name) \in Seq(STRING)
    <2>1. PICK h : h = st.data.headers /\ TextValues(h)
      BY DEF ParserOk
    <2>2. getHeader(st, name) = IF name \in DOMAIN h THEN h[name] ELSE << >>
      BY <2>1, Zenon DEF getHeader
    <2>3. << >> \in Seq(STRING)
      OBVIOUS
    <2>4. name \in DOMAIN h => h[name] \in Seq(STRING)
      BY <2>1, Zenon DEF TextValues
    <2> QED  BY <2>2, <2>3, <2>4, Zenon
  <1>3. strtol(getHeader(st, name), 10) \in Nat
    <2>1. 10 \in Nat
      OBVIOUS
    <2> QED  BY <1>2, <2>1, StrtolNat
  <1>4. lexical_cast(getHeader(st, name)) \in {strtol(getHeader(st, name), 10), 0}
    BY Zenon DEF lexical_cast
  <1>5. lexical_cast(getHeader(st, name)) \in Nat
    BY <1>3, <1>4
  <1> QED  BY <1>1, <1>5 DEF ContentOf

\* Taking Expect out of the headers leaves the Content-Length.
LEMMA WithoutExpect ==
    ASSUME NEW st, NEW q, ParserOk(st, q)
    PROVE  LET s == [st EXCEPT !.data.headers = [h \in DOMAIN @ \ {RequestWords.expect} |-> @[h]]]
           IN  s.nread = st.nread /\ s.chunked = st.chunked /\ ContentOf("request", s) = ContentOf("request", st)
  <1>1. RequestWords.content_length # RequestWords.expect
    BY DEF RequestWords
  <1>2. PICK e, n : e = RequestWords.expect /\ n = RequestWords.content_length /\ n # e
    BY <1>1
  <1>3. PICK s : s = [st EXCEPT !.data.headers = [h \in DOMAIN @ \ {e} |-> @[h]]]
    OBVIOUS
  <1>4. /\ s.nread = st.nread /\ s.chunked = st.chunked
        /\ s.data.headers = [h \in DOMAIN st.data.headers \ {e} |-> st.data.headers[h]]
    BY <1>3 DEF ParserOk, Fields, DataFields
  <1>5. getHeader(s, n) = getHeader(st, n)
    BY <1>2, <1>4 DEF getHeader
  <1>6. ContentOf("request", s) = ContentOf("request", st)
    BY <1>2, <1>5 DEF ContentOf
  <1> QED  BY <1>2, <1>3, <1>4, <1>6

\* It holds before anything is read.
LEMMA ReceiveInit == Init => ReceiveInv
  <1> SUFFICES ASSUME Init PROVE ReceiveInv
    OBVIOUS
  <1>1. Reading
    <2>1. text \in Seq(STRING)
      BY ReceiveAssumption, Zenon DEF Init
    <2>2. pos = 0
      BY DEF Init
    <2> QED  BY <2>1, <2>2 DEF Reading
  <1>2. ParserOk(Fresh, 0)
    <2>1. PICK v : v = V11
      OBVIOUS
    <2> QED  BY <2>1 DEF ParserOk, Fresh, Fields, DataFields, TextValues, Empty
  <1>3. Heading
    BY <1>2 DEF Heading, Init
  <1> QED  BY <1>1, <1>3 DEF Init, ReceiveInv, Filling, Chunking, Delivered

\* What a loop that asks for no more than is missing has read after n more characters.
LEMMA GrowingOn ==
    ASSUME NEW t \in Seq(STRING), NEW q \in Nat, NEW n \in Nat, q + n <= Len(t), NEW b, NEW more \in Nat, n <= more,
           NEW length, Growing(t, q, b, more, length)
    PROVE  /\ Growing(t, q + n, b \o SubSeq(t, q + 1, q + n), more - n, length)
           /\ \A l : more - n = 0 => Follows(t, q + n, l, b \o SubSeq(t, q + 1, q + n), length)
  <1>1. PICK h \in Nat : h <= q /\ b = SubSeq(t, h + 1, q) /\ (q - h) + more = length
    BY DEF Growing
  <1>2. PICK r \in Nat : r = q + n /\ r <= Len(t) /\ q <= r /\ h <= r
    <2>1. q + n \in Nat /\ q <= q + n /\ h <= q + n
      BY <1>1
    <2> QED  BY <2>1
  <1>3. PICK c : c = b \o SubSeq(t, q + 1, q + n)
    OBVIOUS
  <1>4. c = SubSeq(t, h + 1, r)
    BY <1>1, <1>2, <1>3, PartCat
  <1>5. Len(c) = r - h
    <2>1. Part(t, h, r)
      BY <1>2, PartFacts
    <2> QED  BY <1>4, <2>1 DEF Part
  <1>6. (r - h) + (more - n) = length
    BY <1>1, <1>2
  <1>7. Growing(t, r, c, more - n, length)
    BY <1>2, <1>4, <1>6 DEF Growing
  <1>8. ASSUME NEW l, more - n = 0 PROVE Follows(t, r, l, c, length)
    <2>1. r - h = length /\ h \in 0 .. r /\ h + Len(c) = r
      BY <1>1, <1>2, <1>5, <1>6, <1>8
    <2> QED  BY <1>4, <1>5, <2>1 DEF Follows
  <1> QED  BY <1>2, <1>3, <1>7, <1>8

\* What is left of the buffer behind its first k characters, after n more have come.
Behind(t, q, l, n, k) == SubSeq(SubSeq(t, (q - l) + 1, q + n), k + 1, Len(SubSeq(t, (q - l) + 1, q + n)))
\* It begins at the place that is as far from the end as it is long.
BehindPlace(t, q, l, n, k) ==
    \E h \in Nat : /\ h = (q + n) - (l + n - k) /\ h <= q + n
                   /\ Behind(t, q, l, n, k) = SubSeq(t, h + 1, q + n)
                   /\ Len(Behind(t, q, l, n, k)) = (q + n) - h

\* What memmove leaves in the buffer is the end of what was read.
LEMMA BehindFacts ==
    ASSUME NEW t \in Seq(STRING), NEW q \in Nat, NEW l \in Nat, l <= q, NEW n \in Nat, q + n <= Len(t),
           NEW k \in 0 .. l + n
    PROVE  BehindPlace(t, q, l, n, k)
  <1>0. PICK buf, have : /\ buf = SubSeq(t, (q - l) + 1, q + n) /\ have = SubSeq(buf, k + 1, Len(buf))
                         /\ have = Behind(t, q, l, n, k)
    BY Zenon DEF Behind
  <1>1. PICK a \in Nat, b \in Nat, h \in Nat, d \in Nat, z \in Nat :
           /\ a = q - l /\ b = q + n /\ z = k /\ h = a + k /\ d = b - a /\ a <= b /\ b <= Len(t)
           /\ z <= d /\ h <= b /\ h = (q + n) - (l + n - k) /\ a + d = b
    <2>1. /\ q - l \in Nat /\ q + n \in Nat /\ k \in Nat /\ (q - l) + k \in Nat /\ (q + n) - (q - l) \in Nat
          /\ q - l <= q + n /\ k <= (q + n) - (q - l) /\ (q - l) + k <= q + n
          /\ (q - l) + k = (q + n) - (l + n - k) /\ (q - l) + ((q + n) - (q - l)) = q + n
      OBVIOUS
    <2> QED  BY <2>1
  <1>2. Len(buf) = d
    <2>1. Part(t, a, b)
      BY <1>1, PartFacts
    <2> QED  BY <1>0, <1>1, <2>1 DEF Part
  <1>3. have = SubSeq(SubSeq(t, a + 1, b), z + 1, d)
    BY <1>0, <1>1, <1>2
  <1>4. have = SubSeq(t, (a + z) + 1, a + d)
    <2>1. d <= b - a
      BY <1>1
    <2> QED  BY <1>1, <1>3, <2>1, PartOfPart
  <1>5. have = SubSeq(t, h + 1, b)
    BY <1>1, <1>4
  <1>6. Len(have) = b - h
    <2>1. Part(t, h, b)
      BY <1>1, PartFacts
    <2> QED  BY <1>5, <2>1 DEF Part
  <1> QED  BY <1>0, <1>1, <1>5, <1>6 DEF BehindPlace

\* The body that the buffer already holds, or the beginning of it.
LEMMA BodyStarts ==
    ASSUME NEW t \in Seq(STRING), NEW q \in Nat, q <= Len(t), NEW l \in Int, NEW h \in Nat, h <= q, h = q - l,
           NEW have, have = SubSeq(t, h + 1, q), Len(have) = q - h, NEW length \in Nat
    PROVE  IF length > Len(have)
           THEN /\ length - Len(have) \in Nat \ {0}
                /\ Growing(t, q, SubSeq(have, 1, Len(have)), length - Len(have), length)
           ELSE Follows(t, q, l, SubSeq(have, 1, length), length)
  <1>1. CASE length > Len(have)
    <2>1. length - Len(have) \in Nat \ {0} /\ (q - h) + (length - Len(have)) = length
      BY <1>1
    <2>2. SubSeq(have, 1, Len(have)) = have
      <3>1. PICK d \in Nat : d = q - h /\ h + d = q /\ d <= q - h /\ 0 <= d
        <4>1. q - h \in Nat /\ h + (q - h) = q
          OBVIOUS
        <4> QED  BY <4>1
      <3>2. SubSeq(SubSeq(t, h + 1, q), 0 + 1, d) = SubSeq(t, (h + 0) + 1, h + d)
        <4>1. 0 \in Nat
          OBVIOUS
        <4> QED  BY <3>1, <4>1, PartOfPart
      <3>3. 0 + 1 = 1 /\ h + 0 = h
        OBVIOUS
      <3> QED  BY <3>1, <3>2, <3>3
    <2>3. Growing(t, q, have, length - Len(have), length)
      BY <2>1 DEF Growing
    <2> QED  BY <1>1, <2>1, <2>2, <2>3
  <1>2. CASE ~(length > Len(have))
    <2>1. PICK r \in Nat : r = h + length /\ r <= q /\ r <= Len(t) /\ h <= r /\ length <= q - h /\ r - h = length
      <3>1. h + length \in Nat /\ h + length <= q /\ h + length <= Len(t) /\ h <= h + length
            /\ length <= q - h /\ (h + length) - h = length
        BY <1>2
      <3> QED  BY <3>1
    <2>2. PICK b : b = SubSeq(have, 1, length)
      OBVIOUS
    <2>3. b = SubSeq(t, h + 1, r)
      <3>1. SubSeq(SubSeq(t, h + 1, q), 0 + 1, length) = SubSeq(t, (h + 0) + 1, h + length)
        <4>1. 0 \in Nat /\ 0 <= length
          OBVIOUS
        <4> QED  BY <2>1, <4>1, PartOfPart
      <3>2. 0 + 1 = 1 /\ h + 0 = h
        OBVIOUS
      <3> QED  BY <2>1, <2>2, <3>1, <3>2
    <2>4. Len(b) = length
      <3>1. Part(t, h, r)
        BY <2>1, PartFacts
      <3> QED  BY <2>1, <2>3, <3>1 DEF Part
    <2>5. Follows(t, q, l, b, length)
      <3>1. h \in 0 .. q /\ h + Len(b) <= q /\ b = SubSeq(t, h + 1, h + Len(b))
        BY <2>1, <2>3, <2>4
      <3> QED  BY <2>4, <3>1 DEF Follows
    <2> QED  BY <1>2, <2>2, <2>5
  <1> QED  BY <1>1, <1>2

\* A step that delivers nothing, or delivers a chunked message.
LEMMA QuietDelivery ==
    ASSUME Delivered, msg' = msg, ret' = "ok" => (pc' = "done" /\ Chunky')
    PROVE  Delivered'
  BY DEF Delivered

\* read() takes the next n characters of the text.
LEMMA ReadsOn ==
    ASSUME Reading, NEW n \in Nat, NEW most, Reads(n, most), text' = text
    PROVE  Reading' /\ pos' = pos + n /\ pos + n <= Len(text) /\ n <= most
  <1>1. pos' = pos + n /\ pos + n <= Len(text) /\ n <= most
    BY DEF Reads
  <1>2. pos + n \in Nat
    BY DEF Reading
  <1> QED  BY <1>1, <1>2 DEF Reading

\* recvRequest, recvResponse: one turn of the loop that reads the head.
LEMMA ReadHeadKeeps ==
    ASSUME ReceiveInv, NEW n \in 1 .. Len(text), ReadHead(n)
    PROVE  ReceiveInv'
  <1>0. n \in Nat /\ Len(text) \in Nat
    BY DEF ReceiveInv, Reading
  <1>1. pc = "head" /\ Reads(n, BuffSize - len) /\ msg' = msg /\ text' = text
    BY DEF ReadHead
  <1>2. Reading' /\ pos' = pos + n /\ pos + n <= Len(text)
    BY <1>0, <1>1, ReadsOn DEF ReceiveInv
  <1>3. PICK p : p = Execute(Side, parser, Buffer(n)) /\ Executed(n, p)
    BY DEF ReadHead
  <1>4. text \in Seq(STRING) /\ pos \in Nat /\ len \in Nat /\ len <= pos /\ \E q : ParserOk(parser, q)
    BY <1>1 DEF ReceiveInv, Reading, Heading
  <1>5. PICK buf : buf = Buffer(n) /\ buf = SubSeq(text, (pos - len) + 1, pos + n)
    BY Zenon DEF Buffer
  <1>6. buf \in Seq(STRING) /\ Len(buf) = len + n
    <2>1. PICK a \in Nat, b \in Nat : a = pos - len /\ b = pos + n /\ a <= b /\ b <= Len(text) /\ b - a = len + n
      <3>1. pos - len \in Nat /\ pos + n \in Nat /\ pos - len <= pos + n /\ (pos + n) - (pos - len) = len + n
        BY <1>0, <1>4
      <3> QED  BY <1>2, <3>1
    <2>2. Part(text, a, b)
      BY <1>4, <2>1, PartFacts
    <2> QED  BY <1>5, <2>1, <2>2 DEF Part
  <1>7. ParserOk(p, len + n)
    BY <1>3, <1>4, <1>5, <1>6, SideFacts, ExecuteOk
  <1>8. p.nread \in 0 .. len + n /\ len' = len + n - p.nread
    BY <1>3, <1>7 DEF ParserOk, Executed
  <1>9. len' \in Nat /\ len' <= pos'
    BY <1>0, <1>2, <1>4, <1>8
  <1>10. ret # "ok"
    BY <1>1 DEF ReceiveInv, Delivered
  <1>11. CASE p.thrown \/ hasError(p) \/ len' = BuffSize
    <2>1. pc' = "done" /\ ret' = (IF p.thrown THEN "throw" ELSE "bad")
      BY <1>3, <1>11 DEF Executed, Return
    <2>2. ret' # "ok"
      BY <2>1
    <2> QED  BY <1>2, <2>1, <2>2 DEF ReceiveInv, Heading, Filling, Chunking, Delivered
  <1>12. CASE ~(p.thrown \/ hasError(p) \/ len' = BuffSize) /\ ~isFinished(Side, p)
    <2>1. parser' = p /\ pc' = pc /\ ret' = ret
      BY <1>3, <1>12 DEF Executed
    <2> QED  BY <1>1, <1>2, <1>7, <1>9, <1>10, <2>1 DEF ReceiveInv, Heading, Filling, Chunking, Delivered
  <1>13. CASE ~(p.thrown \/ hasError(p) \/ len' = BuffSize) /\ isFinished(Side, p)
    <2>1. StartBody(p)
      BY <1>3, <1>13 DEF Executed
    <2>2. PICK length \in Nat : length = ContentOf(Side, p) /\ length = ContentLength(p)
      BY <1>7, SideFacts, ContentNat
    <2>3. PICK c : /\ c = IF Side = "request" /\ getHeader(p, RequestWords.expect) = RequestWords.continue
                          THEN [p EXCEPT !.data.headers = [h \in DOMAIN @ \ {RequestWords.expect} |-> @[h]]]
                          ELSE p
      OBVIOUS
    <2>4. c.nread = p.nread /\ c.chunked = p.chunked /\ ContentOf(Side, c) = length
      <3>1. CASE c = p
        BY <2>2, <3>1
      <3>2. CASE c # p
        <4>1. Side = "request" /\ c = [p EXCEPT !.data.headers = [h \in DOMAIN @ \ {RequestWords.expect} |-> @[h]]]
          BY <2>3, <3>2, Zenon
        <4> QED  BY <1>7, <2>2, <4>1, WithoutExpect
      <3> QED  BY <3>1, <3>2
    <2>5. PICK have : have = Leftover(c, Buffer(pos' - pos))
      OBVIOUS
    <2>6. have = SubSeq(buf, p.nread + 1, Len(buf))
      <3>1. pos' - pos = n
        BY <1>0, <1>2, <1>4
      <3> QED  BY <1>5, <2>4, <2>5, <3>1 DEF Leftover
    <2>7. PICK take : take = IF length > Len(have) THEN Len(have) ELSE length
      OBVIOUS
    <2>8. /\ client' = c
          /\ IF Side = "response" /\ c.chunked
             THEN /\ pc' = "chunk" /\ ret' = ret
             ELSE /\ body' = SubSeq(have, 1, take)
                  /\ left' = length - take
                  /\ IF length > Len(have) THEN pc' = "body" /\ ret' = ret
                     ELSE pc' = "done" /\ ret' = "ok"
      BY <2>1, <2>2, <2>3, <2>5, <2>7, Zenon DEF StartBody, Deliver, Return
    <2>9. Side' = Side /\ ContentLength(client)' = length
      BY <1>1, <2>4, <2>8, SideStays
    <2>10. PICK h \in Nat : /\ h = (pos + n) - (len + n - p.nread) /\ h <= pos + n
                            /\ have = SubSeq(text, h + 1, pos + n) /\ Len(have) = (pos + n) - h
      <3>1. p.nread \in Nat
        BY <1>0, <1>4, <1>8
      <3>2. PICK q \in Nat, l \in Nat, m \in Nat, k \in Nat : q = pos /\ l = len /\ m = n /\ k = p.nread
        BY <1>0, <1>4, <3>1, Zenon
      <3>3. k \in 0 .. l + m /\ l <= q /\ q + m <= Len(text)
        BY <1>2, <1>4, <1>8, <3>2
      <3>4. have = Behind(text, q, l, m, k)
        BY <1>5, <2>6, <3>2, Zenon DEF Behind
      <3>5. \E h \in Nat : /\ h = (q + m) - (l + m - k) /\ h <= q + m
                           /\ have = SubSeq(text, h + 1, q + m) /\ Len(have) = (q + m) - h
        <4>1. BehindPlace(text, q, l, m, k)
          BY <1>4, <3>3, BehindFacts
        <4> QED  BY <3>4, <4>1, Zenon DEF BehindPlace
      <3> QED  BY <3>2, <3>5, Zenon
    <2>11. CASE Side = "response" /\ c.chunked
      <3>1. pc' = "chunk" /\ ret' # "ok" /\ Chunky'
        BY <1>10, <2>8, <2>9, <2>11 DEF Chunky
      <3> QED  BY <1>2, <3>1 DEF ReceiveInv, Heading, Filling, Chunking, Delivered
    <2>12. CASE ~(Side = "response" /\ c.chunked)
      <3>1. ~Chunky'
        BY <2>8, <2>9, <2>12 DEF Chunky
      <3>2. IF length > Len(have)
            THEN /\ length - Len(have) \in Nat \ {0}
                 /\ Growing(text, pos', SubSeq(have, 1, Len(have)), length - Len(have), length)
            ELSE Follows(text, pos', len', SubSeq(have, 1, length), length)
        <4>1. PICK r \in Nat, l \in Nat : r = pos' /\ l = len' /\ r <= Len(text) /\ h <= r /\ h = r - l
                  /\ have = SubSeq(text, h + 1, r) /\ Len(have) = r - h
          BY <1>2, <1>8, <1>9, <2>10 DEF Reading
        <4>2. PICK t \in Seq(STRING) : t = text /\ r <= Len(t) /\ have = SubSeq(t, h + 1, r)
          BY <1>4, <4>1
        <4>3. l \in Int
          OBVIOUS
        <4>4. IF length > Len(have)
              THEN /\ length - Len(have) \in Nat \ {0}
                   /\ Growing(t, r, SubSeq(have, 1, Len(have)), length - Len(have), length)
              ELSE Follows(t, r, l, SubSeq(have, 1, length), length)
          BY <4>1, <4>2, <4>3, BodyStarts
        <4> QED  BY <4>1, <4>2, <4>4, Zenon
      <3>3. CASE length > Len(have)
        <4>1. pc' = "body" /\ ret' = ret /\ body' = SubSeq(have, 1, Len(have)) /\ left' = length - Len(have)
          BY <2>7, <2>8, <2>12, <3>3
        <4>2. Filling'
          BY <1>1, <2>9, <3>1, <3>2, <3>3, <4>1 DEF Filling
        <4> QED  BY <1>2, <1>10, <4>1, <4>2 DEF ReceiveInv, Heading, Chunking, Delivered
      <3>4. CASE ~(length > Len(have))
        <4>1. pc' = "done" /\ ret' = "ok" /\ body' = SubSeq(have, 1, length)
          BY <2>7, <2>8, <2>12, <3>4
        <4>2. Delivered'
          BY <1>1, <2>9, <3>1, <3>2, <3>4, <4>1 DEF Delivered
        <4> QED  BY <1>2, <4>1, <4>2 DEF ReceiveInv, Heading, Filling, Chunking
      <3> QED  BY <3>3, <3>4
    <2> QED  BY <2>11, <2>12
  <1> QED  BY <1>11, <1>12, <1>13

\* readFixSize.
LEMMA ReadBodyKeeps ==
    ASSUME ReceiveInv, NEW n \in 1 .. Len(text), ReadBody(n)
    PROVE  ReceiveInv'
  <1>0. n \in Nat /\ Len(text) \in Nat
    BY DEF ReceiveInv, Reading
  <1>1. pc = "body" /\ Reads(n, Ask) /\ msg' = msg /\ text' = text /\ client' = client /\ len' = len
    BY DEF ReadBody
  <1>2. Reading' /\ pos' = pos + n /\ pos + n <= Len(text) /\ n <= Ask
    BY <1>0, <1>1, ReadsOn DEF ReceiveInv
  <1>3. /\ text \in Seq(STRING) /\ pos \in Nat /\ ~Chunky /\ left \in Nat
        /\ Growing(text, pos, body, left, ContentLength(client)) /\ ret # "ok"
    BY <1>1 DEF ReceiveInv, Reading, Filling, Delivered
  <1>4. n <= left
    BY <1>0, <1>2, <1>3, ReceiveAssumption DEF Ask
  <1>5. PICK length : length = ContentLength(client) /\ ContentLength(client)' = length /\ ~Chunky'
    BY <1>1, <1>3, SideFacts, SideStays DEF Chunky
  <1>6. body' = body \o SubSeq(text, pos + 1, pos + n) /\ left' = left - n
    BY DEF ReadBody
  <1>7. /\ Growing(text, pos', body', left', length)
        /\ left' = 0 => Follows(text, pos', len', body', length)
    <2>1. /\ Growing(text, pos + n, body \o SubSeq(text, pos + 1, pos + n), left - n, length)
          /\ \A l : left - n = 0 => Follows(text, pos + n, l, body \o SubSeq(text, pos + 1, pos + n), length)
      BY <1>0, <1>2, <1>3, <1>4, <1>5, GrowingOn
    <2> QED  BY <1>2, <1>6, <2>1
  <1>8. left' \in Nat
    BY <1>0, <1>3, <1>4, <1>6
  <1>9. CASE left' <= 0
    <2>1. pc' = "done" /\ left' = 0
      BY <1>8, <1>9 DEF ReadBody, Deliver, Return
    <2>2. Delivered'
      BY <1>1, <1>5, <1>7, <2>1 DEF Delivered
    <2> QED  BY <1>2, <2>1, <2>2 DEF ReceiveInv, Heading, Filling, Chunking
  <1>10. CASE ~(left' <= 0)
    <2>1. pc' = "body" /\ ret' # "ok" /\ left' \in Nat \ {0}
      BY <1>1, <1>3, <1>8, <1>10 DEF ReadBody
    <2>2. Filling'
      BY <1>1, <1>5, <1>7, <2>1 DEF Filling
    <2> QED  BY <1>2, <2>1, <2>2 DEF ReceiveInv, Heading, Chunking, Delivered
  <1> QED  BY <1>9, <1>10

\* The steps of a chunked message: the text, and that it is chunked, is all that is needed of them.
LEMMA ChunkKeeps ==
    ASSUME ReceiveInv, Reading', msg' = msg, client' = client, pc \in {"chunk", "data", "rest"},
           pc' \in {"chunk", "data", "rest", "done"}, ret' = ret \/ pc' = "done"
    PROVE  ReceiveInv'
  <1>1. Chunky /\ Chunky' /\ ret # "ok"
    <2>1. Side' = Side
      BY SideStays
    <2> QED  BY <2>1 DEF ReceiveInv, Chunking, Delivered, Chunky
  <1> QED  BY <1>1 DEF ReceiveInv, Heading, Filling, Chunking, Delivered

\* recvResponse: the line with the length of a chunk.
LEMMA ReadChunkHeadKeeps ==
    ASSUME ReceiveInv, NEW n \in 0 .. Len(text), ReadChunkHead(n)
    PROVE  ReceiveInv'
  <1>0. n \in Nat /\ Len(text) \in Nat /\ text' = text
    BY DEF ReceiveInv, Reading, ReadChunkHead
  <1>1. Reading'
    <2>1. CASE begin /\ len > 0
      <3>1. pos' = pos
        BY <2>1 DEF ReadChunkHead
      <3> QED  BY <1>0, <3>1 DEF ReceiveInv, Reading
    <2>2. CASE ~(begin /\ len > 0)
      <3>1. Reads(n, BuffSize - len)
        BY <2>2 DEF ReadChunkHead
      <3> QED  BY <1>0, <3>1, ReadsOn DEF ReceiveInv
    <2> QED  BY <2>1, <2>2
  <1>2. /\ msg' = msg /\ client' = client /\ pc = "chunk"
        /\ pc' \in {"chunk", "data", "done"} /\ (ret' = ret \/ pc' = "done")
    BY Zenon DEF ReadChunkHead, Return
  <1> QED  BY <1>1, <1>2, ChunkKeeps

\* recvResponse: the part of a chunk that is in the buffer.
LEMMA TakeChunkKeeps ==
    ASSUME ReceiveInv, TakeChunk
    PROVE  ReceiveInv'
  <1>1. Reading'
    BY DEF ReceiveInv, Reading, TakeChunk
  <1>2. /\ msg' = msg /\ client' = client /\ pc = "data"
        /\ pc' \in {"chunk", "rest", "done"} /\ (ret' = ret \/ pc' = "done")
    BY Zenon DEF TakeChunk, Return, NextChunk, Deliver
  <1> QED  BY <1>1, <1>2, ChunkKeeps

\* recvResponse: readFixSize of the rest of a chunk.
LEMMA ReadChunkRestKeeps ==
    ASSUME ReceiveInv, NEW n \in 1 .. Len(text), ReadChunkRest(n)
    PROVE  ReceiveInv'
  <1>0. n \in Nat /\ Len(text) \in Nat
    BY DEF ReceiveInv, Reading
  <1>1. Reading'
    <2>1. Reads(n, Ask) /\ text' = text
      BY DEF ReadChunkRest
    <2> QED  BY <1>0, <2>1, ReadsOn DEF ReceiveInv
  <1>2. /\ msg' = msg /\ client' = client /\ pc = "rest"
        /\ pc' \in {"chunk", "rest", "done"} /\ (ret' = ret \/ pc' = "done")
    BY Zenon DEF ReadChunkRest, Return, NextChunk, Deliver
  <1> QED  BY <1>1, <1>2, ChunkKeeps

\* The connection closes or fails: nothing is delivered.
LEMMA ReadFailsKeeps ==
    ASSUME ReceiveInv, ReadFails
    PROVE  ReceiveInv'
  <1>1. Reading' /\ pc' = "done" /\ ret' = "closed"
    BY DEF ReceiveInv, Reading, ReadFails, Return
  <1> QED  BY <1>1 DEF ReceiveInv, Heading, Filling, Chunking, Delivered

\* Every step keeps the inductive invariant.
LEMMA ReceiveStep == ReceiveInv /\ [Next]_vars => ReceiveInv'
  <1> SUFFICES ASSUME ReceiveInv, [Next]_vars PROVE ReceiveInv'
    OBVIOUS
  <1>1. CASE Next
    BY <1>1, ReadHeadKeeps, ReadBodyKeeps, ReadChunkHeadKeeps, TakeChunkKeeps, ReadChunkRestKeeps, ReadFailsKeeps
       DEF Next
  <1>2. CASE UNCHANGED vars
    <2>1. Side' = Side /\ ContentLength(client)' = ContentLength(client) /\ Chunky' = Chunky
      BY <1>2 DEF vars, Side, ContentLength, Chunky
    <2> QED  BY <1>2, <2>1 DEF vars, ReceiveInv, Reading, Heading, Filling, Chunking, Delivered
  <1> QED  BY <1>1, <1>2

\* However the reads cut the text: the body of a message that is not chunked has the length its header
\* gives, follows the head without a gap, and nothing is taken from the socket behind it but what came
\* with the end of the head.
THEOREM BodyCorrect == Spec => []BodyFollowsHead
  <1>1. ReceiveInv => BodyFollowsHead
    BY DeliveredFollows DEF ReceiveInv
  <1> QED  BY <1>1, ReceiveInit, ReceiveStep, PTL DEF Spec
=============================================================================
