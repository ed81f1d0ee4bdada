------------------------------- MODULE Hpack -------------------------------
(***************************************************************************)
(* Header compression: chat/http2/dynamic_table.cc and hpack.cc.           *)
(* A header is a pair of strings, a header block a sequence of coded       *)
(* fields; the two ends stay together only if every block that is packed   *)
(* is also parsed, in the same order.  Integers are coded as the code does *)
(* it, and with them the lengths of the strings; of Huffman coding only    *)
(* the length counts: it does not change which string it is.               *)
(***************************************************************************)
EXTENDS Integers, Sequences

CONSTANTS
    Static,         \* s_static_headers without its empty entry 0
    MaxDataSize,    \* DynamicTable::m_maxDataSize
    EncodeLen(_),   \* Huffman::EncodeLen
    Misread         \* what parse finds where it has lost its place: the headers
                    \* and the table it is left with, any will do

ASSUME StaticAssumption == Static \in Seq(STRING \X STRING)

\* parse returns with at least one header, or it throws or fails an assertion.
ASSUME MisreadAssumption ==
    /\ Misread \in [headers : Seq(STRING \X STRING), table : Seq(STRING \X STRING)]
    /\ Misread.headers # <<>>

First(S) == CHOOSE i \in S : \A j \in S : i <= j

Size(e) == Len(e[1]) + Len(e[2]) + 32

\* m_dataSize of the table without its n oldest entries.
DataSize(table, n) ==
    LET sum[i \in n .. Len(table)] == IF i = n THEN 0 ELSE sum[i - 1] + Size(table[i])
    IN  sum[Len(table)]

\* DynamicTable::update: evict the oldest entries until there is room, or the
\* table is empty; an entry that is larger than the table is stored all the same.
update(table, e) ==
    LET room == {n \in 0 .. Len(table) :
                    n = Len(table) \/ DataSize(table, n) + Size(e) <= MaxDataSize}
    IN  Append(SubSeq(table, First(room) + 1, Len(table)), e)

\* DynamicTable::getPair: the static entries, then the dynamic ones, newest
\* first; an index past the end gives two empty strings.
getPair(table, idx) ==
    LET i == Len(Static) + Len(table) + 1 - idx
    IN  CASE idx \in DOMAIN Static -> Static[idx]
          [] idx \notin DOMAIN Static /\ i \in DOMAIN table -> table[i]
          [] OTHER -> <<"", "">>

\* Mutant of findPair: an entry that has only the name passes for the header.
findPairByName(table, e) ==
    LET named == {i \in 1 .. Len(Static) + Len(table) : getPair(table, i)[1] = e[1]}
    IN  IF named = {} THEN [idx |-> -1, all |-> FALSE] ELSE [idx |-> First(named), all |-> TRUE]

\* DynamicTable::findPair: the first entry equal to the header, else the first
\* with its name, else -1.
findPair(table, e) ==
    LET indices == 1 .. Len(Static) + Len(table)
        named   == {i \in indices : getPair(table, i)[1] = e[1]}
        same    == {i \in named : getPair(table, i) = e}
    IN  CASE same # {}  -> [idx |-> First(same), all |-> TRUE]
          [] same = {} /\ named # {} -> [idx |-> First(named), all |-> FALSE]
          [] OTHER -> [idx |-> -1, all |-> FALSE]

-----------------------------------------------------------------------------
(* Integers and strings.                                                   *)

\* 0x8 | n, for a byte.
Or8(n) == IF (n \div 8) % 2 = 1 THEN n ELSE n + 8

\* WriteVarInt of a value, v being the largest number that the prefix holds.  A
\* byte that is not the last is marked with 0x8, where 0x80 is meant.  The third
\* number stands for the bytes from there on.
WriteVarInt(v, value) ==
    LET rest == value - v
    IN  CASE value < v -> <<value>>
          [] value >= v /\ rest < 128 -> <<v, rest>>
          [] OTHER -> <<v, Or8(rest % 128), rest \div 128>>

\* ReadVarInt: how many of the bytes it takes, and the value they have.  It goes on
\* as long as 0x80 is set.
Taken(v, bytes) ==
    CASE bytes[1] < v -> 1
      [] bytes[1] >= v /\ bytes[2] < 128 -> 2
      [] OTHER -> 3
ReadVarInt(v, bytes) ==
    CASE Taken(v, bytes) = 1 -> bytes[1]
      [] Taken(v, bytes) = 2 -> v + bytes[2]
      [] OTHER -> v + (bytes[2] % 128) + 128 * bytes[3]

\* All bytes of the integer are taken: the reader keeps its place.
InPlace(v, bytes) == Taken(v, bytes) = Len(bytes)

\* WriteString: the length, then the text, Huffman coded if that is shorter.
CodedLen(s) == IF EncodeLen(s) < Len(s) THEN EncodeLen(s) ELSE Len(s)
WriteString(s) == [length |-> WriteVarInt(127, CodedLen(s)), text |-> s]

-----------------------------------------------------------------------------
(* Fields and blocks.                                                      *)

\* HPack::pack of one header: INDEXED, WITH_INDEXING_INDEXED_NAME or
\* WITH_INDEXING_NEW_NAME, and the sender's table after it.
packOne(table, e) ==
    LET p == findPair(table, e)
    IN  CASE p.all -> [field |-> <<"indexed", WriteVarInt(127, p.idx)>>, table |-> table]
          [] ~p.all /\ p.idx > 0 ->
                [field |-> <<"name", WriteVarInt(63, p.idx), WriteString(e[2])>>, table |-> update(table, e)]
          [] OTHER -> [field |-> <<"new", WriteString(e[1]), WriteString(e[2])>>, table |-> update(table, e)]

\* HPack::pack of a header list: the block and the table after it.
pack(table, headers) ==
    LET after[i \in 0 .. Len(headers)] ==
            IF i = 0 THEN [block |-> <<>>, table |-> table]
            ELSE LET before == after[i - 1]
                     one    == packOne(before.table, headers[i])
                 IN  [block |-> Append(before.block, one.field), table |-> one.table]
    IN  after[Len(headers)]

\* The reader finds the end of the field where the writer has put it.
Readable(field) ==
    CASE field[1] = "indexed" -> InPlace(127, field[2])
      [] field[1] = "name"    -> InPlace(63, field[2]) /\ InPlace(127, field[3].length)
      [] field[1] = "new"     -> InPlace(127, field[2].length) /\ InPlace(127, field[3].length)

\* HPack::parse of one field that is readable, with the receiver's table.
parseOne(table, field) ==
    LET e == CASE field[1] = "indexed" -> getPair(table, ReadVarInt(127, field[2]))
               [] field[1] = "name"    -> <<getPair(table, ReadVarInt(63, field[2]))[1], field[3].text>>
               [] field[1] = "new"     -> <<field[2].text, field[3].text>>
    IN  [header |-> e, table |-> IF field[1] = "indexed" THEN table ELSE update(table, e)]

\* The same for fields one after the other: the headers and the table after them.
parseFields(table, fields) ==
    LET after[i \in 0 .. Len(fields)] ==
            IF i = 0 THEN [headers |-> <<>>, table |-> table]
            ELSE LET before == after[i - 1]
                     one    == parseOne(before.table, fields[i])
                 IN  [headers |-> Append(before.headers, one.header), table |-> one.table]
    IN  after[Len(fields)]

\* The fields of the block that are not readable.
Garbled(block) == {i \in DOMAIN block : ~Readable(block[i])}

\* HPack::parse of a block: from the first field on that is not readable it takes
\* other bytes for fields.
parse(table, block) ==
    IF Garbled(block) = {} THEN parseFields(table, block)
    ELSE [Misread EXCEPT !.headers =
             parseFields(table, SubSeq(block, 1, First(Garbled(block)) - 1)).headers \o @]
=============================================================================
