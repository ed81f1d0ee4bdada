------------------------------ MODULE MCHttp2 ------------------------------
(***************************************************************************)
(* Http2 for TLC: three headers with the same name, one of them too long   *)
(* for WriteVarInt, one static entry, and a table with room for three      *)
(* entries, so that all three codings and eviction happen.                 *)
(***************************************************************************)
EXTENDS Http2

\* 256 bytes, none of which Huffman coding makes shorter.
X16 == "XXXXXXXXXXXXXXXX"
X64 == X16 \o X16 \o X16 \o X16
X256 == X64 \o X64 \o X64 \o X64

MCStatic == <<<<":status", "200">>>>
MCHeaders == {<<"k", "1">>, <<"k", "2">>, <<"k", X256>>}
MCEncodeLen(s) == Len(s)
MCMisread == [headers |-> <<<<"X", "X">>>>, table |-> <<<<"X", "X">>>>]
=============================================================================
