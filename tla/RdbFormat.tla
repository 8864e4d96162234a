----------------------------- MODULE RdbFormat ------------------------------
(***************************************************************************)
(* The RDB file: RdbWriter, RdbReader and rdb_common.hpp.  A file is the   *)
(* sequence of its key-value entries, between a header and a checksum that *)
(* the writer and the reader agree on (the reader hands out the entries    *)
(* before it comes to the checksum).  The lengths of strings are in bytes, *)
(* as the writer encodes them and as the reader decodes them.              *)
(***************************************************************************)
EXTENDS Integers, Sequences, DashMap

-----------------------------------------------------------------------------
(* Lengths, as sequences of bytes                                          *)

\* The upper 32 bits.
High(n) == (n \div 65536) \div 65536

\* 128 and eight bytes, the most significant first; h is the upper half of n.
EightBytes(h, n) ==
    <<128, (h \div 16777216) % 256, (h \div 65536) % 256, (h \div 256) % 256, h % 256,
      (n \div 16777216) % 256, (n \div 65536) % 256, (n \div 256) % 256, n % 256>>

WriteLength(n) ==
    IF n < 64 THEN <<n>>
    ELSE IF n < 16384 THEN <<64 + n \div 256, n % 256>>
    ELSE EightBytes(High(n), n)

\* The reader takes what follows 128 as two bytes, unless the first of them is
\* 128 again.
ReadLength(b) ==
    IF b[1] < 64 THEN [length |-> b[1], bytes |-> 1]
    ELSE IF b[1] < 128 THEN [length |-> (b[1] * 256 + b[2]) % 16384, bytes |-> 2]
    ELSE IF b[2] # 128 THEN [length |-> b[2] * 256 + b[3], bytes |-> 3]
    ELSE [length |-> 0, bytes |-> 2]

-----------------------------------------------------------------------------
(* Entries                                                                 *)

\* A stream is written as a hash; whatever else, as a string.
KeyTypeToRdbType(type) ==
    CASE type \in {"hash", "stream"} -> "RDB_TYPE_HASH"
      [] type = "list" -> "RDB_TYPE_LIST"
      [] type = "set" -> "RDB_TYPE_SET"
      [] type = "zset" -> "RDB_TYPE_ZSET"
      [] OTHER -> "RDB_TYPE_STRING"

\* expire_ms is -1 for none; a time before 1970 would be none too.
WriteKv(type, key, value, expire_ms) ==
    [type |-> type, key |-> key, value |-> value, expire_ms |-> IF expire_ms >= 0 THEN expire_ms ELSE -1]

\* A string as it is read back.  One of 16384 bytes or more is read as the empty
\* string, and the rest of its length and its bytes as further entries; what
\* comes after it in a file is therefore lost (Sound and Readable in Snapshots).
ReadString(s) == SubSeq(s, 1, ReadLength(WriteLength(Len(s))).length)

\* An entry with an empty key or value is passed over.
ReadKeyValue(e) == IF ReadString(e.value) = <<>> THEN Nil ELSE [e EXCEPT !.value = ReadString(@)]

\* What Load calls its callback with.
ReadEntries(file) == SelectSeq([i \in DOMAIN file |-> ReadKeyValue(file[i])], LAMBDA e : e # Nil)

=============================================================================
