--------------------------- MODULE BitmapCommands ---------------------------
(***************************************************************************)
(* commands/redis/bitmap_commands.cpp.  A bitmap is a string; bit 0 is the *)
(* highest bit of the first byte.                                          *)
(***************************************************************************)
EXTENDS StringCommands
LOCAL INSTANCE FiniteSetsExt

ByteBit(byte, i) == (byte \div 2^(7 - i)) % 2

\* Bits past the end are clear.
GetBit(s, offset) ==
    IF offset \div 8 >= Len(s) THEN 0 ELSE ByteBit(s[(offset \div 8) + 1], offset % 8)

EnsureBitmapSize(s, bytes) == [i \in 1..(IF Len(s) < bytes THEN bytes ELSE Len(s)) |->
                                  IF i <= Len(s) THEN s[i] ELSE 0]

SetBit(s, offset, bit) ==
    LET p == (offset \div 8) + 1
        t == EnsureBitmapSize(s, p)
    IN [t EXCEPT ![p] = @ + (bit - ByteBit(@, offset % 8)) * 2^(7 - (offset % 8))]

Bitmap(d, k) == IF GetReply(d, k) = Nil THEN <<>> ELSE GetReply(d, k)

HandleGetBit(d, k, offset) == Result(d, GetBit(Bitmap(d, k), offset))

\* The reply is the new bit.
HandleSetBit(d, k, offset, bit) == Result(Set(d, k, SetBit(Bitmap(d, k), offset, bit)), bit)

\* The bytes start and end stand for, from zero.
ByteRange(n, start, end) ==
    LET a == IF start < 0 THEN n + start ELSE start
        b == IF end < 0 THEN n + end ELSE end
    IN (IF a < 0 THEN 0 ELSE a)..(IF b >= n THEN n - 1 ELSE b)

PopCount(byte) == Cardinality({i \in 0..7 : ByteBit(byte, i) = 1})

HandleBitCount(d, k, start, end) ==
    LET s == Bitmap(d, k)
    IN Result(d, MapThenSumSet(LAMBDA i : PopCount(s[i + 1]), ByteRange(Len(s), start, end)))

\* Of a key that is not there: -1 for a set bit, 0 for a clear one.
HandleBitPos(d, k, bit, start, end) ==
    LET s == Bitmap(d, k)
        hits == {o \in 0..8 * Len(s) - 1 : o \div 8 \in ByteRange(Len(s), start, end) /\ GetBit(s, o) = bit}
    IN Result(d, IF GetReply(d, k) = Nil THEN -bit
                 ELSE IF hits = {} THEN -1 ELSE CHOOSE o \in hits : \A p \in hits : o <= p)

-----------------------------------------------------------------------------
(* BITOP                                                                   *)

\* A source that is too short counts as zero bytes.
SourceByte(s, i) == IF i <= Len(s) THEN s[i] ELSE 0

BitOfAll(op, bits) ==
    LET ones == Cardinality({i \in DOMAIN bits : bits[i] = 1})
    IN IF op = "AND" THEN (IF ones = Len(bits) THEN 1 ELSE 0)
       ELSE IF op = "OR" THEN (IF ones > 0 THEN 1 ELSE 0)
       ELSE IF op = "XOR" THEN ones % 2
       ELSE 1 - bits[1]

CombineBytes(op, bytes) ==
    MapThenSumSet(LAMBDA j : 2^(7 - j) * BitOfAll(op, [i \in DOMAIN bytes |-> ByteBit(bytes[i], j)]),
                  0..7)

\* n is the length of the result.
BitOp(op, sources, n) ==
    [i \in 1..n |-> CombineBytes(op, [s \in DOMAIN sources |-> SourceByte(sources[s], i)])]

Longest(sources) ==
    LET ns == {Len(sources[i]) : i \in DOMAIN sources} IN CHOOSE n \in ns : \A m \in ns : m <= n

\* With one worker.  NOT takes one source.  An empty result is stored.
HandleBitOp(d, op, destkey, keys) ==
    LET sources == [i \in DOMAIN keys |-> Bitmap(d, keys[i])]
        s == BitOp(op, sources, Longest(sources))
    IN IF op = "NOT" /\ Len(keys) # 1 THEN Result(d, Error)
       ELSE Result(Set(d, destkey, s), Len(s))

\* With several: answers[w] is what worker w has for the keys, an empty string
\* for a key it does not hold.  A later worker's answer replaces an earlier
\* one; only the length remembers them all.  NOT is left out: it reads the one
\* source up to that length, past the end of a shorter one.
GatheredSources(answers) == answers[Len(answers)]

GatheredBitOp(op, answers) ==
    LET longest == {Longest(answers[w]) : w \in DOMAIN answers}
    IN BitOp(op, GatheredSources(answers), CHOOSE n \in longest : \A m \in longest : m <= n)

-----------------------------------------------------------------------------
(* BITFIELD: a field is [signed, bits, offset], the offset counted in      *)
(* fields and the bits from the lowest.                                    *)

FieldBit(f, j) == f.offset * f.bits + j

\* Mutant: the sign bit is one too high.
ReadUnsigned(f, n) ==
    LET u == n % 2^f.bits IN IF f.signed /\ u >= 2^f.bits THEN u - 2^f.bits ELSE u

\* bits bits as an integer, by two's complement if the field is signed.
Read(f, n) ==
    LET u == n % 2^f.bits IN IF f.signed /\ u >= 2^(f.bits - 1) THEN u - 2^f.bits ELSE u

FieldValue(s, f) ==
    Read(f, MapThenSumSet(LAMBDA j : 2^j * GetBit(s, FieldBit(f, j)), 0..f.bits - 1))

PutBits(s, f, n) ==
    LET Step[j \in 0..f.bits] ==
            IF j = 0 THEN s ELSE SetBit(Step[j - 1], FieldBit(f, j - 1), (n \div 2^(j - 1)) % 2)
    IN Step[f.bits]

\* The widths the runs use are below 64.  For u64 the code shifts a 64-bit one by
\* 64 places, which C++ does not define.
FieldMin(f) == IF f.signed THEN -(2^(f.bits - 1)) ELSE 0
FieldMax(f) == IF f.signed THEN 2^(f.bits - 1) - 1 ELSE 2^f.bits - 1

\* How many bytes GET wants there to be, and INCRBY makes: it forgets that the
\* field need not begin with a byte.
RequiredBytes(f) == (FieldBit(f, 0) \div 8) + (f.bits + 7) \div 8

Saturated(f, n) == IF n < FieldMin(f) THEN FieldMin(f) ELSE IF n > FieldMax(f) THEN FieldMax(f) ELSE n

\* One subcommand on a: the bitmap and the replies so far.
FieldStep(a, c) ==
    LET old == EnsureBitmapSize(a.s, RequiredBytes(c.field))
        n == FieldValue(old, c.field) + c.value
        fits == c.overflow # "FAIL" \/ (c.value >= FieldMin(c.field) /\ c.value <= FieldMax(c.field))
        fitsSum == c.overflow # "FAIL" \/ (n >= FieldMin(c.field) /\ n <= FieldMax(c.field))
        new == IF c.overflow = "SAT" THEN Saturated(c.field, c.value) ELSE c.value
        sum == IF c.overflow = "SAT" THEN Saturated(c.field, n) ELSE Read(c.field, n)
    IN IF c.name = "GET"
       THEN [a EXCEPT !.replies =
                Append(@, IF Len(a.s) < RequiredBytes(c.field) THEN 0 ELSE FieldValue(a.s, c.field))]
       ELSE IF c.name = "SET"
       THEN IF fits THEN [s |-> PutBits(a.s, c.field, new), replies |-> Append(a.replies, new)]
            ELSE [a EXCEPT !.replies = Append(@, Nil)]
       ELSE IF fitsSum THEN [s |-> PutBits(old, c.field, sum), replies |-> Append(a.replies, sum)]
            ELSE [s |-> old, replies |-> Append(a.replies, Nil)]

\* Stored at the end in any case, GETs alone included; a subcommand that is
\* not known ends the command before that.
HandleBitField(d, k, commands) ==
    LET Step[i \in 0..Len(commands)] ==
            IF i = 0 THEN [s |-> Bitmap(d, k), replies |-> <<>>] ELSE FieldStep(Step[i - 1], commands[i])
    IN IF \E i \in DOMAIN commands : commands[i].name \notin {"GET", "SET", "INCRBY"}
       THEN Result(d, Error)
       ELSE Result(Set(d, k, Step[Len(commands)].s), Step[Len(commands)].replies)

=============================================================================
