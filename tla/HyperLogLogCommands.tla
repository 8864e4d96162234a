------------------------ MODULE HyperLogLogCommands ------------------------
(***************************************************************************)
(* commands/redis/hyperloglog_commands.cpp.  A HyperLogLog is a string of  *)
(* 6-bit registers, four to three bytes, the low bits first.  The hash of  *)
(* an element is a number of HashBits bits: the register index on top, of  *)
(* RestBits bits the rest.  The estimate itself is floating point and a    *)
(* function of the registers, which stand for it in the replies.           *)
(***************************************************************************)
EXTENDS StringCommands

CONSTANTS HllRegisters,         \* 16384 in the code; a multiple of 4
          RestBits,             \* 50 in the code
          KeptBits,             \* 56: the bits CountLeadingZeros looks at
          MurmurHash64(_)

HllBytes == (HllRegisters * 6) \div 8

EmptyHll == [i \in 1..HllBytes |-> 0]

\* The two bytes a register lies in; past the end there is a zero byte.
LowByte(s, idx) == s[(idx * 6) \div 8 + 1]
HighByte(s, idx) == IF (idx * 6) \div 8 + 2 <= HllBytes THEN s[(idx * 6) \div 8 + 2] ELSE 0
BitOffset(idx) == (idx * 6) % 8

GetRegister(s, idx) ==
    ((LowByte(s, idx) + 256 * HighByte(s, idx)) \div 2^BitOffset(idx)) % 64

\* char is signed: a low byte of 128 and more is widened with ones, and the
\* or with the high byte keeps them.
Widened(low, high) == IF low >= 128 THEN low + 256 * 255 ELSE low + 256 * high

\* Mutant: the old value is not cleared.
SetRegisterOver(s, idx, value) ==
    LET w == Widened(LowByte(s, idx), HighByte(s, idx))
        b == 2^BitOffset(idx)
        n == IF (w \div b) % 64 = 0 THEN w + (value % 64) * b ELSE w
        p == (idx * 6) \div 8 + 1
    IN [i \in 1..HllBytes |-> IF i = p THEN n % 256 ELSE IF i = p + 1 THEN n \div 256 ELSE s[i]]

SetRegister(s, idx, value) ==
    LET w == Widened(LowByte(s, idx), HighByte(s, idx))
        b == 2^BitOffset(idx)
        n == (w - ((w \div b) % 64) * b) + (value % 64) * b
        p == (idx * 6) \div 8 + 1
    IN [i \in 1..HllBytes |-> IF i = p THEN n % 256 ELSE IF i = p + 1 THEN n \div 256 ELSE s[i]]

\* The index, and the zeros above the highest bit of the rest.  Six bits of
\* the index survive the mask: a rest of zeros below an index with one of them
\* set is never found (Nil: the loop does not end).
RegisterIndex(hash) == hash \div 2^RestBits

CountLeadingZeros(hash) ==
    LET rest == hash % 2^RestBits
    IN IF hash % 2^KeptBits = 0 THEN RestBits
       ELSE IF rest = 0 THEN Nil
       ELSE CHOOSE c \in 0..RestBits - 1 : rest \div 2^(RestBits - 1 - c) = 1

\* The stored string cut or padded to the size of a HyperLogLog.
EnsureHllData(d, k) ==
    LET v == GetReply(d, k)
    IN IF v = Nil THEN EmptyHll ELSE [i \in 1..HllBytes |-> IF i <= Len(v) THEN v[i] ELSE 0]

AddElement(s, e) ==
    LET i == RegisterIndex(MurmurHash64(e))
        c == CountLeadingZeros(MurmurHash64(e))
    IN IF c > GetRegister(s, i) THEN SetRegister(s, i, c) ELSE s

Terminates(elements) == \A i \in DOMAIN elements : CountLeadingZeros(MurmurHash64(elements[i])) # Nil

\* 1 whether or not a register has changed.
HandlePfAdd(d, k, elements) ==
    LET Step[i \in 0..Len(elements)] ==
            IF i = 0 THEN EnsureHllData(d, k) ELSE AddElement(Step[i - 1], elements[i])
    IN Result(Set(d, k, Step[Len(elements)]), 1)

IsHll(d, k) == GetReply(d, k) # Nil /\ Len(GetReply(d, k)) = HllBytes

\* The maximum of every register, one source and one register after the other;
\* what is no HyperLogLog is passed over.
MergeInto(s, t) ==
    LET Step[j \in 0..HllRegisters] ==
            IF j = 0 THEN s
            ELSE LET r == GetRegister(t, j - 1)
                 IN IF r > GetRegister(Step[j - 1], j - 1) THEN SetRegister(Step[j - 1], j - 1, r) ELSE Step[j - 1]
    IN Step[HllRegisters]

Merged(d, keys) ==
    LET Step[i \in 0..Len(keys)] ==
            IF i = 0 THEN EmptyHll
            ELSE IF IsHll(d, keys[i]) THEN MergeInto(Step[i - 1], GetReply(d, keys[i])) ELSE Step[i - 1]
    IN Step[Len(keys)]

Registers(s) == [j \in 0..HllRegisters - 1 |-> GetRegister(s, j)]

HandlePfCount(d, keys) ==
    Result(d, IF Len(keys) > 1 THEN Registers(Merged(d, keys))
              ELSE IF IsHll(d, keys[1]) THEN Registers(GetReply(d, keys[1])) ELSE Registers(EmptyHll))

\* The destination counts only when it is also named as a source.
HandlePfMerge(d, destkey, keys) == Result(Set(d, destkey, Merged(d, keys)), "OK")

\* GETREG.
HandlePfDebug(d, k, idx) ==
    Result(d, IF IsHll(d, k) /\ idx \in 0..HllRegisters - 1 THEN GetRegister(GetReply(d, k), idx) ELSE Error)

=============================================================================
