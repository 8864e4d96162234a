--------------------------- MODULE StringCommands ---------------------------
(***************************************************************************)
(* commands/redis/string_commands.cpp, run by one worker.  A handler is an *)
(* operator from the database before the command and the command's         *)
(* arguments to a result: the database after it, the reply, and the        *)
(* commands it passes to LogToAof.  Arguments are already parsed; the      *)
(* errors a handler reports before it touches the database are left out.   *)
(*                                                                         *)
(* A string is a sequence of bytes.  Integers are IntMin..IntMax (int64_t  *)
(* in the code) and wrap around; floating point values are whole numbers.  *)
(***************************************************************************)
EXTENDS Database

CONSTANTS IntMax,           \* the largest int64_t
          FloatPrecision    \* digits INCRBYFLOAT prints after the point (17)

\* A result, without and with a command for the append-only file.
Result(d, reply) == [db |-> d, reply |-> reply, log |-> <<>>]
Logged(d, reply, command) == [db |-> d, reply |-> reply, log |-> <<command>>]

Error == [error |-> TRUE]

-----------------------------------------------------------------------------
(* Numbers and their decimal form: absl::SimpleAtoi, SimpleAtod and StrCat *)

IntMin == -IntMax - 1

Wrap(n) == ((n - IntMin) % (2 * IntMax + 2)) + IntMin

Digit == 48..57
Minus == 45
Plus == 43
Point == 46

AllDigits(s) == s # <<>> /\ \A i \in DOMAIN s : s[i] \in Digit

Unsigned(s) == IF s # <<>> /\ s[1] \in {Minus, Plus} THEN Tail(s) ELSE s

DigitsValue(s) ==
    LET V[i \in 0..Len(s)] == IF i = 0 THEN 0 ELSE V[i - 1] * 10 + (s[i] - 48) IN V[Len(s)]

\* Nil for what is no number or does not fit.
SimpleAtoi(s) ==
    LET u == Unsigned(s)
        n == IF s[1] = Minus THEN -DigitsValue(u) ELSE DigitsValue(u)
    IN IF AllDigits(u) /\ n \in IntMin..IntMax THEN n ELSE Nil

\* Whole numbers only, with or without a fraction of zeros.
SimpleAtod(s) ==
    LET p == CHOOSE i \in 0..Len(s) : IF i = 0 THEN \A j \in DOMAIN s : s[j] # Point ELSE s[i] = Point
    IN IF p = 0 THEN SimpleAtoi(s)
       ELSE IF \A i \in p + 1..Len(s) : s[i] = 48 THEN SimpleAtoi(SubSeq(s, 1, p - 1)) ELSE Nil

Decimal[n \in Nat] == IF n < 10 THEN <<48 + n>> ELSE Append(Decimal[n \div 10], 48 + (n % 10))

StrCat(n) == IF n < 0 THEN <<Minus>> \o Decimal[-n] ELSE Decimal[n]

\* std::fixed with a precision: the zeros after the point are trimmed only
\* when a digit other than zero comes after it, so a whole number keeps them.
StrFixed(n) == StrCat(n) \o <<Point>> \o [i \in 1..FloatPrecision |-> 48]

-----------------------------------------------------------------------------
(* Reading and writing                                                     *)

HandleGet(d, k) == Result(d, GetReply(d, k))

\* NX and XX go by Get, expire (an absolute time, or Nil) is set afterwards.
\* The absolute time is what the log gets as the argument of PX.
HandleSet(d, k, v, nx, xx, expire) ==
    LET exists == GetReply(d, k) # Nil
        e == Set(d, k, v)
    IN IF (nx /\ exists) \/ (xx /\ ~exists) THEN Result(d, Nil)
       ELSE IF expire = Nil THEN Logged(e, "OK", [name |-> "SET", key |-> k, value |-> v, px |-> Nil])
       ELSE Logged(SetExpireMs(e, k, expire), "OK",
                   [name |-> "SET", key |-> k, value |-> v, px |-> expire])

\* Del(keys): one after the other, duplicates included.
DelKeys(d, keys) ==
    LET Step[i \in 0..Len(keys)] == IF i = 0 THEN d ELSE Del(Step[i - 1], keys[i])
    IN [db |-> Step[Len(keys)],
        count |-> Cardinality({i \in DOMAIN keys : Stored(Step[i - 1], keys[i])})]

HandleDel(d, keys) ==
    LET r == DelKeys(d, keys) IN Logged(r.db, r.count, [name |-> "DEL", keys |-> keys])

HandleUnlink(d, keys) == LET r == DelKeys(d, keys) IN Result(r.db, r.count)

HandleMGet(d, keys) == Result(d, [i \in DOMAIN keys |-> GetReply(d, keys[i])])

SetAll(d, keys, values) ==
    LET Step[i \in 0..Len(keys)] == IF i = 0 THEN d ELSE Set(Step[i - 1], keys[i], values[i])
    IN Step[Len(keys)]

HandleMSet(d, keys, values) ==
    Logged(SetAll(d, keys, values), "OK", [name |-> "MSET", keys |-> keys, values |-> values])

HandleMSetNx(d, keys, values) ==
    IF \E i \in DOMAIN keys : GetReply(d, keys[i]) # Nil THEN Result(d, 0)
    ELSE Logged(SetAll(d, keys, values), 1, [name |-> "MSETNX", keys |-> keys, values |-> values])

HandleGetSet(d, k, v) ==
    Logged(Set(d, k, v), GetReply(d, k), [name |-> "GETSET", key |-> k, value |-> v])

HandleSetEx(d, k, seconds, v) ==
    Logged(SetExpireSeconds(Set(d, k, v), k, seconds), "OK",
           [name |-> "SETEX", key |-> k, seconds |-> seconds, value |-> v])

HandlePSetEx(d, k, ms, v) == Result(SetExpireMs(Set(d, k, v), k, d.now + ms), "OK")

HandleSetNx(d, k, v) ==
    IF GetReply(d, k) # Nil THEN Result(d, 0)
    ELSE Logged(Set(d, k, v), 1, [name |-> "SETNX", key |-> k, value |-> v])

HandleGetDel(d, k) ==
    IF GetReply(d, k) = Nil THEN Result(d, Nil) ELSE Result(Del(d, k), GetReply(d, k))

\* The options are carried out as they are read: an error in a later one
\* leaves the earlier ones in force.
GetExOption(d, k, o) ==
    IF o.name = "EX" THEN SetExpireSeconds(d, k, o.n)
    ELSE IF o.name = "PX" THEN SetExpireMs(d, k, d.now + o.n)
    ELSE IF o.name = "EXAT" THEN SetExpireMs(d, k, o.n * MsPerSec)
    ELSE IF o.name = "PXAT" THEN SetExpireMs(d, k, o.n)
    ELSE Persist(d, k)

BadOption(o) == o.name = "BAD" \/ (o.name # "PERSIST" /\ o.n <= 0)

HandleGetEx(d, k, options) ==
    LET good == {i \in 0..Len(options) : \A j \in 1..i : ~BadOption(options[j])}
        n == CHOOSE i \in good : \A j \in good : j <= i
        Step[i \in 0..n] == IF i = 0 THEN d ELSE GetExOption(Step[i - 1], k, options[i])
    IN IF GetReply(d, k) = Nil THEN Result(d, Nil)
       ELSE Result(Step[n], IF n = Len(options) THEN GetReply(d, k) ELSE Error)

-----------------------------------------------------------------------------
(* Counters and parts of strings                                           *)

\* INCR, DECR, INCRBY and DECRBY differ in the signed amount and in the
\* command they log.
AddInt(d, k, amount, command) ==
    LET v == GetReply(d, k)
        n == IF v = Nil THEN 0 ELSE SimpleAtoi(v)
        sum == Wrap(n + amount)
    IN IF n = Nil THEN Result(d, Error) ELSE Logged(Set(d, k, StrCat(sum)), sum, command)

HandleIncr(d, k) == AddInt(d, k, 1, [name |-> "INCR", key |-> k])
HandleDecr(d, k) == AddInt(d, k, -1, [name |-> "DECR", key |-> k])
HandleIncrBy(d, k, n) == AddInt(d, k, n, [name |-> "INCRBY", key |-> k, by |-> n])
HandleDecrBy(d, k, n) == AddInt(d, k, -n, [name |-> "DECRBY", key |-> k, by |-> n])

HandleIncrByFloat(d, k, increment) ==
    LET v == GetReply(d, k)
        x == IF v = Nil THEN 0 ELSE SimpleAtod(v)
        s == StrFixed(x + increment)
    IN IF x = Nil THEN Result(d, Error) ELSE Result(Set(d, k, s), s)

\* Mutant: the log gets the whole new value.
HandleAppendLoggingAll(d, k, v) ==
    LET s == IF GetReply(d, k) = Nil THEN v ELSE GetReply(d, k) \o v
    IN Logged(Set(d, k, s), Len(s), [name |-> "APPEND", key |-> k, value |-> s])

HandleAppend(d, k, v) ==
    LET old == GetReply(d, k)
        s == IF old = Nil THEN v ELSE old \o v
    IN Logged(Set(d, k, s), Len(s), [name |-> "APPEND", key |-> k, value |-> v])

HandleStrlen(d, k) == Result(d, IF GetReply(d, k) = Nil THEN 0 ELSE Len(GetReply(d, k)))

\* SUBSTR calls it too.
HandleGetRange(d, k, start, end) == Result(d, GetRangeReply(d, k, start, end))

HandleSetRange(d, k, offset, v) ==
    Logged(SetRange(d, k, offset, v), Len(SetRangeValue(d, k, offset, v)),
           [name |-> "SETRANGE", key |-> k, offset |-> offset, value |-> v])

\* Mutant: on a mismatch only the column to the left is looked at.
LcsTableLeft(s, t) ==
    LET dp[p \in (0..Len(s)) \X (0..Len(t))] ==
            IF p[1] = 0 \/ p[2] = 0 THEN 0
            ELSE IF s[p[1]] = t[p[2]] THEN dp[<<p[1] - 1, p[2] - 1>>] + 1
            ELSE dp[<<p[1], p[2] - 1>>]
    IN dp

\* dp[i][j]: the length for the first i and the first j bytes.
LcsTable(s, t) ==
    LET dp[p \in (0..Len(s)) \X (0..Len(t))] ==
            LET i == p[1]
                j == p[2]
            IN IF i = 0 \/ j = 0 THEN 0
               ELSE IF s[i] = t[j] THEN dp[<<i - 1, j - 1>>] + 1
               ELSE IF dp[<<i - 1, j>>] > dp[<<i, j - 1>>] THEN dp[<<i - 1, j>>]
               ELSE dp[<<i, j - 1>>]
    IN dp

\* The way back through the table.
LcsString(s, t) ==
    LET dp == LcsTable(s, t)
        Back[p \in (0..Len(s)) \X (0..Len(t))] ==
            LET i == p[1]
                j == p[2]
            IN IF i = 0 \/ j = 0 THEN <<>>
               ELSE IF s[i] = t[j] THEN Append(Back[<<i - 1, j - 1>>], s[i])
               ELSE IF dp[<<i - 1, j>>] > dp[<<i, j - 1>>] THEN Back[<<i - 1, j>>]
               ELSE Back[<<i, j - 1>>]
    IN Back[<<Len(s), Len(t)>>]

HandleLcs(d, k1, k2, len_only) ==
    LET s == GetReply(d, k1)
        t == GetReply(d, k2)
    IN Result(d, IF s = Nil \/ t = Nil THEN Nil
                 ELSE IF len_only THEN LcsTable(s, t)[<<Len(s), Len(t)>>] ELSE LcsString(s, t))

HandleStrAlgo(d, k1, k2) ==
    LET s == GetReply(d, k1)
        t == GetReply(d, k2)
    IN Result(d, IF s = Nil \/ t = Nil THEN <<>> ELSE LcsString(s, t))

-----------------------------------------------------------------------------
(* Whole keys                                                              *)

\* GetType for every key named.
HandleExists(d, keys) ==
    Result(TouchAll(d, {keys[i] : i \in DOMAIN keys}),
           Cardinality({i \in DOMAIN keys : IsValid(d, keys[i])}))

HandleCopy(d, source, destination, replace) ==
    IF GetReply(d, source) = Nil \/ (~replace /\ GetReply(d, destination) # Nil)
    THEN Result(d, 0)
    ELSE Result(Set(d, destination, GetReply(d, source)), 1)

\* "1:" and the value.
HandleDump(d, k) ==
    Result(d, IF GetReply(d, k) = Nil THEN Nil ELSE <<49, 58>> \o GetReply(d, k))

\* The ttl is in milliseconds and is rounded down to seconds.
HandleRestore(d, k, ttl, serialized, replace) ==
    LET e == Set(d, k, SubSeq(serialized, 3, Len(serialized)))
    IN IF ~replace /\ GetReply(d, k) # Nil THEN Result(d, Error)
       ELSE Result(IF ttl > 0 THEN SetExpireSeconds(e, k, ttl \div MsPerSec) ELSE e, "OK")

\* What running a logged command again does.
ReplayString(d, c) ==
    CASE c.name = "SET" -> HandleSet(d, c.key, c.value, FALSE, FALSE,
                                     IF c.px = Nil THEN Nil ELSE d.now + c.px).db
      [] c.name = "DEL" -> HandleDel(d, c.keys).db
      [] c.name = "MSET" -> HandleMSet(d, c.keys, c.values).db
      [] c.name = "MSETNX" -> HandleMSetNx(d, c.keys, c.values).db
      [] c.name = "GETSET" -> HandleGetSet(d, c.key, c.value).db
      [] c.name = "SETEX" -> HandleSetEx(d, c.key, c.seconds, c.value).db
      [] c.name = "SETNX" -> HandleSetNx(d, c.key, c.value).db
      [] c.name = "INCR" -> HandleIncr(d, c.key).db
      [] c.name = "DECR" -> HandleDecr(d, c.key).db
      [] c.name = "INCRBY" -> HandleIncrBy(d, c.key, c.by).db
      [] c.name = "DECRBY" -> HandleDecrBy(d, c.key, c.by).db
      [] c.name = "APPEND" -> HandleAppend(d, c.key, c.value).db
      [] c.name = "SETRANGE" -> HandleSetRange(d, c.key, c.offset, c.value).db

=============================================================================
