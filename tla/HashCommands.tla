---------------------------- MODULE HashCommands ----------------------------
(***************************************************************************)
(* commands/redis/hash_commands.cpp.  The deadlines HEXPIRE and its        *)
(* relatives set are kept in a map of their own, d.field_expires (a static *)
(* of the file), which no other command looks at: it knows nothing of a    *)
(* field or a key that is deleted and created again.                       *)
(***************************************************************************)
EXTENDS StringCommands

HandleHSet(d, k, f, v) == Result(HSet(d, k, f, v), IF HasField(d, k, f) THEN 0 ELSE 1)

\* Several pairs, as HSET takes them too.
HandleHMSet(d, k, fields, values) ==
    LET Step[i \in 0..Len(fields)] == IF i = 0 THEN d ELSE HSet(Step[i - 1], k, fields[i], values[i])
    IN Result(Step[Len(fields)], "OK")

HandleHGet(d, k, f) == Result(Touch(d, k), HGetReply(d, k, f))

HandleHDel(d, k, fields) ==
    Result(HDel(d, k, fields), Cardinality(fields \cap DOMAIN HGetAllReply(d, k)))

HandleHExists(d, k, f) == Result(Touch(d, k), IF HExistsReply(d, k, f) THEN 1 ELSE 0)

\* The metadata is not asked.  A field that is no number is left, with reply 0.
HandleHIncrBy(d, k, f, increment) ==
    LET n == IF HasField(d, k, f) THEN SimpleAtoi(d.hashes[k][f]) ELSE 0
        sum == Wrap(n + increment)
    IN Result(HIncr(d, k, f, n, StrCat(sum)), IF n = Nil THEN 0 ELSE sum)

\* The only hash command that is logged, even when it wrote nothing.
HandleHIncrByFloat(d, k, f, increment) ==
    LET x == IF HasField(d, k, f) THEN SimpleAtod(d.hashes[k][f]) ELSE 0
    IN Logged(HIncr(d, k, f, x, StrFixed(x + increment)), IF x = Nil THEN 0 ELSE x + increment,
              [name |-> "HINCRBYFLOAT", key |-> k, field |-> f, by |-> increment])

HandleHGetAll(d, k) == Result(Touch(d, k), HGetAllReply(d, k))

HandleHLen(d, k) == Result(Touch(d, k), HLenReply(d, k))

HandleHKeys(d, k) == Result(Touch(d, k), DOMAIN HGetAllReply(d, k))

\* The values, as often as they occur.
HandleHVals(d, k) ==
    LET h == HGetAllReply(d, k)
    IN Result(Touch(d, k), [v \in {h[f] : f \in DOMAIN h} |-> Cardinality({f \in DOMAIN h : h[f] = v})])

HandleHSetNx(d, k, f, v) == Result(HSetNx(d, k, f, v), IF HasField(d, k, f) THEN 0 ELSE 1)

HandleHMGet(d, k, fields) ==
    Result(Touch(d, k), [i \in DOMAIN fields |-> HGetReply(d, k, fields[i])])

HandleHStrLen(d, k, f) ==
    Result(Touch(d, k), IF HGetReply(d, k, f) = Nil THEN 0 ELSE Len(HGetReply(d, k, f)))

\* The replies HRANDFIELD may give, as sets of fields: for a positive count
\* that many different ones, for a negative one any choice with repetitions.
HRandFieldReplies(d, k, count) ==
    LET fields == DOMAIN HGetAllReply(d, k)
        n == Cardinality(fields)
    IN IF fields = {} THEN {Nil}
       ELSE IF count > 0
            THEN {s \in SUBSET fields : Cardinality(s) = IF count < n THEN count ELSE n}
            ELSE {s \in SUBSET fields : Cardinality(s) <= -count /\ (count # 0 => s # {})}

HandleHRandField(d, k, reply) == Result(Touch(d, k), reply)

\* order is the container's iteration order of the matching fields; the cursor
\* is a position in it.
HandleHScan(d, k, order, cursor, count) ==
    LET n == Len(order)
        end == IF cursor + count < n THEN cursor + count ELSE n
    IN Result(Touch(d, k), [cursor |-> IF end >= n THEN 0 ELSE end,
                            fields |-> SubSeq(order, cursor + 1, end)])

-----------------------------------------------------------------------------
(* Field deadlines                                                         *)

HasDeadline(d, k, f) == MapContains(d.field_expires, k) /\ MapContains(d.field_expires[k], f)

\* -1: no deadline; -2: it has passed.
GetHashFieldTtlMs(d, k, f) ==
    IF ~HasDeadline(d, k, f) THEN -1
    ELSE IF d.field_expires[k][f] <= d.now THEN -2 ELSE d.field_expires[k][f] - d.now

\* The key holds a hash, by its metadata, and the hash has the field.
FieldExists(d, k, f) == GetKeyType(d, k) = "hash" /\ HExistsReply(d, k, f)

\* With a time to live (HEXPIRE, HPEXPIRE) GT and LT compare times to live.
TtlAllowed(current, ttl, option) ==
    /\ option = "NX" => current = -1
    /\ option = "XX" => current # -1
    /\ option = "GT" => current # -1 /\ current < ttl
    /\ option = "LT" => current # -1 /\ current > ttl

\* With a deadline (HEXPIREAT, HPEXPIREAT) they compare deadlines; the -2 of a
\* deadline that has passed counts as a time to live.
DeadlineAllowed(current, now, deadline, option) ==
    /\ option \in {"NX", "XX"} => TtlAllowed(current, 0, option)
    /\ option = "GT" => current # -1 /\ deadline > now + current
    /\ option = "LT" => current # -1 /\ deadline < now + current

SetFieldDeadline(d, k, f, deadline) ==
    LET old == IF MapContains(d.field_expires, k) THEN d.field_expires[k] ELSE EmptyMap
    IN [d EXCEPT !.field_expires = MapInsert(@, k, MapInsert(old, f, deadline))]

FieldTtl(d, k, f, ms, option) ==
    LET allowed == TtlAllowed(GetHashFieldTtlMs(d, k, f), ms, option)
    IN IF ~FieldExists(d, k, f) THEN Result(Touch(d, k), 0)
       ELSE IF ms <= 0 THEN Result(d, Error)
       ELSE IF ~allowed THEN Result(d, 0)
       ELSE Result(SetFieldDeadline(d, k, f, d.now + ms), 1)

FieldDeadline(d, k, f, deadline, option) ==
    LET allowed == DeadlineAllowed(GetHashFieldTtlMs(d, k, f), d.now, deadline, option)
    IN IF ~FieldExists(d, k, f) THEN Result(Touch(d, k), 0)
       ELSE IF deadline <= 0 THEN Result(d, Error)
       ELSE IF ~allowed THEN Result(d, 0)
       ELSE Result(SetFieldDeadline(d, k, f, deadline), 1)

HandleHExpire(d, k, f, seconds, option) == FieldTtl(d, k, f, seconds * MsPerSec, option)

HandleHPExpire(d, k, f, ms, option) == FieldTtl(d, k, f, ms, option)

HandleHExpireAt(d, k, f, timestamp, option) == FieldDeadline(d, k, f, timestamp * MsPerSec, option)

HandleHPExpireAt(d, k, f, timestamp, option) == FieldDeadline(d, k, f, timestamp, option)

HandleHPExpireTime(d, k, f) ==
    Result(Touch(d, k), IF ~FieldExists(d, k, f) THEN -2
                        ELSE IF GetHashFieldTtlMs(d, k, f) < 0 THEN -1 ELSE d.field_expires[k][f])

HandleHExpireTime(d, k, f) ==
    LET r == HandleHPExpireTime(d, k, f)
    IN Result(r.db, IF r.reply < 0 THEN r.reply ELSE r.reply \div MsPerSec)

\* 1 as soon as any field of the key has a deadline.
HandleHPersist(d, k, f) ==
    LET left == MapRemove(d.field_expires[k], f)
        m == IF left = EmptyMap THEN MapRemove(d.field_expires, k)
             ELSE MapInsert(d.field_expires, k, left)
    IN IF ~FieldExists(d, k, f) THEN Result(Touch(d, k), 0)
       ELSE IF ~MapContains(d.field_expires, k) THEN Result(d, 0)
       ELSE Result([d EXCEPT !.field_expires = m], 1)

HandleHPTTL(d, k, f) ==
    Result(Touch(d, k), IF FieldExists(d, k, f) THEN GetHashFieldTtlMs(d, k, f) ELSE -2)

\* A constant answer: the deadlines are not looked up.
HandleHTTL(d, k) == Result(Touch(d, k), IF GetKeyType(d, k) = "hash" THEN -1 ELSE -2)

=============================================================================
