------------------------------ MODULE Database ------------------------------
(***************************************************************************)
(* commands/database.hpp and storage/key_metadata.hpp: one worker's        *)
(* keyspace.  A database is a record d of the containers, one map per data *)
(* type, and of meta, the metadata map that says which keys exist, of      *)
(* which type, with which version and which expiry.  Nothing ties the two  *)
(* together but the order of the calls below.                              *)
(*                                                                         *)
(* Every method is an operator from the database before the call to the    *)
(* database after it; what the method returns is a second operator, named  *)
(* ...Reply, on the database before the call.  Time is d.now, in           *)
(* milliseconds.  Memory limits and RocksDB are off here (max_memory = 0   *)
(* and no adapter); module TieredStore has them.                           *)
(***************************************************************************)
EXTENDS Integers, Sequences, FiniteSets, DashMap, StringList, ZSetBPlus

CONSTANT MsPerSec       \* milliseconds to the second

NoExpiry == 0

EmptyDatabase ==
    [strings |-> EmptyMap, hashes |-> EmptyMap, sets |-> EmptyMap, zsets |-> EmptyMap,
     lists |-> EmptyMap, streams |-> EmptyMap, vectors |-> EmptyMap, jsons |-> EmptyMap,
     meta |-> EmptyMap, field_expires |-> EmptyMap, now |-> 1]

-----------------------------------------------------------------------------
(* KeyMetadataManager                                                      *)

\* Strictly past the deadline: at the deadline itself a key is still there.
IsExpired(d, k) == d.meta[k].expire > 0 /\ d.meta[k].expire < d.now

\* A fresh record, without an expiry; only the version survives.
RegisterKey(d, k, t) ==
    LET v == IF MapContains(d.meta, k) THEN d.meta[k].version + 1 ELSE 1
    IN [d EXCEPT !.meta = MapInsert(@, k, [type |-> t, version |-> v, expire |-> NoExpiry])]

UnregisterKey(d, k) == [d EXCEPT !.meta = MapRemove(@, k)]

IsValid(d, k) == MapContains(d.meta, k) /\ ~IsExpired(d, k)

\* IsValid and GetKeyType drop the metadata of an expired key as they find it;
\* the containers are left alone.
Touch(d, k) == IF MapContains(d.meta, k) /\ IsExpired(d, k) THEN UnregisterKey(d, k) ELSE d

TouchAll(d, ks) ==
    [d EXCEPT !.meta = [k \in DOMAIN @ \ {x \in ks : MapContains(@, x) /\ IsExpired(d, x)} |-> @[k]]]

GetKeyType(d, k) == IF IsValid(d, k) THEN d.meta[k].type ELSE Nil

\* The metadata of an expired key that nobody has looked at yet is updated too.
SetExpireMs(d, k, ms) ==
    IF MapContains(d.meta, k)
    THEN [d EXCEPT !.meta[k].expire = IF ms <= 0 THEN NoExpiry ELSE ms]
    ELSE d

SetExpireSeconds(d, k, seconds) == SetExpireMs(d, k, d.now + seconds * MsPerSec)

Persist(d, k) ==
    IF MapContains(d.meta, k) THEN [d EXCEPT !.meta[k].expire = NoExpiry] ELSE d

\* Mutant: the time to live of an expired key is reported as if it were there.
TtlOfExpired(d, k) ==
    IF ~MapContains(d.meta, k) THEN -2
    ELSE IF d.meta[k].expire = NoExpiry \/ d.meta[k].expire <= d.now THEN -1
    ELSE d.meta[k].expire - d.now

\* -2: no such key; -1: no expiry (or one that falls due this millisecond).
GetTtlMs(d, k) ==
    IF ~IsValid(d, k) THEN -2
    ELSE IF d.meta[k].expire = NoExpiry \/ d.meta[k].expire <= d.now THEN -1
    ELSE d.meta[k].expire - d.now

GetTtlSeconds(d, k) ==
    LET ms == GetTtlMs(d, k) IN IF ms < 0 THEN ms ELSE ms \div MsPerSec

GetExpireTimeMs(d, k) ==
    IF IsValid(d, k) /\ d.meta[k].expire # NoExpiry THEN d.meta[k].expire ELSE Nil

GetKeyVersion(d, k) == IF MapContains(d.meta, k) THEN d.meta[k].version ELSE 0

IncrementKeyVersion(d, k) ==
    IF MapContains(d.meta, k) THEN [d EXCEPT !.meta[k].version = @ + 1] ELSE d

GetAllKeys(d) == DOMAIN d.meta

-----------------------------------------------------------------------------
(* Generic and string operations                                           *)

\* The containers, in the order Del and EvictKey try them.
Containers == <<"strings", "hashes", "sets", "zsets", "lists", "streams", "vectors", "jsons">>

Holders(d, k) == {i \in 1..8 : MapContains(d[Containers[i]], k)}

Stored(d, k) == Holders(d, k) # {}

\* The removals are joined by ||, so only the first container that holds the
\* key loses it.
DropFromFirst(d, k) ==
    IF Stored(d, k)
    THEN LET i == CHOOSE h \in Holders(d, k) : \A j \in Holders(d, k) : h <= j
         IN [d EXCEPT ![Containers[i]] = MapRemove(@, k)]
    ELSE d

\* The metadata goes in any case.
Del(d, k) == UnregisterKey(DropFromFirst(d, k), k)

\* An existing string keeps its metadata record, expiry included; a key the
\* container does not hold is registered afresh.
Set(d, k, v) ==
    LET e == [d EXCEPT !.strings = MapInsert(@, k, v)]
    IN IF MapContains(d.strings, k) THEN IncrementKeyVersion(e, k) ELSE RegisterKey(e, k, "string")

\* The metadata is not consulted: the check that would do so follows a return.
GetReply(d, k) == MapGet(d.strings, k)

GetRangeReply(d, k, start, end) ==
    LET v == GetReply(d, k)
        s == IF v = Nil THEN <<>> ELSE v
        n == Len(s)
        b0 == IF start < 0 THEN n + start ELSE start
        e0 == IF end < 0 THEN n + end ELSE end
        b == IF b0 < 0 THEN 0 ELSE b0
        e == IF e0 >= n THEN n - 1 ELSE e0
    IN IF b > e \/ b >= n THEN <<>> ELSE SubSeq(s, b + 1, e + 1)

\* The string is padded with zero bytes up to the end of the new part.
SetRangeValue(d, k, offset, v) ==
    LET s == IF MapContains(d.strings, k) THEN d.strings[k] ELSE <<>>
        n == IF offset + Len(v) > Len(s) THEN offset + Len(v) ELSE Len(s)
        padded == [i \in 1..n |-> IF i <= Len(s) THEN s[i] ELSE 0]
    IN [i \in 1..n |-> IF i \in offset + 1..offset + Len(v) THEN v[i - offset] ELSE padded[i]]

SetRange(d, k, offset, v) ==
    IF offset < 0 THEN d ELSE Set(d, k, SetRangeValue(d, k, offset, v))

\* FLUSHDB: streams, vectors and documents are not in the list.
Clear(d) ==
    [d EXCEPT !.strings = EmptyMap, !.hashes = EmptyMap, !.sets = EmptyMap,
              !.zsets = EmptyMap, !.lists = EmptyMap, !.meta = EmptyMap]

-----------------------------------------------------------------------------
(* Hash operations                                                         *)

\* The hash a write works on: the stored one, or a new one that is stored and
\* registered before the field is written.
OpenHash(d, k) ==
    IF MapContains(d.hashes, k) THEN d
    ELSE RegisterKey([d EXCEPT !.hashes = MapInsert(@, k, EmptyMap)], k, "hash")

PutField(d, k, f, v) == [d EXCEPT !.hashes[k] = MapInsert(@, f, v)]

HSet(d, k, f, v) == PutField(OpenHash(d, k), k, f, v)

HasField(d, k, f) == MapContains(d.hashes, k) /\ MapContains(d.hashes[k], f)

HGetReply(d, k, f) == IF IsValid(d, k) /\ HasField(d, k, f) THEN d.hashes[k][f] ELSE Nil

HExistsReply(d, k, f) == IsValid(d, k) /\ HasField(d, k, f)

\* The hash stays, empty if need be.
HDel(d, k, fields) ==
    IF IsValid(d, k) /\ MapContains(d.hashes, k)
    THEN [d EXCEPT !.hashes[k] = [f \in DOMAIN @ \ fields |-> @[f]]]
    ELSE Touch(d, k)

HGetAllReply(d, k) ==
    IF IsValid(d, k) /\ MapContains(d.hashes, k) THEN d.hashes[k] ELSE EmptyMap

HLenReply(d, k) == Cardinality(DOMAIN HGetAllReply(d, k))

\* HINCRBY and HINCRBYFLOAT: value is what the field parses to, Nil if it does
\* not parse.  Then nothing is written; the hash may have been created all the
\* same.
HIncr(d, k, f, value, new) == IF value = Nil THEN OpenHash(d, k) ELSE PutField(OpenHash(d, k), k, f, new)

HSetNx(d, k, f, v) == IF HasField(d, k, f) THEN d ELSE PutField(OpenHash(d, k), k, f, v)

-----------------------------------------------------------------------------
(* List operations                                                         *)

OpenList(d, k) ==
    IF MapContains(d.lists, k) THEN d
    ELSE RegisterKey([d EXCEPT !.lists = MapInsert(@, k, NewList)], k, "list")

LPush(d, k, v) == LET e == OpenList(d, k) IN [e EXCEPT !.lists[k] = PushLeft(@, v)]

RPush(d, k, v) == LET e == OpenList(d, k) IN [e EXCEPT !.lists[k] = PushRight(@, v)]

\* The list methods that follow see only a list whose key is valid.
LiveList(d, k) == IsValid(d, k) /\ MapContains(d.lists, k)

ListOf(d, k) == IF LiveList(d, k) THEN d.lists[k] ELSE NewList

\* Mutant: the list goes and its metadata stays.
DropListOnly(d, k) == [d EXCEPT !.lists = MapRemove(@, k)]

DropList(d, k) == UnregisterKey([d EXCEPT !.lists = MapRemove(@, k)], k)

\* Mutant: an empty list is kept.
StoreAnyList(d, k, l) == [d EXCEPT !.lists[k] = l]

\* The list's new contents; the key goes with the last element.
StoreList(d, k, l) == IF Empty(l) THEN DropList(d, k) ELSE [d EXCEPT !.lists[k] = l]

LPop(d, k) == IF LiveList(d, k) THEN StoreList(d, k, PopLeft(d.lists[k])) ELSE Touch(d, k)

LPopReply(d, k) == IF Empty(ListOf(d, k)) THEN Nil ELSE Elements(ListOf(d, k))[1]

RPop(d, k) == IF LiveList(d, k) THEN StoreList(d, k, PopRight(d.lists[k])) ELSE Touch(d, k)

RPopReply(d, k) ==
    LET l == ListOf(d, k) IN IF Empty(l) THEN Nil ELSE Elements(l)[Size(l)]

LLenReply(d, k) == Size(ListOf(d, k))

LIndexReply(d, k, index) ==
    LET l == ListOf(d, k)
        p == IndexPos(l, index)
    IN IF p = 0 THEN Nil ELSE Elements(l)[p]

LSet(d, k, index, v) ==
    IF LiveList(d, k) THEN [d EXCEPT !.lists[k] = SetAt(@, index, v)] ELSE Touch(d, k)

LRangeReply(d, k, start, stop) == ListRange(ListOf(d, k), start, stop)

LTrim(d, k, start, stop) ==
    IF LiveList(d, k) THEN StoreList(d, k, Trim(d.lists[k], start, stop)) ELSE Touch(d, k)

LRem(d, k, v, count) ==
    IF LiveList(d, k) THEN StoreList(d, k, RemoveValue(d.lists[k], v, count)) ELSE Touch(d, k)

LInsert(d, k, pivot_index, v, before) ==
    IF LiveList(d, k)
    THEN [d EXCEPT !.lists[k] = InsertBeside(@, pivot_index, v, before)]
    ELSE Touch(d, k)

\* Both ends of the move are right ends.
RPopLPush(d, source, destination) ==
    LET v == RPopReply(d, source)
        e == RPop(d, source)
    IN IF v = Nil THEN e ELSE RPush(e, destination, v)

-----------------------------------------------------------------------------
(* Set operations                                                          *)

OpenSet(d, k) ==
    IF MapContains(d.sets, k) THEN d
    ELSE RegisterKey([d EXCEPT !.sets = MapInsert(@, k, {})], k, "set")

SAdd(d, k, m) == LET e == OpenSet(d, k) IN [e EXCEPT !.sets[k] = @ \cup {m}]

\* A set that may be read without asking the metadata.
StoredSet(d, k) == IF MapContains(d.sets, k) THEN d.sets[k] ELSE {}

\* A set as SMEMBERS sees it.
SMembersReply(d, k) == IF IsValid(d, k) THEN StoredSet(d, k) ELSE {}

SRem(d, k, m) ==
    IF m \in SMembersReply(d, k) THEN [d EXCEPT !.sets[k] = @ \ {m}] ELSE Touch(d, k)

\* SPOP removes a member chosen at random: any member of SMembersReply(d, k).
SPop(d, k, m) == SRem(d, k, m)

SMove(d, source, destination, m) ==
    IF m \in SMembersReply(d, source)
    THEN SAdd([d EXCEPT !.sets[source] = @ \ {m}], destination, m)
    ELSE Touch(d, source)

\* What the first i keys of an intersection have in common.  The first set is
\* taken as stored, the others as their metadata allows.
SCommon(d, keys, i) ==
    {m \in StoredSet(d, keys[1]) : \A j \in 2..i : m \in SMembersReply(d, keys[j])}

SInterReply(d, keys) == SCommon(d, keys, Len(keys))

\* Nobody looks at a key after the result has become empty.
SInterTouch(d, keys) ==
    IF MapContains(d.sets, keys[1])
    THEN TouchAll(d, {keys[j] : j \in {i \in 2..Len(keys) : i = 2 \/ SCommon(d, keys, i - 1) # {}}})
    ELSE d

SUnionReply(d, keys) == UNION {SMembersReply(d, k) : k \in keys}

SDiffReply(d, first, rest) == StoredSet(d, first) \ SUnionReply(d, rest)

SDiffTouch(d, first, rest) == IF MapContains(d.sets, first) THEN TouchAll(d, rest) ELSE d

\* The destination is emptied and refilled in place, or created.
StoreSet(d, destination, members) ==
    LET e == OpenSet(d, destination) IN [e EXCEPT !.sets[destination] = members]

SInterStore(d, destination, keys) ==
    StoreSet(SInterTouch(d, keys), destination, SInterReply(d, keys))

SUnionStore(d, destination, keys) ==
    StoreSet(TouchAll(d, keys), destination, SUnionReply(d, keys))

SDiffStore(d, destination, first, rest) ==
    StoreSet(SDiffTouch(d, first, rest), destination, SDiffReply(d, first, rest))

-----------------------------------------------------------------------------
(* Sorted set operations                                                   *)

OpenZSet(d, k) ==
    IF MapContains(d.zsets, k) THEN d
    ELSE RegisterKey([d EXCEPT !.zsets = MapInsert(@, k, NewZSet)], k, "zset")

ZAdd(d, k, s, m) == LET e == OpenZSet(d, k) IN [e EXCEPT !.zsets[k] = ZSetAdd(@, m, s)]

LiveZSet(d, k) == IsValid(d, k) /\ MapContains(d.zsets, k)

\* As stored, whatever the metadata says, and as a valid key shows it.
StoredZSet(d, k) == IF MapContains(d.zsets, k) THEN d.zsets[k] ELSE NewZSet
ZSetOf(d, k) == IF LiveZSet(d, k) THEN d.zsets[k] ELSE NewZSet

ZScoreReply(d, k, m) == GetScore(ZSetOf(d, k), m)

\* A stop that stays negative becomes the largest unsigned rank.
RankRange(z, n, start, stop, reverse) ==
    LET a == IF start < 0 THEN (IF n + start < 0 THEN 0 ELSE n + start) ELSE start
        b == IF stop < 0 THEN (IF n + stop < 0 THEN -1 ELSE n + stop) ELSE stop
    IN IF n = 0 \/ a >= n THEN <<>> ELSE GetRangeByRank(z, a, b, reverse)

ZRangeReply(d, k, start, stop, reverse) ==
    RankRange(ZSetOf(d, k), ZSetSize(ZSetOf(d, k)), start, stop, reverse)

\* The code takes reverse and ignores it.
ZRangeByRankReply(d, k, start, stop) == ZRangeReply(d, k, start, stop, FALSE)

\* The zset stays, empty if need be.
ZRem(d, k, m) ==
    IF LiveZSet(d, k) THEN [d EXCEPT !.zsets[k] = ZSetRemove(@, m)] ELSE Touch(d, k)

\* The entry at an end, and what is left: with the last member goes the
\* metadata of the key, but not the zset.
EndEntry(s, top) == IF s = <<>> THEN Nil ELSE s[IF top THEN Len(s) ELSE 1]

ZPopReply(d, k, top) == EndEntry(InOrder(ZSetOf(d, k)), top)

ZPopEntry(d, k, e) ==
    LET out == [d EXCEPT !.zsets[k] = ZSetRemove(@, e.member)]
    IN IF ZSetSize(out.zsets[k]) = 0 THEN UnregisterKey(out, k) ELSE out

ZPop(d, k, top) ==
    IF ZPopReply(d, k, top) = Nil THEN Touch(d, k) ELSE ZPopEntry(d, k, ZPopReply(d, k, top))

\* A bound is [exclusive, value]; the exclusive ends are filtered afterwards,
\* on scores that are zero unless WITHSCORES was given.
Inside(hits, min, max) ==
    SelectSeq(hits, LAMBDA e : /\ ~(min.exclusive /\ e.score <= min.value)
                               /\ ~(max.exclusive /\ e.score >= max.value))

\* limit is Nil or [offset, count].
Limited(s, n, limit) ==
    LET end == IF limit.count < 0 THEN n ELSE limit.offset + limit.count
        start == IF limit.offset >= 0 THEN limit.offset
                 ELSE IF n + limit.offset < 0 THEN 0 ELSE n + limit.offset
    IN IF limit = Nil THEN s
       ELSE IF start >= n THEN <<>> ELSE SubSeq(s, start + 1, IF end > n THEN n ELSE end)

Turned(s, reverse) == IF reverse THEN [i \in DOMAIN s |-> s[Len(s) + 1 - i]] ELSE s

Page(s, limit) == Limited(s, Len(s), limit)

ZRangeByScoreReply(d, k, min, max, reverse, with_scores, limit) ==
    Page(Turned(Inside(GetRangeByScore(ZSetOf(d, k), min.value, max.value, with_scores), min, max), reverse), limit)

ZCardReply(d, k) == ZSetSize(ZSetOf(d, k))

ZCountReply(d, k, min, max) == CountRange(ZSetOf(d, k), min, max)

ZIncrBy(d, k, incr, m) ==
    LET s == GetScore(StoredZSet(d, k), m) IN ZAdd(d, k, (IF s = Nil THEN 0 ELSE s) + incr, m)

ZRankReply(d, k, m, reverse) == GetRank(ZSetOf(d, k), m, reverse)

Combine(aggregate, x, y) ==
    IF aggregate = "SUM" THEN x + y
    ELSE IF (aggregate = "MIN") = (x < y) THEN x ELSE y

\* The weighted scores of m in the zsets it occurs in, combined in key order.
\* zs is a sequence of score maps.
Aggregated(zs, weights, aggregate, m) ==
    LET Acc[i \in 0..Len(zs)] ==
            IF i = 0 THEN Nil
            ELSE IF ~MapContains(zs[i], m) THEN Acc[i - 1]
            ELSE LET w == zs[i][m] * weights[i]
                 IN IF Acc[i - 1] = Nil THEN w ELSE Combine(aggregate, Acc[i - 1], w)
    IN Acc[Len(zs)]

\* The destination is emptied and refilled in place, or created.
StoreZSet(d, destination, scores) ==
    LET e == OpenZSet(d, destination) IN [e EXCEPT !.zsets[destination] = ZSetFrom(scores)]

\* Mutant: the sources are taken as stored, past their deadline or not.
ZUnionStoreStale(d, destination, keys, weights, aggregate) ==
    LET zs == [i \in DOMAIN keys |-> StoredZSet(d, keys[i]).score]
        members == UNION {DOMAIN zs[i] : i \in DOMAIN keys}
    IN StoreZSet(d, destination, [m \in members |-> Aggregated(zs, weights, aggregate, m)])

ZUnionStore(d, destination, keys, weights, aggregate) ==
    LET zs == [i \in DOMAIN keys |-> ZSetOf(d, keys[i]).score]
        members == UNION {DOMAIN zs[i] : i \in DOMAIN keys}
        e == TouchAll(d, {keys[i] : i \in DOMAIN keys})
    IN StoreZSet(e, destination, [m \in members |-> Aggregated(zs, weights, aggregate, m)])

\* The first zset is taken as stored.  When a source is missing, or when there
\* is a second source and nothing is common, the destination is left as it was.
ZInterStore(d, destination, keys, weights, aggregate) ==
    LET zs == [i \in DOMAIN keys |->
                  (IF i = 1 THEN StoredZSet(d, keys[1]) ELSE ZSetOf(d, keys[i])).score]
        Common(i) == {m \in DOMAIN zs[1] : \A j \in 2..i : MapContains(zs[j], m)}
        e == TouchAll(d, {keys[j] : j \in {i \in 2..Len(keys) : i = 2 \/ Common(i - 1) # {}}})
        members == Common(Len(keys))
    IN IF ~MapContains(d.zsets, keys[1]) THEN d
       ELSE IF Len(keys) > 1 /\ members = {} THEN e
       ELSE StoreZSet(e, destination, [m \in members |-> Aggregated(zs, weights, aggregate, m)])

\* The first zset as stored, less the members of the others.
ZDiffScores(d, keys) ==
    LET z == StoredZSet(d, keys[1]).score
        others == UNION {DOMAIN ZSetOf(d, keys[i]).score : i \in 2..Len(keys)}
    IN [m \in DOMAIN z \ others |-> z[m]]

ZDiffTouch(d, keys) ==
    IF MapContains(d.zsets, keys[1]) THEN TouchAll(d, {keys[i] : i \in 2..Len(keys)}) ELSE d

ZDiffStore(d, destination, keys) ==
    StoreZSet(ZDiffTouch(d, keys), destination, ZDiffScores(d, keys))

-----------------------------------------------------------------------------
(* Streams                                                                 *)

\* There is no stream type: the key is registered as a string.
GetOrCreateStream(d, k, new) ==
    IF MapContains(d.streams, k) THEN d
    ELSE RegisterKey([d EXCEPT !.streams = MapInsert(@, k, new)], k, "string")

-----------------------------------------------------------------------------
(* What holds of a keyspace                                                *)

\* A stream goes by the type of a string.
HolderOf(t) ==
    IF t = "string" THEN {"strings", "streams"}
    ELSE IF t = "hash" THEN {"hashes"}
    ELSE IF t = "set" THEN {"sets"}
    ELSE IF t = "zset" THEN {"zsets"} ELSE {"lists"}

\* Every key with metadata is in a container of the type the metadata names.
TypeNamesHolder(d) == \A k \in DOMAIN d.meta : \E c \in HolderOf(d.meta[k].type) : MapContains(d[c], k)

=============================================================================
