---------------------------- MODULE ZSetCommands ----------------------------
(***************************************************************************)
(* commands/redis/zset_commands.cpp on one worker.  Scores are whole       *)
(* numbers, members byte strings.  A score bound is [exclusive, value] and *)
(* so is a lexicographic one; "-" and "+" are no infinities here but the   *)
(* strings they are.  ZDIFF, ZINTER, ZINTERCARD and ZUNION ask all the     *)
(* workers when there are several: the Gathered operators say what comes   *)
(* out, module CrossWorker how the answers are collected.                  *)
(***************************************************************************)
EXTENDS SetCommands
LOCAL INSTANCE SequencesExt

\* A score that does not parse (Nil) ends the command; the pairs before it have
\* been added.
HandleZAdd(d, k, scores, members) ==
    LET bad == {i \in DOMAIN scores : scores[i] = Nil}
        n == IF bad = {} THEN Len(scores) ELSE (CHOOSE i \in bad : \A j \in bad : i <= j) - 1
        Step[i \in 0..n] == IF i = 0 THEN d ELSE ZAdd(Step[i - 1], k, scores[i], members[i])
        added == {i \in 1..n : ~ZContains(StoredZSet(Step[i - 1], k), members[i])}
    IN Result(Step[n], IF bad = {} THEN Cardinality(added) ELSE Error)

HandleZRange(d, k, start, stop) == Result(Touch(d, k), ZRangeByRankReply(d, k, start, stop))

HandleZRevRange(d, k, start, stop) == Result(Touch(d, k), ZRangeReply(d, k, start, stop, TRUE))

RemoveMembers(d, k, members) ==
    LET Step[i \in 0..Len(members)] == IF i = 0 THEN d ELSE ZRem(Step[i - 1], k, members[i])
    IN Step[Len(members)]

HandleZRem(d, k, members) ==
    Result(RemoveMembers(Touch(d, k), k, members),
           Cardinality({members[i] : i \in DOMAIN members} \cap DOMAIN ZSetOf(d, k).score))

HandleZScore(d, k, m) == Result(Touch(d, k), ZScoreReply(d, k, m))

HandleZMScore(d, k, members) ==
    Result(Touch(d, k), [i \in DOMAIN members |-> ZScoreReply(d, k, members[i])])

HandleZCard(d, k) == Result(Touch(d, k), ZCardReply(d, k))

HandleZCount(d, k, min, max) == Result(Touch(d, k), ZCountReply(d, k, min, max))

HandleZIncrBy(d, k, increment, m) ==
    LET e == ZIncrBy(d, k, increment, m)
    IN Logged(e, GetScore(e.zsets[k], m),
              [name |-> "ZINCRBY", key |-> k, by |-> increment, member |-> m])

HandleZRank(d, k, m) == Result(Touch(d, k), ZRankReply(d, k, m, FALSE))

HandleZRevRank(d, k, m) == Result(Touch(d, k), ZRankReply(d, k, m, TRUE))

HandleZRangeByScore(d, k, min, max, with_scores, limit) ==
    Result(Touch(d, k), ZRangeByScoreReply(d, k, min, max, FALSE, with_scores, limit))

HandleZRevRangeByScore(d, k, min, max, with_scores, limit) ==
    Result(Touch(d, k), ZRangeByScoreReply(d, k, min, max, TRUE, with_scores, limit))

\* Up to count members from one end: ZPOPMIN, ZPOPMAX, and ZMPOP and BZMPOP on
\* the key they settle on.
PopMembers(d, k, top, count) ==
    LET n == IF count < ZCardReply(d, k) THEN count ELSE ZCardReply(d, k)
        Step[i \in 0..n] == IF i = 0 THEN Touch(d, k) ELSE ZPop(Step[i - 1], k, top)
    IN Result(Step[n], [i \in 1..n |-> ZPopReply(Step[i - 1], k, top)])

HandleZPop(d, k, top, count) ==
    LET r == PopMembers(d, k, top, count) IN Result(r.db, IF r.reply = <<>> THEN Nil ELSE r.reply)

\* The first zset that has a member; the ones before it are looked at.
FirstZSet(d, keys) ==
    LET full == {i \in DOMAIN keys : ZCardReply(d, keys[i]) > 0}
    IN IF full = {} THEN Nil ELSE CHOOSE i \in full : \A j \in full : i <= j

HandleZMPop(d, keys, top, count) ==
    LET i == FirstZSet(d, keys)
        passed == {keys[j] : j \in {x \in DOMAIN keys : i = Nil \/ x < i}}
        r == PopMembers(TouchAll(d, passed), keys[i], top, count)
    IN IF i = Nil THEN Result(TouchAll(d, passed), Nil)
       ELSE Result(r.db, [key |-> keys[i], members |-> r.reply])

-----------------------------------------------------------------------------
(* Several zsets.  zs is a sequence of score maps, one per key.            *)

\* Ascending by score; std::sort leaves the order of equal scores open.
ByScore(scores) ==
    SetToSortSeq({[member |-> m, score |-> scores[m]] : m \in DOMAIN scores},
                 LAMBDA x, y : x.score < y.score \/ (x.score = y.score /\ LexLess(x.member, y.member)))

Intersected(zs, weights, aggregate) ==
    LET common == {m \in DOMAIN zs[1] : \A i \in DOMAIN zs : MapContains(zs[i], m)}
    IN [m \in common |-> Aggregated(zs, weights, aggregate, m)]

United(zs, weights, aggregate) ==
    [m \in UNION {DOMAIN zs[i] : i \in DOMAIN zs} |-> Aggregated(zs, weights, aggregate, m)]

Subtracted(zs) ==
    [m \in DOMAIN zs[1] \ UNION {DOMAIN zs[i] : i \in 2..Len(zs)} |-> zs[1][m]]

\* With one worker the scores are asked for.
LocalScores(d, keys) == [i \in DOMAIN keys |-> ZSetOf(d, keys[i]).score]

\* With several, zsets[k] is the union over the workers of ZRangeByRank(k, 0,
\* -1, true, false): reverse, without scores, so that every score is zero.
ShardScores(d, k) == [m \in DOMAIN ZSetOf(d, k).score |-> 0]

\* A key is looked at when some member is in all the zsets before it.
InterTouch(d, keys) ==
    LET zs == LocalScores(d, keys)
        Reached(i) == i = 1 \/ \E m \in DOMAIN zs[1] : \A j \in 1..i - 1 : MapContains(zs[j], m)
    IN TouchAll(d, {keys[i] : i \in {j \in DOMAIN keys : Reached(j)}})

HandleZInter(d, keys, weights, aggregate) ==
    LET zs == LocalScores(d, keys)
    IN Result(InterTouch(d, keys),
              IF DOMAIN zs[1] = {} THEN Nil ELSE ByScore(Intersected(zs, weights, aggregate)))

HandleZInterCard(d, keys, limit) ==
    LET zs == LocalScores(d, keys)
        n == Cardinality({m \in DOMAIN zs[1] : \A i \in DOMAIN zs : MapContains(zs[i], m)})
    IN Result(InterTouch(d, keys), IF limit > 0 /\ n > limit THEN limit ELSE n)

HandleZUnion(d, keys, weights, aggregate) ==
    Result(TouchAll(d, {keys[i] : i \in DOMAIN keys}),
           ByScore(United(LocalScores(d, keys), weights, aggregate)))

\* In the order of the first zset.
HandleZDiff(d, keys) ==
    Result(ZDiffTouch(d, keys),
           SelectSeq(InOrder(StoredZSet(d, keys[1])),
                     LAMBDA e : MapContains(ZDiffScores(d, keys), e.member)))

GatheredZInter(zsets, keys, weights, aggregate) ==
    ByScore(Intersected([i \in DOMAIN keys |-> zsets[keys[i]]], weights, aggregate))

GatheredZInterCard(zsets, keys, limit) ==
    LET n == Cardinality({m \in DOMAIN zsets[keys[1]] : \A i \in DOMAIN keys : MapContains(zsets[keys[i]], m)})
    IN IF limit > 0 /\ n > limit THEN limit ELSE n

GatheredZUnion(zsets, keys, weights, aggregate) ==
    ByScore(United([i \in DOMAIN keys |-> zsets[keys[i]]], weights, aggregate))

GatheredZDiff(zsets, keys) == ByScore(Subtracted([i \in DOMAIN keys |-> zsets[keys[i]]]))

HandleZUnionStore(d, destination, keys, weights, aggregate) ==
    LET e == ZUnionStore(d, destination, keys, weights, aggregate)
    IN Result(e, ZSetSize(e.zsets[destination]))

HandleZInterStore(d, destination, keys, weights, aggregate) ==
    LET zs == [i \in DOMAIN keys |-> (IF i = 1 THEN StoredZSet(d, keys[1]) ELSE ZSetOf(d, keys[i])).score]
    IN Result(ZInterStore(d, destination, keys, weights, aggregate),
              Cardinality({m \in DOMAIN zs[1] : \A i \in DOMAIN zs : MapContains(zs[i], m)}))

HandleZDiffStore(d, destination, keys) ==
    Result(ZDiffStore(d, destination, keys), Cardinality(DOMAIN ZDiffScores(d, keys)))

-----------------------------------------------------------------------------
(* Ranges by member, and removal by range                                  *)

LexIn(m, min, max) ==
    /\ IF min.exclusive THEN LexLess(min.value, m) ELSE ~LexLess(m, min.value)
    /\ IF max.exclusive THEN LexLess(m, max.value) ELSE ~LexLess(max.value, m)

ScoreIn(s, min, max) ==
    /\ IF min.exclusive THEN s > min.value ELSE s >= min.value
    /\ IF max.exclusive THEN s < max.value ELSE s <= max.value

\* The zset in rank order, less what the test rejects.
RankedMembers(d, k) == ZRangeByRankReply(d, k, 0, -1)

LexRange(d, k, min, max) == SelectSeq(RankedMembers(d, k), LAMBDA e : LexIn(e.member, min, max))

HandleZLexCount(d, k, min, max) == Result(Touch(d, k), Len(LexRange(d, k, min, max)))

\* limit is Nil or [offset, count].
HandleZRangeByLex(d, k, min, max, limit) ==
    LET s == LexRange(d, k, min, max)
        n == Len(s)
        start == IF limit = Nil THEN 0 ELSE IF limit.offset < n THEN limit.offset ELSE n
        end == IF limit = Nil \/ start + limit.count > n THEN n ELSE start + limit.count
    IN Result(Touch(d, k), SubSeq(s, start + 1, end))

\* Asked for in reverse, delivered in rank order.
HandleZRevRangeByLex(d, k, min, max) == Result(Touch(d, k), LexRange(d, k, min, max))

\* The destination is deleted first; the members are then added one by one.
HandleZRangeStore(d, destination, source, min, max) ==
    LET s == LexRange(d, source, min, max)
        cleared == Del(Touch(d, source), destination)
        Step[i \in 0..Len(s)] ==
            IF i = 0 THEN cleared ELSE ZAdd(Step[i - 1], destination, s[i].score, s[i].member)
    IN Result(Step[Len(s)], Len(s))

RemoveEntries(d, k, s) ==
    Result(RemoveMembers(Touch(d, k), k, [i \in DOMAIN s |-> s[i].member]), Len(s))

HandleZRemRangeByLex(d, k, min, max) == RemoveEntries(d, k, LexRange(d, k, min, max))

HandleZRemRangeByScore(d, k, min, max) ==
    RemoveEntries(d, k, SelectSeq(RankedMembers(d, k), LAMBDA e : ScoreIn(e.score, min, max)))

HandleZRemRangeByRank(d, k, start, stop) ==
    LET s == RankedMembers(d, k)
        n == Len(s)
        a == IF start >= 0 THEN start ELSE IF n + start < 0 THEN 0 ELSE n + start
        b0 == IF stop < 0 THEN n + stop ELSE stop
        b == IF b0 >= n THEN n - 1 ELSE b0
    IN RemoveEntries(d, k, IF a > b THEN <<>> ELSE SubSeq(s, a + 1, b + 1))

\* ZRANDMEMBER: the members the choice may fall on.
ZRandMemberChoices(d, k) == LET z == ZSetOf(d, k) IN IF DOMAIN z.score = {} THEN {Nil} ELSE DOMAIN z.score

HandleZRandMember(d, k, m) == Result(Touch(d, k), m)

\* A page of the zset in rank order.
HandleZScan(d, k, cursor, count) ==
    LET s == RankedMembers(d, k)
        n == Len(s)
        end == IF cursor + count < n THEN cursor + count ELSE n
    IN Result(Touch(d, k), [cursor |-> IF end >= n THEN 0 ELSE end,
                            members |-> SubSeq(s, cursor + 1, end)])

=============================================================================
