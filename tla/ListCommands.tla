---------------------------- MODULE ListCommands ----------------------------
(***************************************************************************)
(* commands/redis/list_commands.cpp.  A side is "LEFT" or "RIGHT".  What   *)
(* LPUSH and RPUSH do for blocked clients, and what the blocking commands  *)
(* do when there is nothing to pop, is in module BlockingLists.            *)
(***************************************************************************)
EXTENDS StringCommands

Push(d, k, side, v) == IF side = "LEFT" THEN LPush(d, k, v) ELSE RPush(d, k, v)

Pop(d, k, side) == IF side = "LEFT" THEN LPop(d, k) ELSE RPop(d, k)

PopReply(d, k, side) == IF side = "LEFT" THEN LPopReply(d, k) ELSE RPopReply(d, k)

\* LPUSH goes through its values from the last to the first, so that they stand
\* in the list as in the command.  The reply is the number of values.
HandleLPush(d, k, values) ==
    LET n == Len(values)
        Step[i \in 0..n] == IF i = 0 THEN d ELSE LPush(Step[i - 1], k, values[n + 1 - i])
    IN Result(Step[n], n)

HandleRPush(d, k, values) ==
    LET Step[i \in 0..Len(values)] == IF i = 0 THEN d ELSE RPush(Step[i - 1], k, values[i])
    IN Result(Step[Len(values)], Len(values))

HandleLPop(d, k) == Result(LPop(d, k), LPopReply(d, k))

HandleRPop(d, k) == Result(RPop(d, k), RPopReply(d, k))

HandleLLen(d, k) == Result(Touch(d, k), LLenReply(d, k))

HandleLIndex(d, k, index) == Result(Touch(d, k), LIndexReply(d, k, index))

HandleLSet(d, k, index, v) ==
    Result(LSet(d, k, index, v), IF StrictPos(ListOf(d, k), index) = 0 THEN Error ELSE "OK")

HandleLRange(d, k, start, stop) == Result(Touch(d, k), LRangeReply(d, k, start, stop))

HandleLTrim(d, k, start, stop) ==
    Result(LTrim(d, k, start, stop), IF LiveList(d, k) THEN "OK" ELSE Error)

HandleLRem(d, k, count, v) ==
    LET e == LRem(d, k, v, count) IN Result(e, LLenReply(d, k) - LLenReply(e, k))

\* The pivot is the first element with that value.
HandleLInsert(d, k, before, pivot, v) ==
    LET s == LRangeReply(d, k, 0, -1)
        hits == {i \in DOMAIN s : s[i] = pivot}
        first == CHOOSE i \in hits : \A j \in hits : i <= j
        e == LInsert(d, k, first - 1, v, before)
    IN IF hits = {} THEN Result(Touch(d, k), -1) ELSE Result(e, LLenReply(e, k))

HandleRPopLPush(d, source, destination) ==
    Result(RPopLPush(d, source, destination), RPopReply(d, source))

\* Mutant: the element is read at one end and removed at the other.
HandleLMoveWrongEnd(d, source, destination, from, to) ==
    LET v == PopReply(d, source, from)
        e == Pop(d, source, to)
    IN Result(IF v = Nil THEN e ELSE Push(e, destination, to, v), v)

\* LMOVE, and what BLMOVE does when the source has an element.
HandleLMove(d, source, destination, from, to) ==
    LET v == PopReply(d, source, from)
        e == Pop(d, source, from)
    IN Result(IF v = Nil THEN e ELSE Push(e, destination, to, v), v)

\* Up to count elements from one end of one list, in the order they come out.
PopSome(d, k, side, count) ==
    LET n == IF count < LLenReply(d, k) THEN count ELSE LLenReply(d, k)
        Step[i \in 0..n] == IF i = 0 THEN d ELSE Pop(Step[i - 1], k, side)
    IN Result(IF n = 0 THEN Touch(d, k) ELSE Step[n], [i \in 1..n |-> PopReply(Step[i - 1], k, side)])

\* LMPOP and BLMPOP: the first of the lists that has an element; BLPOP and
\* BRPOP are the case of count 1.  Nil when none has.
FirstNonEmpty(d, keys) ==
    LET full == {i \in DOMAIN keys : LLenReply(d, keys[i]) > 0}
    IN IF full = {} THEN Nil ELSE CHOOSE i \in full : \A j \in full : i <= j

HandleLMPop(d, keys, side, count) ==
    LET i == FirstNonEmpty(d, keys)
        passed == {keys[j] : j \in {x \in DOMAIN keys : i = Nil \/ x < i}}
        r == PopSome(TouchAll(d, passed), keys[i], side, count)
    IN IF i = Nil THEN Result(TouchAll(d, passed), Nil)
       ELSE Result(r.db, [key |-> keys[i], values |-> r.reply])

Hits(s, element) == SelectSeq([i \in DOMAIN s |-> i - 1], LAMBDA i : s[i + 1] = element)

\* A rank counts occurrences from zero; a negative one from behind.
FirstHit(n, rank) == IF rank >= 0 THEN rank ELSE IF n + rank < 0 THEN 0 ELSE n + rank

Positions(hits, n, r, count) ==
    IF r >= n THEN -1
    ELSE IF count = 1 THEN hits[r + 1]
    ELSE SubSeq(hits, r + 1, IF r + count < n THEN r + count ELSE n)

LPosReply(hits, rank, count) == Positions(hits, Len(hits), FirstHit(Len(hits), rank), count)

HandleLPos(d, k, element, rank, count) ==
    Result(Touch(d, k), LPosReply(Hits(LRangeReply(d, k, 0, -1), element), rank, count))

\* By the type in the metadata.
HandlePushX(d, k, side, v) ==
    LET e == Push(d, k, side, v)
    IN IF GetKeyType(d, k) = "list" THEN Result(e, LLenReply(e, k)) ELSE Result(Touch(d, k), 0)

=============================================================================
