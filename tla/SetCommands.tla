----------------------------- MODULE SetCommands -----------------------------
(***************************************************************************)
(* commands/redis/set_commands.cpp on one worker.  SINTER, SUNION, SDIFF   *)
(* and SINTERCARD ask all the workers for their sets; the exchange is in   *)
(* module CrossWorker, and the operators here say what the gathered sets   *)
(* give.  SPUBLISH, SSUBSCRIBE and SUNSUBSCRIBE belong to publish and      *)
(* subscribe.                                                              *)
(***************************************************************************)
EXTENDS StringCommands
LOCAL INSTANCE SequencesExt

HandleSAdd(d, k, members) ==
    LET Step[i \in 0..Len(members)] == IF i = 0 THEN d ELSE SAdd(Step[i - 1], k, members[i])
    IN Result(Step[Len(members)],
              Cardinality({i \in DOMAIN members : members[i] \notin StoredSet(Step[i - 1], k)}))

\* A set that loses its last member stays, and so does its key.
HandleSRem(d, k, members) ==
    LET Step[i \in 0..Len(members)] == IF i = 0 THEN d ELSE SRem(Step[i - 1], k, members[i])
    IN Result(Step[Len(members)],
              Cardinality({i \in DOMAIN members : members[i] \in SMembersReply(Step[i - 1], k)}))

HandleSMembers(d, k) == Result(Touch(d, k), SMembersReply(d, k))

HandleSIsMember(d, k, m) == Result(Touch(d, k), IF m \in SMembersReply(d, k) THEN 1 ELSE 0)

HandleSMIsMember(d, k, members) ==
    Result(Touch(d, k), [i \in DOMAIN members |-> IF members[i] \in SMembersReply(d, k) THEN 1 ELSE 0])

HandleSCard(d, k) == Result(Touch(d, k), Cardinality(SMembersReply(d, k)))

\* m is the member the random choice falls on.  The log names the key alone.
HandleSPop(d, k, m) ==
    IF SMembersReply(d, k) = {} THEN Result(Touch(d, k), Nil)
    ELSE Logged(SPop(d, k, m), m, [name |-> "SPOP", key |-> k])

HandleSRandMember(d, k, m) ==
    Result(Touch(d, k), IF SMembersReply(d, k) = {} THEN Nil ELSE m)

HandleSMove(d, source, destination, m) ==
    Result(SMove(d, source, destination, m), IF m \in SMembersReply(d, source) THEN 1 ELSE 0)

\* With one worker.
HandleSInter(d, keys) == Result(SInterTouch(d, keys), SInterReply(d, keys))

HandleSUnion(d, keys) == Result(TouchAll(d, keys), SUnionReply(d, keys))

HandleSDiff(d, first, rest) == Result(SDiffTouch(d, first, rest), SDiffReply(d, first, rest))

\* A limit of zero is none.
HandleSInterCard(d, keys, limit) ==
    LET n == Cardinality(SInterReply(d, keys))
    IN Result(SInterTouch(d, keys), IF limit > 0 /\ n > limit THEN limit ELSE n)

\* With several workers: sets[k] is the union over the workers of what SMEMBERS
\* finds for k on each.
GatheredInter(sets, keys) == {m \in sets[keys[1]] : \A i \in DOMAIN keys : m \in sets[keys[i]]}

GatheredInterCard(sets, keys, limit) ==
    LET n == Cardinality(GatheredInter(sets, keys)) IN IF limit > 0 /\ n > limit THEN limit ELSE n

GatheredUnion(sets, keys) == UNION {sets[keys[i]] : i \in DOMAIN keys}

GatheredDiff(sets, keys) == sets[keys[1]] \ UNION {sets[keys[i]] : i \in 2..Len(keys)}

HandleSInterStore(d, destination, keys) ==
    LET e == SInterStore(d, destination, keys) IN Result(e, Cardinality(e.sets[destination]))

HandleSUnionStore(d, destination, keys) ==
    LET e == SUnionStore(d, destination, keys) IN Result(e, Cardinality(e.sets[destination]))

HandleSDiffStore(d, destination, first, rest) ==
    LET e == SDiffStore(d, destination, first, rest) IN Result(e, Cardinality(e.sets[destination]))

-----------------------------------------------------------------------------
(* SORT and SSCAN                                                          *)

\* std::string comparison.
LexLess(s, t) ==
    \E i \in 1..Len(t) : /\ i - 1 <= Len(s)
                         /\ \A j \in 1..i - 1 : s[j] = t[j]
                         /\ i = Len(s) + 1 \/ (i <= Len(s) /\ s[i] < t[i])

\* Ascending, whatever the number of equal elements.
Sorted(s) ==
    LET order == SetToSortSeq(DOMAIN s, LAMBDA i, j : LexLess(s[i], s[j]) \/ (s[i] = s[j] /\ i < j))
    IN [i \in DOMAIN s |-> s[order[i]]]

\* What there is to sort, by the type in the metadata; Nil for a type SORT does
\* not take.
SortElements(d, k) ==
    LET t == GetKeyType(d, k)
        z == ZRangeByRankReply(d, k, 0, -1)
    IN IF t = "set" THEN SetToSeq(SMembersReply(d, k))
       ELSE IF t = "list" THEN LRangeReply(d, k, 0, -1)
       ELSE IF t = "zset" THEN [i \in DOMAIN z |-> z[i].member]
       ELSE Nil

\* limit is Nil or [offset, count].
LimitTo(s, limit) ==
    IF limit = Nil THEN s
    ELSE SubSeq(s, limit.offset + 1,
                IF limit.offset + limit.count < Len(s) THEN limit.offset + limit.count ELSE Len(s))

\* STORE replaces the destination by a set.
SortInto(d, page, store) ==
    IF store = Nil THEN Result(d, page)
    ELSE Result(HandleSAdd(Del(d, store), store, page).db, Len(page))

\* SORT and SORT_RO: numbers are compared as strings; BY and GET are skipped.
HandleSort(d, k, reverse, limit, store) ==
    LET s == Sorted(SortElements(d, k))
    IN IF GetKeyType(d, k) = Nil THEN Result(Touch(d, k), <<>>)
       ELSE IF SortElements(d, k) = Nil THEN Result(d, Error)
       ELSE SortInto(d, LimitTo(IF reverse THEN Reverse(s) ELSE s, limit), store)

\* Mutant: the next page begins one member late.
HandleSScanSkipping(d, k, order, cursor, count) ==
    LET n == Len(order)
        end == IF cursor + count < n THEN cursor + count ELSE n
    IN Result(Touch(d, k), [cursor |-> IF end >= n THEN 0 ELSE end + 1,
                            members |-> SubSeq(order, cursor + 1, end)])

\* order is the set's iteration order of the matching members.
HandleSScan(d, k, order, cursor, count) ==
    LET n == Len(order)
        end == IF cursor + count < n THEN cursor + count ELSE n
    IN Result(Touch(d, k), [cursor |-> IF end >= n THEN 0 ELSE end,
                            members |-> SubSeq(order, cursor + 1, end)])

=============================================================================
