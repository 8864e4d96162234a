----------------------------- MODULE ZSetBPlus -----------------------------
(***************************************************************************)
(* container/zset/bplustree_zset.{hpp,cpp}: a sorted set, kept in three    *)
(* structures that have to agree: the B+ tree of (score, hash) pairs, the  *)
(* score of every member, and the member behind every hash.  Members with  *)
(* equal scores are ordered by their hashes.  The tree is here the set of  *)
(* its elements.                                                           *)
(***************************************************************************)
EXTENDS Integers, Sequences, FiniteSets, DashMap
LOCAL INSTANCE SequencesExt

CONSTANT MemberHash(_)      \* absl::Hash of a member

NewZSet == [ordered |-> {}, score |-> EmptyMap, member |-> EmptyMap]

MakeElement(m, s) == [score |-> s, hash |-> MemberHash(m)]

Before(a, b) == a.score < b.score \/ (a.score = b.score /\ a.hash < b.hash)

ZContains(z, m) == MapContains(z.score, m)

\* Mutant: a new score is added without the old element being removed.
ZSetAddTwice(z, m, s) ==
    [ordered |-> z.ordered \cup {MakeElement(m, s)},
     score |-> MapInsert(z.score, m, s),
     member |-> MapInsert(z.member, MemberHash(m), m)]

ZSetAdd(z, m, s) ==
    IF ZContains(z, m) /\ z.score[m] = s THEN z
    ELSE LET old == IF ZContains(z, m) THEN {MakeElement(m, z.score[m])} ELSE {}
         IN [ordered |-> (z.ordered \ old) \cup {MakeElement(m, s)},
             score |-> MapInsert(z.score, m, s),
             member |-> MapInsert(z.member, MemberHash(m), m)]

ZSetRemove(z, m) ==
    IF ZContains(z, m)
    THEN [ordered |-> z.ordered \ {MakeElement(m, z.score[m])},
          score |-> MapRemove(z.score, m),
          member |-> MapRemove(z.member, MemberHash(m))]
    ELSE z

ZSetSize(z) == Cardinality(z.ordered)

GetScore(z, m) == MapGet(z.score, m)

\* The tree in order, as (member, score) pairs; an element whose hash leads to
\* no member is skipped.
Known(z) == {e \in z.ordered : MapContains(z.member, e.hash)}

Entries(z, elems) ==
    [i \in 1..Len(elems) |-> [member |-> z.member[elems[i].hash], score |-> elems[i].score]]

InOrder(z) == Entries(z, SetToSortSeq(Known(z), Before))

\* Mutant: the reverse rank counts from one.
GetRankFromOne(z, m, reverse) ==
    LET below == Cardinality({e \in z.ordered : Before(e, MakeElement(m, z.score[m]))})
    IN IF ~ZContains(z, m) THEN Nil
       ELSE IF reverse THEN ZSetSize(z) - below ELSE below

\* Zero-based.
GetRank(z, m, reverse) ==
    LET below == Cardinality({e \in z.ordered : Before(e, MakeElement(m, z.score[m]))})
    IN IF ~ZContains(z, m) THEN Nil
       ELSE IF reverse THEN ZSetSize(z) - below - 1 ELSE below

\* start and stop are unsigned in the code: a caller's -1 is the largest rank.
RankSlice(s, start, stop) ==
    IF start >= Len(s) THEN <<>>
    ELSE SubSeq(s, start + 1, IF stop < 0 \/ stop >= Len(s) THEN Len(s) ELSE stop + 1)

GetRangeByRank(z, start, stop, reverse) ==
    RankSlice(IF reverse THEN Reverse(InOrder(z)) ELSE InOrder(z), start, stop)

\* Without WITHSCORES every score in the result is zero.
GetRangeByScore(z, min, max, with_scores) ==
    LET Shown(hits) == [i \in DOMAIN hits |-> IF with_scores THEN hits[i] ELSE [hits[i] EXCEPT !.score = 0]]
    IN Shown(SelectSeq(InOrder(z), LAMBDA e : min <= e.score /\ e.score <= max))

\* Clear, then Add for every member of a score map.
ZSetFrom(scores) ==
    [ordered |-> {MakeElement(m, scores[m]) : m \in DOMAIN scores},
     score |-> scores,
     member |-> [h \in {MemberHash(m) : m \in DOMAIN scores} |->
                     CHOOSE m \in DOMAIN scores : MemberHash(m) = h]]

CountRange(z, min, max) == Cardinality({e \in z.ordered : min <= e.score /\ e.score <= max})

\* The three structures agree.
ZSetAgrees(z) ==
    /\ z.ordered = {MakeElement(m, z.score[m]) : m \in DOMAIN z.score}
    /\ DOMAIN z.member = {MemberHash(m) : m \in DOMAIN z.score}
    /\ \A m \in DOMAIN z.score : z.member[MemberHash(m)] = m

=============================================================================
