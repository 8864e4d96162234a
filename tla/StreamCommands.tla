--------------------------- MODULE StreamCommands ---------------------------
(***************************************************************************)
(* container/stream_data.hpp and commands/redis/stream_commands.cpp.  An   *)
(* entry ID is the pair <<ms, seq>>; an ID string is such a pair or one of *)
(* <<"*">>, <<"-">>, <<"+">> and <<"$">>.  None of the readers asks the    *)
(* metadata.                                                               *)
(***************************************************************************)
EXTENDS StringCommands
LOCAL INSTANCE SequencesExt

CONSTANT MaxId      \* an ID above all others

ZeroId == <<0, 0>>

IdLess(a, b) == a[1] < b[1] \/ (a[1] = b[1] /\ a[2] < b[2])

IdLeq(a, b) == ~IdLess(b, a)

\* What is neither a number nor a pair of numbers ("-", "+", "$") parses to 0-0.
ParsedId(spec) == IF Len(spec) = 2 THEN spec ELSE ZeroId

\* The max_len of the last XADD is kept as well, but nothing reads it.
NewStream == [entries |-> <<>>, last_generated |-> ZeroId, last_id |-> ZeroId, groups |-> EmptyMap]

StreamOf(d, k) == MapGet(d.streams, k)

\* Mutant: the clock is trusted to be ahead of the last ID.
IdFromClock(s, now) ==
    IF now = s.last_generated[1] THEN <<now, s.last_generated[2] + 1>> ELSE <<now, 0>>

\* An ID for "*": the clock, unless it is behind the last ID.
GeneratedId(s, now) ==
    IF now <= s.last_generated[1]
    THEN <<s.last_generated[1], s.last_generated[2] + 1>>
    ELSE <<now, 0>>

\* A given ID is compared with the last entry there is.
IdAccepted(s, spec) ==
    \/ spec = <<"*">>
    \/ s.entries = <<>>
    \/ IdLess(s.entries[Len(s.entries)].id, ParsedId(spec))

LastOf(seq, n) == SubSeq(seq, IF Len(seq) > n THEN Len(seq) - n + 1 ELSE 1, Len(seq))

AddEntry(s, now, spec, fields, max_len) ==
    LET id == IF spec = <<"*">> THEN GeneratedId(s, now) ELSE ParsedId(spec)
        all == Append(s.entries, [id |-> id, fields |-> fields])
    IN [s EXCEPT !.entries = IF max_len > 0 THEN LastOf(all, max_len) ELSE all,
                 !.last_generated = id]

\* The stream is created before the ID is looked at.  0-0 is added and then
\* reported as an error.
HandleXAdd(d, k, spec, fields, max_len) ==
    LET e == GetOrCreateStream(d, k, NewStream)
        s == e.streams[k]
        added == AddEntry(s, d.now, spec, fields, max_len)
    IN IF ~IdAccepted(s, spec) THEN Result(e, Error)
       ELSE Result([e EXCEPT !.streams[k] = added],
                   IF spec # <<"*">> /\ ParsedId(spec) = ZeroId THEN Error ELSE added.last_generated)

After(s, id) == SelectSeq(s.entries, LAMBDA e : IdLess(id, e.id))

UpTo(seq, count) == IF count < Len(seq) THEN SubSeq(seq, 1, count) ELSE seq

\* ids are parallel to keys; "$" reads nothing, and at least one entry comes
\* back even with a count of zero.  The streams without news are
\* left out of the reply.
HandleXRead(d, keys, ids, count) ==
    LET News(i) == IF StreamOf(d, keys[i]) = Nil \/ ids[i] = <<"$">> THEN <<>>
                   ELSE UpTo(After(d.streams[keys[i]], ParsedId(ids[i])), IF count < 1 THEN 1 ELSE count)
        hits == {i \in DOMAIN keys : News(i) # <<>>}
    IN Result(d, IF hits = {} THEN Nil ELSE [i \in hits |-> News(i)])

Between(s, low, high) == SelectSeq(s.entries, LAMBDA e : IdLeq(low, e.id) /\ IdLeq(e.id, high))

\* "-" and "+" are understood here; a count of zero is none.
HandleXRange(d, k, start, end, count) ==
    LET low == ParsedId(start)
        high == IF end = <<"+">> THEN MaxId ELSE ParsedId(end)
        s == IF StreamOf(d, k) = Nil THEN <<>> ELSE Between(d.streams[k], low, high)
    IN Result(d, IF count > 0 THEN UpTo(s, count) ELSE s)

\* But not here, where "+" is 0-0.
HandleXRevRange(d, k, end, start, count) ==
    LET s == IF StreamOf(d, k) = Nil THEN <<>>
             ELSE Between(d.streams[k], ParsedId(start), ParsedId(end))
    IN Result(d, UpTo(Reverse(s), count))

HandleXLen(d, k) == Result(d, IF StreamOf(d, k) = Nil THEN 0 ELSE Len(d.streams[k].entries))

HandleXDel(d, k, ids) ==
    LET s == d.streams[k]
        left == SelectSeq(s.entries, LAMBDA e : e.id \notin ids)
    IN IF StreamOf(d, k) = Nil THEN Result(d, 0)
       ELSE Result([d EXCEPT !.streams[k].entries = left], Len(s.entries) - Len(left))

HandleXTrim(d, k, max_len) ==
    LET s == d.streams[k]
        left == LastOf(s.entries, max_len)
    IN IF StreamOf(d, k) = Nil THEN Result(d, 0)
       ELSE Result([d EXCEPT !.streams[k].entries = left], Len(s.entries) - Len(left))

\* Neither the entries nor last_generated.
HandleXSetId(d, k, id) ==
    IF StreamOf(d, k) = Nil THEN Result(d, Error)
    ELSE Result([d EXCEPT !.streams[k].last_id = ParsedId(id)], "OK")

HandleXInfo(d, k) ==
    LET s == d.streams[k]
    IN Result(d, IF StreamOf(d, k) = Nil THEN Error
                 ELSE [length |-> Len(s.entries), groups |-> Cardinality(DOMAIN s.groups)])

-----------------------------------------------------------------------------
(* Consumer groups                                                         *)

HasGroup(d, k, g) == StreamOf(d, k) # Nil /\ MapContains(d.streams[k].groups, g)

SetGroup(d, k, g, group) == [d EXCEPT !.streams[k].groups = MapInsert(@, g, group)]

HandleXGroupCreate(d, k, g, start, mkstream) ==
    LET e == GetOrCreateStream(d, k, NewStream)
        group == [last_delivered_id |-> ParsedId(start), consumers |-> EmptyMap,
                  pending_entries |-> EmptyMap]
    IN IF StreamOf(d, k) = Nil /\ ~mkstream THEN Result(d, Error)
       ELSE IF HasGroup(d, k, g) THEN Result(d, Error)
       ELSE Result(SetGroup(e, k, g, group), "OK")

HandleXGroupDestroy(d, k, g) ==
    IF HasGroup(d, k, g)
    THEN Result([d EXCEPT !.streams[k].groups = MapRemove(@, g)], 1)
    ELSE Result(d, 0)

\* StreamData::ReadGroup
ReadGroup(s, g, consumer, count, now) ==
    LET group == s.groups[g]
        news == UpTo(After(s, group.last_delivered_id), IF count < 1 THEN 1 ELSE count)
        Pending(e) == [fields |-> e.fields, consumer |-> consumer, delivery_count |-> 1,
                       last_delivered |-> now]
        ids == {news[i].id : i \in DOMAIN news}
        EntryOf(id) == CHOOSE e \in {news[i] : i \in DOMAIN news} : e.id = id
        last == news[Len(news)].id
    IN [entries |-> news,
        group |-> IF news = <<>> THEN group
                  ELSE [last_delivered_id |-> last,
                        consumers |-> MapInsert(group.consumers, consumer, last),
                        pending_entries |-> [id \in DOMAIN group.pending_entries \cup ids |->
                            IF id \in ids THEN Pending(EntryOf(id)) ELSE group.pending_entries[id]]]]

\* Mutant: the position of the group is not stored.
HandleXReadGroupAgain(d, k, g, consumer, count) ==
    LET r == ReadGroup(d.streams[k], g, consumer, count, d.now)
        last == d.streams[k].groups[g].last_delivered_id
    IN IF HasGroup(d, k, g)
       THEN Result(SetGroup(d, k, g, [r.group EXCEPT !.last_delivered_id = last]), r.entries)
       ELSE Result(d, Nil)

\* One key; the ID argument is not looked at.
HandleXReadGroup(d, k, g, consumer, count) ==
    LET r == ReadGroup(d.streams[k], g, consumer, count, d.now)
    IN IF HasGroup(d, k, g)
       THEN Result(SetGroup(d, k, g, r.group), IF r.entries = <<>> THEN Nil ELSE r.entries)
       ELSE Result(d, Nil)

PendingOf(d, k, g) == d.streams[k].groups[g].pending_entries

SetPending(d, k, g, p) == [d EXCEPT !.streams[k].groups[g].pending_entries = p]

HandleXAck(d, k, g, ids) ==
    IF HasGroup(d, k, g)
    THEN LET p == PendingOf(d, k, g)
         IN Result(SetPending(d, k, g, [id \in DOMAIN p \ ids |-> p[id]]), Cardinality(ids \cap DOMAIN p))
    ELSE Result(d, 0)

Claimed(p, consumer, now) ==
    [p EXCEPT !.consumer = consumer, !.delivery_count = @ + 1, !.last_delivered = now]

HandleXClaim(d, k, g, consumer, min_idle, ids) ==
    LET p == PendingOf(d, k, g)
        Idle(id) == d.now - p[id].last_delivered >= min_idle \/ min_idle = 0
        taken == {id \in ids \cap DOMAIN p : Idle(id)}
        after == [id \in DOMAIN p |-> IF id \in taken THEN Claimed(p[id], consumer, d.now) ELSE p[id]]
    IN IF HasGroup(d, k, g) THEN Result(SetPending(d, k, g, after), taken) ELSE Result(d, Error)

\* The walk over the pending list stops at the entry after the one that filled
\* the count; that entry is the next cursor, though start is exclusive.
HandleXAutoClaim(d, k, g, consumer, min_idle, start, count) ==
    LET p == PendingOf(d, k, g)
        order == SetToSortSeq(DOMAIN p, IdLess)
        Due(i) == IdLess(ParsedId(start), order[i]) /\ d.now - p[order[i]].last_delivered >= min_idle
        before(i) == Cardinality({j \in 1..i - 1 : Due(j)})
        walked == {i \in DOMAIN order : before(i) < count}
        taken == {order[i] : i \in {j \in walked : Due(j)}}
        after == [id \in DOMAIN p |-> IF id \in taken THEN Claimed(p[id], consumer, d.now) ELSE p[id]]
        next == IF walked = DOMAIN order THEN ParsedId(start) ELSE order[Cardinality(walked) + 1]
    IN IF StreamOf(d, k) = Nil THEN Result(d, [next |-> ParsedId(start), claimed |-> {}])
       ELSE IF ~HasGroup(d, k, g) THEN Result(d, Error)
       ELSE Result(SetPending(d, k, g, after), [next |-> next, claimed |-> taken])

\* "+" is 0-0 here as well.  consumer is Nil for any.
HandleXPending(d, k, g, start, end, count, consumer) ==
    LET p == PendingOf(d, k, g)
        hits == SelectSeq(SetToSortSeq(DOMAIN p, IdLess),
                          LAMBDA id : /\ IdLeq(ParsedId(start), id)
                                      /\ IdLeq(id, ParsedId(end))
                                      /\ consumer \in {Nil, p[id].consumer})
    IN Result(d, IF ~HasGroup(d, k, g) THEN Error ELSE UpTo(hits, count))

\* Strictly ascending, and nothing beyond the last generated ID.
StreamOrdered(s) ==
    /\ \A i, j \in DOMAIN s.entries : i < j => IdLess(s.entries[i].id, s.entries[j].id)
    /\ \A i \in DOMAIN s.entries : IdLeq(s.entries[i].id, s.last_generated)

=============================================================================
