----------------------------- MODULE StringList -----------------------------
(***************************************************************************)
(* container/linked_list.hpp: the list behind LPUSH, LRANGE and the rest.  *)
(* A list is a vector until it grows past kListVectorThreshold elements,   *)
(* then a deque for the rest of its life; every operation is written twice *)
(* in the code, once for each half.  An index argument counts from the     *)
(* head when it is not negative and from the tail when it is.              *)
(***************************************************************************)
EXTENDS Integers, Sequences

CONSTANT kListVectorThreshold

NewList == [use_vector |-> TRUE, vector |-> <<>>, deque |-> <<>>]

\* What a reader sees: the half in use.
Elements(l) == IF l.use_vector THEN l.vector ELSE l.deque

Size(l) == Len(Elements(l))

Empty(l) == Elements(l) = <<>>

\* Write s to the half in use.
Rewrite(l, s) == IF l.use_vector THEN [l EXCEPT !.vector = s] ELSE [l EXCEPT !.deque = s]

\* The deque is filled and the vector forgotten when the vector is too long.
CheckConvertToDeque(l) ==
    IF l.use_vector /\ Len(l.vector) > kListVectorThreshold
    THEN [use_vector |-> FALSE, vector |-> <<>>, deque |-> l.deque \o l.vector]
    ELSE l

PushLeft(l, v) == CheckConvertToDeque(Rewrite(l, <<v>> \o Elements(l)))

PushRight(l, v) == CheckConvertToDeque(Rewrite(l, Append(Elements(l), v)))

PopLeft(l) == IF Empty(l) THEN l ELSE Rewrite(l, Tail(Elements(l)))

PopRight(l) == IF Empty(l) THEN l ELSE Rewrite(l, SubSeq(Elements(l), 1, Size(l) - 1))

\* Index: a negative index that runs off the head is clamped to the head.
\* The result is a position in 1..Size(l), or 0 for "no such element".
IndexPos(l, index) ==
    LET i == IF index >= 0 THEN index ELSE IF Size(l) + index < 0 THEN 0 ELSE Size(l) + index
    IN IF i < Size(l) THEN i + 1 ELSE 0

\* Set and Insert refuse a negative index that runs off the head.
StrictPos(l, index) ==
    LET i == IF index < 0 THEN Size(l) + index ELSE index
    IN IF 0 <= i /\ i < Size(l) THEN i + 1 ELSE 0

SetAt(l, index, v) ==
    LET p == StrictPos(l, index)
    IN IF p = 0 THEN l ELSE Rewrite(l, [Elements(l) EXCEPT ![p] = v])

\* The bounds Range and Trim work with, as zero-based inclusive positions.
RangeStart(l, start) ==
    IF start >= 0 THEN start ELSE IF Size(l) + start < 0 THEN 0 ELSE Size(l) + start

RangeStop(l, stop) ==
    LET s == IF stop >= 0 THEN stop ELSE IF Size(l) + stop < 0 THEN -1 ELSE Size(l) + stop
    IN IF s >= Size(l) THEN Size(l) - 1 ELSE s

ListRange(l, start, stop) ==
    LET a == RangeStart(l, start)
        b == RangeStop(l, stop)
    IN IF a >= Size(l) \/ a > b THEN <<>> ELSE SubSeq(Elements(l), a + 1, b + 1)

Trim(l, start, stop) ==
    IF Size(l) = 0 THEN l ELSE Rewrite(l, ListRange(l, start, stop))

\* Removes the first count occurrences of v, all of them when count <= 0.
RemoveValue(l, v, count) ==
    LET e == Elements(l)
        Rank(i) == Len(SelectSeq(SubSeq(e, 1, i), LAMBDA x : x = v))
        Goes(i) == e[i] = v /\ (count <= 0 \/ Rank(i) <= count)
        Kept[i \in 0..Len(e)] ==
            IF i = 0 THEN <<>> ELSE IF Goes(i) THEN Kept[i - 1] ELSE Append(Kept[i - 1], e[i])
    IN Rewrite(l, Kept[Len(e)])

\* Inserts v just before or just after the element at pivot_index.
InsertBeside(l, pivot_index, v, before) ==
    LET p == StrictPos(l, pivot_index)
        q == IF before THEN p - 1 ELSE p
        e == Elements(l)
    IN IF p = 0 THEN l
       ELSE CheckConvertToDeque(Rewrite(l, SubSeq(e, 1, q) \o <<v>> \o SubSeq(e, q + 1, Len(e))))

\* How a stored list stands.
ListKept(l) ==
    /\ ~Empty(l)
    /\ IF l.use_vector THEN l.deque = <<>> /\ Len(l.vector) <= kListVectorThreshold ELSE l.vector = <<>>

=============================================================================
