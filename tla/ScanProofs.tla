----------------------------- MODULE ScanProofs -----------------------------
(***************************************************************************)
(* Scans that run beside each other and beside writers return every key    *)
(* that stays once for each worker it is on, and no more: ScansAreComplete *)
(* for any clients, keys, workers, places and patterns.                    *)
(***************************************************************************)
EXTENDS Scans, FiniteSetTheorems, SequenceTheorems, TLAPS

ScanState == [all_keys : Seq(ScanPlaces), current_position : Nat]

Scanner == [calling : BOOLEAN, asked : SUBSET AskedWorkers, gathered : [AskedWorkers -> SUBSET ScanPlaces],
            cursor : Nat, pattern : SUBSET ScanPlaces, got : Seq(ScanPlaces), kept : SUBSET ScanPlaces,
            done : BOOLEAN]

ScanTypes ==
    /\ present \in SUBSET ScanPlaces
    /\ next_scan_id \in Nat
    /\ DOMAIN scan_states \subseteq 1..next_scan_id
    /\ scan_states \in [DOMAIN scan_states -> ScanState]
    /\ scanner \in [ScanClients -> Scanner]

\* keys are keys of S, each at most once.
Once(keys, S) ==
    /\ \A i \in 1..Len(keys) : keys[i] \in S
    /\ \A i, j \in 1..Len(keys) : keys[i] = keys[j] => i = j

Covers(keys, S) == \A k \in S : \E i \in 1..Len(keys) : keys[i] = k

\* What a client has had is the part of the copy before the position.
IsRead(got, st) ==
    /\ Len(got) = st.current_position
    /\ st.current_position <= Len(st.all_keys)
    /\ \A i \in 1..Len(got) : got[i] = st.all_keys[i]

\* While the first call gathers: a key that stays is among what its worker has
\* answered.
Gathering(s) ==
    /\ s.got = <<>>
    /\ ~s.done
    /\ s.calling => \A k \in s.kept : k[1] \notin s.asked => k \in s.gathered[k[1]]

\* Between two batches the copy has every key that stays; the state is gone
\* when the batch that completed the scan was the first.
Reading(s) ==
    /\ ~s.done
    /\ s.cursor <= next_scan_id
    /\ IF s.cursor \in DOMAIN scan_states
       THEN LET st == scan_states[s.cursor]
            IN IsRead(s.got, st) /\ Once(st.all_keys, s.pattern) /\ Covers(st.all_keys, s.kept)
       ELSE Once(s.got, s.pattern) /\ Covers(s.got, s.kept)

Finished(s) == s.done /\ ~s.calling /\ Once(s.got, s.pattern) /\ Covers(s.got, s.kept)

ScanOf(s) ==
    /\ s.kept \subseteq present \cap s.pattern
    /\ IF s.cursor # 0 THEN Reading(s) ELSE Gathering(s) \/ Finished(s)

\* No two clients read the same copy.
OwnCursors ==
    \A c, d \in ScanClients : c # d /\ scanner[c].cursor # 0 => scanner[c].cursor # scanner[d].cursor

ScanInv == ScanTypes /\ (\A c \in ScanClients : ScanOf(scanner[c])) /\ OwnCursors

-----------------------------------------------------------------------------
(* The operators of the model                                              *)

\* An order of the keys S has each of them once.
LEMMA OrdersAreOnce ==
  ASSUME NEW S \in SUBSET ScanPlaces, NEW keys \in KeyOrders(S)
  PROVE  keys \in Seq(ScanPlaces) /\ Once(keys, S) /\ Covers(keys, S)
<1> DEFINE n == Cardinality(S)
<1>1. IsFiniteSet(S) /\ n \in Nat
  BY ScanAssumption, FS_Subset, FS_CardinalityType
<1>2. /\ keys \in [1..n -> S]
      /\ \A i, j \in 1..n : i < j => keys[i] # keys[j]
  BY DEF KeyOrders
<1> HIDE DEF n
<1>3. \A i, j \in 1..n : keys[i] = keys[j] => i = j
  BY <1>1, <1>2
<1>4. keys \in Injection(1..n, S)
  BY <1>2, <1>3 DEF Injection, IsInjective
<1>5. IsFiniteSet(1..n) /\ Cardinality(1..n) = n
  <2>1. IsFiniteSet(1..n) /\ Cardinality(1..n) = IF 1 > n THEN 0 ELSE n - 1 + 1
    BY <1>1, FS_Interval
  <2> QED BY <1>1, <2>1
<1>6. keys \in Surjection(1..n, S)
  BY <1>1, <1>4, <1>5, FS_Injection DEF n
<1>7. \A k \in S : \E i \in 1..n : keys[i] = k
  BY <1>6 DEF Surjection
<1>8. keys \in Seq(S) /\ Len(keys) = n
  BY <1>1, <1>2
<1>9. keys \in Seq(ScanPlaces)
  BY <1>8, SeqMonotonic
<1> QED BY <1>2, <1>3, <1>7, <1>8, <1>9 DEF Once, Covers

\* A sequence that has each key of a pattern at most once, counted.
LEMMA OnceCounted ==
  ASSUME NEW got \in Seq(ScanPlaces), NEW S, Once(got, S), NEW k
  PROVE  /\ Occurrences(got, k) <= (IF k \in S THEN 1 ELSE 0)
         /\ (\E i \in 1..Len(got) : got[i] = k) => Occurrences(got, k) = 1
<1> DEFINE At == {i \in DOMAIN got : got[i] = k}
<1>1. DOMAIN got = 1..Len(got)
  BY LenProperties
<1>2. CASE \E i \in 1..Len(got) : got[i] = k
  <2>1. PICK i \in 1..Len(got) : got[i] = k
    BY <1>2
  <2>2. At = {i}
    BY <1>1, <2>1 DEF Once
  <2>3. Cardinality(At) = 1
    BY <2>2, FS_Singleton, Zenon
  <2>4. k \in S
    BY <2>1 DEF Once
  <2> QED BY <2>3, <2>4 DEF Occurrences
<1>3. CASE ~\E i \in 1..Len(got) : got[i] = k
  <2>1. At = {}
    BY <1>1, <1>3
  <2>2. Cardinality(At) = 0
    BY <2>1, FS_EmptySet, Zenon
  <2> QED BY <1>3, <2>2 DEF Occurrences
<1> QED BY <1>2, <1>3

\* A batch carries the client's part of the copy from one position on to the
\* next.
LEMMA BatchExtends ==
  ASSUME NEW all \in Seq(ScanPlaces), NEW got \in Seq(ScanPlaces), NEW pos \in 0..Len(all),
         NEW end \in pos..Len(all),
         Len(got) = pos, \A i \in 1..Len(got) : got[i] = all[i]
  PROVE  LET new == got \o SubSeq(all, pos + 1, end)
         IN  /\ new \in Seq(ScanPlaces)
             /\ Len(new) = end
             /\ \A i \in 1..end : new[i] = all[i]
<1> DEFINE batch == SubSeq(all, pos + 1, end)
           new == got \o batch
<1>0. Len(all) \in Nat /\ pos \in Nat /\ end \in Nat /\ pos <= end /\ end <= Len(all)
  BY LenProperties
<1>1. \A i \in pos + 1..end : all[i] \in ScanPlaces
  BY <1>0, ElementOfSeq
<1>2. /\ batch \in Seq(ScanPlaces)
      /\ Len(batch) = IF pos + 1 <= end THEN end - (pos + 1) + 1 ELSE 0
      /\ \A i \in 1..Len(batch) : batch[i] = all[pos + i]
  <2>1. pos + 1 \in Int /\ end \in Int
    BY <1>0
  <2>2. /\ batch \in Seq(ScanPlaces)
        /\ Len(batch) = IF pos + 1 <= end THEN end - (pos + 1) + 1 ELSE 0
        /\ \A i \in 1..end - (pos + 1) + 1 : batch[i] = all[pos + 1 + i - 1]
    BY <1>1, <2>1, SubSeqProperties
  <2>3. ASSUME NEW i \in 1..Len(batch) PROVE batch[i] = all[pos + i]
    <3>1. i \in 1..end - (pos + 1) + 1
      BY <1>0, <2>2
    <3>2. pos + 1 + i - 1 = pos + i
      BY <1>0, <3>1
    <3> QED BY <2>2, <3>1, <3>2
  <2> QED BY <2>2, <2>3
<1> HIDE DEF batch
<1>3. Len(batch) = end - pos
  BY <1>0, <1>2
<1>4. /\ new \in Seq(ScanPlaces)
      /\ Len(new) = Len(got) + Len(batch)
      /\ \A i \in 1..Len(got) + Len(batch) :
            new[i] = IF i <= Len(got) THEN got[i] ELSE batch[i - Len(got)]
  BY <1>2, ConcatProperties
<1> HIDE DEF new
<1>5. Len(new) = end
  BY <1>0, <1>3, <1>4
<1>6. ASSUME NEW i \in 1..end PROVE new[i] = all[i]
  <2>1. CASE i <= pos
    BY <1>0, <1>3, <1>4, <2>1
  <2>2. CASE i > pos
    <3>1. i - pos \in 1..Len(batch) /\ pos + (i - pos) = i
      BY <1>0, <1>3, <2>2
    <3>2. new[i] = batch[i - pos]
      BY <1>0, <1>3, <1>4, <2>2
    <3> QED BY <1>2, <3>1, <3>2
  <2> QED BY <1>0, <2>1, <2>2
<1> QED BY <1>4, <1>5, <1>6 DEF new, batch

\* What GetNextBatch answers for a scan that is kept and whose part before the
\* position is got: the scan goes on under the same cursor, or is complete and
\* forgotten; the other scans stay as they are.
BatchFrom(states, id, got, r) ==
    LET new == got \o r.batch
        all == states[id].all_keys
    IN  /\ new \in Seq(ScanPlaces)
        /\ r.states \in [DOMAIN r.states -> ScanState]
        /\ DOMAIN r.states \subseteq DOMAIN states
        /\ \A x \in DOMAIN states : x # id => x \in DOMAIN r.states /\ r.states[x] = states[x]
        /\ \/ /\ r.cursor = id
              /\ id \in DOMAIN r.states
              /\ r.states[id].all_keys = all
              /\ IsRead(new, r.states[id])
           \/ /\ r.cursor = 0
              /\ id \notin DOMAIN r.states
              /\ Len(new) = Len(all)
              /\ \A i \in 1..Len(all) : new[i] = all[i]

LEMMA BatchOfKept ==
  ASSUME NEW states, states \in [DOMAIN states -> ScanState], NEW id \in DOMAIN states,
         id # 0, NEW count \in Nat, NEW got \in Seq(ScanPlaces), IsRead(got, states[id])
  PROVE  BatchFrom(states, id, got, GetNextBatch(states, id, count))
<1> DEFINE st == states[id]
           all == st.all_keys
           pos == st.current_position
           end == IF pos + count < Len(all) THEN pos + count ELSE Len(all)
           r == GetNextBatch(states, id, count)
           new == got \o SubSeq(all, pos + 1, end)
<1>1. st \in ScanState /\ all \in Seq(ScanPlaces) /\ pos \in Nat /\ Len(all) \in Nat
  BY LenProperties DEF ScanState
<1>2. r = [cursor |-> IF end < Len(all) THEN id ELSE 0,
           batch |-> SubSeq(all, pos + 1, end),
           states |-> IF end < Len(all) THEN [states EXCEPT ![id].current_position = end]
                      ELSE MapRemove(states, id)]
  BY DEF GetNextBatch, MapContains
<1>3. /\ pos \in 0..Len(all) /\ end \in pos..Len(all) /\ Len(got) = pos
      /\ \A i \in 1..Len(got) : got[i] = all[i]
  BY <1>1 DEF IsRead
<1>4. new \in Seq(ScanPlaces) /\ Len(new) = end /\ \A i \in 1..end : new[i] = all[i]
  <2> HIDE DEF all, pos, end
  <2> QED BY <1>1, <1>3, BatchExtends, ZenonT(40)
<1> HIDE DEF r, new, all, pos, end, st
<1>5. r.batch = SubSeq(all, pos + 1, end)
  BY <1>2, Zenon
<1>6. CASE end < Len(all)
  <2>1. r.cursor = id /\ r.states = [states EXCEPT ![id].current_position = end]
    BY <1>2, <1>6
  <2>2. [st EXCEPT !.current_position = end] \in ScanState
    <3>1. end \in Nat
      BY <1>1, <1>3
    <3> QED BY <1>1, <3>1, Zenon DEF ScanState
  <2>3. /\ DOMAIN r.states = DOMAIN states
        /\ r.states[id] = [st EXCEPT !.current_position = end]
        /\ \A x \in DOMAIN states : x # id => r.states[x] = states[x]
    BY <2>1 DEF st
  <2>4. r.states \in [DOMAIN r.states -> ScanState]
    BY <2>1, <2>2 DEF st
  <2>5. r.states[id].all_keys = all /\ r.states[id].current_position = end
    BY <1>1, <2>3 DEF ScanState, all
  <2>6. IsRead(new, r.states[id])
    BY <1>1, <1>3, <1>4, <2>5 DEF IsRead
  <2> QED BY <1>4, <1>5, <2>1, <2>3, <2>4, <2>5, <2>6 DEF BatchFrom, r, new, all, st
<1>7. CASE ~(end < Len(all))
  <2>1. r.cursor = 0 /\ r.states = [x \in DOMAIN states \ {id} |-> states[x]]
    BY <1>2, <1>7 DEF MapRemove
  <2>2. end = Len(all)
    BY <1>1, <1>3, <1>7
  <2> QED BY <1>4, <1>5, <2>1, <2>2, Zenon DEF BatchFrom, r, new, all, st
<1> QED BY <1>6, <1>7

\* A scan that is not kept, having been complete with its first batch, ends
\* with an empty one.
LEMMA BatchOfGone ==
  ASSUME NEW states, NEW id, id \notin DOMAIN states, NEW count
  PROVE  GetNextBatch(states, id, count) = [cursor |-> 0, batch |-> <<>>, states |-> states]
BY DEF GetNextBatch, MapContains

-----------------------------------------------------------------------------
(* The steps                                                               *)

LEMMA ScanInitInv == ScanInit => ScanInv
<1> SUFFICES ASSUME ScanInit PROVE ScanInv
  OBVIOUS
<1>1. Idle \in Scanner
  BY DEF Idle, Scanner, NoAnswers
<1>2. ScanTypes
  BY <1>1 DEF ScanInit, ScanTypes, EmptyMap
<1>3. ScanOf(Idle)
  BY DEF ScanOf, Idle, Gathering
<1> QED BY <1>2, <1>3 DEF ScanInit, ScanInv, OwnCursors, Idle

\* A client whose own copy and keys stay as they are keeps its part of the
\* invariant.
LEMMA ScanUndisturbed ==
  ASSUME ScanTypes, NEW d \in ScanClients, ScanOf(scanner[d]),
         scanner'[d] = scanner[d], present' = present,
         next_scan_id' \in Nat, next_scan_id <= next_scan_id',
         scanner[d].cursor \in DOMAIN scan_states' <=> scanner[d].cursor \in DOMAIN scan_states,
         scanner[d].cursor \in DOMAIN scan_states =>
             scan_states'[scanner[d].cursor] = scan_states[scanner[d].cursor]
  PROVE  ScanOf(scanner[d])'
<1>1. scanner[d].cursor \in Nat
  BY DEF ScanTypes, Scanner
<1>2. CASE scanner[d].cursor # 0
  <2>1. Reading(scanner[d])
    BY <1>2 DEF ScanOf
  <2>2. scanner[d].cursor <= next_scan_id'
    BY <1>1, <2>1 DEF Reading, ScanTypes
  <2>3. Reading(scanner[d])'
    BY <2>1, <2>2 DEF Reading
  <2> QED BY <1>2, <2>3 DEF ScanOf
<1>3. CASE scanner[d].cursor = 0
  BY <1>3 DEF ScanOf, Gathering, Finished
<1> QED BY <1>2, <1>3

LEMMA FirstCallInv ==
  ASSUME ScanInv, NEW c \in ScanClients, NEW pattern \in Patterns, FirstCall(c, pattern)
  PROVE  ScanInv'
<1> DEFINE s == [Idle EXCEPT !.calling = TRUE, !.asked = AskedWorkers,
                             !.pattern = MatchedPlaces(pattern), !.kept = present \cap MatchedPlaces(pattern)]
<1>1. /\ scanner' = [scanner EXCEPT ![c] = s]
      /\ UNCHANGED <<present, scan_states, next_scan_id>>
  BY DEF FirstCall
<1>2. MatchedPlaces(pattern) \in SUBSET ScanPlaces /\ present \in SUBSET ScanPlaces
  BY DEF MatchedPlaces, ScanInv, ScanTypes
<1>3. Idle \in Scanner
  BY DEF Idle, Scanner, NoAnswers
<1>4. /\ s \in Scanner
      /\ s.asked = AskedWorkers /\ s.cursor = 0 /\ s.pattern = MatchedPlaces(pattern) /\ s.got = <<>>
      /\ s.kept = present \cap MatchedPlaces(pattern) /\ s.done = FALSE
  BY <1>2, <1>3, Zenon DEF Scanner, Idle
<1> HIDE DEF s
<1>5. ScanTypes'
  BY <1>1, <1>4 DEF ScanInv, ScanTypes
<1>6. \A k \in s.kept : k[1] \in s.asked
  BY <1>2, <1>4, ScanAssumption DEF AskedWorkers
<1>7. scanner'[c] = s
  BY <1>1 DEF ScanInv, ScanTypes
<1>8. ScanOf(scanner[c])'
  BY <1>1, <1>4, <1>6, <1>7 DEF ScanOf, Gathering
<1>9. ASSUME NEW d \in ScanClients, d # c PROVE ScanOf(scanner[d])'
  <2>1. scanner'[d] = scanner[d]
    BY <1>1, <1>9 DEF ScanInv, ScanTypes
  <2> QED BY <1>1, <2>1, ScanUndisturbed DEF ScanInv, ScanTypes
<1>10. OwnCursors'
  <2>1. s.cursor = 0
    BY <1>4
  <2> QED BY <1>1, <2>1 DEF ScanInv, OwnCursors, ScanTypes
<1> QED BY <1>5, <1>8, <1>9, <1>10 DEF ScanInv

LEMMA NextCallInv ==
  ASSUME ScanInv, NEW c \in ScanClients, NextCall(c)
  PROVE  ScanInv'
<1> DEFINE s == [scanner[c] EXCEPT !.calling = TRUE, !.asked = AskedWorkers]
<1>1. /\ scanner' = [scanner EXCEPT ![c] = s]
      /\ UNCHANGED <<present, scan_states, next_scan_id>>
      /\ scanner[c].cursor # 0
  BY Zenon DEF NextCall
<1>2. scanner[c] \in Scanner
  BY DEF ScanInv, ScanTypes
<1>3. /\ s \in Scanner
      /\ s.cursor = scanner[c].cursor /\ s.got = scanner[c].got /\ s.kept = scanner[c].kept
      /\ s.pattern = scanner[c].pattern /\ s.done = scanner[c].done
  BY <1>2, Zenon DEF Scanner
<1> HIDE DEF s
<1>4. ScanTypes'
  BY <1>1, <1>3 DEF ScanInv, ScanTypes
<1>5. scanner'[c] = s
  BY <1>1 DEF ScanInv, ScanTypes
<1>6. ScanOf(scanner[c])'
  <2>1. ScanOf(scanner[c])
    BY DEF ScanInv
  <2> QED BY <1>1, <1>3, <1>5, <2>1 DEF ScanOf, Reading
<1>7. ASSUME NEW d \in ScanClients, d # c PROVE ScanOf(scanner[d])'
  <2>1. scanner'[d] = scanner[d]
    BY <1>1, <1>7 DEF ScanInv, ScanTypes
  <2> QED BY <1>1, <2>1, ScanUndisturbed DEF ScanInv, ScanTypes
<1>8. OwnCursors'
  BY <1>1, <1>3 DEF ScanInv, OwnCursors, ScanTypes
<1> QED BY <1>4, <1>6, <1>7, <1>8 DEF ScanInv

LEMMA GatherKeysInv ==
  ASSUME ScanInv, NEW c \in ScanClients, NEW w \in AskedWorkers, GatherKeys(c, w)
  PROVE  ScanInv'
<1> DEFINE keys == {k \in present : k[1] = w}
           s == [scanner[c] EXCEPT !.asked = @ \ {w}, !.gathered[w] = keys]
<1>1. /\ scanner' = [scanner EXCEPT ![c] = s]
      /\ UNCHANGED <<present, scan_states, next_scan_id>>
  BY Zenon DEF GatherKeys
<1>2. scanner[c] \in Scanner /\ keys \in SUBSET ScanPlaces
  BY DEF ScanInv, ScanTypes
<1>3. [scanner[c].gathered EXCEPT ![w] = keys] \in [AskedWorkers -> SUBSET ScanPlaces]
  BY <1>2 DEF Scanner
<1>4. /\ s \in Scanner
      /\ s.cursor = scanner[c].cursor /\ s.got = scanner[c].got /\ s.kept = scanner[c].kept
      /\ s.pattern = scanner[c].pattern /\ s.done = scanner[c].done /\ s.calling = scanner[c].calling
      /\ s.asked = scanner[c].asked \ {w}
      /\ s.gathered = [scanner[c].gathered EXCEPT ![w] = keys]
  <2> HIDE DEF keys
  <2> QED BY <1>2, <1>3, Zenon DEF Scanner
<1> HIDE DEF s
<1>5. ScanTypes'
  BY <1>1, <1>4 DEF ScanInv, ScanTypes
<1>6. scanner'[c] = s
  BY <1>1 DEF ScanInv, ScanTypes
<1>7. ScanOf(scanner[c])'
  <2>1. ScanOf(scanner[c])
    BY DEF ScanInv
  <2>2. CASE scanner[c].cursor # 0
    BY <1>1, <1>4, <1>6, <2>1, <2>2 DEF ScanOf, Reading
  <2>3. CASE scanner[c].cursor = 0 /\ Finished(scanner[c])
    BY <1>1, <1>4, <1>6, <2>1, <2>3, Zenon DEF ScanOf, Finished
  <2>4. CASE scanner[c].cursor = 0 /\ Gathering(scanner[c])
    <3>1. ASSUME s.calling, NEW k \in s.kept, k[1] \notin s.asked
          PROVE  k \in s.gathered[k[1]]
      <4>1. k \in present /\ k \in ScanPlaces /\ k[1] \in AskedWorkers
        BY <1>4, <2>1, <3>1, ScanAssumption DEF ScanOf, ScanInv, ScanTypes, AskedWorkers
      <4>2. CASE k[1] = w
        BY <1>2, <1>4, <4>1, <4>2 DEF Scanner
      <4>3. CASE k[1] # w
        BY <1>2, <1>4, <2>4, <3>1, <4>1, <4>3 DEF Scanner, Gathering
      <4> QED BY <4>2, <4>3
    <3> QED BY <1>1, <1>4, <1>6, <2>1, <2>4, <3>1, Zenon DEF ScanOf, Gathering
  <2> QED BY <2>1, <2>2, <2>3, <2>4 DEF ScanOf
<1>8. ASSUME NEW d \in ScanClients, d # c PROVE ScanOf(scanner[d])'
  <2>1. scanner'[d] = scanner[d]
    BY <1>1, <1>8 DEF ScanInv, ScanTypes
  <2> QED BY <1>1, <2>1, ScanUndisturbed DEF ScanInv, ScanTypes
<1>9. OwnCursors'
  BY <1>1, <1>4 DEF ScanInv, OwnCursors, ScanTypes
<1> QED BY <1>5, <1>7, <1>8, <1>9 DEF ScanInv

\* What Answered leaves of a client's record.
AnsweredAs(t, s, cursor, batch) ==
    /\ t \in Scanner
    /\ t.cursor = cursor /\ t.got = s.got \o batch /\ t.kept = s.kept
    /\ t.pattern = s.pattern /\ t.done = (cursor = 0) /\ t.calling = FALSE

LEMMA AnsweredFields ==
  ASSUME NEW s \in Scanner, NEW cursor \in Nat, NEW batch, s.got \o batch \in Seq(ScanPlaces)
  PROVE  AnsweredAs(Answered(s, cursor, batch), s, cursor, batch)
<1>1. NoAnswers \in [AskedWorkers -> SUBSET ScanPlaces]
  BY DEF NoAnswers
<1>2. (cursor = 0) \in BOOLEAN
  OBVIOUS
<1> QED BY <1>1, <1>2, Zenon DEF Answered, AnsweredAs, Scanner

LEMMA ReplyToNextInv ==
  ASSUME ScanInv, NEW c \in ScanClients, NEW count \in 1..MaxCount, ReplyToNext(c, count)
  PROVE  ScanInv'
<1> DEFINE s == scanner[c]
           r == GetNextBatch(scan_states, s.cursor, count)
           t == Answered(s, r.cursor, r.batch)
<1>1. /\ scanner' = [scanner EXCEPT ![c] = t]
      /\ scan_states' = r.states
      /\ UNCHANGED <<present, next_scan_id>>
      /\ s.cursor # 0
  BY DEF ReplyToNext
<1>2. /\ s \in Scanner /\ s.got \in Seq(ScanPlaces) /\ s.cursor \in Nat /\ count \in Nat
      /\ ScanOf(s) /\ Reading(s)
  BY <1>1, ScanAssumption DEF ScanInv, ScanTypes, Scanner, ScanOf
<1>3. /\ s.got \o r.batch \in Seq(ScanPlaces)
      /\ r.cursor \in {0, s.cursor}
      /\ DOMAIN r.states \subseteq DOMAIN scan_states
      /\ r.states \in [DOMAIN r.states -> ScanState]
      /\ \A x \in DOMAIN scan_states :
            x # s.cursor => x \in DOMAIN r.states /\ r.states[x] = scan_states[x]
      /\ IF r.cursor = 0 THEN Once(s.got \o r.batch, s.pattern) /\ Covers(s.got \o r.batch, s.kept)
         ELSE /\ r.cursor \in DOMAIN r.states
              /\ IsRead(s.got \o r.batch, r.states[r.cursor])
              /\ Once(r.states[r.cursor].all_keys, s.pattern)
              /\ Covers(r.states[r.cursor].all_keys, s.kept)
  <2> DEFINE id == s.cursor
             new == s.got \o r.batch
  <2>1. CASE id \notin DOMAIN scan_states
    <3>1. r = [cursor |-> 0, batch |-> <<>>, states |-> scan_states]
      BY <2>1, BatchOfGone
    <3>2. r.cursor = 0 /\ r.states = scan_states /\ new = s.got
      <4> HIDE DEF r
      <4> QED BY <1>2, <3>1, ConcatEmptySeq
    <3> HIDE DEF r, new
    <3> QED BY <1>2, <2>1, <3>2 DEF Reading, ScanInv, ScanTypes, new
  <2>2. CASE id \in DOMAIN scan_states
    <3> DEFINE all == scan_states[id].all_keys
    <3>1. IsRead(s.got, scan_states[id]) /\ Once(all, s.pattern) /\ Covers(all, s.kept)
      BY <1>2, <2>2 DEF Reading
    <3>2. scan_states \in [DOMAIN scan_states -> ScanState] /\ all \in Seq(ScanPlaces)
      BY <2>2 DEF ScanInv, ScanTypes, ScanState
    <3>3. BatchFrom(scan_states, id, s.got, r)
      BY <1>1, <1>2, <2>2, <3>1, <3>2, BatchOfKept
    <3> HIDE DEF r, new, all
    <3>4. CASE r.cursor = id
      BY <1>1, <3>1, <3>3, <3>4, ZenonT(40) DEF BatchFrom, new, all
    <3>5. CASE r.cursor = 0
      <4>1. new = all
        BY <1>1, <3>2, <3>3, <3>5, SeqEqual, Zenon DEF BatchFrom, new, all
      <4> QED BY <1>1, <3>1, <3>3, <3>5, <4>1 DEF BatchFrom, new
    <3> QED BY <3>3, <3>4, <3>5, Zenon DEF BatchFrom
  <2> QED BY <2>1, <2>2, Zenon
<1> HIDE DEF r
<1>4. AnsweredAs(t, s, r.cursor, r.batch)
  <2>1. s \in Scanner /\ r.cursor \in Nat /\ s.got \o r.batch \in Seq(ScanPlaces)
    BY <1>2, <1>3
  <2> QED BY <2>1, AnsweredFields
<1> HIDE DEF t
<1>5. ScanTypes'
  BY <1>1, <1>3, <1>4 DEF AnsweredAs, ScanInv, ScanTypes
<1>6. scanner'[c] = t
  BY <1>1 DEF ScanInv, ScanTypes
<1>7. ScanOf(scanner[c])'
  <2>1. t.kept \subseteq present' \cap t.pattern
    BY <1>1, <1>2, <1>4 DEF AnsweredAs, ScanOf
  <2>2. CASE r.cursor = 0
    BY <1>3, <1>4, <1>6, <2>1, <2>2, Zenon DEF AnsweredAs, ScanOf, Finished
  <2>3. CASE r.cursor # 0
    <3>1. r.cursor <= next_scan_id'
      BY <1>1, <1>2, <1>3, <2>3 DEF Reading
    <3> QED BY <1>1, <1>3, <1>4, <1>6, <2>1, <2>3, <3>1, Zenon DEF AnsweredAs, ScanOf, Reading
  <2> QED BY <2>2, <2>3
<1>8. ASSUME NEW d \in ScanClients, d # c PROVE ScanOf(scanner[d])'
  <2>1. scanner'[d] = scanner[d]
    BY <1>1, <1>8 DEF ScanInv, ScanTypes
  <2>2. scanner[d].cursor # s.cursor
    BY <1>1, <1>8 DEF ScanInv, OwnCursors
  <2>3. /\ scanner[d].cursor \in DOMAIN scan_states' <=> scanner[d].cursor \in DOMAIN scan_states
        /\ scanner[d].cursor \in DOMAIN scan_states =>
               scan_states'[scanner[d].cursor] = scan_states[scanner[d].cursor]
    BY <1>1, <1>3, <2>2
  <2>4. next_scan_id' \in Nat /\ next_scan_id <= next_scan_id' /\ present' = present
    BY <1>1 DEF ScanInv, ScanTypes
  <2> QED BY <2>1, <2>3, <2>4, ScanUndisturbed DEF ScanInv
<1>9. OwnCursors'
  BY <1>1, <1>3, <1>4 DEF AnsweredAs, ScanInv, OwnCursors, ScanTypes
<1> QED BY <1>5, <1>7, <1>8, <1>9 DEF ScanInv

LEMMA ReplyToFirstInv ==
  ASSUME ScanInv, NEW c \in ScanClients, NEW count \in 1..MaxCount, ReplyToFirst(c, count)
  PROVE  ScanInv'
<1> DEFINE s == scanner[c]
           S == (UNION {s.gathered[w] : w \in AskedWorkers}) \cap s.pattern
           id == next_scan_id + 1
<1>1. PICK keys \in KeyOrders(S) :
          LET new == StartScan(keys)
              r == GetNextBatch(new.states, new.id, count)
          IN /\ scan_states' = r.states
             /\ next_scan_id' = new.id
             /\ scanner' = [scanner EXCEPT ![c] = Answered(@, new.id, r.batch)]
  BY Zenon DEF ReplyToFirst
<1> DEFINE states == MapInsert(scan_states, id, [all_keys |-> keys, current_position |-> 0])
           r == GetNextBatch(states, id, count)
           t == Answered(s, id, r.batch)
<1>2. /\ scan_states' = r.states
      /\ next_scan_id' = id
      /\ scanner' = [scanner EXCEPT ![c] = t]
      /\ present' = present
      /\ s.cursor = 0 /\ s.calling /\ s.asked = {}
  BY <1>1, Zenon DEF ReplyToFirst, StartScan
<1>3. /\ s \in Scanner /\ count \in Nat /\ next_scan_id \in Nat /\ id \in Nat /\ id # 0
      /\ ScanOf(s) /\ Gathering(s)
  BY <1>2, ScanAssumption DEF ScanInv, ScanTypes, ScanOf, Finished
<1>4. keys \in Seq(ScanPlaces) /\ Once(keys, s.pattern) /\ Covers(keys, s.kept)
  <2>1. S \in SUBSET ScanPlaces
    BY <1>3 DEF Scanner
  <2>2. keys \in Seq(ScanPlaces) /\ Once(keys, S) /\ Covers(keys, S)
    <3> HIDE DEF S
    <3> QED BY <2>1, OrdersAreOnce
  <2>3. ASSUME NEW k \in s.kept PROVE k \in S
    <3>1. k \in ScanPlaces /\ k \in s.pattern
      BY <1>3 DEF ScanOf, Scanner
    <3>2. k[1] \in AskedWorkers
      BY <3>1, ScanAssumption DEF AskedWorkers
    <3>3. k \in s.gathered[k[1]]
      BY <1>2, <1>3 DEF Gathering
    <3> QED BY <3>1, <3>2, <3>3
  <2> QED BY <2>2, <2>3 DEF Once, Covers
<1> HIDE DEF S
<1>5. /\ states \in [DOMAIN states -> ScanState]
      /\ DOMAIN states = DOMAIN scan_states \cup {id}
      /\ states[id] = [all_keys |-> keys, current_position |-> 0]
      /\ \A x \in DOMAIN scan_states : x # id /\ states[x] = scan_states[x]
  <2>1. [all_keys |-> keys, current_position |-> 0] \in ScanState
    BY <1>4 DEF ScanState
  <2>2. id \notin DOMAIN scan_states
    BY <1>3 DEF ScanInv, ScanTypes
  <2>3. scan_states \in [DOMAIN scan_states -> ScanState]
    BY DEF ScanInv, ScanTypes
  <2> HIDE DEF id
  <2> QED BY <2>1, <2>2, <2>3, Zenon DEF MapInsert
<1>6. s.got = <<>> /\ <<>> \in Seq(ScanPlaces) /\ IsRead(<<>>, states[id])
  <2> HIDE DEF states, s
  <2>1. states[id].current_position = 0 /\ states[id].all_keys = keys /\ Len(keys) \in Nat
    BY <1>4, <1>5
  <2> QED BY <1>3, <2>1 DEF Gathering, IsRead
<1>7. BatchFrom(states, id, s.got, r)
  BY <1>3, <1>5, <1>6, BatchOfKept, Zenon
<1> HIDE DEF states, r
<1>8. AnsweredAs(t, s, id, r.batch)
  <2>1. s.got \o r.batch \in Seq(ScanPlaces)
    BY <1>7 DEF BatchFrom
  <2> QED BY <1>3, <2>1, AnsweredFields
<1> HIDE DEF t
<1>9. ScanTypes'
  <2>1. DOMAIN r.states \subseteq 1..id
    BY <1>3, <1>5, <1>7 DEF BatchFrom, ScanInv, ScanTypes
  <2>2. r.states \in [DOMAIN r.states -> ScanState]
    BY <1>7 DEF BatchFrom
  <2>3. t \in Scanner
    BY <1>8 DEF AnsweredAs
  <2> HIDE DEF id
  <2> QED BY <1>2, <1>3, <2>1, <2>2, <2>3 DEF ScanInv, ScanTypes
<1>10. scanner'[c] = t
  BY <1>2 DEF ScanInv, ScanTypes
<1>11. ScanOf(scanner[c])'
  <2>1. states[id].all_keys = keys
    BY <1>5
  <2>2. /\ t.kept \subseteq present' \cap t.pattern
        /\ ~t.done /\ t.cursor = id /\ t.cursor # 0
        /\ t.got = s.got \o r.batch /\ t.pattern = s.pattern /\ t.kept = s.kept
    BY <1>2, <1>3, <1>8, Zenon DEF AnsweredAs, ScanOf
  <2>3. CASE id \in DOMAIN r.states
    <3>1. r.states[id].all_keys = keys /\ IsRead(t.got, r.states[id])
      BY <1>7, <2>1, <2>2, <2>3, Zenon DEF BatchFrom
    <3> HIDE DEF id
    <3>2. t.cursor <= next_scan_id'
      BY <1>2, <1>3, <2>2, SMTT(30)
    <3> QED BY <1>2, <1>4, <1>10, <2>2, <2>3, <3>1, <3>2, Zenon DEF ScanOf, Reading
  <2>4. CASE id \notin DOMAIN r.states
    <3>1. t.got \in Seq(ScanPlaces) /\ Len(t.got) = Len(keys) /\ \A i \in 1..Len(keys) : t.got[i] = keys[i]
      BY <1>7, <2>1, <2>2, <2>4, Zenon DEF BatchFrom
    <3>2. t.got = keys
      BY <1>4, <3>1, SeqEqual
    <3> HIDE DEF id
    <3> QED BY <1>2, <1>3, <1>4, <1>10, <2>2, <2>4, <3>2 DEF ScanOf, Reading
  <2> QED BY <2>3, <2>4
<1>12. ASSUME NEW d \in ScanClients, d # c PROVE ScanOf(scanner[d])'
  <2>1. scanner'[d] = scanner[d] /\ scanner[d].cursor \in Nat
    BY <1>2, <1>12, SMTT(30) DEF ScanInv, ScanTypes, Scanner
  <2>2. scanner[d].cursor # id
    BY <1>3, <2>1 DEF ScanInv, ScanOf, Reading
  <2>3. /\ scanner[d].cursor \in DOMAIN scan_states' <=> scanner[d].cursor \in DOMAIN scan_states
        /\ scanner[d].cursor \in DOMAIN scan_states =>
               scan_states'[scanner[d].cursor] = scan_states[scanner[d].cursor]
    BY <1>2, <1>5, <1>7, <2>2 DEF BatchFrom
  <2>4. next_scan_id' \in Nat /\ next_scan_id <= next_scan_id' /\ present' = present
    BY <1>2, <1>3
  <2> QED BY <2>1, <2>3, <2>4, ScanUndisturbed DEF ScanInv
<1>13. OwnCursors'
  <2>1. ASSUME NEW d \in ScanClients, d # c PROVE scanner'[d] = scanner[d] /\ scanner[d].cursor # id
    <3>1. scanner'[d] = scanner[d] /\ scanner[d].cursor \in Nat
      BY <1>2, <2>1 DEF ScanInv, ScanTypes, Scanner
    <3> QED BY <1>3, <3>1 DEF ScanInv, ScanOf, Reading
  <2>2. scanner'[c].cursor = id
    BY <1>8, <1>10 DEF AnsweredAs
  <2> HIDE DEF id
  <2> QED BY <2>1, <2>2 DEF ScanInv, OwnCursors
<1> QED BY <1>9, <1>11, <1>12, <1>13 DEF ScanInv

LEMMA ChangeKeyInv ==
  ASSUME ScanInv, NEW k \in ScanPlaces, ChangeKey(k)
  PROVE  ScanInv'
<1>1. /\ scanner' = [c \in ScanClients |-> [scanner[c] EXCEPT !.kept = @ \ {k}]]
      /\ UNCHANGED <<scan_states, next_scan_id>>
      /\ present' \in SUBSET ScanPlaces
      /\ present \ {k} \subseteq present'
  BY DEF ChangeKey, ScanInv, ScanTypes
<1>2. ASSUME NEW c \in ScanClients
      PROVE  LET s == scanner[c]
                 t == scanner'[c]
             IN /\ t \in Scanner /\ t.calling = s.calling /\ t.asked = s.asked
                /\ t.gathered = s.gathered /\ t.cursor = s.cursor /\ t.pattern = s.pattern
                /\ t.got = s.got /\ t.kept = s.kept \ {k} /\ t.done = s.done
  <2>1. scanner[c] \in Scanner /\ scanner'[c] = [scanner[c] EXCEPT !.kept = @ \ {k}]
    BY <1>1 DEF ScanInv, ScanTypes
  <2> QED BY <2>1, Zenon DEF Scanner
<1>3. ScanTypes'
  <2>1. scanner' \in [ScanClients -> Scanner]
    BY <1>1, <1>2
  <2> QED BY <1>1, <2>1 DEF ScanInv, ScanTypes
<1>4. ASSUME NEW c \in ScanClients PROVE ScanOf(scanner[c])'
  <2>1. ScanOf(scanner[c])
    BY DEF ScanInv
  <2>2. scanner'[c].kept \subseteq present' \cap scanner'[c].pattern
    BY <1>1, <1>2, <2>1 DEF ScanOf
  <2>3. CASE scanner[c].cursor # 0
    BY <1>1, <1>2, <2>1, <2>2, <2>3 DEF ScanOf, Reading, Covers
  <2>4. CASE scanner[c].cursor = 0 /\ Gathering(scanner[c])
    BY <1>2, <2>2, <2>4 DEF ScanOf, Gathering
  <2>5. CASE scanner[c].cursor = 0 /\ Finished(scanner[c])
    BY <1>2, <2>2, <2>5 DEF ScanOf, Finished, Covers
  <2> QED BY <2>1, <2>3, <2>4, <2>5 DEF ScanOf
<1>5. OwnCursors'
  BY <1>2 DEF ScanInv, OwnCursors
<1> QED BY <1>3, <1>4, <1>5 DEF ScanInv

\* The invariant counts: what a client has had is part of what its copy has.
LEMMA ScanInvComplete == ScanInv => ScansAreComplete
<1> SUFFICES ASSUME ScanInv, NEW c \in ScanClients
             PROVE  LET s == scanner[c]
                    IN /\ \A k \in ScanPlaces : Occurrences(s.got, k) <= (IF k \in s.pattern THEN 1 ELSE 0)
                       /\ s.done => \A k \in s.kept : Occurrences(s.got, k) = 1
  BY DEF ScansAreComplete
<1> DEFINE s == scanner[c]
<1>1. s \in Scanner /\ s.got \in Seq(ScanPlaces) /\ ScanOf(s) /\ Len(s.got) \in Nat
  BY DEF ScanInv, ScanTypes, Scanner
<1>2. Once(s.got, s.pattern)
  <2>1. CASE s.cursor = 0
    BY <1>1, <2>1 DEF ScanOf, Gathering, Finished, Once
  <2>2. CASE s.cursor # 0 /\ s.cursor \in DOMAIN scan_states
    <3> DEFINE st == scan_states[s.cursor]
    <3>1. IsRead(s.got, st) /\ Once(st.all_keys, s.pattern)
      BY <1>1, <2>2 DEF ScanOf, Reading
    <3>2. Len(st.all_keys) \in Nat
      BY <2>2 DEF ScanInv, ScanTypes, ScanState
    <3> HIDE DEF st, s
    <3>3. \A i \in 1..Len(s.got) : i \in 1..Len(st.all_keys) /\ s.got[i] = st.all_keys[i]
      BY <1>1, <3>1, <3>2 DEF IsRead
    <3> QED BY <3>1, <3>3 DEF Once
  <2>3. CASE s.cursor # 0 /\ s.cursor \notin DOMAIN scan_states
    BY <1>1, <2>3 DEF ScanOf, Reading
  <2> QED BY <2>1, <2>2, <2>3
<1>3. s.done => Covers(s.got, s.kept)
  BY <1>1 DEF ScanOf, Reading, Gathering, Finished
<1> HIDE DEF s
<1>4. \A k : /\ Occurrences(s.got, k) <= (IF k \in s.pattern THEN 1 ELSE 0)
             /\ (\E i \in 1..Len(s.got) : s.got[i] = k) => Occurrences(s.got, k) = 1
  BY <1>1, <1>2, OnceCounted
<1> QED BY <1>3, <1>4 DEF Covers, s

-----------------------------------------------------------------------------
(* Theorems                                                                *)

\* Every step keeps the invariant, and so every scan is complete: the client
\* that follows its cursor back to 0 has had each key that stayed once from each
\* worker that has it, and no more often, however many scans run and however
\* keys come and go beside it.
THEOREM ScanCorrect == ScanSpec => []ScansAreComplete
<1>1. ScanInv /\ [ScanNext]_scanVars => ScanInv'
  <2> SUFFICES ASSUME ScanInv, [ScanNext]_scanVars PROVE ScanInv'
    OBVIOUS
  <2>1. ASSUME NEW c \in ScanClients, ScanStep(c) PROVE ScanInv'
    BY <2>1, FirstCallInv, NextCallInv, GatherKeysInv, ReplyToFirstInv, ReplyToNextInv DEF ScanStep
  <2>2. ASSUME NEW k \in ScanPlaces, ChangeKey(k) PROVE ScanInv'
    BY <2>2, ChangeKeyInv
  <2>3. CASE UNCHANGED scanVars
    BY <2>3 DEF scanVars, ScanInv, ScanTypes, ScanOf, Reading, Gathering, Finished, OwnCursors
  <2> QED BY <2>1, <2>2, <2>3 DEF ScanNext
<1> QED BY <1>1, ScanInitInv, ScanInvComplete, PTL DEF ScanSpec

=============================================================================
