------------------------------ MODULE Keyspace ------------------------------
(***************************************************************************)
(* One worker's keyspace under the data commands.  Every step is a whole   *)
(* command, as the worker's executor runs it (module WorkerRuntime), or a  *)
(* tick of the clock.  family is the kind of commands a behaviour consists *)
(* of; it is chosen at the start, so that one model holds them all and     *)
(* none of them has to be explored together with the rest.  In the family  *)
(* "mixed" one key meets commands of every type.                           *)
(*                                                                         *)
(* In the family "logged" replayed is the database that running the logged *)
(* commands again gives, and unlogged the keys of which it says nothing:   *)
(* those that a command has changed without a line in the log.             *)
(***************************************************************************)
EXTENDS KeyCommands, HashCommands, ListCommands, StreamCommands, BitmapCommands,
        HyperLogLogCommands, GeoCommands
LOCAL INSTANCE SequencesExt

CONSTANTS Families,         \* the families to explore
          Keys,
          SoleKeys,         \* the keys of the families whose commands name one key
          Values,           \* strings written: sequences of bytes
          Members,          \* fields, elements, members and consumers
          SoleMembers,      \* the one value of the family "mixed"
          Groups,           \* consumer groups
          MaxLen,           \* bound on a string
          MaxSize,          \* bound on a list
          MaxEntries,       \* bound on a stream, and on a pending list
          MaxScore,         \* bound on a score, on either side of zero
          MaxVersion,       \* bound on a key's version
          Clock,            \* the times there are, 1 among them
          MaxClaims         \* bound on how often a stream entry is delivered

VARIABLES family, db, replayed, unlogged

vars == <<family, db, replayed, unlogged>>

Init ==
    /\ family \in Families
    /\ db = EmptyDatabase
    /\ replayed = EmptyDatabase
    /\ unlogged = {}

-----------------------------------------------------------------------------
(* Steps                                                                   *)

\* The bounds of the model.
Fits(d) ==
    /\ \A k \in DOMAIN d.meta : d.meta[k].version <= MaxVersion
    /\ \A k \in DOMAIN d.strings : Len(d.strings[k]) <= MaxLen
    /\ \A k \in DOMAIN d.lists : Size(d.lists[k]) <= MaxSize
    /\ \A k \in DOMAIN d.hashes : \A f \in DOMAIN d.hashes[k] : Len(d.hashes[k][f]) <= MaxLen
    /\ family = "zsets" =>
           \A k \in DOMAIN d.zsets : \A e \in d.zsets[k].ordered : e.score \in -MaxScore..MaxScore
    /\ \A k \in DOMAIN d.streams :
           /\ Len(d.streams[k].entries) <= MaxEntries
           /\ d.streams[k].last_generated[2] <= 1
           /\ \A g \in DOMAIN d.streams[k].groups :
                  /\ Cardinality(DOMAIN PendingOf(d, k, g)) <= MaxEntries
                  /\ \A id \in DOMAIN PendingOf(d, k, g) : PendingOf(d, k, g)[id].delivery_count <= MaxClaims

\* A command of family f with result r.
Do(f, r) ==
    /\ family = f
    /\ Fits(r.db)
    /\ db' = r.db
    /\ UNCHANGED <<family, replayed, unlogged>>

\* A command of the family "logged" on these keys, which is run again from the
\* log.  A command that names a key of unlogged may come out otherwise then; a
\* behaviour ends when the log says nothing of any key.
DoLogged(keys, r) ==
    LET changed == {k \in keys : GetReply(db, k) # GetReply(r.db, k)}
        again == IF r.log = <<>> THEN replayed ELSE ReplayString(replayed, r.log[1])
    IN /\ family = "logged"
       /\ unlogged # Keys
       /\ Fits(r.db)
       /\ db' = r.db
       /\ unlogged' = unlogged \cup (IF r.log = <<>> THEN changed ELSE IF keys \cap unlogged = {} THEN {} ELSE keys)
       /\ replayed' = [again EXCEPT !.strings = [k \in DOMAIN @ \ unlogged' |-> @[k]],
                                    !.meta = [k \in DOMAIN @ \ unlogged' |-> @[k]]]
       /\ UNCHANGED family

\* Where nothing depends on the time it stands still.
Tick ==
    /\ family \in {"strings", "hashes", "lists", "sets", "zsets", "streams", "mixed"}
    /\ \E t \in Clock : t > db.now /\ db' = [db EXCEPT !.now = t]
    /\ UNCHANGED <<family, replayed, unlogged>>

\* One or two keys, as a sequence.
KeyLists == {<<k>> : k \in Keys} \cup (Keys \X Keys)
Indices == -2..2
Ends == {0, -1}

-----------------------------------------------------------------------------
(* The commands that call LogToAof, without a deadline                     *)

LoggedWrites ==
    \/ \E k \in Keys :
          \/ DoLogged({k}, HandleIncr(db, k))
          \/ DoLogged({k}, HandleDecr(db, k))
          \/ \E n \in {2, IntMax} : DoLogged({k}, HandleIncrBy(db, k, n)) \/ DoLogged({k}, HandleDecrBy(db, k, n))
    \/ \E k \in Keys, v \in Values :
          \/ \E nx, xx \in BOOLEAN : DoLogged({k}, HandleSet(db, k, v, nx, xx, Nil))
          \/ DoLogged({k}, HandleGetSet(db, k, v))
          \/ DoLogged({k}, HandleSetNx(db, k, v))
          \/ DoLogged({k}, HandleAppend(db, k, v))
          \/ \E offset \in 0..1 : DoLogged({k}, HandleSetRange(db, k, offset, v))
    \/ \E ks \in KeyLists :
          \/ DoLogged(ToSet(ks), HandleDel(db, ks))
          \/ \E v \in Values : \/ DoLogged(ToSet(ks), HandleMSet(db, ks, [i \in DOMAIN ks |-> v]))
                              \/ DoLogged(ToSet(ks), HandleMSetNx(db, ks, [i \in DOMAIN ks |-> v]))

\* Commands that change strings and do not call it; bound: one per behaviour that
\* changes something.
SilentWrites ==
    /\ unlogged = {}
    /\ \/ \E k \in Keys : \/ DoLogged({k}, HandleGetDel(db, k))
                           \/ DoLogged({k}, HandleIncrByFloat(db, k, 8))
                           \/ \E bit \in 0..1 : DoLogged({k}, HandleSetBit(db, k, 0, bit))
                           \/ \E v \in Values : \/ DoLogged({k}, HandlePSetEx(db, k, 1, v))
                                                 \/ DoLogged({k}, HandleRestore(db, k, 0, <<49, 58>> \o v, TRUE))
       \/ \E k, k2 \in Keys :
             \/ DoLogged({k, k2}, HandleRename(db, k, k2))
             \/ DoLogged({k, k2}, HandleRenameNx(db, k, k2))
             \/ DoLogged({k, k2}, HandleCopy(db, k, k2, TRUE))
       \/ \E ks \in KeyLists : DoLogged(ToSet(ks), HandleUnlink(db, ks))
       \/ DoLogged(Keys, HandleFlushDb(db))

-----------------------------------------------------------------------------
(* Strings and expiry                                                      *)

StringWrites ==
    \/ \E k \in Keys, n \in 1..2 :
          \/ \E o \in {"EX", "PX", "EXAT", "PXAT", "PERSIST", "BAD"} :
                 Do("strings", HandleGetEx(db, k, <<[name |-> "PX", n |-> n], [name |-> o, n |-> n]>>))
          \/ \E v \in Values :
                \/ \E expire \in {Nil, db.now + n} : Do("strings", HandleSet(db, k, v, FALSE, FALSE, expire))
                \/ Do("strings", HandleSetEx(db, k, n, v))
                \/ Do("strings", HandlePSetEx(db, k, n, v))
                \/ \E b \in BOOLEAN : Do("strings", HandleRestore(db, k, n, <<49, 58>> \o v, b))
    \/ \E k, k2 \in Keys :
          \/ Do("strings", HandleRename(db, k, k2))
          \/ Do("strings", HandleRenameNx(db, k, k2))
          \/ \E b \in BOOLEAN : Do("strings", HandleCopy(db, k, k2, b))
    \/ \E k \in Keys : Do("strings", HandleGetDel(db, k)) \/ Do("strings", HandleIncrByFloat(db, k, 8))
    \/ \E ks \in KeyLists : Do("strings", HandleUnlink(db, ks))

StringReads ==
    \E k \in Keys :
        \/ Do("strings", HandleGet(db, k))
        \/ Do("strings", HandleStrlen(db, k))
        \/ Do("strings", HandleDump(db, k))
        \/ \E i, j \in Ends : Do("strings", HandleGetRange(db, k, i, j))
        \/ \E k2 \in Keys :
              \/ Do("strings", HandleMGet(db, <<k, k2>>))
              \/ Do("strings", HandleTouch(db, <<k, k2>>))
              \/ Do("strings", HandleStrAlgo(db, k, k2))
              \/ \E b \in BOOLEAN : Do("strings", HandleLcs(db, k, k2, b))

KeyWrites ==
    \/ \E k \in Keys, n \in -1..2 :
          \/ Do("strings", HandleExpire(db, k, n))
          \/ Do("strings", HandlePExpire(db, k, n))
          \/ Do("strings", HandleExpireAt(db, k, n))
          \/ Do("strings", HandlePExpireAt(db, k, n))
    \/ \E k \in Keys :
          \/ Do("strings", HandlePersist(db, k))
          \/ Do("strings", HandleDel(db, <<k>>))
          \/ Do("strings", HandleMove(db, k))
    \/ Do("strings", HandleFlushDb(db))
    \/ Do("strings", HandleFlushAll(db))

\* A deadline for the values of the other types.
Deadlines ==
    \E f \in {"hashes", "lists", "sets", "zsets", "mixed"}, k \in Keys \cup SoleKeys : Do(f, HandlePExpire(db, k, 1))

KeyReads(f, keys) ==
    \/ \E k \in keys :
          \/ Do(f, HandleTTL(db, k))
          \/ Do(f, HandlePTTL(db, k))
          \/ Do(f, HandleExpireTime(db, k))
          \/ Do(f, HandlePExpireTime(db, k))
          \/ Do(f, HandleType(db, k))
          \/ Do(f, HandleRandomKey(db, k))
          \/ \E k2 \in keys : Do(f, HandleExists(db, <<k, k2>>))
          \/ \E s \in {"ENCODING", "REFCOUNT", "IDLETIME"} : Do(f, HandleObject(db, s, k))
    \/ Do(f, HandleKeys(db))
    \/ Do(f, HandleDbSize(db))

-----------------------------------------------------------------------------
(* Hashes                                                                  *)

HashWrites ==
    \E k \in SoleKeys, x \in Members :
        \/ \E v \in Values :
              \/ Do("hashes", HandleHSet(db, k, x, v))
              \/ Do("hashes", HandleHSetNx(db, k, x, v))
              \/ \E y \in Members : Do("hashes", HandleHMSet(db, k, <<x, y>>, <<v, v>>))
        \/ \E y \in Members : Do("hashes", HandleHDel(db, k, {x, y}))
        \/ Do("hashes", HandleHIncrBy(db, k, x, IntMax + 1))
        \/ Do("hashes", HandleHIncrByFloat(db, k, x, 8))
        \/ Do("hashes", HandleHPersist(db, k, x))

FieldDeadlines ==
    \E k \in SoleKeys, x \in SoleMembers, n \in 0..1, o \in {"", "NX", "XX", "GT", "LT"} :
        \/ Do("hashes", HandleHExpire(db, k, x, n, o))
        \/ Do("hashes", HandleHPExpire(db, k, x, n, o))
        \/ Do("hashes", HandleHExpireAt(db, k, x, n, o))
        \/ Do("hashes", HandleHPExpireAt(db, k, x, n, o))

HashReads ==
    \E k \in SoleKeys :
        \/ Do("hashes", HandleHGetAll(db, k))
        \/ Do("hashes", HandleHLen(db, k))
        \/ Do("hashes", HandleHKeys(db, k))
        \/ Do("hashes", HandleHVals(db, k))
        \/ Do("hashes", HandleHTTL(db, k))
        \/ \E n \in -1..2 : \E r \in HRandFieldReplies(db, k, n) : Do("hashes", HandleHRandField(db, k, r))
        \/ \E n \in 1..2 : \E order \in SetToSeqs(DOMAIN HGetAllReply(db, k)) :
               \E cursor \in 0..Len(order) : Do("hashes", HandleHScan(db, k, order, cursor, n))
        \/ \E x \in Members :
              \/ Do("hashes", HandleHGet(db, k, x))
              \/ Do("hashes", HandleHExists(db, k, x))
              \/ Do("hashes", HandleHStrLen(db, k, x))
              \/ Do("hashes", HandleHMGet(db, k, <<x, x>>))
              \/ Do("hashes", HandleHPTTL(db, k, x))
              \/ Do("hashes", HandleHExpireTime(db, k, x))
              \/ Do("hashes", HandleHPExpireTime(db, k, x))

-----------------------------------------------------------------------------
(* Lists                                                                   *)

Sides == {"LEFT", "RIGHT"}

ListWrites ==
    \E k \in Keys :
        \/ Do("lists", HandleLPop(db, k))
        \/ Do("lists", HandleRPop(db, k))
        \/ \E i, j \in Indices : Do("lists", HandleLTrim(db, k, i, j))
        \/ \E k2 \in Keys :
              \/ Do("lists", HandleRPopLPush(db, k, k2))
              \/ \E from, to \in Sides : Do("lists", HandleLMove(db, k, k2, from, to))
              \/ \E side \in Sides, n \in 1..2 : Do("lists", HandleLMPop(db, <<k, k2>>, side, n))
        \/ \E x \in Members :
              \/ \E side \in Sides : Do("lists", HandlePushX(db, k, side, x))
              \/ \E i \in Indices : Do("lists", HandleLSet(db, k, i, x)) \/ Do("lists", HandleLRem(db, k, i, x))
              \/ \E y \in Members :
                    \/ Do("lists", HandleLPush(db, k, <<x, y>>))
                    \/ Do("lists", HandleRPush(db, k, <<x, y>>))
                    \/ \E b \in BOOLEAN : Do("lists", HandleLInsert(db, k, b, x, y))

ListReads ==
    \E k \in Keys :
        \/ Do("lists", HandleLLen(db, k))
        \/ \E i \in Ends :
              \/ Do("lists", HandleLIndex(db, k, i))
              \/ \E j \in Ends : Do("lists", HandleLRange(db, k, i, j))
              \/ \E x \in Members : Do("lists", HandleLPos(db, k, x, i, 2))

-----------------------------------------------------------------------------
(* Sets                                                                    *)

SetWrites ==
    \E k \in Keys :
        \/ \E x, y \in Members : Do("sets", HandleSAdd(db, k, <<x, y>>)) \/ Do("sets", HandleSRem(db, k, <<x, y>>))
        \/ \E m \in Members : (SMembersReply(db, k) = {} \/ m \in SMembersReply(db, k)) /\ Do("sets", HandleSPop(db, k, m))
        \/ \E k2 \in Keys :
              \/ \E m \in Members : Do("sets", HandleSMove(db, k, k2, m))
              \/ \E k3 \in Keys :
                    \/ Do("sets", HandleSInterStore(db, k, <<k2, k3>>))
                    \/ Do("sets", HandleSUnionStore(db, k, {k2, k3}))
                    \/ Do("sets", HandleSDiffStore(db, k, k2, {k3}))
              \/ \E b \in BOOLEAN, limit \in {Nil, [offset |-> 1, count |-> 1]}, store \in {Nil, k2} :
                     Do("sets", HandleSort(db, k, b, limit, store))

SetReads ==
    \E k \in Keys :
        \/ Do("sets", HandleSMembers(db, k))
        \/ Do("sets", HandleSCard(db, k))
        \/ \E m \in Members :
              \/ Do("sets", HandleSIsMember(db, k, m))
              \/ Do("sets", HandleSMIsMember(db, k, <<m, m>>))
              \/ Do("sets", HandleSRandMember(db, k, m))
        \/ \E k2 \in Keys :
              \/ Do("sets", HandleSInter(db, <<k, k2>>))
              \/ Do("sets", HandleSUnion(db, {k, k2}))
              \/ Do("sets", HandleSDiff(db, k, {k2}))
              \/ \E n \in 0..1 : Do("sets", HandleSInterCard(db, <<k, k2>>, n))
        \/ \E n \in 1..2, order \in SetToSeqs(SMembersReply(db, k)) :
               \E cursor \in 0..Len(order) : Do("sets", HandleSScan(db, k, order, cursor, n))

-----------------------------------------------------------------------------
(* Sorted sets and places                                                  *)

Scores == 0..1
Bounds == [exclusive : BOOLEAN, value : Scores]
LexBounds == [exclusive : BOOLEAN, value : Members]
Limits == {Nil, [offset |-> 1, count |-> 1]}

ZSetWrites ==
    \E k \in Keys :
        \/ \E x, y \in Members : Do("zsets", HandleZRem(db, k, <<x, y>>))
        \/ \E x \in Members : Do("zsets", HandleZIncrBy(db, k, 1, x))
        \/ \E x, y \in Members, p \in Scores, q \in Scores \cup {Nil} : Do("zsets", HandleZAdd(db, k, <<p, q>>, <<x, y>>))
        \/ \E top \in BOOLEAN, n \in 1..2 : Do("zsets", HandleZPop(db, k, top, n))
        \/ \E a \in LexBounds : Do("zsets", HandleZRemRangeByLex(db, k, a, a))
        \/ \E a \in Bounds : Do("zsets", HandleZRemRangeByScore(db, k, a, a))
        \/ \E i, j \in Ends : Do("zsets", HandleZRemRangeByRank(db, k, i, j))
        \/ \E k2 \in Keys :
              \/ \E top \in BOOLEAN : Do("zsets", HandleZMPop(db, <<k, k2>>, top, 1))
              \/ \E a, b \in LexBounds : ~a.exclusive /\ Do("zsets", HandleZRangeStore(db, k, k2, a, b))
              \/ \E k3 \in Keys :
                    \/ Do("zsets", HandleZDiffStore(db, k, <<k2, k3>>))
                    \/ \E aggregate \in {"SUM", "MIN", "MAX"} :
                          \/ Do("zsets", HandleZUnionStore(db, k, <<k2, k3>>, <<1, 1>>, aggregate))
                          \/ Do("zsets", HandleZInterStore(db, k, <<k2, k3>>, <<1, 1>>, aggregate))

ZSetReads ==
    \E k \in Keys :
        \/ Do("zsets", HandleZCard(db, k))
        \/ \E i, j \in Ends : Do("zsets", HandleZRange(db, k, i, j)) \/ Do("zsets", HandleZRevRange(db, k, i, j))
        \/ \E m \in Members :
              \/ Do("zsets", HandleZScore(db, k, m))
              \/ Do("zsets", HandleZMScore(db, k, <<m, m>>))
              \/ Do("zsets", HandleZRank(db, k, m))
              \/ Do("zsets", HandleZRevRank(db, k, m))
        \/ \E p, q \in Scores : Do("zsets", HandleZCount(db, k, p, q))
        \/ \E a \in Bounds, limit \in Limits :
              \/ Do("zsets", HandleZRangeByScore(db, k, a, a, TRUE, limit))
              \/ Do("zsets", HandleZRevRangeByScore(db, k, a, a, FALSE, limit))
        \/ \E a \in LexBounds :
              \/ Do("zsets", HandleZLexCount(db, k, a, a))
              \/ Do("zsets", HandleZRevRangeByLex(db, k, a, a))
              \/ \E limit \in Limits : Do("zsets", HandleZRangeByLex(db, k, a, a, limit))
        \/ \E m \in ZRandMemberChoices(db, k) : Do("zsets", HandleZRandMember(db, k, m))
        \/ \E n \in 1..2 : \E cursor \in 0..ZCardReply(db, k) : Do("zsets", HandleZScan(db, k, cursor, n))
        \/ \E k2 \in Keys :
              \/ Do("zsets", HandleZDiff(db, <<k, k2>>))
              \/ \E n \in 0..1 : Do("zsets", HandleZInterCard(db, <<k, k2>>, n))
              \/ \E aggregate \in {"SUM", "MIN", "MAX"} :
                    \/ Do("zsets", HandleZInter(db, <<k, k2>>, <<1, 1>>, aggregate))
                    \/ Do("zsets", HandleZUnion(db, <<k, k2>>, <<1, 1>>, aggregate))

Points == [lon : 0..2^GeoBits, lat : 0..2^GeoBits]

GeoOptions == {<<>>, <<"NX">>, <<"XX", "CH">>, <<"NX", "XX">>}

GeoWrites ==
    \E k \in SoleKeys, m \in Members :
        \/ \E p \in Points, o \in GeoOptions, left \in 0..2 :
              Do("places", HandleGeoAdd(db, k, o, <<[point |-> p, member |-> m]>>, left))
        \/ Do("places", HandleZRem(db, k, <<m>>))

GeoReads ==
    \E k \in SoleKeys :
        \/ \E m \in Members :
              \/ Do("places", HandleGeoHash(db, k, m))
              \/ Do("places", HandleGeoPos(db, k, m))
              \/ \E m2 \in Members : Do("places", HandleGeoDist(db, k, m, m2))
              \/ \E n \in 0..1 :
                    \/ Do("places", HandleGeoSearchFromMember(db, k, m, n))
                    \/ \E b \in BOOLEAN : Do("places", HandleGeoRadiusByMember(db, k, m, 1, b, n))
        \/ \E p \in Points, n \in 0..1 :
              \/ Do("places", HandleGeoRadius(db, k, p, 1, n))
              \/ Do("places", HandleGeoSearchByRadius(db, k, p, 1, n))
              \/ Do("places", HandleGeoSearchFromLonLat(db, k, p, n))
        \/ Do("places", HandleGeoSearchStore(db))

-----------------------------------------------------------------------------
(* Streams                                                                 *)

Ids == {<<1, 0>>, <<3, 0>>}

StreamWrites ==
    \E k \in SoleKeys :
        \/ \E id \in Ids \cup {ZeroId, <<"*">>}, n \in 0..1 : Do("streams", HandleXAdd(db, k, id, k, n))
        \/ \E id \in Ids : Do("streams", HandleXDel(db, k, {id}))
        \/ \E n \in 0..1 : Do("streams", HandleXTrim(db, k, n))
        \/ Do("streams", HandleXSetId(db, k, <<"$">>))

GroupWrites ==
    \E k \in SoleKeys, g \in Groups :
        \/ \E id \in {<<1, 0>>, <<"$">>}, b \in BOOLEAN : Do("streams", HandleXGroupCreate(db, k, g, id, b))
        \/ Do("streams", HandleXGroupDestroy(db, k, g))
        \/ \E id \in Ids : Do("streams", HandleXAck(db, k, g, {id}))
        \/ \E c \in Members, n \in {0, 2} : Do("streams", HandleXReadGroup(db, k, g, c, n))
        \/ \E c \in SoleMembers :
              \/ \E idle \in 0..1 :
                    \/ \E ids \in (SUBSET Ids) \ {{}} : Do("streams", HandleXClaim(db, k, g, c, idle, ids))
                    \/ \E id \in {ZeroId, <<1, 0>>} : Do("streams", HandleXAutoClaim(db, k, g, c, idle, id, 1))

StreamReads ==
    \E k \in SoleKeys :
        \/ Do("streams", HandleXLen(db, k))
        \/ Do("streams", HandleXInfo(db, k))
        \/ \E id \in {<<1, 0>>, <<"$">>} :
              \/ Do("streams", HandleXRead(db, <<k, k>>, <<id, id>>, 1))
              \/ Do("streams", HandleXRange(db, k, id, <<"+">>, 1))
              \/ Do("streams", HandleXRevRange(db, k, <<"+">>, id, 1))
              \/ \E g \in Groups, c \in SoleMembers \cup {Nil} : Do("streams", HandleXPending(db, k, g, id, <<"+">>, 1, c))

-----------------------------------------------------------------------------
(* Bitmaps and HyperLogLogs                                                *)

BitFields == [signed : BOOLEAN, bits : {3}, offset : {2}]
BitFieldCommands ==
    [name : {"GET", "SET", "INCRBY"}, field : BitFields, value : {-5, 3}, overflow : {"WRAP", "SAT", "FAIL"}]

BitWrites ==
    \E k \in Keys :
        \/ \E offset \in {0, 8}, bit \in 0..1 : Do("bits", HandleSetBit(db, k, offset, bit))
        \/ \E c \in BitFieldCommands : Do("bits", HandleBitField(db, k, <<c>>))
        \/ \E op \in {"AND", "OR", "XOR", "NOT"}, ks \in KeyLists : Do("bits", HandleBitOp(db, op, k, ks))

BitReads ==
    \E k \in Keys :
        \/ \E offset \in {0, 8, 16} : Do("bits", HandleGetBit(db, k, offset))
        \/ \E i, j \in Indices :
              \/ Do("bits", HandleBitCount(db, k, i, j))
              \/ \E bit \in 0..1 : Do("bits", HandleBitPos(db, k, bit, i, j))

\* An element whose leading zeros are never found would keep the worker.
HllWrites ==
    \E k \in Keys :
        \/ \E x \in Members : Terminates(<<x>>) /\ Do("registers", HandlePfAdd(db, k, <<x>>))
        \/ \E ks \in KeyLists : Do("registers", HandlePfMerge(db, k, ks))

HllReads ==
    \/ \E ks \in KeyLists : Do("registers", HandlePfCount(db, ks))
    \/ \E k \in Keys, i \in 0..HllRegisters : Do("registers", HandlePfDebug(db, k, i))

-----------------------------------------------------------------------------
(* One key, many types                                                     *)

MixedWrites ==
    \E k \in SoleKeys :
        \/ \E x \in SoleMembers :
              \/ Do("mixed", HandleSet(db, k, x, FALSE, FALSE, Nil))
              \/ Do("mixed", HandleHSet(db, k, x, x))
              \/ Do("mixed", HandleHDel(db, k, {x}))
              \/ Do("mixed", HandleSAdd(db, k, <<x>>))
              \/ Do("mixed", HandleSRem(db, k, <<x>>))
              \/ Do("mixed", HandleZAdd(db, k, <<0>>, <<x>>))
              \/ Do("mixed", HandleRPush(db, k, <<x>>))
              \/ Do("mixed", HandleXAdd(db, k, <<1, 0>>, x, 1))
        \/ Do("mixed", HandleZPop(db, k, TRUE, 1))
        \/ Do("mixed", HandleLPop(db, k))
        \/ Do("mixed", HandleGetDel(db, k))
        \/ Do("mixed", HandlePersist(db, k))
        \/ Do("mixed", HandleDel(db, <<k>>))
        \/ Do("mixed", HandleRename(db, k, k))
        \/ Do("mixed", HandleSUnionStore(db, k, {k}))
        \/ Do("mixed", HandleZUnionStore(db, k, <<k>>, <<1>>, "MAX"))
        \/ Do("mixed", HandleSort(db, k, FALSE, Nil, k))
        \/ Do("mixed", HandleFlushDb(db))

Reads ==
    \/ KeyReads("strings", Keys)
    \/ KeyReads("mixed", SoleKeys)
    \/ StringReads
    \/ HashReads
    \/ ListReads
    \/ SetReads
    \/ ZSetReads
    \/ GeoReads
    \/ StreamReads
    \/ BitReads
    \/ HllReads

Writes ==
    \/ LoggedWrites
    \/ SilentWrites
    \/ KeyWrites
    \/ Deadlines
    \/ StringWrites
    \/ HashWrites
    \/ FieldDeadlines
    \/ ListWrites
    \/ SetWrites
    \/ ZSetWrites
    \/ GeoWrites
    \/ StreamWrites
    \/ GroupWrites
    \/ BitWrites
    \/ HllWrites
    \/ MixedWrites

Next == Reads \/ Writes \/ Tick

Spec == Init /\ [][Next]_vars

-----------------------------------------------------------------------------
(* Properties                                                              *)

AllKeys == Keys \cup SoleKeys

\* Metadata and containers agree one way: a key the metadata knows is held by
\* the container its type names, whatever mixture of types the key has been
\* used for and however it lost its last element.
RegisteredIsStored == TypeNamesHolder(db)

\* What is logged is logged right: of a string that only logging commands have
\* changed, running the logged commands again gives the value, also when one had
\* NX or XX, changed part of a string, deleted keys or was refused, and whatever
\* other keys were changed by commands that log nothing (SilentWrites).
LogRebuildsStrings ==
    family = "logged" =>
        \A k \in Keys \ unlogged : GetReply(replayed, k) = GetReply(db, k)

\* The commands that report on a key's life tell one story: TYPE, EXISTS, TTL
\* and PTTL agree on which keys there are, PTTL and PEXPIRETIME on when a key
\* will end, and a collection whose deadline has passed reads as empty.  (Not so
\* a string: GET returns it past its deadline, since Get looks into strings_ first.)
KeyReportsAgree ==
    \A k \in AllKeys :
        LET gone == HandleType(db, k).reply = "none"
            ptime == HandlePExpireTime(db, k).reply
            pttl == HandlePTTL(db, k).reply
        IN /\ gone <=> HandleExists(db, <<k>>).reply = 0
           /\ gone <=> pttl = -2
           /\ HandleTTL(db, k).reply \in {pttl, pttl \div MsPerSec}
           /\ pttl > 0 => ptime = db.now + pttl
           /\ gone => /\ DOMAIN HandleHGetAll(db, k).reply = {}
                      /\ HandleSMembers(db, k).reply = {}
                      /\ HandleLRange(db, k, 0, -1).reply = <<>>
                      /\ HandleZRange(db, k, 0, -1).reply = <<>>

Subsequences(s) ==
    {[i \in 1..Cardinality(I) |-> s[SetToSortSeq(I, <)[i]]] : I \in SUBSET DOMAIN s}

\* LCS and STRALGO find a common subsequence, and no common subsequence is
\* longer.
LcsIsLongest ==
    family \in {"logged", "strings"} =>
        \A k, l \in DOMAIN db.strings :
            LET common == Subsequences(db.strings[k]) \cap Subsequences(db.strings[l])
                lcs == HandleLcs(db, k, l, FALSE).reply
            IN /\ lcs \in common
               /\ \A s \in common : Len(s) <= Len(lcs)
               /\ HandleLcs(db, k, l, TRUE).reply = Len(lcs)

\* A list is never empty: whatever took the last element (a pop, a move, LREM,
\* LTRIM) took the key.  The half that is not in use is empty, and a vector is
\* within its limit.
ListsAreKept == \A k \in DOMAIN db.lists : ListKept(db.lists[k])

Occurrences(d, x) ==
    Cardinality({p \in Keys \X (1..MaxSize + 1) : /\ MapContains(d.lists, p[1])
                                                  /\ p[2] <= Size(d.lists[p[1]])
                                                  /\ Elements(d.lists[p[1]])[p[2]] = x})

\* LMOVE and RPOPLPUSH lose and double nothing, with source and
\* destination the same, missing or past their deadline.
MovesKeepElements ==
    family = "lists" =>
        \A k, l \in Keys, x \in Members :
            /\ Occurrences(HandleRPopLPush(db, k, l).db, x) = Occurrences(db, x)
            /\ \A from, to \in Sides : Occurrences(HandleLMove(db, k, l, from, to).db, x) = Occurrences(db, x)

\* LINDEX, LRANGE, LPOS and LLEN number the elements alike, from either end.
ListPositionsAgree ==
    family = "lists" =>
        \A k \in Keys :
            LET n == HandleLLen(db, k).reply
            IN \A i \in -n..n - 1 :
                   LET x == HandleLIndex(db, k, i).reply
                       at == HandleLPos(db, k, x, 0, 1).reply
                   IN /\ HandleLRange(db, k, i, i).reply = <<x>>
                      /\ at <= i % n
                      /\ HandleLIndex(db, k, at).reply = x
                      /\ HandleLIndex(db, k, i % n).reply = x

\* The three structures of a sorted set agree: one tree element for every
\* scored member, with that score, and its hash leads back to it.
ZSetsAgree == \A k \in DOMAIN db.zsets : ZSetAgrees(db.zsets[k])

\* The ways to ask for part of a sorted set agree: ZRANK and ZREVRANK with
\* ZRANGE and ZREVRANGE, ZCOUNT with ZRANGEBYSCORE, ZLEXCOUNT with ZRANGEBYLEX;
\* what ZREMRANGEBYRANK, -BYSCORE and -BYLEX remove is what the ranges list.
RanksAndRangesAgree ==
    family = "zsets" =>
        \A k \in Keys :
            LET n == HandleZCard(db, k).reply
                Listed(s) == {s[i].member : i \in DOMAIN s}
                Left(r) == DOMAIN ZSetOf(r.db, k).score
                here == DOMAIN ZSetOf(db, k).score
            IN /\ \A m \in here :
                      LET i == HandleZRank(db, k, m).reply
                          j == HandleZRevRank(db, k, m).reply
                      IN /\ Listed(HandleZRange(db, k, i, i).reply) = {m}
                         /\ Listed(HandleZRevRange(db, k, j, j).reply) = {m}
                         /\ Listed(HandleZRange(db, k, i - n, i - n).reply) = {m}
                         /\ i + j = n - 1
               /\ \A i, j \in -n..n - 1 :
                      Left(HandleZRemRangeByRank(db, k, i, j)) = here \ Listed(HandleZRange(db, k, i, j).reply)
               /\ \A p, q \in Bounds :
                      LET s == HandleZRangeByScore(db, k, p, q, TRUE, Nil).reply
                      IN /\ Left(HandleZRemRangeByScore(db, k, p, q)) = here \ Listed(s)
                         /\ ~p.exclusive /\ ~q.exclusive => HandleZCount(db, k, p.value, q.value).reply = Len(s)
                         /\ HandleZRevRangeByScore(db, k, p, q, TRUE, Nil).reply = Reverse(s)
               /\ \A p, q \in LexBounds :
                      LET s == HandleZRangeByLex(db, k, p, q, Nil).reply
                      IN /\ Left(HandleZRemRangeByLex(db, k, p, q)) = here \ Listed(s)
                         /\ HandleZLexCount(db, k, p, q).reply = Len(s)

\* Whichever command asks, the elements of a list and the members of a sorted
\* set have the same positions, counted from either end (the two operators
\* above).
PositionsAgree == ListPositionsAgree /\ RanksAndRangesAgree

\* ZUNIONSTORE and ZINTERSTORE, which work inside the database, and ZUNION and
\* ZINTER, which work in the command layer, come to the same members and scores
\* as long as no source has passed its deadline.
StoresMatchReads ==
    family = "zsets" =>
        \A k, l, dest \in Keys, aggregate \in {"SUM", "MIN", "MAX"} :
            LET Destination(r) == StoredZSet(r.db, dest).score
                Listed(s) == [m \in {s[i].member : i \in DOMAIN s} |->
                                 s[CHOOSE i \in DOMAIN s : s[i].member = m].score]
                union == HandleZUnion(db, <<k, l>>, <<1, 2>>, aggregate).reply
                inter == HandleZInter(db, <<k, l>>, <<1, 2>>, aggregate).reply
            IN /\ Destination(HandleZUnionStore(db, dest, <<k, l>>, <<1, 2>>, aggregate)) = Listed(union)
               /\ IsValid(db, k) /\ inter \notin {Nil, <<>>} =>
                      Destination(HandleZInterStore(db, dest, <<k, l>>, <<1, 2>>, aggregate)) = Listed(inter)
               /\ IsValid(db, k) =>
                      Destination(HandleZDiffStore(db, dest, <<k, l>>)) = Listed(HandleZDiff(db, <<k, l>>).reply)

Walk(Batch(_), n) ==
    LET From[c \in 0..n] ==
            LET p == Batch(c) IN IF p.cursor = 0 THEN p.elements ELSE p.elements \o From[p.cursor]
    IN From[0]

Visits(s, elements) == Len(s) = Cardinality(elements) /\ {s[i] : i \in DOMAIN s} = elements

\* Following the cursors of HSCAN, SSCAN and ZSCAN from 0 until 0 comes back
\* visits every element exactly once, whatever the page size.
ScansVisitOnce ==
    \A n \in 1..2 :
        /\ family = "hashes" => \A k \in SoleKeys :
               LET order == SetToSeq(DOMAIN HGetAllReply(db, k))
                   Batch(c) == LET r == HandleHScan(db, k, order, c, n).reply
                              IN [cursor |-> r.cursor, elements |-> r.fields]
               IN Visits(Walk(Batch, Len(order)), DOMAIN HGetAllReply(db, k))
        /\ family = "sets" => \A k \in Keys :
               LET order == SetToSeq(SMembersReply(db, k))
                   Batch(c) == LET r == HandleSScan(db, k, order, c, n).reply
                              IN [cursor |-> r.cursor, elements |-> r.members]
               IN Visits(Walk(Batch, Len(order)), SMembersReply(db, k))
        /\ family = "zsets" => \A k \in Keys :
               LET Batch(c) == LET r == HandleZScan(db, k, c, n).reply
                              IN [cursor |-> r.cursor, elements |-> r.members]
               IN Visits(Walk(Batch, ZCardReply(db, k)), {[member |-> m, score |-> ZScoreReply(db, k, m)] :
                                                            m \in DOMAIN ZSetOf(db, k).score})

\* Entries stand in the order of their IDs, none twice, and no ID that "*"
\* generates next can fall among them: not after trimming and deleting, nor when
\* IDs were given by hand or the clock stands still.
StreamOrder == \A k \in DOMAIN db.streams : StreamOrdered(db.streams[k])

\* A group hands an entry out once: while it exists its last delivered ID does
\* not go back, and what becomes pending lies behind the old one and not behind
\* the new one.
GroupsHandOutOnce ==
    [][\A k \in SoleKeys, g \in Groups :
           HasGroup(db, k, g) /\ HasGroup(db, k, g)' =>
               LET last == db.streams[k].groups[g].last_delivered_id
                   last1 == db'.streams[k].groups[g].last_delivered_id
               IN /\ IdLeq(last, last1)
                  /\ \A id \in DOMAIN PendingOf(db', k, g) \ DOMAIN PendingOf(db, k, g) :
                         IdLess(last, id) /\ IdLeq(id, last1)]_vars

FieldReadsBack(before, after, reply, c, n, range) ==
    LET got == FieldValue(after, c.field)
        mine == {FieldBit(c.field, j) : j \in 0..c.field.bits - 1}
    IN /\ n \in range => got = n /\ reply = n
       /\ n \notin range /\ c.overflow = "WRAP" => got \in range /\ (got - n) % 2^c.field.bits = 0
       /\ n \notin range /\ c.overflow = "SAT" => got = IF n < 0 THEN FieldMin(c.field) ELSE FieldMax(c.field)
       /\ n \notin range /\ c.overflow = "FAIL" => reply = Nil /\ got = FieldValue(before, c.field)
       /\ \A o \in (0..8 * MaxLen - 1) \ mine : GetBit(after, o) = GetBit(before, o)

\* BITFIELD reads what it wrote, in fields that cross a byte, past the end of
\* the bitmap and with a sign: SET and INCRBY take the value modulo the width,
\* or to the nearest end with SAT, and with FAIL a value that does not fit
\* changes no bit.  No other bit changes.
BitFieldsReadBack ==
    family = "bits" =>
        \A k \in Keys, c \in [name : {"SET", "INCRBY"}, field : BitFields, value : {-5, 3},
                              overflow : {"WRAP", "SAT", "FAIL"}] :
            LET r == HandleBitField(db, k, <<c>>)
            IN /\ FieldReadsBack(Bitmap(db, k), Bitmap(r.db, k), r.reply[1], c,
                                 c.value + (IF c.name = "SET" THEN 0 ELSE FieldValue(Bitmap(db, k), c.field)),
                                 FieldMin(c.field)..FieldMax(c.field))
               /\ HandleBitField(r.db, k, <<[c EXCEPT !.name = "GET"]>>).reply = <<FieldValue(Bitmap(r.db, k), c.field)>>

\* A register holds the value it is given, wherever its six bits lie in the
\* bytes, and no other register loses by it: their values stay, unless the byte
\* the register begins in is 128 or more, whose widening adds ones to the next
\* byte, so that they may grow.  Hence PFADD of an element that is already
\* counted changes nothing, and no register of a PFMERGE is below a source's.
RegistersNeverDrop ==
    family = "registers" =>
        \A k \in Keys : IsHll(db, k) =>
            /\ \A i \in 0..HllRegisters - 1, v \in {1, 2, 63} :
                   LET old == db.strings[k]
                       new == SetRegister(old, i, v)
                   IN /\ GetRegister(new, i) = v
                      /\ \A j \in (0..HllRegisters - 1) \ {i} :
                             /\ GetRegister(new, j) >= GetRegister(old, j)
                             /\ LowByte(old, i) < 128 => GetRegister(new, j) = GetRegister(old, j)
            /\ \A x \in Members :
                   LET once == HandlePfAdd(db, k, <<x>>).db
                   IN HandlePfAdd(once, k, <<x>>).db.strings = once.strings
            /\ \A ks \in KeyLists, j \in 0..HllRegisters - 1 :
                   (\E i \in DOMAIN ks : ks[i] = k) =>
                       GetRegister(Merged(db, ks), j) >= GetRegister(db.strings[k], j)

\* GEOPOS gives back the cell GEOADD was given, the upper limits included, but
\* for the lowest bit of the latitude at longitude 180, which the score has no
\* room for; a radius search lists exactly the places within the radius, the
\* nearest first, and from a place it finds that place.
PlacesAreFound ==
    family = "places" =>
        \A k \in SoleKeys :
            /\ \A m \in Members, p \in Points :
                   HandleGeoPos(HandleGeoAdd(db, k, <<>>, <<[point |-> p, member |-> m]>>, 0).db, k, m).reply =
                       IF p.lon = 2^GeoBits THEN [p EXCEPT !.lat = @ - (@ % 2)] ELSE p
            /\ \A p \in Points, radius \in 0..1 :
                   LET s == HandleGeoRadius(db, k, p, radius, Nil).reply
                   IN /\ {s[i].member : i \in DOMAIN s} =
                             {m \in Members : IsPlace(db, k, m) /\ Distance(p, HandleGeoPos(db, k, m).reply) <= radius}
                      /\ \A i, j \in DOMAIN s : i < j => s[i].distance <= s[j].distance
            /\ \A m \in Members : IsPlace(db, k, m) =>
                   LET s == HandleGeoRadiusByMember(db, k, m, 0, TRUE, 0).reply
                   IN \E i \in DOMAIN s : s[i].member = m

=============================================================================
