----------------------------- MODULE TieredStore ----------------------------
(***************************************************************************)
(* One worker's database under a memory limit: core/memory (MemoryTracker, *)
(* EvictionManager, the policies) and RocksDB as database.hpp uses it,     *)
(* either for what is evicted ("cold") or for every string, hash and set   *)
(* that is written ("all-in").  The process may stop and start again: what *)
(* was in memory is gone and RocksDB is still there.                       *)
(*                                                                         *)
(* A store s is the database db, the estimated size and the LFU counter of *)
(* each registered key, the tracked memory, rocks, the contents of         *)
(* RocksDB, and unsaved, the keys whose last write to RocksDB failed (it   *)
(* is only logged).  A key keeps one type.  Sizes stand for the estimates  *)
(* of ObjectSizeEstimator, scaled down.                                    *)
(***************************************************************************)
EXTENDS Database

CONSTANTS StringKeys,       \* keys of strings
          BoxKey, BoxTypes, \* a key of a hash, set, list or zset, one of these
          Values,           \* values, which are sequences of bytes
          Configs,          \* configurations: what RocksDB is for ("none", "cold" or "all-in"),
                            \* eviction policy, eviction_threshold
          StringOverhead, MemberOverhead, MetadataSize, LfuSize,
          CheckAt,          \* 80% of max_memory
          MaxElsewhere,     \* bound: memory of the other workers
          max_iterations,   \* rounds of one CheckAndEvict
          MaxUnsaved,       \* bound: keys whose write to RocksDB has failed
          MaxTierSteps,     \* bound: commands
          Unknown           \* what a client cannot know

ASSUME TierAssumption ==
    /\ \A c \in Configs : c[1] \in {"none", "cold", "all-in"} /\ c[3] \in Nat
    /\ BoxTypes \subseteq {"hash", "set", "list", "zset"}

VARIABLES store,
          mode, policy, EvictAt, \* the configuration
          box,
          acked,            \* acked[k]: what the replies so far say k holds
          rounds,           \* victims chosen for the last command; Nil if it was no write
          tier_steps

tierConfig == <<mode, policy, EvictAt, box>>
tierVars == <<store, tierConfig, acked, rounds, tier_steps>>

EmptyStore ==
    [db |-> EmptyDatabase, size |-> EmptyMap, lfu |-> EmptyMap, memory |-> 0, rocks |-> EmptyMap, unsaved |-> {}]

TierInit ==
    /\ store = EmptyStore
    /\ \E c \in Configs : mode = c[1] /\ policy = c[2] /\ EvictAt = c[3]
    /\ box \in BoxTypes
    /\ acked = [k \in StringKeys |-> Nil]
    /\ rounds = Nil
    /\ tier_steps = 0

-----------------------------------------------------------------------------
(* KeyMetadata and MemoryTracker                                           *)

\* Size and counter live in the metadata record: they go with it.
WithDb(s, db) ==
    [s EXCEPT !.db = db, !.size = [k \in DOMAIN @ \cap DOMAIN db.meta |-> @[k]],
              !.lfu = [k \in DOMAIN @ \cap DOMAIN db.meta |-> @[k]]]

\* db has registered k afresh.
Registered(s, db, k) == [s EXCEPT !.db = db, !.size = MapInsert(@, k, 0), !.lfu = MapInsert(@, k, 0)]

GetEstimatedSize(s, k) == IF MapContains(s.size, k) THEN s.size[k] ELSE 0

UpdateEstimatedSize(s, k, size) == IF MapContains(s.size, k) THEN [s EXCEPT !.size[k] = size] ELSE s

\* The counter is cast back to eight bits before it is compared with 255.
UpdateAccessInfo(s, k) ==
    IF policy # "noeviction" /\ MapContains(s.lfu, k)
    THEN [s EXCEPT !.lfu[k] = (@ + 1) % LfuSize] ELSE s

SubtractMemory(s, bytes) == [s EXCEPT !.memory = IF bytes > @ THEN 0 ELSE @ - bytes]

UpdateMemory(s, old, new) ==
    IF new > old THEN [s EXCEPT !.memory = @ + (new - old)] ELSE SubtractMemory(s, old - new)

EstimateStringSize(v) == StringOverhead + Len(v)

\* old is the empty string for a key that was not there.
UpdateString(s, k, old, new) ==
    UpdateEstimatedSize(UpdateMemory(s, EstimateStringSize(old), EstimateStringSize(new)),
                        k, EstimateStringSize(new))

\* UpdateHashField, UpdateSetMember, UpdateZSetMember, UpdateListElement.
UpdateMember(s, k, grown) ==
    UpdateEstimatedSize(UpdateMemory(s, GetEstimatedSize(s, k), GetEstimatedSize(s, k) + grown),
                        k, GetEstimatedSize(s, k) + grown)

ShouldCheckEviction(s) == policy # "noeviction" /\ s.memory >= CheckAt

\* With several workers their memory is taken together.
ShouldEvict(s, elsewhere) == policy # "noeviction" /\ s.memory + elsewhere >= EvictAt

-----------------------------------------------------------------------------
(* Eviction                                                                *)

\* What RocksDB is given for a key: nothing for a zset or a list.
Serialized(db, k, type) ==
    CASE type = "string" /\ MapContains(db.strings, k) -> [type |-> type, value |-> db.strings[k]]
      [] type = "hash" /\ MapContains(db.hashes, k) -> [type |-> type, value |-> db.hashes[k]]
      [] type = "set" /\ MapContains(db.sets, k) -> [type |-> type, value |-> db.sets[k]]
      [] OTHER -> Nil

\* The stores after RocksDB's Put or Delete, which may fail.
Stores(s, k, rocks) ==
    {[s EXCEPT !.rocks = rocks, !.unsaved = @ \ {k}]}
    \cup {[s EXCEPT !.unsaved = u] : u \in {u \in {s.unsaved \cup {k}} : Cardinality(u) <= MaxUnsaved}}

PersistKey(s, k, type) ==
    IF mode = "none" \/ Serialized(s.db, k, type) = Nil THEN {s}
    ELSE Stores(s, k, MapInsert(s.rocks, k, Serialized(s.db, k, type)))

\* k leaves the memory, if it is there.
Removed(s, k) ==
    IF Stored(s.db, k)
    THEN WithDb(SubtractMemory(s, GetEstimatedSize(s, k) + MetadataSize), Del(s.db, k))
    ELSE s


\* The key goes whether or not RocksDB took it.
EvictKey(s, k, type) == {Removed(p, k) : p \in PersistKey(s, k, type)}

HasTTL(s, k) == s.db.meta[k].expire # NoExpiry

\* The keys each policy may take out of these.  LRU and LFU look at samples
\* drawn with replacement, so any key may be the only one drawn; a counter of
\* 255 is never below the initial 255, and a sample of such keys yields none.
SelectVictim_LRU(keys) == keys

SelectVictim_LFU(s, keys) == {IF s.lfu[k] < LfuSize - 1 THEN k ELSE Nil : k \in keys}

SelectVictim_Random(keys) == keys

SelectVictim_TTL(s, keys) ==
    LET ticking == {k \in keys : GetTtlMs(s.db, k) > 0}
    IN {k \in ticking : \A j \in ticking : GetTtlMs(s.db, k) <= GetTtlMs(s.db, j)}

\* Nothing records accesses for 2Q, whose queues stay empty.  Nil stands for
\* the empty key that says there is no victim.
SelectVictim(s) ==
    LET soft == {k \in DOMAIN s.db.meta : HasTTL(s, k)}
        chosen ==
         CASE policy = "allkeys-lru" -> SelectVictim_LRU(DOMAIN s.db.meta)
         [] policy = "volatile-lru" -> SelectVictim_LRU(soft)
         [] policy = "allkeys-lfu" -> SelectVictim_LFU(s, DOMAIN s.db.meta)
         [] policy = "volatile-lfu" -> SelectVictim_LFU(s, soft)
         [] policy = "allkeys-random" -> SelectVictim_Random(DOMAIN s.db.meta)
         [] policy = "volatile-random" -> SelectVictim_Random(soft)
         [] policy = "volatile-ttl" -> SelectVictim_TTL(s, soft)
         [] OTHER -> {}
    IN IF chosen = {} THEN {Nil} ELSE chosen

\* An expired key only loses its metadata, and its memory stays counted.
ExecuteEviction(s, k) ==
    IF IsValid(s.db, k) THEN EvictKey(s, k, s.db.meta[k].type) ELSE {WithDb(s, Touch(s.db, k))}

\* One round: t.store is the store, t.rounds the victims so far.
EvictRound(t, elsewhere) ==
    LET victims == IF ShouldEvict(t.store, elsewhere) THEN SelectVictim(t.store) ELSE {Nil}
        Evicted(k) == {[store |-> s, rounds |-> t.rounds + 1] : s \in ExecuteEviction(t.store, k)}
    IN UNION {IF k = Nil THEN {t} ELSE Evicted(k) : k \in victims}

\* Mutant: one victim per check.
EvictOnce(s, elsewhere) == EvictRound([store |-> s, rounds |-> 0], elsewhere)

\* What CheckAndEvict may leave.  The loop ends at the first round that finds
\* nothing to do or no victim: those that went on have one victim per round.
CheckAndEvict(s, elsewhere) ==
    LET after[n \in 0..max_iterations] ==
            IF n = 0 THEN {[store |-> s, rounds |-> 0]}
            ELSE UNION {IF t.rounds = n - 1 THEN EvictRound(t, elsewhere) ELSE {t} : t \in after[n - 1]}
    IN after[max_iterations]

\* What a write may leave, whatever memory the other workers use.
MakeRoom(s) ==
    IF ShouldCheckEviction(s) THEN UNION {CheckAndEvict(s, elsewhere) : elsewhere \in 0..MaxElsewhere}
    ELSE {[store |-> s, rounds |-> 0]}

-----------------------------------------------------------------------------
(* Database methods                                                        *)

Step == tier_steps < MaxTierSteps /\ tier_steps' = tier_steps + 1

\* What the clients know, given what the replies told them: of a key whose
\* time has passed, or that only a failed write to RocksDB keeps from being
\* lost, nothing.
Certain(told, s) ==
    [k \in StringKeys |->
        IF \/ MapContains(s.db.meta, k) /\ ~IsValid(s.db, k)
           \/ k \in s.unsaved /\ ~MapContains(s.db.strings, k)
        THEN Unknown ELSE told[k]]

\* A command that is no write.
ReadStep(s) ==
    /\ Step
    /\ store' = s
    /\ rounds' = Nil
    /\ acked' = Certain(acked, s)
    /\ UNCHANGED tierConfig

\* A write that made room and left these stores.
WriteStep(room, stores, told) ==
    /\ Step
    /\ rounds' = room.rounds
    /\ store' \in stores
    /\ acked' = Certain(told, store')
    /\ UNCHANGED tierConfig

\* Set.  The key may itself be the victim; in all-in mode it is then not
\* written a second time.
SetString(k, v) ==
    LET db == Set(store.db, k, v)
        old == GetReply(store.db, k)
        opened == IF old = Nil THEN Registered(store, db, k) ELSE WithDb(store, db)
        counted == UpdateString(UpdateAccessInfo(opened, k), k, IF old = Nil THEN <<>> ELSE old, v)
    IN \E room \in MakeRoom(counted) :
          WriteStep(room, IF mode = "all-in" THEN PersistKey(room.store, k, "string") ELSE {room.store},
                    [acked EXCEPT ![k] = v])

\* What Get finds, in memory or else in RocksDB.
Found(s, k) ==
    IF MapContains(s.db.strings, k) THEN s.db.strings[k]
    ELSE IF MapContains(s.rocks, k) /\ s.rocks[k].type = "string" THEN s.rocks[k].value
    ELSE Nil

\* Get, which brings back what it finds in RocksDB, without its expiry.
GetString(k) ==
    LET loaded == UpdateString(UpdateAccessInfo(Registered(store, Set(store.db, k, Found(store, k)), k), k),
                               k, <<>>, Found(store, k))
    IN ReadStep(IF Found(store, k) = Nil THEN store
                ELSE IF MapContains(store.db.strings, k) THEN UpdateAccessInfo(store, k)
                ELSE loaded)

\* HSet, SAdd, LPush, RPush and ZAdd: the container is looked up or made, the
\* member counted, room made, and the member put into the container that was
\* looked up, though it may have been evicted meanwhile.
Opened(s, k) ==
    CASE box = "hash" -> IF MapContains(s.db.hashes, k) THEN s ELSE Registered(s, OpenHash(s.db, k), k)
      [] box = "set" -> IF MapContains(s.db.sets, k) THEN s ELSE Registered(s, OpenSet(s.db, k), k)
      [] box = "list" -> IF MapContains(s.db.lists, k) THEN s ELSE Registered(s, OpenList(s.db, k), k)
      [] OTHER -> IF MapContains(s.db.zsets, k) THEN s ELSE Registered(s, OpenZSet(s.db, k), k)

Holds(s, k, m) ==
    CASE box = "hash" -> m \in DOMAIN s.db.hashes[k]
      [] box = "set" -> m \in s.db.sets[k]
      [] box = "list" -> FALSE
      [] OTHER -> ZContains(s.db.zsets[k], m)

Inserted(s, k, m) ==
    CASE box = "hash" -> [s EXCEPT !.db = PutField(@, k, m, m)]
      [] box = "set" -> [s EXCEPT !.db = SAdd(@, k, m)]
      [] box = "list" -> [s EXCEPT !.db = LPush(@, k, m)]
      [] OTHER -> [s EXCEPT !.db = ZAdd(@, k, 1, m)]

AddMember(k, m) ==
    LET opened == Opened(store, k)
        counted == UpdateMember(opened, k, IF Holds(opened, k, m) THEN 0 ELSE MemberOverhead + Len(m))
    IN \E room \in MakeRoom(counted) :
          LET s == IF Stored(room.store.db, k) THEN Inserted(room.store, k, m) ELSE room.store
          IN WriteStep(room, IF mode = "all-in" /\ box \in {"hash", "set"} /\ ~Holds(opened, k, m)
                             THEN PersistKey(s, k, box) ELSE {s}, acked)

\* LoadFromRocksDB, for HGetAll and SMembers in all-in mode; it counts no memory.
LoadFromRocksDB(s, k) ==
    IF mode = "all-in" /\ box \in {"hash", "set"} /\ ~Stored(s.db, k) /\ MapContains(s.rocks, k)
    THEN LET opened == Opened(s, k)
         IN UpdateAccessInfo(IF box = "hash" THEN [opened EXCEPT !.db.hashes[k] = s.rocks[k].value]
                             ELSE [opened EXCEPT !.db.sets[k] = s.rocks[k].value], k)
    ELSE s

\* HGetAll, SMembers and their like.
ReadMembers(k) ==
    LET s == LoadFromRocksDB(store, k) IN ReadStep(WithDb(s, Touch(s.db, k)))

\* Del.  RocksDB is told of it in all-in mode only, and only if the key was in
\* memory; otherwise the reply says that there was no such key.
DelKey(k) ==
    LET removed == Stored(store.db, k)
        s == IF removed THEN Removed(store, k) ELSE WithDb(store, Del(store.db, k))
        told == IF mode = "cold" /\ MapContains(store.rocks, k) THEN Unknown ELSE Nil
    IN /\ Step
       /\ rounds' = Nil
       /\ store' \in IF removed /\ mode = "all-in" THEN Stores(s, k, MapRemove(s.rocks, k)) ELSE {s}
       /\ acked' = Certain(IF k \in StringKeys /\ removed THEN [acked EXCEPT ![k] = told] ELSE acked, store')
       /\ UNCHANGED tierConfig

\* EXPIRE and the passing of time.
ExpireKey(k) == ReadStep([store EXCEPT !.db = SetExpireMs(@, k, @.now + 1)])

Tick == ReadStep([store EXCEPT !.db.now = @ + 2])

\* The process stops, at any moment, and starts again.
Restart ==
    LET s == [EmptyStore EXCEPT !.rocks = store.rocks, !.unsaved = store.unsaved]
    IN /\ Step
       /\ store' = s
       /\ rounds' = Nil
       /\ acked' = IF mode = "all-in" THEN Certain(acked, s) ELSE [k \in StringKeys |-> Unknown]
       /\ UNCHANGED tierConfig

TierNext ==
    \/ \E v \in Values : (\E k \in StringKeys : SetString(k, v)) \/ AddMember(BoxKey, v)
    \/ \E k \in StringKeys : GetString(k)
    \/ ReadMembers(BoxKey)
    \/ \E k \in StringKeys \cup {BoxKey} : DelKey(k) \/ ExpireKey(k)
    \/ Tick
    \/ Restart

TierSpec == TierInit /\ [][TierNext]_tierVars

-----------------------------------------------------------------------------
(* Properties                                                              *)


\* A write that looks at the memory (at 80% of the limit) leaves it below the
\* threshold, unless it has taken as many victims as one CheckAndEvict may, or
\* the policy names none: it has no candidate, or the LFU sample may hold
\* nothing but counters at their limit.  (A read that brings back a key from
\* RocksDB does not look at the memory.)
EvictionMakesRoom ==
    rounds # Nil =>
        \/ store.memory < CheckAt \/ store.memory < EvictAt
        \/ rounds = max_iterations
        \/ Nil \in SelectVictim(store)

=============================================================================
