----------------------------- MODULE Snapshots ------------------------------
(***************************************************************************)
(* SAVE, BGSAVE and the start of the server: PersistenceManager's SaveRdb, *)
(* BackgroundSaveRdb and LoadRdb, Worker::GetRdbData and                   *)
(* Database::ForEachKey.  A save reads the databases of all workers, one   *)
(* after the other, while the workers go on; then it writes a              *)
(* temporary file and renames it.  The process may stop at any moment, and *)
(* the server that starts after it loads the file.                         *)
(*                                                                         *)
(* Nothing stops a SAVE beside another save, and all of them write by one  *)
(* RdbWriter, whose current_file_ the second replaces under the first.  No *)
(* write is checked either.  What becomes of the file then is damaged:     *)
(* what a reader makes of it, after some of its entries, is not defined.   *)
(***************************************************************************)
EXTENDS Database, RdbFormat
LOCAL INSTANCE SequencesExt

CONSTANTS SnapWorkers,      \* how many workers
          SnapStrings,      \* keys of strings
          SnapBox, SnapBoxTypes, \* a key of one of the other types
          SnapValues,       \* values of strings
          LongValues,       \* those that stand for 16384 bytes or more
          SnapElement,      \* the element that is added to SnapBox
          RouteOf,          \* the worker that executes the commands on a key
          HashOf,           \* the worker of a key by std::hash
          MaxSaves,         \* bound: saves
          MaxSnapSteps,     \* bound: commands
          MaxClock,         \* bound: milliseconds
          MaxRestarts       \* bound: times the process stops

ASSUME SnapAssumption ==
    /\ SnapWorkers \in Nat \ {0}
    /\ RouteOf \in [SnapStrings \cup {SnapBox} -> 1..SnapWorkers]
    /\ HashOf \in [SnapStrings \cup {SnapBox} -> 1..SnapWorkers]

VARIABLES shards,           \* shards[w]: the database of worker w
          savers,           \* savers[w]: the SAVE of worker w; savers[0]: the background save
          bg_save_in_progress,
          current_file,     \* the open temporary file, or Nil
          dump,             \* the file the server loads, or Nil
          snap_box,         \* the type of SnapBox
          snap_steps, saves, restarts,
          fresh,            \* the server has started again and done nothing since
          saved             \* saved[k]: what k held while the save that made dump was under way

snapBounds == <<snap_box, snap_steps, saves, restarts>>
snapVars == <<shards, savers, bg_save_in_progress, current_file, dump, snapBounds, fresh, saved>>

Savers == 0..SnapWorkers

NothingHeld == [k \in SnapStrings |-> {}]

\* at: the next worker to read; data: what has been read and is not written;
\* held[k]: what k has held since the save began.
NoSave == [phase |-> "none", at |-> 1, data |-> <<>>, held |-> NothingHeld]

Saving == {x \in Savers : savers[x].phase # "none"}

SnapInit ==
    /\ shards = [w \in 1..SnapWorkers |-> EmptyDatabase]
    /\ savers = [x \in Savers |-> NoSave]
    /\ bg_save_in_progress = FALSE
    /\ current_file = Nil
    /\ dump = Nil
    /\ snap_box \in SnapBoxTypes
    /\ snap_steps = 0
    /\ saves = 0
    /\ restarts = 0
    /\ fresh = FALSE
    /\ saved = NothingHeld

-----------------------------------------------------------------------------
(* Commands                                                                *)

Now == shards[1].now

\* The value of string k and when it expires.
Holding(d, k) ==
    IF MapContains(d.strings, k)
    THEN [value |-> d.strings[k], expire |-> IF MapContains(d.meta, k) THEN d.meta[k].expire ELSE NoExpiry]
    ELSE [value |-> Nil, expire |-> NoExpiry]

\* A worker in SAVE executes nothing else.
Execute(k, d) ==
    /\ snap_steps < MaxSnapSteps
    /\ RouteOf[k] \notin Saving
    /\ snap_steps' = snap_steps + 1
    /\ shards' = [shards EXCEPT ![RouteOf[k]] = d]
    /\ savers' = [x \in Savers |->
                    IF x \in Saving /\ k \in SnapStrings
                    THEN [savers[x] EXCEPT !.held[k] = @ \cup {Holding(d, k)}] ELSE savers[x]]
    /\ fresh' = FALSE
    /\ UNCHANGED <<bg_save_in_progress, current_file, dump, snap_box, saves, restarts, saved>>

AddToBox(d, k, v) ==
    CASE snap_box = "hash" -> HSet(d, k, v, v)
      [] snap_box = "list" -> LPush(d, k, v)
      [] snap_box = "set" -> SAdd(d, k, v)
      [] snap_box = "zset" -> ZAdd(d, k, 1, v)

SnapCommand ==
    \/ \E k \in SnapStrings, v \in SnapValues : Execute(k, Set(shards[RouteOf[k]], k, v))
    \/ \E k \in SnapStrings : Execute(k, Del(shards[RouteOf[k]], k))
    \/ \E k \in SnapStrings : Execute(k, SetExpireMs(shards[RouteOf[k]], k, Now + 1))
    \/ Execute(SnapBox, AddToBox(shards[RouteOf[SnapBox]], SnapBox, SnapElement))

SnapTick ==
    /\ Now < MaxClock
    /\ shards' = [w \in 1..SnapWorkers |-> [shards[w] EXCEPT !.now = @ + 1]]
    /\ UNCHANGED <<savers, bg_save_in_progress, current_file, dump, snapBounds, fresh, saved>>

-----------------------------------------------------------------------------
(* SaveRdb                                                                 *)

\* The containers in the order of ForEachKey, which knows no others.
SavedContainers == <<"strings", "hashes", "lists", "sets", "zsets">>

SavedTypes == <<"string", "hash", "list", "set", "zset">>

\* A collection becomes one string: its elements, each with a newline.
Lines(s) == FlattenSeq([i \in DOMAIN s |-> s[i] \o <<10>>])

SerializedAs(d, c, k) ==
    CASE c = "strings" -> d.strings[k]
      [] c = "hashes" -> LET fs == SetToSeq(DOMAIN d.hashes[k])
                         IN Lines([i \in DOMAIN fs |-> fs[i] \o <<58>> \o d.hashes[k][fs[i]]])
      [] c = "lists" -> Lines(Elements(d.lists[k]))
      [] c = "sets" -> Lines(SetToSeq(d.sets[k]))
      [] c = "zsets" -> LET es == InOrder(d.zsets[k])
                        IN Lines([i \in DOMAIN es |-> es[i].member \o <<58, es[i].score>>])

\* What ForEachKey calls back with for container i.  The metadata says only how
\* long the key has to live: a key that has expired is like one without expiry.
EntriesOf(d, i, keys) ==
    [j \in DOMAIN keys |-> [key |-> keys[j], type |-> SavedTypes[i], ttl_ms |-> GetTtlMs(d, keys[j]),
                            value |-> SerializedAs(d, SavedContainers[i], keys[j])]]

ForEachKey(d) == FlattenSeq([i \in 1..5 |-> EntriesOf(d, i, SetToSeq(DOMAIN d[SavedContainers[i]]))])

\* x is the worker that executes SAVE, or 0 for the background thread.
BeginSave(x) ==
    /\ savers[x].phase = "none"
    /\ saves < MaxSaves
    /\ saves' = saves + 1
    /\ savers' = [savers EXCEPT ![x] =
                    [NoSave EXCEPT !.phase = "collect",
                                   !.held = [k \in SnapStrings |-> {Holding(shards[RouteOf[k]], k),
                                                                    Holding(shards[HashOf[k]], k)}]]]
    /\ fresh' = FALSE
    /\ UNCHANGED <<shards, current_file, dump, snap_box, snap_steps, restarts, saved>>

HandleSave(w) == BeginSave(w) /\ UNCHANGED bg_save_in_progress

BackgroundSaveRdb ==
    /\ ~bg_save_in_progress
    /\ bg_save_in_progress' = TRUE
    /\ BeginSave(0)

\* While a background save is under way the command is answered and does nothing.
HandleBgSave == BackgroundSaveRdb

SaveRequested == HandleBgSave \/ \E w \in 1..SnapWorkers : HandleSave(w)

\* GetRdbData of one worker.  The code reads its keys one after the other;
\* nothing below relates what two keys held.
GetRdbData(x) ==
    /\ savers[x].phase = "collect"
    /\ savers[x].at <= SnapWorkers
    /\ savers' = [savers EXCEPT ![x].at = @ + 1, ![x].data = @ \o ForEachKey(shards[savers[x].at])]
    /\ UNCHANGED <<shards, bg_save_in_progress, current_file, dump, snapBounds, fresh, saved>>

\* A file without entries; it is damaged from the start if another save is
\* writing, by a stream that this one replaces and then shares.
NewFile(x) == [entries |-> <<>>, intact |-> \A y \in Savers \ {x} : savers[y].phase # "write"]

CollectedAll(x) == savers[x].phase = "collect" /\ savers[x].at > SnapWorkers


\* RdbWriter::Save truncates the temporary file, ...
OpenTemporary(x) ==
    /\ CollectedAll(x)
    /\ savers' = [savers EXCEPT ![x].phase = "write"]
    /\ current_file' = NewFile(x)
    /\ UNCHANGED <<shards, bg_save_in_progress, dump, snapBounds, fresh, saved>>

\* ... writes entry after entry, if there is still a stream; the time to live
\* counts from here ...
WriteNext(x) ==
    /\ savers[x].phase = "write"
    /\ savers[x].data # <<>>
    /\ savers' = [savers EXCEPT ![x].data = Tail(@)]
    /\ LET e == Head(savers[x].data)
           entry == WriteKv(KeyTypeToRdbType(e.type), e.key, e.value,
                            IF e.ttl_ms > 0 THEN Now + e.ttl_ms ELSE -1)
       IN current_file' = IF current_file = Nil THEN Nil ELSE [current_file EXCEPT !.entries = Append(@, entry)]
    /\ UNCHANGED <<shards, bg_save_in_progress, dump, snapBounds, fresh, saved>>

SaveEnds(x) ==
    /\ savers' = [savers EXCEPT ![x] = NoSave]
    /\ bg_save_in_progress' = IF x = 0 THEN FALSE ELSE bg_save_in_progress
    /\ current_file' = Nil

\* ... and renames it, whether or not every write succeeded.  Without a stream
\* its close would end the process.
RenameTemporary(x) ==
    /\ savers[x].phase = "write"
    /\ savers[x].data = <<>>
    /\ current_file # Nil
    /\ \E written \in BOOLEAN : dump' = [current_file EXCEPT !.intact = @ /\ written]
    /\ saved' = savers[x].held
    /\ SaveEnds(x)
    /\ UNCHANGED <<shards, snapBounds, fresh>>

\* The temporary file cannot be created, or not renamed.
SaveFails(x) ==
    /\ \/ CollectedAll(x)
       \/ savers[x].phase = "write" /\ savers[x].data = <<>> /\ current_file # Nil
    /\ SaveEnds(x)
    /\ UNCHANGED <<shards, dump, snapBounds, fresh, saved>>

-----------------------------------------------------------------------------
(* LoadRdb                                                                 *)

\* The time that is left is passed as a point in time.
WithTtl(d, k, ttl_ms) == IF ttl_ms > 0 THEN SetExpireMs(d, k, ttl_ms) ELSE d

\* A collection comes back with its serialised form as its only element, and a
\* hash does not come back.
LoadEntry(d, e, ttl_ms) ==
    CASE e.type = "RDB_TYPE_STRING" -> WithTtl(Set(d, e.key, e.value), e.key, ttl_ms)
      [] e.type = "RDB_TYPE_HASH" -> d
      [] e.type = "RDB_TYPE_LIST" -> WithTtl(LPush(d, e.key, e.value), e.key, ttl_ms)
      [] e.type = "RDB_TYPE_SET" -> WithTtl(SAdd(d, e.key, e.value), e.key, ttl_ms)
      [] e.type = "RDB_TYPE_ZSET" -> WithTtl(ZAdd(d, e.key, 1, e.value), e.key, ttl_ms)

\* Keys that have expired since are skipped.
LoadInto(all, e) ==
    IF e.expire_ms > 0 /\ e.expire_ms <= all[1].now THEN all
    ELSE [all EXCEPT ![HashOf[e.key]] = LoadEntry(@, e, IF e.expire_ms > 0 THEN e.expire_ms - all[1].now ELSE -1)]

\* A file that is read back as it was meant.  The length of a long string is
\* read as 0, and what follows it as further entries.
Sound(file) == file.intact /\ \A i \in DOMAIN file.entries : file.entries[i].value \notin LongValues

\* The entries Load may find in the file before it is lost.
Readable(file) ==
    IF file = Nil THEN {<<>>}
    ELSE IF Sound(file) THEN {file.entries}
    ELSE {SubSeq(file.entries, 1, n) : n \in {m \in 0..Len(file.entries) :
             \A i \in 1..m : file.entries[i].value \notin LongValues}}

\* The process stops, whatever it is doing, and starts again; no worker runs
\* before the file is loaded.
RestartServer ==
    /\ restarts < MaxRestarts
    /\ restarts' = restarts + 1
    /\ \E entries \in Readable(dump) :
          shards' = FoldLeft(LoadInto, [w \in 1..SnapWorkers |-> [EmptyDatabase EXCEPT !.now = Now]],
                             ReadEntries(entries))
    /\ savers' = [x \in Savers |-> NoSave]
    /\ bg_save_in_progress' = FALSE
    /\ current_file' = Nil
    /\ fresh' = TRUE
    /\ UNCHANGED <<dump, snap_box, snap_steps, saves, saved>>

SnapNext ==
    \/ SnapCommand
    \/ SnapTick
    \/ SaveRequested
    \/ \E x \in Savers :
          GetRdbData(x) \/ OpenTemporary(x) \/ WriteNext(x) \/ RenameTemporary(x) \/ SaveFails(x)
    \/ RestartServer

SnapSpec == SnapInit /\ [][SnapNext]_snapVars

-----------------------------------------------------------------------------
(* Properties                                                              *)


=============================================================================
