---------------------------- MODULE KeyCommands ----------------------------
(***************************************************************************)
(* The commands on keys of any type: commands/redis/ttl_commands.cpp and   *)
(* the keyspace part of commands/redis/admin_commands.cpp.                 *)
(***************************************************************************)
EXTENDS StringCommands

-----------------------------------------------------------------------------
(* Expiry.  None of these commands is logged.                              *)

\* A deadline that is not in the future deletes the key at once.
DeleteNow(d, k) == IF IsValid(d, k) THEN Result(Del(d, k), 1) ELSE Result(Touch(d, k), 0)

ExpireMs(d, k, ms) == Result(SetExpireMs(d, k, ms), IF MapContains(d.meta, k) THEN 1 ELSE 0)

HandleExpire(d, k, seconds) ==
    IF seconds <= 0 THEN DeleteNow(d, k) ELSE ExpireMs(d, k, d.now + seconds * MsPerSec)

\* The current time is rounded down to the second before the comparison.
HandleExpireAt(d, k, timestamp) ==
    IF timestamp <= d.now \div MsPerSec THEN DeleteNow(d, k)
    ELSE ExpireMs(d, k, timestamp * MsPerSec)

HandlePExpire(d, k, ms) == IF ms <= 0 THEN DeleteNow(d, k) ELSE ExpireMs(d, k, d.now + ms)

HandlePExpireAt(d, k, timestamp) ==
    IF timestamp <= d.now THEN DeleteNow(d, k) ELSE ExpireMs(d, k, timestamp)

HandleTTL(d, k) == Result(d, GetTtlSeconds(d, k))

HandlePTTL(d, k) == Result(d, GetTtlMs(d, k))

\* 1 whenever the key has metadata, whether or not there was an expiry.
HandlePersist(d, k) == Result(Persist(d, k), IF MapContains(d.meta, k) THEN 1 ELSE 0)

\* -2 also for a key that has no expiry.
HandlePExpireTime(d, k) ==
    Result(d, IF GetExpireTimeMs(d, k) = Nil THEN -2 ELSE GetExpireTimeMs(d, k))

HandleExpireTime(d, k) ==
    Result(d, IF GetExpireTimeMs(d, k) = Nil THEN -2 ELSE GetExpireTimeMs(d, k) \div MsPerSec)

-----------------------------------------------------------------------------
(* The keyspace                                                            *)

HandleType(d, k) ==
    LET t == GetKeyType(d, k)
    IN Result(Touch(d, k), IF t \in {"string", "hash", "set", "zset", "list"} THEN t ELSE "none")

\* The keys whose metadata is there, expired or not; matching is left out.
HandleKeys(d) == Result(d, GetAllKeys(d))

HandleRandomKey(d, k) == Result(d, IF GetAllKeys(d) = {} THEN Nil ELSE k)

HandleDbSize(d) == Result(d, Cardinality(DOMAIN d.meta))

\* The value moves, the expiry does not; the old key is deleted last.
HandleRename(d, k, newkey) ==
    IF GetReply(d, k) = Nil THEN Result(d, Error)
    ELSE IF ~IsValid(d, k) THEN Result(Touch(d, k), Error)
    ELSE Result(Del(Set(d, newkey, GetReply(d, k)), k), "OK")

\* Unlike RENAME it does not ask the metadata.
HandleRenameNx(d, k, newkey) ==
    IF GetReply(d, k) = Nil THEN Result(d, Error)
    ELSE IF GetReply(d, newkey) # Nil THEN Result(d, 0)
    ELSE Result(Del(Set(d, newkey, GetReply(d, k)), k), 1)

\* MOVE is a stub, and there is one database to move to.
HandleMove(d, k) == Result(d, 0)

HandleObject(d, subcommand, k) ==
    LET t == GetKeyType(d, k)
        encoding == IF t = "string"
                    THEN IF GetReply(d, k) # Nil /\ Len(GetReply(d, k)) <= 44 THEN "int" ELSE "raw"
                    ELSE IF t \in {"hash", "set"} THEN "hashtable"
                    ELSE IF t = "list" THEN "linkedlist"
                    ELSE IF t = "zset" THEN "b+tree" ELSE "raw"
    IN Result(Touch(d, k),
              IF t = Nil THEN Nil
              ELSE IF subcommand = "ENCODING" THEN encoding
              ELSE IF subcommand = "REFCOUNT" THEN 1 ELSE 0)

\* Counts the strings among the keys; no access time is updated.
HandleTouch(d, keys) == Result(d, Cardinality({i \in DOMAIN keys : GetReply(d, keys[i]) # Nil}))

HandleFlushDb(d) == Result(Clear(d), "OK")

\* One database to a worker.
HandleFlushAll(d) == HandleFlushDb(d)

=============================================================================
