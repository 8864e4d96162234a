---------------------------- MODULE Transactions ----------------------------
(***************************************************************************)
(* MULTI/EXEC/WATCH as one worker runs them: the transaction part of       *)
(* ExecutorLoop and the close callback (server/worker.hpp), the            *)
(* TransactionStateStore (server/transaction_state.cpp), the handlers      *)
(* (commands/redis/transaction_commands.cpp), and what writes do to the    *)
(* key versions that WATCH compares (commands/database.hpp and             *)
(* storage/key_metadata.hpp).                                              *)
(*                                                                         *)
(* The executor takes the commands its IO thread enqueued in order, at     *)
(* most kMaxLocalCommandsPerLoop of them, and then runs the tasks.  A task *)
(* a closed connection left behind erases that connection's transaction    *)
(* state.  Commands that other workers forward are executed directly.      *)
(*                                                                         *)
(* Values are left out: a database is the set of keys of each container    *)
(* and their metadata, a version that is 0 when there is none.             *)
(***************************************************************************)
EXTENDS Naturals, Sequences

CONSTANTS
  Conn,          \* the connections of this worker
  Key,           \* the keys
  Local,         \* the keys RouteToWorker maps to this worker
  Sends,         \* a bound: Sends[c], the names of the commands c sends
  Forwards,      \* a bound: the names of the commands other workers forward
  MaxFrames,     \* a bound: MaxFrames[c] commands are sent by c
  MaxQueue,      \* a bound: commands waiting in cmd_queue_
  MaxForwarded,  \* a bound: commands other workers forward
  MaxPerLoop,    \* kMaxLocalCommandsPerLoop
  NoKey          \* the key of a command that has none

DataNames == {"SET", "HSET", "DEL", "EXISTS", "EXPIRE"}

ControlNames == {"MULTI", "EXEC", "DISCARD", "UNWATCH", "WATCH"}

ASSUME TransactionsAssumption ==
  /\ Local \subseteq Key /\ NoKey \notin Key
  /\ Sends \in [Conn -> SUBSET (DataNames \cup ControlNames)]
  /\ Forwards \subseteq DataNames
  /\ MaxFrames \in [Conn -> Nat] /\ MaxQueue \in Nat /\ MaxForwarded \in Nat
  /\ MaxPerLoop \in Nat \ {0}

Command == [name : DataNames, key : Key]

\* A frame as enqueued by the connection.  "intended" is a history of the client:
\* it sent the command between a MULTI and its EXEC or DISCARD.
Frame ==
  [conn : Conn, name : DataNames \cup {"WATCH"}, key : Key, intended : BOOLEAN]
    \cup [conn : Conn, name : {"MULTI", "EXEC", "DISCARD", "UNWATCH"}, key : {NoKey},
          intended : BOOLEAN]

VARIABLES
  open,           \* the connections that are open
  sent,           \* sent[c]: frames sent by c
  inmulti,        \* inmulti[c]: c has sent MULTI and neither EXEC nor DISCARD since
  cmdq,           \* cmd_queue_, the lane of the IO thread
  tasks,          \* task_queue_: connections whose state is to be cleared
  pc,             \* the executor takes commands, runs an EXEC, runs tasks
  taken,          \* local_cmd_count
  todo,           \* the commands an EXEC has left to execute
  forwarded,      \* commands forwarded to this worker so far
  in_transaction, queued_commands, watched_keys, watched_key_versions,
  strings,        \* the keys of strings_
  hashes,         \* the keys of hashes_
  version,        \* version[k]: KeyMetadata::version, 0 without metadata
  expiry,         \* expiry[k]: no TTL, one that is due later, one that has passed
  events          \* history: events[c][k], what happened to k since c watched it

client == <<open, sent, inmulti>>
loop == <<cmdq, tasks, pc, taken, todo, forwarded>>
states == <<in_transaction, queued_commands, watched_keys, watched_key_versions>>
db == <<strings, hashes, version, expiry>>
vars == <<client, loop, states, db, events>>

Init ==
  /\ open = Conn
  /\ sent = [c \in Conn |-> 0]
  /\ inmulti = [c \in Conn |-> FALSE]
  /\ cmdq = <<>> /\ tasks = <<>>
  /\ pc = "commands" /\ taken = 0 /\ todo = <<>> /\ forwarded = 0
  /\ in_transaction = [c \in Conn |-> FALSE]
  /\ queued_commands = [c \in Conn |-> <<>>]
  /\ watched_keys = [c \in Conn |-> {}]
  /\ watched_key_versions = [c \in Conn |-> [k \in Key |-> 0]]
  /\ strings = {} /\ hashes = {}
  /\ version = [k \in Key |-> 0]
  /\ expiry = [k \in Key |-> "none"]
  /\ events = [c \in Conn |-> [k \in Key |-> {}]]

-----------------------------------------------------------------------------
(* The database commands, on versions and containers. *)

\* Record an event of k with every connection that watches it.
Note(k, e) ==
  events' = [c \in Conn |->
               IF k \in watched_keys[c] THEN [events[c] EXCEPT ![k] = @ \cup {e}]
                                        ELSE events[c]]

\* RegisterKey: fresh metadata, the version one above the old one.
RegisterKey(k) ==
  /\ version' = [version EXCEPT ![k] = @ + 1]
  /\ expiry' = [expiry EXCEPT ![k] = "none"]

\* UnregisterKey.
UnregisterKey(k) ==
  /\ version' = [version EXCEPT ![k] = 0]
  /\ expiry' = [expiry EXCEPT ![k] = "none"]

\* Mutation of IncrementKeyVersion: an overwrite does not count.
KeepKeyVersion(k) == UNCHANGED <<version, expiry>>

\* IncrementKeyVersion: nothing when the key has no metadata.
IncrementKeyVersion(k) ==
  /\ version' = [version EXCEPT ![k] = IF @ > 0 THEN @ + 1 ELSE @]
  /\ UNCHANGED expiry

Set(k) ==
  /\ strings' = strings \cup {k}
  /\ IF k \in strings THEN IncrementKeyVersion(k) ELSE RegisterKey(k)
  /\ Note(k, "set")
  /\ UNCHANGED hashes

\* A hash that exists is updated in place.
HSet(k) ==
  /\ hashes' = hashes \cup {k}
  /\ IF k \in hashes THEN UNCHANGED <<version, expiry>> ELSE RegisterKey(k)
  /\ Note(k, "hset")
  /\ UNCHANGED strings

\* Del removes from the first container that has the key, and always unregisters.
Del(k) ==
  /\ strings' = strings \ {k}
  /\ hashes' = IF k \in strings THEN hashes ELSE hashes \ {k}
  /\ UnregisterKey(k)
  /\ Note(k, "lost")

\* GetKeyType: metadata that has expired is removed, the value stays.
Exists(k) ==
  /\ IF expiry[k] = "past" THEN UnregisterKey(k) /\ Note(k, "lost")
                           ELSE UNCHANGED <<version, expiry, events>>
  /\ UNCHANGED <<strings, hashes>>

\* SetExpireMs: nothing when the key has no metadata.
Expire(k) ==
  /\ expiry' = [expiry EXCEPT ![k] = IF version[k] > 0 THEN "later" ELSE @]
  /\ UNCHANGED <<strings, hashes, version, events>>

Execute(cmd) ==
  \/ cmd.name = "SET" /\ Set(cmd.key)
  \/ cmd.name = "HSET" /\ HSet(cmd.key)
  \/ cmd.name = "DEL" /\ Del(cmd.key)
  \/ cmd.name = "EXISTS" /\ Exists(cmd.key)
  \/ cmd.name = "EXPIRE" /\ Expire(cmd.key)

-----------------------------------------------------------------------------
(* The connections. *)

Enqueue(c, name, key) ==
  /\ c \in open /\ name \in Sends[c] /\ sent[c] < MaxFrames[c] /\ Len(cmdq) < MaxQueue
  /\ sent' = [sent EXCEPT ![c] = @ + 1]
  /\ cmdq' = Append(cmdq, [conn |-> c, name |-> name, key |-> key,
                           intended |-> inmulti[c]])
  /\ UNCHANGED <<open, tasks, pc, taken, todo, forwarded, states, db, events>>

SendMulti(c) ==
  /\ Enqueue(c, "MULTI", NoKey)
  /\ inmulti' = [inmulti EXCEPT ![c] = TRUE]

SendEnd(c, name) ==
  /\ Enqueue(c, name, NoKey)
  /\ inmulti' = [inmulti EXCEPT ![c] = FALSE]

SendWatch(c, k) == Enqueue(c, "WATCH", k) /\ UNCHANGED inmulti

SendUnwatch(c) == Enqueue(c, "UNWATCH", NoKey) /\ UNCHANGED inmulti

SendData(c, name, k) == Enqueue(c, name, k) /\ UNCHANGED inmulti

\* The close callback: the task overtakes commands that are still in cmd_queue_.
Close(c) ==
  /\ c \in open
  /\ open' = open \ {c}
  /\ tasks' = Append(tasks, c)
  /\ UNCHANGED <<sent, inmulti, cmdq, pc, taken, todo, forwarded, states, db, events>>

-----------------------------------------------------------------------------
(* The transaction state of a connection. *)

\* Mutation of EraseState: the queue is left.
EraseKeepingQueue(c) ==
  /\ in_transaction' = [in_transaction EXCEPT ![c] = FALSE]
  /\ watched_keys' = [watched_keys EXCEPT ![c] = {}]
  /\ watched_key_versions' = [watched_key_versions EXCEPT ![c] = [k \in Key |-> 0]]
  /\ events' = [events EXCEPT ![c] = [k \in Key |-> {}]]
  /\ UNCHANGED queued_commands

\* DiscardTransaction and ClearConnectionState: states_.erase.
EraseState(c) ==
  /\ in_transaction' = [in_transaction EXCEPT ![c] = FALSE]
  /\ queued_commands' = [queued_commands EXCEPT ![c] = <<>>]
  /\ watched_keys' = [watched_keys EXCEPT ![c] = {}]
  /\ watched_key_versions' = [watched_key_versions EXCEPT ![c] = [k \in Key |-> 0]]
  /\ events' = [events EXCEPT ![c] = [k \in Key |-> {}]]

IsWatchedKeyModified(c) ==
  \E k \in watched_keys[c] : version[k] # watched_key_versions[c][k]

-----------------------------------------------------------------------------
(* The executor: one command of a client.  Every action below takes the head of the *)
(* queue.                                                                           *)

IsData(f) == f.name \in DataNames

IsLocal(f) == f.key \in Local

Take(f) ==
  /\ pc = "commands" /\ taken < MaxPerLoop
  /\ cmdq' = Tail(cmdq)
  /\ taken' = taken + 1
  /\ UNCHANGED <<client, tasks, forwarded>>

\* Mutation of QueueCommand: the key is not checked.
QueueAny(f) ==
  /\ Take(f) /\ IsData(f) /\ in_transaction[f.conn]
  /\ queued_commands' =
       [queued_commands EXCEPT ![f.conn] = Append(@, [name |-> f.name, key |-> f.key])]
  /\ UNCHANGED <<pc, todo, in_transaction, watched_keys, watched_key_versions, db, events>>

\* Inside MULTI a command on a local key is queued ...
QueueCommand(f) ==
  /\ Take(f) /\ IsData(f) /\ in_transaction[f.conn] /\ IsLocal(f)
  /\ queued_commands' =
       [queued_commands EXCEPT ![f.conn] = Append(@, [name |-> f.name, key |-> f.key])]
  /\ UNCHANGED <<pc, todo, in_transaction, watched_keys, watched_key_versions, db, events>>

\* ... one on another worker's key is an error, and the transaction goes on.  WATCH of
\* such a key, WATCH and MULTI inside MULTI, EXEC and DISCARD outside are errors too.
Reject(f) ==
  /\ Take(f)
  /\ \/ IsData(f) /\ in_transaction[f.conn] /\ ~IsLocal(f)
     \/ f.name = "WATCH" /\ (~IsLocal(f) \/ in_transaction[f.conn])
     \/ f.name = "MULTI" /\ in_transaction[f.conn]
     \/ f.name \in {"EXEC", "DISCARD"} /\ ~in_transaction[f.conn]
  /\ UNCHANGED <<pc, todo, states, db, events>>

HandleMulti(f) ==
  /\ Take(f) /\ f.name = "MULTI" /\ ~in_transaction[f.conn]
  /\ in_transaction' = [in_transaction EXCEPT ![f.conn] = TRUE]
  /\ queued_commands' = [queued_commands EXCEPT ![f.conn] = <<>>]
  /\ UNCHANGED <<pc, todo, watched_keys, watched_key_versions, db, events>>

\* The history of a key starts anew with its WATCH, except that a string whose
\* metadata is already gone has no version to count with.
HandleWatch(f) ==
  /\ Take(f) /\ f.name = "WATCH" /\ IsLocal(f) /\ ~in_transaction[f.conn]
  /\ watched_keys' = [watched_keys EXCEPT ![f.conn] = @ \cup {f.key}]
  /\ watched_key_versions' = [watched_key_versions EXCEPT ![f.conn][f.key] = version[f.key]]
  /\ events' = [events EXCEPT ![f.conn][f.key] =
                  IF f.key \in strings /\ version[f.key] = 0 THEN {"lost"} ELSE {}]
  /\ UNCHANGED <<pc, todo, in_transaction, queued_commands, db>>

\* Not refused inside MULTI.
HandleUnwatch(f) ==
  /\ Take(f) /\ f.name = "UNWATCH"
  /\ watched_keys' = [watched_keys EXCEPT ![f.conn] = {}]
  /\ watched_key_versions' = [watched_key_versions EXCEPT ![f.conn] = [k \in Key |-> 0]]
  /\ events' = [events EXCEPT ![f.conn] = [k \in Key |-> {}]]
  /\ UNCHANGED <<pc, todo, in_transaction, queued_commands, db>>

HandleDiscard(f) ==
  /\ Take(f) /\ f.name = "DISCARD" /\ in_transaction[f.conn]
  /\ EraseState(f.conn)
  /\ UNCHANGED <<pc, todo, db>>

\* EXEC after a watched key changed: nothing is executed.
AbortExec(f) ==
  /\ Take(f) /\ f.name = "EXEC" /\ in_transaction[f.conn]
  /\ IsWatchedKeyModified(f.conn)
  /\ EraseState(f.conn)
  /\ UNCHANGED <<pc, todo, db>>

\* EXEC: the state is discarded first, the copy of the queue is then executed.
BeginExec(f) ==
  /\ Take(f) /\ f.name = "EXEC" /\ in_transaction[f.conn]
  /\ ~IsWatchedKeyModified(f.conn)
  /\ todo' = queued_commands[f.conn]
  /\ pc' = "exec"
  /\ EraseState(f.conn)
  /\ UNCHANGED db

ExecQueued ==
  /\ pc = "exec" /\ todo # <<>>
  /\ Execute(Head(todo))
  /\ todo' = Tail(todo)
  /\ UNCHANGED <<client, cmdq, tasks, pc, taken, forwarded, states>>

EndExec ==
  /\ pc = "exec" /\ todo = <<>>
  /\ pc' = "commands"
  /\ UNCHANGED <<client, cmdq, tasks, taken, todo, forwarded, states, db, events>>

ExecuteLocal(f) ==
  /\ Take(f) /\ IsData(f) /\ ~in_transaction[f.conn] /\ IsLocal(f)
  /\ Execute(f)
  /\ UNCHANGED <<pc, todo, states>>

\* The command goes to the worker that has the key.
ForwardCommand(f) ==
  /\ Take(f) /\ IsData(f) /\ ~in_transaction[f.conn] /\ ~IsLocal(f)
  /\ UNCHANGED <<pc, todo, states, db, events>>

\* A command another worker forwarded here.
ExecuteForwarded(cmd) ==
  /\ pc = "commands" /\ taken < MaxPerLoop /\ forwarded < MaxForwarded
  /\ cmd.key \in Local
  /\ Execute(cmd)
  /\ taken' = taken + 1
  /\ forwarded' = forwarded + 1
  /\ UNCHANGED <<client, cmdq, tasks, pc, todo, states>>

EndCommands ==
  /\ pc = "commands"
  /\ cmdq = <<>> \/ taken = MaxPerLoop
  /\ pc' = "tasks"
  /\ UNCHANGED <<client, cmdq, tasks, taken, todo, forwarded, states, db, events>>

\* Mutation of RunTask: the state of any connection is erased.
RunTaskForAnother(c) ==
  /\ pc = "tasks" /\ tasks # <<>>
  /\ tasks' = Tail(tasks)
  /\ EraseState(c)
  /\ UNCHANGED <<client, cmdq, pc, taken, todo, forwarded, db>>

\* ClearConnectionState of a closed connection.
RunTask(c) ==
  /\ pc = "tasks" /\ tasks # <<>> /\ c = Head(tasks)
  /\ tasks' = Tail(tasks)
  /\ EraseState(c)
  /\ UNCHANGED <<client, cmdq, pc, taken, todo, forwarded, db>>

EndTasks ==
  /\ pc = "tasks" /\ tasks = <<>>
  /\ pc' = "commands"
  /\ taken' = 0
  /\ UNCHANGED <<client, cmdq, tasks, todo, forwarded, states, db, events>>

\* The clock: a TTL passes.
TimePasses(k) ==
  /\ expiry[k] = "later"
  /\ expiry' = [expiry EXCEPT ![k] = "past"]
  /\ UNCHANGED <<client, loop, states, strings, hashes, version, events>>

-----------------------------------------------------------------------------
Client(c) ==
  \/ SendMulti(c) \/ SendUnwatch(c) \/ Close(c)
  \/ \E name \in {"EXEC", "DISCARD"} : SendEnd(c, name)
  \/ \E k \in Key : SendWatch(c, k)
  \/ \E name \in DataNames, k \in Key : SendData(c, name, k)

TakeCommand(f) ==
  \/ QueueCommand(f) \/ Reject(f) \/ HandleMulti(f) \/ HandleWatch(f)
  \/ HandleUnwatch(f) \/ HandleDiscard(f) \/ AbortExec(f) \/ BeginExec(f)
  \/ ExecuteLocal(f) \/ ForwardCommand(f)

Next ==
  \/ \E c \in Conn : Client(c) \/ RunTask(c)
  \/ cmdq # <<>> /\ TakeCommand(Head(cmdq))
  \/ \E name \in Forwards, k \in Key : ExecuteForwarded([name |-> name, key |-> k])
  \/ ExecQueued \/ EndExec \/ EndCommands \/ EndTasks
  \/ \E k \in Key : TimePasses(k)

Spec == Init /\ [][Next]_vars

-----------------------------------------------------------------------------
(* Properties. *)

ClientOK ==
  /\ open \subseteq Conn
  /\ sent \in [Conn -> Nat]
  /\ inmulti \in [Conn -> BOOLEAN]

LocalCommand == [name : DataNames, key : Local]

LoopOK ==
  /\ cmdq \in Seq(Frame) /\ tasks \in Seq(Conn)
  /\ pc \in {"commands", "exec", "tasks"}
  /\ taken \in 0..MaxPerLoop /\ forwarded \in 0..MaxForwarded
  /\ todo \in Seq(LocalCommand)

StatesOK ==
  /\ in_transaction \in [Conn -> BOOLEAN]
  /\ queued_commands \in [Conn -> Seq(LocalCommand)]
  /\ watched_keys \in [Conn -> SUBSET Local]
  /\ watched_key_versions \in [Conn -> [Key -> Nat]]

DbOK ==
  /\ strings \subseteq Key /\ hashes \subseteq Key
  /\ version \in [Key -> Nat]
  /\ expiry \in [Key -> {"none", "later", "past"}]

EventsOK == events \in [Conn -> [Key -> SUBSET {"set", "hset", "lost"}]]

\* Every variable has the type of the member it models.  In particular every command a
\* transaction has queued, or an EXEC still has to execute, is on a key of this worker:
\* the check at queueing time makes the one in the EXEC loop redundant.
TypeOK == ClientOK /\ LoopOK /\ StatesOK /\ DbOK /\ EventsOK

\* A SET of a watched key makes the EXEC abort: as long as the key has kept its
\* metadata since the WATCH, its version has moved on ("Preserve Redis WATCH
\* semantics: every successful write bumps version", Database::Set).
SetIsNoticed ==
  \A c \in Conn : \A k \in watched_keys[c] :
    "set" \in events[c][k] /\ "lost" \notin events[c][k]
      => version[k] # watched_key_versions[c][k]

\* What KeyMetadataManager says of versions ("called on every write"): any write, a
\* hash's as well, makes the EXEC of a connection that watches the key abort.
WriteIsNoticed ==
  \A c \in Conn : \A k \in watched_keys[c] :
    events[c][k] \cap {"set", "hset"} # {} /\ "lost" \notin events[c][k]
      => version[k] # watched_key_versions[c][k]

\* A data command that is taken next and was sent inside MULTI will be queued.
NextIsQueued(f) ==
  pc = "commands" /\ IsData(f) /\ f.intended => in_transaction[f.conn]

\* While a connection is open, what it sends between MULTI and EXEC or DISCARD meets
\* its transaction: neither other connections' commands nor the tasks of closed
\* connections take it away.
OpenTransactionKept ==
  cmdq # <<>> /\ Head(cmdq).conn \in open => NextIsQueued(Head(cmdq))

\* The same for every connection ("Verify key was not set" after MULTI, SET, DISCARD).
TransactionKept == cmdq # <<>> => NextIsQueued(Head(cmdq))

\* Nothing queued survives EXEC, DISCARD or the close of the connection, to be
\* executed by a later transaction: outside MULTI the queue is empty.
NothingQueuedOutside == \A c \in Conn : queued_commands[c] # <<>> => in_transaction[c]
=============================================================================
