------------------------- MODULE TransactionsProofs -------------------------
(***************************************************************************)
(* Proofs about Transactions, for any number of connections, keys and      *)
(* commands: its types, that a SET of a watched key is noticed, that no    *)
(* command stays queued outside a transaction, and that a client that has  *)
(* sent MULTI finds its transaction open.                                  *)
(***************************************************************************)
EXTENDS Transactions, TLAPS

\* What the fields of a frame are.
LEMMA FrameFields ==
  ASSUME NEW f \in Frame
  PROVE  /\ f.conn \in Conn
         /\ IsData(f) => f.key \in Key
         /\ f.name = "WATCH" => f.key \in Key
         /\ f.intended \in BOOLEAN
BY DEF Frame, IsData, DataNames

\* The head of the queue is a frame and the rest a queue.
LEMMA TakeType ==
  ASSUME LoopOK, cmdq # <<>>, Take(Head(cmdq))
  PROVE  /\ Head(cmdq) \in Frame
         /\ cmdq' \in Seq(Frame) /\ tasks' \in Seq(Conn)
         /\ taken' \in 0..MaxPerLoop /\ forwarded' \in 0..MaxForwarded
<1>1. Head(cmdq) \in Frame /\ Tail(cmdq) \in Seq(Frame)
  BY DEF LoopOK
<1>2. taken + 1 \in 0..MaxPerLoop
  BY TransactionsAssumption DEF LoopOK, Take
<1> QED BY <1>1, <1>2 DEF Take, LoopOK

\* Note adds one event to the histories of a key.
LEMMA NoteType ==
  ASSUME EventsOK, NEW k \in Key, NEW e \in {"set", "hset", "lost"}, Note(k, e)
  PROVE  EventsOK'
<1> SUFFICES ASSUME NEW c \in Conn
             PROVE  events'[c] \in [Key -> SUBSET {"set", "hset", "lost"}]
  BY DEF EventsOK, Note
<1>1. events[c] \in [Key -> SUBSET {"set", "hset", "lost"}]
  BY DEF EventsOK
<1>2. [events[c] EXCEPT ![k] = @ \cup {e}] \in [Key -> SUBSET {"set", "hset", "lost"}]
  BY <1>1
<1> QED BY <1>1, <1>2 DEF Note

\* A database command keeps the types of the database and of the histories.
LEMMA ExecuteType ==
  ASSUME DbOK, EventsOK, NEW cmd, cmd.key \in Key, Execute(cmd)
  PROVE  DbOK' /\ EventsOK'
<1> DEFINE k == cmd.key
<1>1. CASE Set(k)
  <2>1. EventsOK'
    BY <1>1, NoteType DEF Set
  <2>2. DbOK'
    BY <1>1 DEF Set, RegisterKey, IncrementKeyVersion, DbOK
  <2> QED BY <2>1, <2>2
<1>2. CASE HSet(k)
  <2>1. EventsOK'
    BY <1>2, NoteType DEF HSet
  <2>2. DbOK'
    BY <1>2 DEF HSet, RegisterKey, DbOK
  <2> QED BY <2>1, <2>2
<1>3. CASE Del(k)
  <2>1. EventsOK'
    BY <1>3, NoteType DEF Del
  <2>2. DbOK'
    BY <1>3 DEF Del, UnregisterKey, DbOK
  <2> QED BY <2>1, <2>2
<1>4. CASE Exists(k)
  <2>1. EventsOK'
    BY <1>4, NoteType DEF Exists, EventsOK
  <2>2. DbOK'
    BY <1>4 DEF Exists, UnregisterKey, DbOK
  <2> QED BY <2>1, <2>2
<1>5. CASE Expire(k)
  BY <1>5 DEF Expire, DbOK, EventsOK
<1> QED BY <1>1, <1>2, <1>3, <1>4, <1>5 DEF Execute

\* Erasing a connection's state keeps the types.
LEMMA EraseType ==
  ASSUME StatesOK, EventsOK, NEW c \in Conn, EraseState(c)
  PROVE  StatesOK' /\ EventsOK'
<1>1. [k \in Key |-> 0] \in [Key -> Nat]
  OBVIOUS
<1>2. [k \in Key |-> {}] \in [Key -> SUBSET {"set", "hset", "lost"}]
  OBVIOUS
<1>3. <<>> \in Seq(LocalCommand)
  OBVIOUS
<1>4. EventsOK'
  BY <1>2 DEF EraseState, EventsOK
<1>5. in_transaction' \in [Conn -> BOOLEAN] /\ watched_keys' \in [Conn -> SUBSET Local]
  BY DEF EraseState, StatesOK
<1>6. queued_commands' \in [Conn -> Seq(LocalCommand)]
  BY <1>3 DEF EraseState, StatesOK
<1>7. watched_key_versions' \in [Conn -> [Key -> Nat]]
  BY <1>1 DEF EraseState, StatesOK
<1> QED BY <1>4, <1>5, <1>6, <1>7 DEF StatesOK

\* The client actions keep the types.
LEMMA ClientType ==
  ASSUME TypeOK, NEW c \in Conn, Client(c)
  PROVE  TypeOK'
<1>1. ASSUME NEW name \in DataNames \cup ControlNames, NEW k \in Key \cup {NoKey},
             Enqueue(c, name, k),
             \/ name \in DataNames \cup {"WATCH"} /\ k \in Key
             \/ name \in {"MULTI", "EXEC", "DISCARD", "UNWATCH"} /\ k = NoKey,
             inmulti' \in [Conn -> BOOLEAN]
      PROVE  TypeOK'
  <2> DEFINE f == [conn |-> c, name |-> name, key |-> k, intended |-> inmulti[c]]
  <2>1. f \in Frame
    BY <1>1 DEF TypeOK, ClientOK, Frame
  <2>2. cmdq' \in Seq(Frame)
    <3> HIDE DEF f
    <3>1. cmdq' = Append(cmdq, f)
      BY <1>1 DEF Enqueue, f
    <3> QED BY <2>1, <3>1 DEF TypeOK, LoopOK
  <2>3. LoopOK'
    BY <1>1, <2>2 DEF Enqueue, TypeOK, LoopOK
  <2>4. ClientOK'
    BY <1>1 DEF Enqueue, TypeOK, ClientOK
  <2>5. StatesOK' /\ DbOK' /\ EventsOK'
    BY <1>1 DEF Enqueue, states, db, TypeOK, StatesOK, DbOK, EventsOK
  <2> QED BY <2>3, <2>4, <2>5 DEF TypeOK
<1>2. CASE SendMulti(c)
  <2>1. inmulti' \in [Conn -> BOOLEAN]
    BY <1>2 DEF SendMulti, TypeOK, ClientOK
  <2> QED BY <1>1, <1>2, <2>1 DEF SendMulti, ControlNames
<1>3. ASSUME NEW name \in {"EXEC", "DISCARD"}, SendEnd(c, name)
      PROVE  TypeOK'
  <2>1. inmulti' \in [Conn -> BOOLEAN]
    BY <1>3 DEF SendEnd, TypeOK, ClientOK
  <2> QED BY <1>1, <1>3, <2>1 DEF SendEnd, ControlNames
<1>4. CASE SendUnwatch(c)
  <2>1. inmulti' \in [Conn -> BOOLEAN]
    BY <1>4 DEF SendUnwatch, TypeOK, ClientOK
  <2> QED BY <1>1, <1>4, <2>1 DEF SendUnwatch, ControlNames
<1>5. ASSUME NEW k \in Key, SendWatch(c, k)
      PROVE  TypeOK'
  <2>1. inmulti' \in [Conn -> BOOLEAN]
    BY <1>5 DEF SendWatch, TypeOK, ClientOK
  <2> QED BY <1>1, <1>5, <2>1 DEF SendWatch, ControlNames
<1>6. ASSUME NEW name \in DataNames, NEW k \in Key, SendData(c, name, k)
      PROVE  TypeOK'
  <2>1. inmulti' \in [Conn -> BOOLEAN]
    BY <1>6 DEF SendData, TypeOK, ClientOK
  <2> QED BY <1>1, <1>6, <2>1 DEF SendData
<1>7. CASE Close(c)
  <2>1. ClientOK' /\ StatesOK' /\ DbOK' /\ EventsOK'
    BY <1>7 DEF Close, states, db, TypeOK, ClientOK, StatesOK, DbOK, EventsOK
  <2>2. tasks' \in Seq(Conn)
    BY <1>7 DEF Close, TypeOK, LoopOK
  <2>3. LoopOK'
    BY <1>7, <2>2 DEF Close, TypeOK, LoopOK
  <2> QED BY <2>1, <2>3 DEF TypeOK
<1> QED BY <1>2, <1>3, <1>4, <1>5, <1>6, <1>7 DEF Client

\* Taking a command keeps the types.
LEMMA TakeCommandType ==
  ASSUME TypeOK, cmdq # <<>>, TakeCommand(Head(cmdq))
  PROVE  TypeOK'
<1> DEFINE f == Head(cmdq)
<1>1. Take(f)
  BY Zenon DEF TakeCommand, QueueCommand, Reject, HandleMulti, HandleWatch, HandleUnwatch,
         HandleDiscard, AbortExec, BeginExec, ExecuteLocal, ForwardCommand
<1>2. f \in Frame /\ cmdq' \in Seq(Frame) /\ tasks' \in Seq(Conn)
      /\ taken' \in 0..MaxPerLoop /\ forwarded' \in 0..MaxForwarded
  BY <1>1, TakeType DEF TypeOK
<1>3. f.conn \in Conn /\ (IsData(f) => f.key \in Key) /\ (f.name = "WATCH" => f.key \in Key)
  BY <1>2, FrameFields
<1>4. ClientOK'
  BY <1>1 DEF Take, client, TypeOK, ClientOK
<1>5. ASSUME UNCHANGED <<pc, todo>>
      PROVE  LoopOK'
  BY <1>2, <1>5 DEF TypeOK, LoopOK
<1>6. ASSUME UNCHANGED db PROVE DbOK'
  BY <1>6 DEF TypeOK, DbOK, db
<1>7. ASSUME UNCHANGED events PROVE EventsOK'
  BY <1>7 DEF TypeOK, EventsOK
<1>8. ASSUME UNCHANGED states PROVE StatesOK'
  BY <1>8 DEF TypeOK, StatesOK, states
<1> HIDE DEF f
<1>9. CASE QueueCommand(f)
  <2> DEFINE q == [name |-> f.name, key |-> f.key]
  <2>1. q \in LocalCommand
    BY <1>9 DEF QueueCommand, IsData, IsLocal, LocalCommand
  <2> HIDE DEF q
  <2>2. queued_commands[f.conn] \in Seq(LocalCommand)
    BY <1>3 DEF TypeOK, StatesOK
  <2>3. Append(queued_commands[f.conn], q) \in Seq(LocalCommand)
    BY <2>1, <2>2
  <2>4. queued_commands' \in [Conn -> Seq(LocalCommand)]
    BY <1>9, <2>3, Zenon DEF QueueCommand, TypeOK, StatesOK, q
  <2>5. StatesOK'
    BY <1>9, <2>4 DEF QueueCommand, TypeOK, StatesOK
  <2>6. UNCHANGED <<pc, todo>> /\ UNCHANGED db /\ UNCHANGED events
    BY <1>9 DEF QueueCommand
  <2> QED BY <1>4, <1>5, <1>6, <1>7, <2>5, <2>6 DEF TypeOK
<1>10. CASE Reject(f) \/ ForwardCommand(f)
  <2>1. UNCHANGED <<pc, todo>> /\ UNCHANGED db /\ UNCHANGED events /\ UNCHANGED states
    BY <1>10 DEF Reject, ForwardCommand
  <2> QED BY <1>4, <1>5, <1>6, <1>7, <1>8, <2>1 DEF TypeOK
<1>11. CASE HandleMulti(f)
  <2>1. queued_commands' \in [Conn -> Seq(LocalCommand)]
    <3>1. <<>> \in Seq(LocalCommand)
      OBVIOUS
    <3> QED BY <1>11, <3>1, Zenon DEF HandleMulti, TypeOK, StatesOK
  <2>2. StatesOK'
    BY <1>11, <2>1 DEF HandleMulti, TypeOK, StatesOK
  <2>3. UNCHANGED <<pc, todo>> /\ UNCHANGED db /\ UNCHANGED events
    BY <1>11 DEF HandleMulti
  <2> QED BY <1>4, <1>5, <1>6, <1>7, <2>2, <2>3 DEF TypeOK
<1>12. CASE HandleWatch(f)
  <2>1. f.key \in Key /\ f.key \in Local
    BY <1>3, <1>12 DEF HandleWatch, IsLocal
  <2>2. watched_keys' \in [Conn -> SUBSET Local]
    BY <1>12, <2>1, Zenon DEF HandleWatch, TypeOK, StatesOK
  <2>3. watched_key_versions' \in [Conn -> [Key -> Nat]]
    <3>1. version[f.key] \in Nat
      BY <2>1 DEF TypeOK, DbOK
    <3>2. watched_key_versions[f.conn] \in [Key -> Nat]
      BY <1>3 DEF TypeOK, StatesOK
    <3>3. [watched_key_versions[f.conn] EXCEPT ![f.key] = version[f.key]] \in [Key -> Nat]
      BY <3>1, <3>2, Zenon
    <3> QED BY <1>12, <3>3, Zenon DEF HandleWatch, TypeOK, StatesOK
  <2>4. EventsOK'
    <3> DEFINE e == IF f.key \in strings /\ version[f.key] = 0 THEN {"lost"} ELSE {}
    <3>1. e \in SUBSET {"set", "hset", "lost"}
      OBVIOUS
    <3> HIDE DEF e
    <3>2. events[f.conn] \in [Key -> SUBSET {"set", "hset", "lost"}]
      BY <1>3 DEF TypeOK, EventsOK
    <3>3. [events[f.conn] EXCEPT ![f.key] = e] \in [Key -> SUBSET {"set", "hset", "lost"}]
      BY <3>1, <3>2, Zenon
    <3>4. events' = [events EXCEPT ![f.conn][f.key] = e]
      BY <1>12 DEF HandleWatch, e
    <3> QED BY <3>3, <3>4, Zenon DEF TypeOK, EventsOK
  <2>5. StatesOK'
    BY <1>12, <2>2, <2>3 DEF HandleWatch, TypeOK, StatesOK
  <2>6. UNCHANGED <<pc, todo>> /\ UNCHANGED db
    BY <1>12 DEF HandleWatch
  <2> QED BY <1>4, <1>5, <1>6, <2>4, <2>5, <2>6 DEF TypeOK
<1>13. CASE HandleUnwatch(f)
  <2>1. [k \in Key |-> 0] \in [Key -> Nat]
    OBVIOUS
  <2>2. [k \in Key |-> {}] \in [Key -> SUBSET {"set", "hset", "lost"}]
    OBVIOUS
  <2>3. watched_key_versions' \in [Conn -> [Key -> Nat]]
    BY <1>13, <2>1, Zenon DEF HandleUnwatch, TypeOK, StatesOK
  <2>4. EventsOK'
    BY <1>13, <2>2, Zenon DEF HandleUnwatch, TypeOK, EventsOK
  <2>5. StatesOK'
    BY <1>13, <2>3 DEF HandleUnwatch, TypeOK, StatesOK
  <2>6. UNCHANGED <<pc, todo>> /\ UNCHANGED db
    BY <1>13 DEF HandleUnwatch
  <2> QED BY <1>4, <1>5, <1>6, <2>4, <2>5, <2>6 DEF TypeOK
<1>14. CASE HandleDiscard(f) \/ AbortExec(f)
  <2>1. EraseState(f.conn) /\ UNCHANGED <<pc, todo>> /\ UNCHANGED db
    BY <1>14 DEF HandleDiscard, AbortExec
  <2> QED BY <1>3, <1>4, <1>5, <1>6, <2>1, EraseType DEF TypeOK
<1>15. CASE BeginExec(f)
  <2>1. EraseState(f.conn) /\ UNCHANGED db
    BY <1>15 DEF BeginExec
  <2>2. todo' \in Seq(LocalCommand)
    BY <1>3, <1>15 DEF BeginExec, TypeOK, StatesOK
  <2>3. LoopOK'
    BY <1>2, <1>15, <2>2 DEF BeginExec, LoopOK
  <2> QED BY <1>3, <1>4, <1>6, <2>1, <2>3, EraseType DEF TypeOK
<1>16. CASE ExecuteLocal(f)
  <2>1. Execute(f) /\ UNCHANGED <<pc, todo>> /\ UNCHANGED states /\ f.key \in Key
    BY <1>3, <1>16 DEF ExecuteLocal
  <2> QED BY <1>4, <1>5, <1>8, <2>1, ExecuteType DEF TypeOK
<1> QED BY <1>9, <1>10, <1>11, <1>12, <1>13, <1>14, <1>15, <1>16 DEF TakeCommand, f

\* Every step keeps the types.
LEMMA StepType ==
  ASSUME TypeOK, [Next]_vars
  PROVE  TypeOK'
<1>1. CASE UNCHANGED vars
  BY <1>1 DEF vars, client, loop, states, db, TypeOK, ClientOK, LoopOK, StatesOK, DbOK,
              EventsOK
<1>2. ASSUME NEW c \in Conn, Client(c)
      PROVE  TypeOK'
  BY <1>2, ClientType
<1>3. ASSUME NEW c \in Conn, RunTask(c)
      PROVE  TypeOK'
  <2>1. StatesOK' /\ EventsOK'
    BY <1>3, EraseType DEF RunTask, TypeOK
  <2>2. tasks' \in Seq(Conn)
    BY <1>3 DEF RunTask, TypeOK, LoopOK
  <2>3. LoopOK'
    BY <1>3, <2>2 DEF RunTask, TypeOK, LoopOK
  <2>4. ClientOK' /\ DbOK'
    BY <1>3 DEF RunTask, client, db, TypeOK, ClientOK, DbOK
  <2> QED BY <2>1, <2>3, <2>4 DEF TypeOK
<1>4. CASE cmdq # <<>> /\ TakeCommand(Head(cmdq))
  BY <1>4, TakeCommandType
<1>5. ASSUME NEW name \in Forwards, NEW k \in Key,
             ExecuteForwarded([name |-> name, key |-> k])
      PROVE  TypeOK'
  <2>1. Execute([name |-> name, key |-> k])
    BY <1>5 DEF ExecuteForwarded
  <2>2. DbOK' /\ EventsOK'
    BY <2>1, ExecuteType DEF TypeOK
  <2>3. taken' \in 0..MaxPerLoop /\ forwarded' \in 0..MaxForwarded
    BY <1>5, TransactionsAssumption DEF ExecuteForwarded, TypeOK, LoopOK
  <2>4. LoopOK'
    BY <1>5, <2>3 DEF ExecuteForwarded, TypeOK, LoopOK
  <2>5. ClientOK' /\ StatesOK'
    BY <1>5 DEF ExecuteForwarded, client, states, TypeOK, ClientOK, StatesOK
  <2> QED BY <2>2, <2>4, <2>5 DEF TypeOK
<1>6. CASE ExecQueued
  <2>1. Head(todo) \in LocalCommand /\ Tail(todo) \in Seq(LocalCommand)
    BY <1>6 DEF ExecQueued, TypeOK, LoopOK
  <2>2. Head(todo).key \in Key
    BY <2>1, TransactionsAssumption DEF LocalCommand
  <2>3. DbOK' /\ EventsOK'
    BY <1>6, <2>2, ExecuteType DEF ExecQueued, TypeOK
  <2>4. LoopOK'
    BY <1>6, <2>1 DEF ExecQueued, TypeOK, LoopOK
  <2>5. ClientOK' /\ StatesOK'
    BY <1>6 DEF ExecQueued, client, states, TypeOK, ClientOK, StatesOK
  <2> QED BY <2>3, <2>4, <2>5 DEF TypeOK
<1>7. CASE EndExec \/ EndCommands \/ EndTasks
  <2>1. ClientOK' /\ StatesOK' /\ DbOK' /\ EventsOK'
    BY <1>7 DEF EndExec, EndCommands, EndTasks, client, states, db, TypeOK, ClientOK,
                StatesOK, DbOK, EventsOK
  <2>2. LoopOK'
    BY <1>7, TransactionsAssumption DEF EndExec, EndCommands, EndTasks, TypeOK, LoopOK
  <2> QED BY <2>1, <2>2 DEF TypeOK
<1>8. ASSUME NEW k \in Key, TimePasses(k)
      PROVE  TypeOK'
  <2>1. DbOK'
    BY <1>8 DEF TimePasses, TypeOK, DbOK
  <2>2. ClientOK' /\ LoopOK' /\ StatesOK' /\ EventsOK'
    BY <1>8 DEF TimePasses, client, loop, states, TypeOK, ClientOK, LoopOK, StatesOK, EventsOK
  <2> QED BY <2>1, <2>2 DEF TypeOK
<1> QED BY <1>1, <1>2, <1>3, <1>4, <1>5, <1>6, <1>7, <1>8, Zenon DEF Next

\* The initial state has the types.
LEMMA InitType == Init => TypeOK
<1> SUFFICES ASSUME Init PROVE TypeOK
  OBVIOUS
<1>1. ClientOK
  BY DEF Init, ClientOK
<1>2. LoopOK
  BY TransactionsAssumption DEF Init, LoopOK
<1>3. StatesOK
  <2>1. [k \in Key |-> 0] \in [Key -> Nat]
    OBVIOUS
  <2>2. <<>> \in Seq(LocalCommand)
    OBVIOUS
  <2>3. queued_commands \in [Conn -> Seq(LocalCommand)]
    BY <2>2 DEF Init
  <2>4. watched_key_versions \in [Conn -> [Key -> Nat]]
    BY <2>1 DEF Init
  <2>5. in_transaction \in [Conn -> BOOLEAN] /\ watched_keys \in [Conn -> SUBSET Local]
    BY DEF Init
  <2> QED BY <2>3, <2>4, <2>5 DEF StatesOK
<1>4. DbOK
  BY DEF Init, DbOK
<1>5. EventsOK
  <2>1. [k \in Key |-> {}] \in [Key -> SUBSET {"set", "hset", "lost"}]
    OBVIOUS
  <2> QED BY <2>1 DEF Init, EventsOK
<1> QED BY <1>1, <1>2, <1>3, <1>4, <1>5 DEF TypeOK

\* The transaction state, the queues and the key versions keep their types, and only
\* commands on keys of this worker are ever queued or executed by EXEC.
THEOREM TypeCorrect == Spec => []TypeOK
BY InitType, StepType, PTL DEF Spec

-----------------------------------------------------------------------------
(* A SET of a watched key is noticed.  The invariant that is inductive: since the *)
(* WATCH of a key whose metadata was not lost, the version has not gone down, a SET *)
(* has moved it up, and a string has metadata, so that the next SET counts. *)

Counted(c, k) ==
  /\ k \in strings => version[k] > 0
  /\ version[k] >= watched_key_versions[c][k]
  /\ "set" \in events[c][k] => version[k] > watched_key_versions[c][k]

VersionsCount ==
  \A c \in Conn : \A k \in watched_keys[c] : "lost" \notin events[c][k] => Counted(c, k)

\* A database command keeps VersionsCount.
LEMMA ExecuteCounts ==
  ASSUME TypeOK, VersionsCount, NEW cmd, cmd.key \in Key, Execute(cmd), UNCHANGED states
  PROVE  VersionsCount'
<1> DEFINE x == cmd.key
<1> SUFFICES ASSUME NEW c \in Conn, NEW k \in watched_keys[c], "lost" \notin events'[c][k]
             PROVE  Counted(c, k)'
  BY DEF VersionsCount, states
<1>1. k \in Key /\ x \in Key
  BY TransactionsAssumption DEF TypeOK, StatesOK
<1>2. /\ version[k] \in Nat /\ watched_key_versions[c][k] \in Nat
      /\ version \in [Key -> Nat] /\ expiry \in [Key -> {"none", "later", "past"}]
      /\ watched_key_versions' = watched_key_versions
      /\ events[c] \in [Key -> SUBSET {"set", "hset", "lost"}]
      /\ events \in [Conn -> [Key -> SUBSET {"set", "hset", "lost"}]]
  BY <1>1 DEF TypeOK, DbOK, StatesOK, EventsOK, states
<1>3. ASSUME NEW e, Note(x, e)
      PROVE  events'[c][k] = IF k = x THEN events[c][k] \cup {e} ELSE events[c][k]
  <2>1. CASE x \in watched_keys[c]
    <3>1. events'[c] = [events[c] EXCEPT ![x] = @ \cup {e}]
      BY <1>3, <2>1 DEF Note
    <3> QED BY <1>1, <1>2, <3>1, Zenon
  <2>2. CASE x \notin watched_keys[c]
    BY <1>3, <2>2 DEF Note
  <2> QED BY <2>1, <2>2
<1>4. "lost" \notin events[c][k] => Counted(c, k)
  BY DEF VersionsCount
<1> HIDE DEF x
<1>5. CASE Set(x)
  <2>1. events'[c][k] = IF k = x THEN events[c][k] \cup {"set"} ELSE events[c][k]
    BY <1>3, <1>5 DEF Set
  <2>2. Counted(c, k)
    BY <1>4, <2>1
  <2>3. CASE k = x
    BY <1>1, <1>2, <1>5, <2>1, <2>2, <2>3
       DEF Set, RegisterKey, IncrementKeyVersion, Counted
  <2>4. CASE k # x
    <3>1. version'[k] = version[k] /\ (k \in strings' <=> k \in strings)
      BY <1>1, <1>2, <1>5, <2>4 DEF Set, RegisterKey, IncrementKeyVersion
    <3> QED BY <1>2, <2>1, <2>2, <2>4, <3>1 DEF Counted
  <2> QED BY <2>3, <2>4
<1>6. CASE HSet(x)
  <2>1. events'[c][k] = IF k = x THEN events[c][k] \cup {"hset"} ELSE events[c][k]
    BY <1>3, <1>6 DEF HSet
  <2>2. Counted(c, k)
    BY <1>4, <2>1
  <2>3. version'[k] \in {version[k], version[k] + 1} /\ strings' = strings
    BY <1>1, <1>2, <1>6 DEF HSet, RegisterKey
  <2>4. "set" \in events'[c][k] => "set" \in events[c][k]
    BY <2>1, SMTT(30)
  <2> QED BY <1>2, <2>2, <2>3, <2>4 DEF Counted
<1>7. CASE Del(x)
  <2>1. events'[c][k] = IF k = x THEN events[c][k] \cup {"lost"} ELSE events[c][k]
    BY <1>3, <1>7 DEF Del
  <2>2. k # x
    BY <2>1
  <2>3. version'[k] = version[k] /\ (k \in strings' <=> k \in strings)
    BY <1>1, <1>2, <1>7, <2>2 DEF Del, UnregisterKey
  <2> QED BY <1>2, <1>4, <2>1, <2>2, <2>3 DEF Counted
<1>8. CASE Exists(x)
  <2>1. CASE expiry[x] = "past"
    <3>1. events'[c][k] = IF k = x THEN events[c][k] \cup {"lost"} ELSE events[c][k]
      BY <1>3, <1>8, <2>1 DEF Exists
    <3>2. k # x
      BY <3>1
    <3>3. version'[k] = version[k] /\ strings' = strings
      BY <1>1, <1>2, <1>8, <2>1, <3>2 DEF Exists, UnregisterKey
    <3> QED BY <1>2, <1>4, <3>1, <3>2, <3>3 DEF Counted
  <2>2. CASE expiry[x] # "past"
    BY <1>2, <1>4, <1>8, <2>2 DEF Exists, Counted
  <2> QED BY <2>1, <2>2
<1>9. CASE Expire(x)
  BY <1>2, <1>4, <1>9 DEF Expire, Counted
<1> QED BY <1>5, <1>6, <1>7, <1>8, <1>9 DEF Execute, x

\* Erasing a connection's state keeps VersionsCount.
LEMMA EraseCounts ==
  ASSUME TypeOK, VersionsCount, NEW c \in Conn, UNCHANGED db,
         watched_keys' = [watched_keys EXCEPT ![c] = {}],
         watched_key_versions' = [watched_key_versions EXCEPT ![c] = [k \in Key |-> 0]],
         events' = [events EXCEPT ![c] = [k \in Key |-> {}]]
  PROVE  VersionsCount'
<1> SUFFICES ASSUME NEW d \in Conn, NEW k \in watched_keys'[d], "lost" \notin events'[d][k]
             PROVE  Counted(d, k)'
  BY DEF VersionsCount
<1>1. d # c
  BY DEF TypeOK, StatesOK
<1>2. /\ k \in watched_keys[d] /\ events'[d] = events[d]
      /\ watched_key_versions'[d] = watched_key_versions[d]
  BY <1>1 DEF TypeOK, StatesOK, EventsOK
<1> QED BY <1>2 DEF VersionsCount, Counted, db

\* A step that changes neither the database nor the watched keys keeps VersionsCount.
LEMMA SameCounts ==
  ASSUME VersionsCount,
         UNCHANGED <<strings, version, watched_keys, watched_key_versions, events>>
  PROVE  VersionsCount'
BY DEF VersionsCount, Counted

\* WATCH begins to count.
LEMMA WatchCounts ==
  ASSUME TypeOK, VersionsCount, NEW f \in Frame, HandleWatch(f)
  PROVE  VersionsCount'
<1> SUFFICES ASSUME NEW c \in Conn, NEW k \in watched_keys'[c], "lost" \notin events'[c][k]
             PROVE  Counted(c, k)'
  BY DEF VersionsCount
<1>1. f.conn \in Conn /\ f.key \in Key /\ UNCHANGED <<strings, version>>
  BY FrameFields DEF HandleWatch, db
<1>2. /\ watched_keys \in [Conn -> SUBSET Local]
      /\ watched_key_versions \in [Conn -> [Key -> Nat]]
      /\ version \in [Key -> Nat]
      /\ events \in [Conn -> [Key -> SUBSET {"set", "hset", "lost"}]]
  BY DEF TypeOK, StatesOK, DbOK, EventsOK
<1> DEFINE e == IF f.key \in strings /\ version[f.key] = 0 THEN {"lost"} ELSE {}
<1>3. /\ watched_keys' = [watched_keys EXCEPT ![f.conn] = @ \cup {f.key}]
      /\ watched_key_versions' =
           [watched_key_versions EXCEPT ![f.conn][f.key] = version[f.key]]
      /\ events' = [events EXCEPT ![f.conn][f.key] = e]
  BY DEF HandleWatch
<1>4. CASE c = f.conn /\ k = f.key
  <2>1. events'[c][k] = e /\ watched_key_versions'[c][k] = version[k]
    BY <1>1, <1>2, <1>3, <1>4
  <2>2. version[k] \in Nat
    BY <1>1, <1>2, <1>4
  <2> QED BY <1>1, <1>4, <2>1, <2>2 DEF Counted
<1> HIDE DEF e
<1>5. CASE ~(c = f.conn /\ k = f.key)
  <2>1. k \in watched_keys[c]
    BY <1>1, <1>2, <1>3, <1>5
  <2>2. k \in Key
    BY <1>2, <2>1, TransactionsAssumption
  <2>3. /\ events'[c][k] = events[c][k]
        /\ watched_key_versions'[c][k] = watched_key_versions[c][k]
    BY <1>1, <1>2, <1>3, <1>5, <2>2
  <2> QED BY <1>1, <2>1, <2>3 DEF VersionsCount, Counted
<1> QED BY <1>4, <1>5

\* Every step keeps VersionsCount.
LEMMA StepCounts ==
  ASSUME TypeOK, VersionsCount, [Next]_vars
  PROVE  VersionsCount'
<1>1. CASE UNCHANGED vars
  BY <1>1, SameCounts DEF vars, states, db
<1>2. ASSUME NEW c \in Conn, Client(c)
      PROVE  VersionsCount'
  BY <1>2, SameCounts, Zenon DEF Client, SendMulti, SendUnwatch, SendEnd, SendWatch, SendData,
                          Enqueue, Close, states, db
<1>3. ASSUME NEW c \in Conn, RunTask(c)
      PROVE  VersionsCount'
  BY <1>3, EraseCounts, Zenon DEF RunTask, EraseState
<1>4. CASE cmdq # <<>> /\ TakeCommand(Head(cmdq))
  <2> DEFINE f == Head(cmdq)
  <2>1. f \in Frame
    BY <1>4 DEF TypeOK, LoopOK
  <2>2. f.conn \in Conn /\ (IsData(f) => f.key \in Key)
    BY <2>1, FrameFields
  <2> HIDE DEF f
  <2>3. CASE QueueCommand(f) \/ Reject(f) \/ HandleMulti(f) \/ ForwardCommand(f)
    BY <2>3, SameCounts DEF QueueCommand, Reject, HandleMulti, ForwardCommand, states, db
  <2>4. CASE HandleWatch(f)
    BY <2>1, <2>4, WatchCounts
  <2>5. CASE HandleUnwatch(f)
    BY <2>2, <2>5, EraseCounts, Zenon DEF HandleUnwatch
  <2>6. CASE HandleDiscard(f) \/ AbortExec(f) \/ BeginExec(f)
    BY <2>2, <2>6, EraseCounts DEF HandleDiscard, AbortExec, BeginExec, EraseState
  <2>7. CASE ExecuteLocal(f)
    BY <2>2, <2>7, ExecuteCounts DEF ExecuteLocal
  <2> QED BY <1>4, <2>3, <2>4, <2>5, <2>6, <2>7 DEF TakeCommand, f
<1>5. ASSUME NEW name \in Forwards, NEW k \in Key,
             ExecuteForwarded([name |-> name, key |-> k])
      PROVE  VersionsCount'
  BY <1>5, ExecuteCounts DEF ExecuteForwarded
<1>6. CASE ExecQueued
  <2>1. Head(todo) \in LocalCommand
    BY <1>6 DEF ExecQueued, TypeOK, LoopOK
  <2>2. Head(todo).key \in Key
    BY <2>1, TransactionsAssumption DEF LocalCommand
  <2> QED BY <1>6, <2>2, ExecuteCounts DEF ExecQueued
<1>7. CASE EndExec \/ EndCommands \/ EndTasks
  BY <1>7, SameCounts DEF EndExec, EndCommands, EndTasks, states, db
<1>8. ASSUME NEW k \in Key, TimePasses(k)
      PROVE  VersionsCount'
  BY <1>8, SameCounts DEF TimePasses, states
<1> QED BY <1>1, <1>2, <1>3, <1>4, <1>5, <1>6, <1>7, <1>8, Zenon DEF Next

\* For any connections, keys and commands, Database::Set keeps what WATCH promises: a
\* SET since the WATCH shows in the version unless the key lost its metadata.
THEOREM SetNoticed == Spec => []SetIsNoticed
<1>1. Init => VersionsCount
  BY DEF Init, VersionsCount
<1>2. TypeOK /\ VersionsCount => SetIsNoticed
  <2> SUFFICES ASSUME TypeOK, VersionsCount, NEW c \in Conn, NEW k \in watched_keys[c],
                      "set" \in events[c][k], "lost" \notin events[c][k]
               PROVE  version[k] # watched_key_versions[c][k]
    BY DEF SetIsNoticed
  <2>1. version[k] \in Nat /\ watched_key_versions[c][k] \in Nat
    BY TransactionsAssumption DEF TypeOK, StatesOK, DbOK
  <2>2. version[k] > watched_key_versions[c][k]
    BY DEF VersionsCount, Counted
  <2> QED BY <2>1, <2>2
<1> QED BY <1>1, <1>2, InitType, StepType, StepCounts, PTL DEF Spec
-----------------------------------------------------------------------------
(* Nothing is queued outside a transaction. *)

\* Erasing a connection's state keeps NothingQueuedOutside.
LEMMA EraseQueues ==
  ASSUME TypeOK, NothingQueuedOutside, NEW c \in Conn, EraseState(c)
  PROVE  NothingQueuedOutside'
<1> SUFFICES ASSUME NEW d \in Conn, queued_commands'[d] # <<>>
             PROVE  in_transaction'[d]
  BY DEF NothingQueuedOutside
<1>1. d # c
  BY DEF EraseState, TypeOK, StatesOK
<1>2. queued_commands'[d] = queued_commands[d] /\ in_transaction'[d] = in_transaction[d]
  BY <1>1 DEF EraseState, TypeOK, StatesOK
<1> QED BY <1>2 DEF NothingQueuedOutside

\* Every step keeps NothingQueuedOutside.
LEMMA StepQueues ==
  ASSUME TypeOK, NothingQueuedOutside, [Next]_vars
  PROVE  NothingQueuedOutside'
<1>1. ASSUME UNCHANGED <<in_transaction, queued_commands>>
      PROVE  NothingQueuedOutside'
  BY <1>1 DEF NothingQueuedOutside
<1>2. CASE UNCHANGED vars
  BY <1>1, <1>2 DEF vars, states
<1>3. ASSUME NEW c \in Conn, Client(c)
      PROVE  NothingQueuedOutside'
  BY <1>1, <1>3, Zenon DEF Client, SendMulti, SendUnwatch, SendEnd, SendWatch, SendData, Enqueue,
                    Close, states
<1>4. ASSUME NEW c \in Conn, RunTask(c)
      PROVE  NothingQueuedOutside'
  BY <1>4, EraseQueues DEF RunTask
<1>5. CASE cmdq # <<>> /\ TakeCommand(Head(cmdq))
  <2> DEFINE f == Head(cmdq)
  <2>1. f \in Frame
    BY <1>5 DEF TypeOK, LoopOK
  <2>2. f.conn \in Conn
    BY <2>1, FrameFields
  <2> HIDE DEF f
  <2>3. CASE QueueCommand(f)
    <3> SUFFICES ASSUME NEW d \in Conn, queued_commands'[d] # <<>>
                 PROVE  in_transaction'[d]
      BY DEF NothingQueuedOutside
    <3>1. CASE d = f.conn
      BY <2>3, <3>1 DEF QueueCommand
    <3>2. CASE d # f.conn
      BY <2>3, <3>2 DEF QueueCommand, NothingQueuedOutside, TypeOK, StatesOK
    <3> QED BY <3>1, <3>2
  <2>4. CASE HandleMulti(f)
    <3> SUFFICES ASSUME NEW d \in Conn, queued_commands'[d] # <<>>
                 PROVE  in_transaction'[d]
      BY DEF NothingQueuedOutside
    <3>1. d # f.conn
      BY <2>2, <2>4 DEF HandleMulti, TypeOK, StatesOK
    <3> QED BY <2>4, <3>1 DEF HandleMulti, NothingQueuedOutside, TypeOK, StatesOK
  <2>5. CASE Reject(f) \/ HandleWatch(f) \/ HandleUnwatch(f) \/ ExecuteLocal(f) \/ ForwardCommand(f)
    BY <1>1, <2>5, SMTT(30) DEF Reject, HandleWatch, HandleUnwatch, ExecuteLocal, ForwardCommand, states
  <2>6. CASE HandleDiscard(f) \/ AbortExec(f) \/ BeginExec(f)
    BY <2>2, <2>6, EraseQueues DEF HandleDiscard, AbortExec, BeginExec
  <2> QED BY <1>5, <2>3, <2>4, <2>5, <2>6 DEF TakeCommand, f
<1>6. ASSUME NEW name \in Forwards, NEW k \in Key,
             ExecuteForwarded([name |-> name, key |-> k])
      PROVE  NothingQueuedOutside'
  BY <1>1, <1>6 DEF ExecuteForwarded, states
<1>7. CASE ExecQueued \/ EndExec \/ EndCommands \/ EndTasks
  BY <1>1, <1>7 DEF ExecQueued, EndExec, EndCommands, EndTasks, states
<1>8. ASSUME NEW k \in Key, TimePasses(k)
      PROVE  NothingQueuedOutside'
  BY <1>1, <1>8 DEF TimePasses, states
<1> QED BY <1>2, <1>3, <1>4, <1>5, <1>6, <1>7, <1>8, Zenon DEF Next

\* For any connections and commands, no command that a transaction queued is left over
\* after EXEC, DISCARD, an aborted EXEC or the close of the connection.
THEOREM QueuesAreEmptied == Spec => []NothingQueuedOutside
<1>1. Init => NothingQueuedOutside
  BY DEF Init, NothingQueuedOutside
<1> QED BY <1>1, InitType, StepType, StepQueues, PTL DEF Spec

-----------------------------------------------------------------------------
(* An open connection's transaction is kept.  The invariant looks at the whole     *)
(* queue: what the client thinks at a place of the queue (b) is what the last      *)
(* MULTI, EXEC or DISCARD before that place says, and when there is none, what the *)
(* state store says now (t).                                                       *)

Enders == {"MULTI", "EXEC", "DISCARD"}

Marks(q, c) == {j \in DOMAIN q : q[j].conn = c /\ q[j].name \in Enders}

Follows(q, c, n, b, t) ==
  /\ \A j \in Marks(q, c) :
       j < n /\ (\A k \in Marks(q, c) : k < n => k <= j) => (b <=> q[j].name = "MULTI")
  /\ (\A j \in Marks(q, c) : ~(j < n)) => (b <=> t)

QueueFollows(q, c, b, t) ==
  /\ \A i \in DOMAIN q : q[i].conn = c => Follows(q, c, i, q[i].intended, t)
  /\ Follows(q, c, Len(q) + 1, b, t)

IntentionsKept ==
  \A c \in open :
    /\ QueueFollows(cmdq, c, inmulti[c], in_transaction[c])
    /\ \A i \in DOMAIN tasks : tasks[i] # c

\* Taking the head of the queue: a mark of c moves its transaction state.
LEMMA FollowsTail ==
  ASSUME NEW q \in Seq(Frame), q # <<>>, NEW c, NEW n \in 2..Len(q) + 1,
         NEW b \in BOOLEAN, NEW t \in BOOLEAN, NEW u \in BOOLEAN,
         Follows(q, c, n, b, t),
         1 \in Marks(q, c) => (u <=> q[1].name = "MULTI"),
         1 \notin Marks(q, c) => (u <=> t)
  PROVE  Follows(Tail(q), c, n - 1, b, u)
<1> DEFINE r == Tail(q)
<1>1. /\ Len(q) \in Nat /\ Len(q) >= 1 /\ DOMAIN q = 1..Len(q) /\ DOMAIN r = 1..Len(q) - 1
      /\ \A j \in DOMAIN r : r[j] = q[j + 1]
  OBVIOUS
<1> HIDE DEF r
<1>2. \A j \in Marks(r, c) : j \in Nat /\ j >= 1 /\ j + 1 \in Marks(q, c) /\ r[j] = q[j + 1]
  BY <1>1 DEF Marks
<1>3. \A j \in Marks(q, c) : j \in Nat /\ (j = 1 \/ (j >= 2 /\ j - 1 \in Marks(r, c)))
  <2> SUFFICES ASSUME NEW j \in Marks(q, c), j # 1
               PROVE  j \in Nat /\ j >= 2 /\ j - 1 \in Marks(r, c)
    BY <1>1 DEF Marks
  <2>1. j \in 2..Len(q) /\ q[j].conn = c /\ q[j].name \in Enders
    BY <1>1 DEF Marks
  <2>2. j - 1 \in DOMAIN r /\ r[j - 1] = q[j]
    BY <1>1, <2>1
  <2> QED BY <2>1, <2>2 DEF Marks
<1>4. ASSUME NEW j \in Marks(r, c), j < n - 1, \A k \in Marks(r, c) : k < n - 1 => k <= j
      PROVE  b <=> r[j].name = "MULTI"
  <2>1. j + 1 \in Marks(q, c) /\ j + 1 < n /\ r[j] = q[j + 1]
    BY <1>2, <1>4
  <2>2. ASSUME NEW k \in Marks(q, c), k < n
        PROVE  k <= j + 1
    <3>1. j \in Nat /\ k \in Nat /\ n \in Nat
      BY <1>1, <1>2, <1>3
    <3>2. CASE k = 1
      BY <3>1, <3>2
    <3>3. CASE k # 1
      <4>1. k - 1 \in Marks(r, c) /\ k - 1 < n - 1
        BY <1>3, <2>2, <3>1, <3>3
      <4>2. k - 1 <= j
        BY <1>4, <4>1
      <4> QED BY <3>1, <4>2
    <3> QED BY <3>2, <3>3
  <2> QED BY <2>1, <2>2 DEF Follows
<1>5. ASSUME \A j \in Marks(r, c) : ~(j < n - 1)
      PROVE  b <=> u
  <2>1. \A k \in Marks(q, c) : k < n => k = 1
    BY <1>3, <1>5
  <2>2. CASE 1 \in Marks(q, c)
    BY <2>1, <2>2 DEF Follows
  <2>3. CASE 1 \notin Marks(q, c)
    BY <2>1, <2>3 DEF Follows
  <2> QED BY <2>2, <2>3
<1> QED BY <1>4, <1>5, Zenon DEF Follows, r

\* Appending a frame changes nothing before it.
LEMMA FollowsAppend ==
  ASSUME NEW q \in Seq(Frame), NEW f \in Frame, NEW c, NEW n \in 1..Len(q) + 1,
         NEW b \in BOOLEAN, NEW t \in BOOLEAN, Follows(q, c, n, b, t)
  PROVE  Follows(Append(q, f), c, n, b, t)
<1> DEFINE r == Append(q, f)
<1>1. /\ Len(q) \in Nat /\ DOMAIN q = 1..Len(q) /\ DOMAIN r = 1..Len(q) + 1
      /\ \A j \in DOMAIN q : r[j] = q[j]
  OBVIOUS
<1> HIDE DEF r
<1>2. \A j \in Marks(q, c) : j \in Marks(r, c) /\ r[j] = q[j] /\ j \in Nat
  BY <1>1 DEF Marks
<1>3. \A j \in Marks(r, c) : j \in Nat /\ (j < n => j \in Marks(q, c))
  BY <1>1 DEF Marks
<1>4. ASSUME NEW j \in Marks(r, c), j < n, \A k \in Marks(r, c) : k < n => k <= j
      PROVE  b <=> r[j].name = "MULTI"
  BY <1>2, <1>3, <1>4 DEF Follows
<1>5. ASSUME \A j \in Marks(r, c) : ~(j < n)
      PROVE  b <=> t
  BY <1>2, <1>5 DEF Follows
<1> QED BY <1>4, <1>5, Zenon DEF Follows, r

\* Behind the frame that was appended, c thinks what the frame says if it is a mark.
LEMMA FollowsEnd ==
  ASSUME NEW q \in Seq(Frame), NEW f \in Frame, NEW c,
         NEW b \in BOOLEAN, NEW d \in BOOLEAN, NEW t \in BOOLEAN,
         Follows(q, c, Len(q) + 1, b, t),
         f.conn = c /\ f.name \in Enders => (d <=> f.name = "MULTI"),
         ~(f.conn = c /\ f.name \in Enders) => (d <=> b)
  PROVE  Follows(Append(q, f), c, Len(q) + 2, d, t)
<1> DEFINE r == Append(q, f)
           m == Len(q) + 1
<1>1. /\ Len(q) \in Nat /\ DOMAIN q = 1..Len(q) /\ DOMAIN r = 1..m /\ r[m] = f
      /\ \A j \in DOMAIN q : r[j] = q[j]
  OBVIOUS
<1> HIDE DEF r
<1>2. CASE f.conn = c /\ f.name \in Enders
  <2>1. m \in Marks(r, c) /\ m \in Nat /\ m < Len(q) + 2
    BY <1>1, <1>2 DEF Marks
  <2>2. \A j \in Marks(r, c) : j \in Nat /\ j <= m
    BY <1>1 DEF Marks
  <2>3. ASSUME NEW j \in Marks(r, c), \A k \in Marks(r, c) : k < Len(q) + 2 => k <= j
        PROVE  j = m
    BY <2>1, <2>2, <2>3
  <2> QED BY <1>1, <1>2, <2>1, <2>3 DEF Follows, r
<1>3. CASE ~(f.conn = c /\ f.name \in Enders)
  <2>1. Marks(r, c) = Marks(q, c)
    BY <1>1, <1>3 DEF Marks
  <2>2. \A j \in Marks(q, c) : j \in Nat /\ j < Len(q) + 1 /\ j < Len(q) + 2 /\ r[j] = q[j]
    BY <1>1 DEF Marks
  <2> QED BY <1>1, <1>3, <2>1, <2>2, Zenon DEF Follows, r
<1> QED BY <1>2, <1>3
\* Taking the head of the queue, for the whole of it.
LEMMA QueueTail ==
  ASSUME NEW q \in Seq(Frame), q # <<>>, NEW c,
         NEW b \in BOOLEAN, NEW t \in BOOLEAN, NEW u \in BOOLEAN,
         QueueFollows(q, c, b, t),
         1 \in Marks(q, c) => (u <=> q[1].name = "MULTI"),
         1 \notin Marks(q, c) => (u <=> t)
  PROVE  QueueFollows(Tail(q), c, b, u)
<1>1. /\ Len(q) \in Nat /\ Len(q) >= 1 /\ Len(Tail(q)) + 1 = Len(q)
      /\ \A i \in DOMAIN Tail(q) : /\ i \in Nat /\ i + 1 \in DOMAIN q /\ i + 1 \in 2..Len(q) + 1
                                   /\ Tail(q)[i] = q[i + 1]
  OBVIOUS
<1>2. ASSUME NEW i \in DOMAIN Tail(q), Tail(q)[i].conn = c
      PROVE  Follows(Tail(q), c, i, Tail(q)[i].intended, u)
  <2>1. i + 1 \in 2..Len(q) + 1 /\ i + 1 - 1 = i /\ Tail(q)[i] = q[i + 1]
    BY <1>1
  <2>2. q[i + 1].intended \in BOOLEAN
    BY <1>1, FrameFields
  <2>3. Follows(q, c, i + 1, q[i + 1].intended, t)
    BY <1>1, <1>2, <2>1 DEF QueueFollows
  <2>4. Follows(Tail(q), c, i + 1 - 1, q[i + 1].intended, u)
    BY <2>1, <2>2, <2>3, FollowsTail
  <2> QED BY <2>1, <2>4
<1>3. Follows(Tail(q), c, Len(Tail(q)) + 1, b, u)
  <2>1. Len(q) + 1 \in 2..Len(q) + 1 /\ Len(q) + 1 - 1 = Len(Tail(q)) + 1
    BY <1>1
  <2>2. Follows(Tail(q), c, Len(q) + 1 - 1, b, u)
    BY <2>1, FollowsTail, SMTT(30) DEF QueueFollows
  <2> QED BY <2>1, <2>2
<1> QED BY <1>2, <1>3 DEF QueueFollows

\* Appending a frame, for the whole queue.
LEMMA QueueAppend ==
  ASSUME NEW q \in Seq(Frame), NEW f \in Frame, NEW c,
         NEW b \in BOOLEAN, NEW d \in BOOLEAN, NEW t \in BOOLEAN,
         QueueFollows(q, c, b, t),
         f.conn = c => f.intended = b,
         f.conn = c /\ f.name \in Enders => (d <=> f.name = "MULTI"),
         ~(f.conn = c /\ f.name \in Enders) => (d <=> b)
  PROVE  QueueFollows(Append(q, f), c, d, t)
<1> DEFINE r == Append(q, f)
<1>1. /\ Len(q) \in Nat /\ DOMAIN q = 1..Len(q) /\ DOMAIN r = 1..Len(q) + 1
      /\ Len(r) + 1 = Len(q) + 2 /\ r[Len(q) + 1] = f
      /\ \A i \in DOMAIN q : r[i] = q[i] /\ i \in 1..Len(q) + 1
  OBVIOUS
<1>2. ASSUME NEW i \in DOMAIN q, q[i].conn = c
      PROVE  Follows(r, c, i, q[i].intended, t)
  <2>1. q[i].intended \in BOOLEAN
    BY FrameFields
  <2>2. Follows(q, c, i, q[i].intended, t)
    BY <1>2 DEF QueueFollows
  <2> QED BY <1>1, <2>1, <2>2, FollowsAppend
<1>3. Follows(r, c, Len(q) + 1, b, t)
  <2>1. Len(q) + 1 \in 1..Len(q) + 1
    BY <1>1
  <2> QED BY <2>1, FollowsAppend DEF QueueFollows
<1>4. Follows(r, c, Len(q) + 2, d, t)
  BY FollowsEnd DEF QueueFollows
<1> HIDE DEF r
<1>5. ASSUME NEW i \in DOMAIN r, r[i].conn = c
      PROVE  Follows(r, c, i, r[i].intended, t)
  <2>1. CASE i \in DOMAIN q
    BY <1>1, <1>2, <1>5, <2>1
  <2>2. CASE i = Len(q) + 1
    BY <1>1, <1>3, <1>5, <2>2, SMTT(30)
  <2> QED BY <1>1, <2>1, <2>2
<1> QED BY <1>1, <1>4, <1>5 DEF QueueFollows, r

\* A command that is sent keeps IntentionsKept.
LEMMA EnqueueIntends ==
  ASSUME TypeOK, IntentionsKept, NEW c \in Conn, NEW name, NEW key, Enqueue(c, name, key),
         [conn |-> c, name |-> name, key |-> key, intended |-> inmulti[c]] \in Frame,
         inmulti' \in [Conn -> BOOLEAN],
         \A d \in Conn : d # c => inmulti'[d] = inmulti[d],
         name \in Enders => (inmulti'[c] <=> name = "MULTI"),
         name \notin Enders => inmulti'[c] = inmulti[c]
  PROVE  IntentionsKept'
<1> DEFINE f == [conn |-> c, name |-> name, key |-> key, intended |-> inmulti[c]]
<1>1. /\ open' = open /\ tasks' = tasks /\ in_transaction' = in_transaction
      /\ cmdq' = Append(cmdq, f)
  BY DEF Enqueue, states
<1>2. f.conn = c /\ f.name = name /\ f.intended = inmulti[c] /\ f \in Frame
  BY SMTT(30)
<1> HIDE DEF f
<1> SUFFICES ASSUME NEW d \in open
             PROVE  /\ QueueFollows(cmdq', d, inmulti'[d], in_transaction'[d])
                    /\ \A i \in DOMAIN tasks' : tasks'[i] # d
  BY <1>1 DEF IntentionsKept
<1>3. /\ d \in Conn /\ cmdq \in Seq(Frame) /\ in_transaction[d] \in BOOLEAN
      /\ inmulti[d] \in BOOLEAN /\ inmulti'[d] \in BOOLEAN
  BY SMTT(30) DEF TypeOK, ClientOK, LoopOK, StatesOK
<1>4. QueueFollows(cmdq, d, inmulti[d], in_transaction[d]) /\ \A i \in DOMAIN tasks : tasks[i] # d
  BY DEF IntentionsKept
<1>5. f.conn = d => f.intended = inmulti[d]
  BY <1>2
<1>6. f.conn = d /\ f.name \in Enders => (inmulti'[d] <=> f.name = "MULTI")
  BY <1>2
<1>7. ~(f.conn = d /\ f.name \in Enders) => (inmulti'[d] <=> inmulti[d])
  BY <1>2, <1>3
<1>8. QueueFollows(Append(cmdq, f), d, inmulti'[d], in_transaction[d])
  <2>1. ASSUME NEW b \in BOOLEAN, NEW e \in BOOLEAN, NEW t \in BOOLEAN,
               QueueFollows(cmdq, d, b, t), f.conn = d => f.intended = b,
               f.conn = d /\ f.name \in Enders => (e <=> f.name = "MULTI"),
               ~(f.conn = d /\ f.name \in Enders) => (e <=> b)
        PROVE  QueueFollows(Append(cmdq, f), d, e, t)
    BY <1>2, <1>3, <2>1, QueueAppend
  <2> QED BY <1>3, <1>4, <1>5, <1>6, <1>7, <2>1, ZenonT(40)
<1> QED BY <1>1, <1>4, <1>8, SMTT(30)

\* What the client actions do keeps IntentionsKept.
LEMMA ClientIntends ==
  ASSUME TypeOK, IntentionsKept, NEW c \in Conn, Client(c)
  PROVE  IntentionsKept'
<1>1. ASSUME NEW name, NEW k,
             \/ name \in DataNames \cup {"WATCH"} /\ k \in Key
             \/ name \in {"MULTI", "EXEC", "DISCARD", "UNWATCH"} /\ k = NoKey
      PROVE  [conn |-> c, name |-> name, key |-> k, intended |-> inmulti[c]] \in Frame
  BY <1>1 DEF TypeOK, ClientOK, Frame
<1>2. CASE SendMulti(c)
  BY <1>1, <1>2, EnqueueIntends, Zenon DEF SendMulti, TypeOK, ClientOK, Enders
<1>3. ASSUME NEW name \in {"EXEC", "DISCARD"}, SendEnd(c, name)
      PROVE  IntentionsKept'
  BY <1>1, <1>3, EnqueueIntends, Zenon DEF SendEnd, TypeOK, ClientOK, Enders
<1>4. CASE SendUnwatch(c)
  BY <1>1, <1>4, EnqueueIntends, Zenon DEF SendUnwatch, TypeOK, ClientOK, Enders
<1>5. ASSUME NEW k \in Key, SendWatch(c, k)
      PROVE  IntentionsKept'
  BY <1>1, <1>5, EnqueueIntends, Zenon DEF SendWatch, TypeOK, ClientOK, Enders
<1>6. ASSUME NEW name \in DataNames, NEW k \in Key, SendData(c, name, k)
      PROVE  IntentionsKept'
  BY <1>1, <1>6, EnqueueIntends, Zenon DEF SendData, TypeOK, ClientOK, Enders, DataNames
<1>7. CASE Close(c)
  <2>1. /\ open' = open \ {c} /\ tasks' = Append(tasks, c) /\ cmdq' = cmdq
        /\ inmulti' = inmulti /\ in_transaction' = in_transaction
    BY <1>7 DEF Close, states
  <2>2. ASSUME NEW d \in open', NEW i \in DOMAIN tasks'
        PROVE  tasks'[i] # d
    BY <2>1, <2>2 DEF IntentionsKept, TypeOK, LoopOK
  <2> QED BY <2>1, <2>2 DEF IntentionsKept
<1> QED BY <1>2, <1>3, <1>4, <1>5, <1>6, <1>7 DEF Client

\* What taking a command does to in_transaction.
LEMMA TakeMarks ==
  ASSUME TypeOK, NEW f \in Frame, TakeCommand(f), NEW d \in Conn
  PROVE  /\ f.conn = d /\ f.name \in Enders => (in_transaction'[d] <=> f.name = "MULTI")
         /\ ~(f.conn = d /\ f.name \in Enders) => in_transaction'[d] = in_transaction[d]
<1>1. f.conn \in Conn /\ in_transaction \in [Conn -> BOOLEAN]
  BY FrameFields, SMTT(30) DEF TypeOK, StatesOK
<1>2. CASE QueueCommand(f) \/ ExecuteLocal(f) \/ ForwardCommand(f)
  BY <1>2 DEF QueueCommand, ExecuteLocal, ForwardCommand, states, IsData, DataNames, Enders
<1>3. CASE Reject(f)
  BY <1>3 DEF Reject, states, IsData, DataNames, Enders
<1>4. CASE HandleMulti(f)
  BY <1>1, <1>4, Zenon DEF HandleMulti, Enders
<1>5. CASE HandleWatch(f) \/ HandleUnwatch(f)
  BY <1>5 DEF HandleWatch, HandleUnwatch, Enders
<1>6. CASE HandleDiscard(f) \/ AbortExec(f) \/ BeginExec(f)
  BY <1>1, <1>6 DEF HandleDiscard, AbortExec, BeginExec, EraseState, Enders
<1> QED BY <1>2, <1>3, <1>4, <1>5, <1>6, Zenon DEF TakeCommand

\* Every step keeps IntentionsKept.
LEMMA StepIntends ==
  ASSUME TypeOK, IntentionsKept, [Next]_vars
  PROVE  IntentionsKept'
<1>1. ASSUME UNCHANGED <<open, cmdq, inmulti, in_transaction, tasks>>
      PROVE  IntentionsKept'
  BY <1>1 DEF IntentionsKept
<1>2. CASE UNCHANGED vars
  BY <1>1, <1>2 DEF vars, client, loop, states
<1>3. ASSUME NEW c \in Conn, Client(c)
      PROVE  IntentionsKept'
  BY <1>3, ClientIntends
<1>4. ASSUME NEW c \in Conn, RunTask(c)
      PROVE  IntentionsKept'
  <2>1. /\ open' = open /\ inmulti' = inmulti /\ cmdq' = cmdq
        /\ tasks # <<>> /\ c = Head(tasks) /\ tasks' = Tail(tasks)
        /\ in_transaction' = [in_transaction EXCEPT ![c] = FALSE]
    BY <1>4 DEF RunTask, EraseState, client
  <2>2. tasks[1] = c /\ 1 \in DOMAIN tasks
    BY <2>1 DEF TypeOK, LoopOK
  <2>3. ASSUME NEW d \in open
        PROVE  /\ in_transaction'[d] = in_transaction[d]
               /\ \A i \in DOMAIN tasks' : tasks'[i] # d
    <3>1. d # c /\ d \in Conn
      BY <2>2 DEF IntentionsKept, TypeOK, ClientOK
    <3>2. in_transaction'[d] = in_transaction[d]
      BY <2>1, <3>1 DEF TypeOK, StatesOK
    <3>3. \A i \in DOMAIN tasks : tasks[i] # d
      BY DEF IntentionsKept
    <3>4. \A i \in DOMAIN tasks' : i + 1 \in DOMAIN tasks /\ tasks'[i] = tasks[i + 1]
      BY <2>1 DEF TypeOK, LoopOK
    <3> QED BY <3>2, <3>3, <3>4
  <2> QED BY <2>1, <2>3, Zenon DEF IntentionsKept
<1>5. CASE cmdq # <<>> /\ TakeCommand(Head(cmdq))
  <2> DEFINE f == Head(cmdq)
  <2>1. f \in Frame /\ cmdq[1] = f /\ 1 \in DOMAIN cmdq /\ cmdq \in Seq(Frame)
    BY <1>5 DEF TypeOK, LoopOK
  <2>2. Take(f)
    BY <1>5, Zenon DEF TakeCommand, QueueCommand, Reject, HandleMulti, HandleWatch, HandleUnwatch,
                HandleDiscard, AbortExec, BeginExec, ExecuteLocal, ForwardCommand
  <2>3. open' = open /\ inmulti' = inmulti /\ tasks' = tasks /\ cmdq' = Tail(cmdq)
    BY <2>2 DEF Take, client
  <2>4. ASSUME NEW d \in open
        PROVE  QueueFollows(cmdq', d, inmulti'[d], in_transaction'[d])
    <3>1. /\ d \in Conn /\ inmulti[d] \in BOOLEAN
          /\ in_transaction[d] \in BOOLEAN /\ in_transaction'[d] \in BOOLEAN
      BY <1>5, StepType DEF TypeOK, ClientOK, StatesOK, Next
    <3>2. 1 \in Marks(cmdq, d) <=> f.conn = d /\ f.name \in Enders
      BY <2>1 DEF Marks
    <3>3. /\ f.conn = d /\ f.name \in Enders => (in_transaction'[d] <=> f.name = "MULTI")
          /\ ~(f.conn = d /\ f.name \in Enders) => in_transaction'[d] = in_transaction[d]
      BY <1>5, <2>1, <3>1, TakeMarks, Zenon
    <3>4. QueueFollows(cmdq, d, inmulti[d], in_transaction[d])
      BY DEF IntentionsKept
    <3> HIDE DEF f
    <3>5. 1 \in Marks(cmdq, d) => (in_transaction'[d] <=> cmdq[1].name = "MULTI")
      BY <2>1, <3>2, <3>3
    <3>6. 1 \notin Marks(cmdq, d) => (in_transaction'[d] <=> in_transaction[d])
      BY <3>2, <3>3
    <3>7. QueueFollows(Tail(cmdq), d, inmulti[d], in_transaction'[d])
      BY <1>5, <2>1, <3>1, <3>4, <3>5, <3>6, QueueTail
    <3> QED BY <2>3, <3>7
  <2> QED BY <2>3, <2>4 DEF IntentionsKept
<1>6. ASSUME NEW name \in Forwards, NEW k \in Key,
             ExecuteForwarded([name |-> name, key |-> k])
      PROVE  IntentionsKept'
  BY <1>1, <1>6 DEF ExecuteForwarded, states, client
<1>7. CASE ExecQueued \/ EndExec \/ EndCommands \/ EndTasks
  BY <1>1, <1>7 DEF ExecQueued, EndExec, EndCommands, EndTasks, states, client
<1>8. ASSUME NEW k \in Key, TimePasses(k)
      PROVE  IntentionsKept'
  BY <1>1, <1>8, SMTT(30) DEF TimePasses, states, client, loop
<1> QED BY <1>2, <1>3, <1>4, <1>5, <1>6, <1>7, <1>8, Zenon DEF Next

\* For any connections, commands and round limit: while a connection is open, every
\* command it sent inside MULTI meets its transaction when the executor takes it.
THEOREM OpenTransactionsKept == Spec => []OpenTransactionKept
<1>1. Init => IntentionsKept
  <2> SUFFICES ASSUME Init, NEW c \in open
               PROVE  /\ QueueFollows(cmdq, c, inmulti[c], in_transaction[c])
                      /\ \A i \in DOMAIN tasks : tasks[i] # c
    BY DEF IntentionsKept
  <2>1. DOMAIN cmdq = {} /\ DOMAIN tasks = {} /\ inmulti[c] = in_transaction[c]
    BY SMTT(30) DEF Init
  <2>2. Marks(cmdq, c) = {}
    BY <2>1 DEF Marks
  <2>3. \A n : Follows(cmdq, c, n, inmulti[c], in_transaction[c])
    BY <2>1, <2>2 DEF Follows
  <2> QED BY <2>1, <2>3 DEF QueueFollows
<1>2. TypeOK /\ IntentionsKept => OpenTransactionKept
  <2> SUFFICES ASSUME TypeOK, IntentionsKept, cmdq # <<>>, Head(cmdq).conn \in open,
                      Head(cmdq).intended
               PROVE  in_transaction[Head(cmdq).conn]
    BY DEF OpenTransactionKept, NextIsQueued
  <2> DEFINE f == Head(cmdq)
  <2>1. f = cmdq[1] /\ 1 \in DOMAIN cmdq
    BY DEF TypeOK, LoopOK
  <2>2. Follows(cmdq, f.conn, 1, f.intended, in_transaction[f.conn])
    BY <2>1 DEF IntentionsKept, QueueFollows
  <2>3. \A j \in Marks(cmdq, f.conn) : ~(j < 1)
    BY DEF Marks, TypeOK, LoopOK
  <2> QED BY <2>2, <2>3 DEF Follows
<1> QED BY <1>1, <1>2, InitType, StepType, StepIntends, PTL DEF Spec
=============================================================================
