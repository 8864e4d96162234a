--------------------------- MODULE BlockingManager ---------------------------
(***************************************************************************)
(* commands/blocking_manager.cpp and the commands that use it, on one      *)
(* worker.  Two threads meet in the manager: the executor thread runs the  *)
(* commands, and wakes a client from LPUSH and RPUSH; the I/O thread runs  *)
(* the timers.  What the commands do to the database is a parameter        *)
(* (Attempt, AfterPush, QuietFills); BlockingLists has its value.          *)
(*                                                                         *)
(* The client of a command is the connection in the worker's command       *)
(* context, which a command that another worker has forwarded does not     *)
(* set: it blocks in the name of the last local client (context).  A       *)
(* command that blocks is answered with a null at once (DataShard::Execute *)
(* never looks at is_blocking), so that a client may go on, and block      *)
(* again, before its late answer comes.                                    *)
(*                                                                         *)
(* A wait keeps a pointer to its connection, null when the connection was  *)
(* gone before the command ran, and nobody takes a wait out of its queue   *)
(* when its connection closes (RemoveBlockedClient has no caller).  The    *)
(* pointer is a Worker::Connection cast to a network::Connection, so that  *)
(* it is not defined whether Send sends anything.                          *)
(***************************************************************************)
EXTENDS Naturals, Sequences, FiniteSets, DashMap

CONSTANTS Clients,          \* connections of this worker
          ListKeys,         \* two keys of lists, as a sequence
          ZSetKey,          \* a key of a sorted set
          MovedFrom,        \* the key of a moved-from BlockedClient
          NoLists,          \* the empty database
          Attempt(_, _, _), \* Attempt(d, command, woken): [db, reply], the reply Nil if d has nothing
          TakenBy(_, _),    \* TakenBy(command, reply): how many list elements the reply hands out
          AfterPush(_, _, _, _),  \* AfterPush(d, side, k, n): d after a push of n elements to k
          QuietFills(_),    \* QuietFills(d): what writes that wake nobody can make of d
          MaxWaiting,       \* bound: how many commands block
          MaxRun,           \* bound: how many commands are run
          MaxClosed         \* bound: how many connections close

VARIABLES lists,            \* the database
          closed,           \* the connections that are gone from connections_
          context,          \* the command context: its client, or Nil, and whether
                            \* its connection is other than null
          wait_queues,      \* key -> sequence of BlockedClient
          timeout_timers,   \* client -> is its timer still to expire
          adding,           \* AddBlockedClient between its two locks, or Nil
          expired,          \* the timer handlers the I/O thread has to run
          handling,         \* HandleTimeout between its two locks, or Nil
          run,              \* commands run
          pushed,           \* elements pushed
          taken,            \* elements handed to a client
          lost,             \* elements popped for an answer that went nowhere
          answers           \* answers[t]: answers to the t-th command that blocked

blockingVars == <<lists, closed, context, wait_queues, timeout_timers, adding, expired, handling,
                  run, pushed, taken, lost, answers>>

BlockingInit ==
    /\ lists = NoLists
    /\ closed = {}
    /\ context = [client |-> Nil, linked |-> FALSE]
    /\ wait_queues = EmptyMap
    /\ timeout_timers = EmptyMap
    /\ adding = Nil
    /\ expired = <<>>
    /\ handling = Nil
    /\ run = 0 /\ pushed = 0 /\ taken = 0 /\ lost = 0
    /\ answers = <<>>

-----------------------------------------------------------------------------
(* The wait queues                                                         *)

BlockingCommands == {"BLPOP", "BRPOP", "BLMPOP", "BLMOVE", "BZPOPMIN", "BZPOPMAX", "BZMPOP"}

\* The queue the client is put in: the first key's.  For BRPOP the key is read
\* from a BlockedClient that has been moved from.
QueueKey(command) ==
    IF command = "BRPOP" THEN MovedFrom
    ELSE IF command \in {"BLPOP", "BLMPOP", "BLMOVE"} THEN ListKeys[1] ELSE ZSetKey

Queue(k) == IF MapContains(wait_queues, k) THEN wait_queues[k] ELSE <<>>

SetQueue(k, q) == IF q = <<>> THEN MapRemove(wait_queues, k) ELSE MapInsert(wait_queues, k, q)

-----------------------------------------------------------------------------
(* The executor thread                                                     *)

\* A command of client c, which may have closed its connection since it sent it,
\* or (c = Nil) one that was forwarded.
Enter(c) ==
    /\ adding = Nil
    /\ run < MaxRun
    /\ run' = run + 1
    /\ context' = IF c = Nil THEN context ELSE [client |-> c, linked |-> c \notin closed]

\* The command finds something, or has a timeout of zero and gives up, or
\* blocks, and is answered with a null; the timer is armed and entered before
\* the client is queued.
BlockOrPop(c, command) ==
    LET r == Attempt(lists, command, FALSE)
    IN /\ Enter(c)
       /\ lists' = r.db
       /\ \/ /\ r.reply # Nil
             /\ taken' = taken + TakenBy(command, r.reply)
             /\ UNCHANGED <<adding, timeout_timers, answers>>
          \/ r.reply = Nil /\ UNCHANGED <<adding, timeout_timers, answers, taken>>
          \/ /\ r.reply = Nil
             /\ Len(answers) < MaxWaiting
             /\ answers' = Append(answers, 1)
             /\ adding' = [client |-> context'.client, linked |-> context'.linked, command |-> command,
                           ticket |-> Len(answers) + 1]
             /\ timeout_timers' = MapInsert(timeout_timers, context'.client, TRUE)
             /\ UNCHANGED taken
       /\ UNCHANGED <<closed, wait_queues, expired, handling, pushed, lost>>

\* AddBlockedClient, second half.
AddToQueue ==
    /\ adding # Nil
    /\ wait_queues' = SetQueue(QueueKey(adding.command), Append(Queue(QueueKey(adding.command)), adding))
    /\ adding' = Nil
    /\ UNCHANGED <<lists, closed, context, timeout_timers, expired, handling, run, pushed, taken, lost, answers>>

\* The answer, with n elements, goes to the connection of the wait, or nowhere.
SendLate(b, n) ==
    \/ b.linked /\ b.client \notin closed /\ taken' = taken + n /\ UNCHANGED lost
    \/ lost' = lost + n /\ UNCHANGED taken

\* Mutant: the client that came last is woken.
WakeLast(k, d) ==
    LET q == Queue(k)
        b == q[Len(q)]
        r == Attempt(d, b.command, TRUE)
    IN IF q = <<>>
       THEN lists' = d /\ UNCHANGED <<wait_queues, timeout_timers, taken, lost, answers>>
       ELSE /\ wait_queues' = SetQueue(k, SubSeq(q, 1, Len(q) - 1))
            /\ timeout_timers' = MapRemove(timeout_timers, b.client)
            /\ lists' = r.db
            /\ SendLate(b, TakenBy(b.command, r.reply))
            /\ answers' = [answers EXCEPT ![b.ticket] = @ + 1]

\* Mutant: the callback answers with the elements but leaves them in the list.
WakeAndPeek(k, d) ==
    LET b == Head(Queue(k))
        r == Attempt(d, b.command, TRUE)
    IN IF Queue(k) = <<>>
       THEN lists' = d /\ UNCHANGED <<wait_queues, timeout_timers, taken, lost, answers>>
       ELSE /\ wait_queues' = SetQueue(k, Tail(Queue(k)))
            /\ timeout_timers' = MapRemove(timeout_timers, b.client)
            /\ lists' = d
            /\ SendLate(b, TakenBy(b.command, r.reply))
            /\ answers' = [answers EXCEPT ![b.ticket] = @ + 1]

\* One client per call.  Its timer is cancelled, its callback run on d, and only
\* then is its connection looked at.
WakeUpBlockedClients(k, d) ==
    LET b == Head(Queue(k))
        r == Attempt(d, b.command, TRUE)
    IN IF Queue(k) = <<>>
       THEN lists' = d /\ UNCHANGED <<wait_queues, timeout_timers, taken, lost, answers>>
       ELSE /\ wait_queues' = SetQueue(k, Tail(Queue(k)))
            /\ timeout_timers' = MapRemove(timeout_timers, b.client)
            /\ lists' = r.db
            /\ SendLate(b, TakenBy(b.command, r.reply))
            /\ answers' = [answers EXCEPT ![b.ticket] = @ + 1]

\* LPUSH and RPUSH wake one client, however many elements they push.
PushAndWake(c, side, k, n) ==
    /\ Enter(c)
    /\ pushed' = pushed + n
    /\ WakeUpBlockedClients(k, AfterPush(lists, side, k, n))
    /\ UNCHANGED <<closed, adding, expired, handling>>

\* Commands that fill a list or a sorted set and wake nobody.
FillQuietly(c) ==
    /\ Enter(c)
    /\ \E f \in QuietFills(lists) : lists' = f.db /\ pushed' = pushed + f.pushed
    /\ UNCHANGED <<closed, wait_queues, timeout_timers, adding, expired, handling, taken, lost, answers>>

-----------------------------------------------------------------------------
(* The I/O thread                                                          *)

\* The read loop of a connection ends and its worker forgets it.
Close(c) ==
    /\ c \notin closed
    /\ Cardinality(closed) < MaxClosed
    /\ closed' = closed \cup {c}
    /\ UNCHANGED <<lists, context, wait_queues, timeout_timers, adding, expired, handling,
                   run, pushed, taken, lost, answers>>

\* A timer expires and its handler is queued; a cancel comes too late for it.
Expire(c) ==
    /\ MapContains(timeout_timers, c)
    /\ timeout_timers[c]
    /\ timeout_timers' = [timeout_timers EXCEPT ![c] = FALSE]
    /\ expired' = Append(expired, c)
    /\ UNCHANGED <<lists, closed, context, wait_queues, adding, handling, run, pushed, taken, lost, answers>>

\* The place of the first of the client's waits in the queue of a key: a set of
\* one or none.
FirstOf(k, c) ==
    {i \in DOMAIN Queue(k) : Queue(k)[i].client = c /\ \A j \in 1..i - 1 : Queue(k)[j].client # c}

\* erase: what follows place i moves up.
Without(q, i) == [j \in 1..Len(q) - 1 |-> IF j < i THEN q[j] ELSE q[j + 1]]

\* Mutant: the client is found and answered but stays in its queue.
FindExpiredOnly ==
    /\ handling = Nil
    /\ expired # <<>>
    /\ expired' = Tail(expired)
    /\ LET c == Head(expired)
           waiting == {k \in DOMAIN wait_queues : FirstOf(k, c) # {}}
       IN \/ waiting = {} /\ handling' = [client |-> c, found |-> FALSE] /\ UNCHANGED <<wait_queues, answers>>
          \/ \E k \in waiting : \E i \in FirstOf(k, c) :
                /\ handling' = [client |-> c, found |-> TRUE]
                /\ answers' = [answers EXCEPT ![Queue(k)[i].ticket] = @ + 1]
                /\ UNCHANGED wait_queues
    /\ UNCHANGED <<lists, closed, context, timeout_timers, adding, run, pushed, taken, lost>>

\* HandleTimeout takes a client out of the first queue, in the order of the hash
\* map, that has it; its nil is sent after the second half.
RemoveExpired ==
    /\ handling = Nil
    /\ expired # <<>>
    /\ expired' = Tail(expired)
    /\ LET c == Head(expired)
           waiting == {k \in DOMAIN wait_queues : FirstOf(k, c) # {}}
       IN \/ waiting = {} /\ handling' = [client |-> c, found |-> FALSE] /\ UNCHANGED <<wait_queues, answers>>
          \/ \E k \in waiting : \E i \in FirstOf(k, c) :
                /\ handling' = [client |-> c, found |-> TRUE]
                /\ answers' = [answers EXCEPT ![Queue(k)[i].ticket] = @ + 1]
                /\ wait_queues' = SetQueue(k, Without(Queue(k), i))
    /\ UNCHANGED <<lists, closed, context, timeout_timers, adding, run, pushed, taken, lost>>

\* HandleTimeout, second half: the timer of the client goes, whichever it is.
DropTimer ==
    /\ handling # Nil
    /\ timeout_timers' = MapRemove(timeout_timers, handling.client)
    /\ handling' = Nil
    /\ UNCHANGED <<lists, closed, context, wait_queues, adding, expired, run, pushed, taken, lost, answers>>

-----------------------------------------------------------------------------

ExecutorStep ==
    \/ \E c \in Clients \cup {Nil} :
          \/ \E command \in BlockingCommands : BlockOrPop(c, command)
          \/ \E i \in 1..2, side \in {"LEFT", "RIGHT"}, n \in 1..2 : PushAndWake(c, side, ListKeys[i], n)
          \/ FillQuietly(c)
    \/ AddToQueue

IoStep ==
    \/ \E c \in Clients : Close(c)
    \/ \E c \in Clients \cup {Nil} : Expire(c)
    \/ RemoveExpired
    \/ DropTimer

BlockingNext == ExecutorStep \/ IoStep

BlockingSpec == BlockingInit /\ [][BlockingNext]_blockingVars

-----------------------------------------------------------------------------
(* Properties                                                              *)

\* A command that blocks is answered twice at most: with the null that
\* DataShard::Execute makes of it at once, and late once more.  Waking it and
\* its timeout, on two threads, do not both answer it, also when its client has
\* blocked again in the meantime.
AnsweredLateOnce == \A t \in DOMAIN answers : answers[t] <= 2

\* First come, first served: while a command waits in the queue of a key no
\* command that came later to that queue is woken.
WaitersInOrder ==
    [][\A k \in DOMAIN wait_queues :
          \A i, j \in DOMAIN wait_queues[k] :
              (/\ wait_queues[k][i].ticket < wait_queues[k][j].ticket
               /\ answers'[wait_queues[k][j].ticket] > answers[wait_queues[k][j].ticket]
               /\ expired' = expired)
                  => answers'[wait_queues[k][i].ticket] > answers[wait_queues[k][i].ticket]]_blockingVars

=============================================================================
