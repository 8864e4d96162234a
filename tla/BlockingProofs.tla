--------------------------- MODULE BlockingProofs ---------------------------
(***************************************************************************)
(* A command that blocks is answered late once at most, and the commands   *)
(* of one queue in the order they came, for any clients, keys and number   *)
(* of commands, and whatever the database answers them.                    *)
(***************************************************************************)
EXTENDS BlockingManager, SequenceTheorems, TLAPS

Context == [client : Clients \cup {Nil}, linked : BOOLEAN]

Waiter == [client : Clients \cup {Nil}, linked : BOOLEAN, command : BlockingCommands, ticket : Nat]

BlockedTypes ==
    /\ answers \in Seq(Nat)
    /\ context \in Context
    /\ adding # Nil => adding \in Waiter
    /\ \A k \in DOMAIN wait_queues : wait_queues[k] \in Seq(Waiter)

\* Commands that wait have had the null and no other answer; no two have the same ticket, in
\* whatever queues, and each queue has them in the order they came.
Unanswered ==
    \A k \in DOMAIN wait_queues : \A i \in 1..Len(wait_queues[k]) :
        LET t == wait_queues[k][i].ticket
        IN t \in 1..Len(answers) /\ answers[t] = 1

OneTicketEach ==
    \A k, l \in DOMAIN wait_queues : \A i \in 1..Len(wait_queues[k]), j \in 1..Len(wait_queues[l]) :
        wait_queues[k][i].ticket = wait_queues[l][j].ticket => k = l /\ i = j

QueuedInOrder ==
    \A k \in DOMAIN wait_queues : \A i, j \in 1..Len(wait_queues[k]) :
        i < j => wait_queues[k][i].ticket < wait_queues[k][j].ticket

\* The command on its way came last.
AddedLast ==
    adding # Nil =>
        /\ adding.ticket \in 1..Len(answers) /\ answers[adding.ticket] = 1
        /\ \A k \in DOMAIN wait_queues : \A i \in 1..Len(wait_queues[k]) :
              wait_queues[k][i].ticket < adding.ticket

BlockedInv ==
    /\ BlockedTypes
    /\ Unanswered
    /\ OneTicketEach
    /\ QueuedInOrder
    /\ AddedLast
    /\ AnsweredLateOnce

-----------------------------------------------------------------------------
(* What happens to the queues                                              *)

LEMMA FunctionIsSeq == ASSUME NEW S, NEW n \in Nat, NEW f \in [1..n -> S] PROVE f \in Seq(S) /\ Len(f) = n
OBVIOUS

\* A queue that is not empty is in the map.
LEMMA QueueIs ==
  ASSUME NEW k, Queue(k) # <<>>
  PROVE  k \in DOMAIN wait_queues /\ Queue(k) = wait_queues[k]
BY DEF Queue, MapContains

\* Steps that leave the queues and the answers alone.
LEMMA QueuesStay ==
  ASSUME BlockedInv, UNCHANGED <<wait_queues, adding, answers>>, context' \in Context
  PROVE  BlockedInv'
BY DEF BlockedInv, BlockedTypes, Unanswered, OneTicketEach, QueuedInOrder, AddedLast, AnsweredLateOnce

\* A command blocks: it takes the next ticket.
LEMMA TicketTaken ==
  ASSUME BlockedInv, adding = Nil, UNCHANGED wait_queues, answers' = Append(answers, 1),
         context' \in Context, adding' \in Waiter, adding'.ticket = Len(answers) + 1
  PROVE  BlockedInv'
<1> DEFINE n == Len(answers)
<1>1. answers \in Seq(Nat) /\ n \in Nat
  BY DEF BlockedInv, BlockedTypes
<1>2. /\ answers' \in Seq(Nat) /\ Len(answers') = n + 1
      /\ \A t \in 1..n : answers'[t] = answers[t]
      /\ answers'[n + 1] = 1
  BY <1>1
<1>3. DOMAIN answers = 1..n /\ DOMAIN answers' = 1..n + 1
  BY <1>1, <1>2
<1> HIDE DEF n
<1>4. \A t \in 1..n + 1 : t \in 1..n \/ t = n + 1
  BY <1>1
<1>5. \A t \in 1..n : t \in 1..n + 1 /\ t < n + 1
  BY <1>1
<1>6. BlockedTypes'
  BY <1>2 DEF BlockedInv, BlockedTypes
<1>7. Unanswered'
  BY <1>2, <1>5 DEF BlockedInv, Unanswered, n
<1>8. OneTicketEach' /\ QueuedInOrder'
  BY DEF BlockedInv, OneTicketEach, QueuedInOrder
<1>9. AddedLast'
  <2>1. n + 1 \in 1..n + 1
    BY <1>1
  <2> QED BY <1>2, <1>5, <2>1 DEF BlockedInv, Unanswered, AddedLast, n
<1>10. AnsweredLateOnce'
  BY <1>2, <1>3, <1>4 DEF BlockedInv, AnsweredLateOnce
<1> QED BY <1>6, <1>7, <1>8, <1>9, <1>10 DEF BlockedInv

\* It joins a queue, behind those that came before it.
LEMMA WaiterQueued ==
  ASSUME BlockedInv, adding # Nil, NEW k, wait_queues' = SetQueue(k, Append(Queue(k), adding)),
         adding' = Nil, UNCHANGED <<answers, context>>
  PROVE  BlockedInv'
<1> DEFINE q == Queue(k)
           p == Append(q, adding)
           n == Len(q)
<1>1. q \in Seq(Waiter) /\ n \in Nat /\ adding \in Waiter
  <2>1. CASE q = <<>>
    BY <2>1 DEF BlockedInv, BlockedTypes
  <2>2. CASE q # <<>>
    BY <2>2, QueueIs DEF BlockedInv, BlockedTypes
  <2> QED BY <2>1, <2>2
<1>2. p \in Seq(Waiter) /\ Len(p) = n + 1 /\ p[n + 1] = adding /\ \A i \in 1..n : p[i] = q[i]
  BY <1>1
<1>3. \A i \in 1..n : k \in DOMAIN wait_queues /\ wait_queues[k] = q
  <2>1. CASE q = <<>>
    BY <2>1
  <2>2. CASE q # <<>>
    BY <2>2, QueueIs
  <2> QED BY <2>1, <2>2
<1>4. \A l \in DOMAIN wait_queues' :
         IF l = k THEN wait_queues'[l] = p
         ELSE l \in DOMAIN wait_queues /\ wait_queues'[l] = wait_queues[l]
  <2>1. wait_queues' = SetQueue(k, p)
    OBVIOUS
  <2> HIDE DEF p
  <2> QED BY <2>1 DEF SetQueue, MapRemove, MapInsert
<1>5. \A i \in 1..n + 1 : (i \in 1..n /\ i < n + 1) \/ i = n + 1
  BY <1>1
<1> HIDE DEF q, p, n
<1>6. ASSUME NEW l \in DOMAIN wait_queues', NEW i \in 1..Len(wait_queues'[l])
      PROVE  \/ /\ l \in DOMAIN wait_queues /\ i \in 1..Len(wait_queues[l])
                /\ wait_queues'[l][i] = wait_queues[l][i]
             \/ l = k /\ i = n + 1 /\ wait_queues'[l][i] = adding
  <2>1. CASE l = k
    BY <1>2, <1>3, <1>4, <1>5, <2>1 DEF n
  <2>2. CASE l # k
    BY <1>4, <2>2
  <2> QED BY <2>1, <2>2
<1>7. ASSUME NEW i \in 1..Len(wait_queues'[k]), NEW j \in 1..Len(wait_queues'[k]), i < j,
             k \in DOMAIN wait_queues'
      PROVE  i \in 1..n /\ wait_queues'[k][i] = wait_queues[k][i] /\ k \in DOMAIN wait_queues
  <2>1. wait_queues'[k] = p
    BY <1>4, <1>7
  <2>2. i \in 1..n
    BY <1>1, <1>2, <1>7, <2>1
  <2> QED BY <1>2, <1>3, <2>1, <2>2
<1>8. BlockedTypes'
  BY <1>2, <1>4 DEF BlockedInv, BlockedTypes
<1>9. Unanswered'
  BY <1>6 DEF BlockedInv, Unanswered, AddedLast
<1>10. OneTicketEach'
  <2>1. \A l \in DOMAIN wait_queues : \A i \in 1..Len(wait_queues[l]) :
            wait_queues[l][i].ticket # adding.ticket
    BY <1>1 DEF BlockedInv, AddedLast, Unanswered, Waiter
  <2> QED BY <1>6, <2>1 DEF BlockedInv, OneTicketEach
<1>11. QueuedInOrder'
  <2> SUFFICES ASSUME NEW l \in DOMAIN wait_queues', NEW i \in 1..Len(wait_queues'[l]),
                      NEW j \in 1..Len(wait_queues'[l]), i < j
               PROVE  wait_queues'[l][i].ticket < wait_queues'[l][j].ticket
    BY DEF QueuedInOrder
  <2>1. CASE l # k
    BY <1>4, <2>1 DEF BlockedInv, QueuedInOrder
  <2>2. CASE l = k
    <3>1. i \in 1..n /\ wait_queues'[k][i] = wait_queues[k][i] /\ k \in DOMAIN wait_queues
      BY <1>7, <2>2
    <3>2. i \in 1..Len(wait_queues[k])
      BY <1>3, <3>1 DEF n
    <3>3. CASE j \in 1..Len(wait_queues[k]) /\ wait_queues'[k][j] = wait_queues[k][j]
      BY <2>2, <3>1, <3>2, <3>3 DEF BlockedInv, QueuedInOrder
    <3>4. CASE wait_queues'[k][j] = adding
      BY <2>2, <3>1, <3>2, <3>4 DEF BlockedInv, AddedLast
    <3> QED BY <1>6, <2>2, <3>3, <3>4
  <2> QED BY <2>1, <2>2
<1>12. AddedLast' /\ AnsweredLateOnce'
  BY DEF BlockedInv, AddedLast, AnsweredLateOnce
<1> QED BY <1>8, <1>9, <1>10, <1>11, <1>12 DEF BlockedInv

\* The place n of a queue is answered and taken out of it.
LEMMA WaiterAnswered ==
  ASSUME BlockedInv, NEW k \in DOMAIN wait_queues, NEW n \in 1..Len(wait_queues[k]),
         NEW p \in Seq(Waiter), Len(p) = Len(wait_queues[k]) - 1,
         \A j \in 1..Len(p) : p[j] = IF j < n THEN wait_queues[k][j] ELSE wait_queues[k][j + 1],
         wait_queues' = SetQueue(k, p),
         answers' = [answers EXCEPT ![wait_queues[k][n].ticket] = @ + 1],
         UNCHANGED adding, context' \in Context
  PROVE  BlockedInv'
<1> DEFINE q == wait_queues[k]
           b == q[n].ticket
           Old(j) == IF j < n THEN j ELSE j + 1
<1>1. q \in Seq(Waiter) /\ Len(q) \in Nat /\ Len(p) \in Nat /\ answers \in Seq(Nat)
  BY DEF BlockedInv, BlockedTypes
<1>2. b \in 1..Len(answers) /\ answers[b] = 1
  BY DEF BlockedInv, Unanswered
<1>3. /\ answers' \in Seq(Nat) /\ Len(answers') = Len(answers) /\ answers'[b] = 2
      /\ \A t \in 1..Len(answers) : t # b => answers'[t] = answers[t]
  <2>1. answers' = [answers EXCEPT ![b] = 2]
    BY <1>1, <1>2
  <2> HIDE DEF b
  <2> QED BY <1>1, <1>2, <2>1
<1>4. \A l \in DOMAIN wait_queues' :
         IF l = k THEN wait_queues'[l] = p
         ELSE l \in DOMAIN wait_queues /\ wait_queues'[l] = wait_queues[l]
  BY DEF SetQueue, MapRemove, MapInsert
<1>5. /\ \A j \in 1..Len(p) : Old(j) \in 1..Len(q) /\ Old(j) # n /\ p[j] = q[Old(j)]
      /\ \A i, j \in 1..Len(p) : i < j => Old(i) < Old(j)
      /\ \A i, j \in 1..Len(p) : Old(i) = Old(j) => i = j
  BY <1>1
<1> DEFINE Was(l, i) == IF l = k THEN Old(i) ELSE i
<1> HIDE DEF Old, b
\* Who waits now has waited before, at another place than n of k.
<1>6. ASSUME NEW l \in DOMAIN wait_queues', NEW i \in 1..Len(wait_queues'[l])
      PROVE  /\ l \in DOMAIN wait_queues /\ Was(l, i) \in 1..Len(wait_queues[l])
             /\ wait_queues'[l][i] = wait_queues[l][Was(l, i)]
             /\ wait_queues[l][Was(l, i)].ticket # b
  <2>1. CASE l = k
    BY <1>4, <1>5, <2>1 DEF BlockedInv, OneTicketEach, b
  <2>2. CASE l # k
    BY <1>4, <2>2 DEF BlockedInv, OneTicketEach, b
  <2> QED BY <2>1, <2>2
<1>7. ASSUME NEW l \in DOMAIN wait_queues', NEW i \in 1..Len(wait_queues'[l]),
             NEW j \in 1..Len(wait_queues'[l])
      PROVE  (i < j => Was(l, i) < Was(l, j)) /\ (Was(l, i) = Was(l, j) => i = j)
  BY <1>4, <1>5
<1> HIDE DEF Was
<1>8. BlockedTypes'
  BY <1>3, <1>4, Zenon DEF BlockedInv, BlockedTypes
<1>9. Unanswered'
  <2> SUFFICES ASSUME NEW l \in DOMAIN wait_queues', NEW i \in 1..Len(wait_queues'[l])
               PROVE  LET t == wait_queues'[l][i].ticket
                      IN t \in 1..Len(answers') /\ answers'[t] = 1
    BY DEF Unanswered
  <2> DEFINE t == wait_queues'[l][i].ticket
  <2>1. t \in 1..Len(answers) /\ answers[t] = 1 /\ t # b
    BY <1>6 DEF BlockedInv, Unanswered
  <2> HIDE DEF t
  <2>2. t \in 1..Len(answers') /\ answers'[t] = 1
    BY <1>3, <2>1
  <2> QED BY <2>2 DEF t
<1>10. OneTicketEach'
  <2> SUFFICES ASSUME NEW l \in DOMAIN wait_queues', NEW m \in DOMAIN wait_queues',
                      NEW i \in 1..Len(wait_queues'[l]), NEW j \in 1..Len(wait_queues'[m]),
                      wait_queues'[l][i].ticket = wait_queues'[m][j].ticket
               PROVE  l = m /\ i = j
    BY DEF OneTicketEach
  <2>1. l = m /\ Was(l, i) = Was(m, j)
    <3>1. /\ l \in DOMAIN wait_queues /\ Was(l, i) \in 1..Len(wait_queues[l])
          /\ m \in DOMAIN wait_queues /\ Was(m, j) \in 1..Len(wait_queues[m])
          /\ wait_queues[l][Was(l, i)].ticket = wait_queues[m][Was(m, j)].ticket
      BY <1>6, SMTT(30)
    <3>2. OneTicketEach
      BY DEF BlockedInv
    <3> QED BY ONLY <3>1, <3>2 DEF OneTicketEach
  <2> QED BY <1>7, <2>1
<1>11. QueuedInOrder'
  <2> SUFFICES ASSUME NEW l \in DOMAIN wait_queues', NEW i \in 1..Len(wait_queues'[l]),
                      NEW j \in 1..Len(wait_queues'[l]), i < j
               PROVE  wait_queues'[l][i].ticket < wait_queues'[l][j].ticket
    BY DEF QueuedInOrder
  <2>1. /\ l \in DOMAIN wait_queues
        /\ Was(l, i) \in 1..Len(wait_queues[l]) /\ Was(l, j) \in 1..Len(wait_queues[l])
        /\ wait_queues'[l][i] = wait_queues[l][Was(l, i)]
        /\ wait_queues'[l][j] = wait_queues[l][Was(l, j)]
    BY <1>6
  <2>2. Was(l, i) < Was(l, j)
    BY <1>7
  <2> QED BY <2>1, <2>2 DEF BlockedInv, QueuedInOrder
<1>12. AddedLast'
  <2> SUFFICES ASSUME adding # Nil
               PROVE  /\ adding.ticket \in 1..Len(answers') /\ answers'[adding.ticket] = 1
                      /\ \A l \in DOMAIN wait_queues' : \A i \in 1..Len(wait_queues'[l]) :
                            wait_queues'[l][i].ticket < adding.ticket
    BY DEF AddedLast
  <2>1. adding.ticket \in 1..Len(answers) /\ answers[adding.ticket] = 1 /\ b < adding.ticket
    BY DEF BlockedInv, AddedLast, b
  <2>2. adding.ticket # b
    BY <1>1, <1>2, <2>1
  <2>3. ASSUME NEW l \in DOMAIN wait_queues', NEW i \in 1..Len(wait_queues'[l])
        PROVE  wait_queues'[l][i].ticket < adding.ticket
    BY <1>6, SMTT(30) DEF BlockedInv, AddedLast
  <2> QED BY <1>3, <2>1, <2>2, <2>3
<1>13. AnsweredLateOnce'
  <2>1. DOMAIN answers = 1..Len(answers) /\ DOMAIN answers' = 1..Len(answers)
    BY <1>1, <1>3
  <2> QED BY <1>3, <2>1 DEF BlockedInv, AnsweredLateOnce
<1> QED BY <1>8, <1>9, <1>10, <1>11, <1>12, <1>13 DEF BlockedInv

-----------------------------------------------------------------------------
(* The steps                                                               *)

LEMMA BlockingInitInv == BlockingInit => BlockedInv
BY DEF BlockingInit, BlockedInv, BlockedTypes, Unanswered, OneTicketEach, QueuedInOrder,
       AddedLast, AnsweredLateOnce, EmptyMap, Context

LEMMA EnterContext ==
  ASSUME BlockedInv, NEW c \in Clients \cup {Nil}, Enter(c)
  PROVE  context' \in Context /\ adding = Nil
BY DEF Enter, BlockedInv, BlockedTypes, Context

LEMMA WakeInv ==
  ASSUME BlockedInv, NEW k, NEW d, WakeUpBlockedClients(k, d), UNCHANGED adding,
         context' \in Context
  PROVE  BlockedInv'
<1>1. CASE Queue(k) = <<>>
  BY <1>1, QueuesStay DEF WakeUpBlockedClients
<1>2. CASE Queue(k) # <<>>
  <2> DEFINE q == wait_queues[k]
             p == Tail(q)
  <2>1. k \in DOMAIN wait_queues /\ Queue(k) = q
    BY <1>2, QueueIs
  <2>2. q \in Seq(Waiter) /\ q # <<>>
    BY <1>2, <2>1 DEF BlockedInv, BlockedTypes
  <2>3. /\ 1 \in 1..Len(q) /\ p \in Seq(Waiter) /\ Len(p) = Len(q) - 1 /\ Head(q) = q[1]
        /\ \A j \in 1..Len(p) : p[j] = IF j < 1 THEN q[j] ELSE q[j + 1]
    BY <2>2
  <2>4. /\ wait_queues' = SetQueue(k, p)
        /\ answers' = [answers EXCEPT ![q[1].ticket] = @ + 1]
    BY <1>2, <2>1, <2>3 DEF WakeUpBlockedClients
  <2> HIDE DEF p
  <2> QED BY <2>1, <2>3, <2>4, WaiterAnswered, Zenon
<1> QED BY <1>1, <1>2

LEMMA BlockOrPopInv ==
  ASSUME BlockedInv, NEW c \in Clients \cup {Nil}, NEW command \in BlockingCommands, BlockOrPop(c, command)
  PROVE  BlockedInv'
<1>1. context' \in Context /\ adding = Nil /\ UNCHANGED wait_queues
  BY EnterContext DEF BlockOrPop
<1>2. CASE UNCHANGED <<adding, answers>>
  BY <1>1, <1>2, QueuesStay
<1>3. CASE /\ answers' = Append(answers, 1)
           /\ adding' = [client |-> context'.client, linked |-> context'.linked, command |-> command,
                         ticket |-> Len(answers) + 1]
  <2>1. Len(answers) + 1 \in Nat
    BY DEF BlockedInv, BlockedTypes
  <2>2. adding' \in Waiter /\ adding'.ticket = Len(answers) + 1
    BY <1>1, <1>3, <2>1 DEF Waiter, Context
  <2> QED BY <1>1, <1>3, <2>2, TicketTaken
<1> QED BY <1>2, <1>3, Zenon DEF BlockOrPop

LEMMA RemoveExpiredInv ==
  ASSUME BlockedInv, RemoveExpired
  PROVE  BlockedInv'
<1> DEFINE c == Head(expired)
<1>1. context' \in Context /\ UNCHANGED adding
  BY DEF RemoveExpired, BlockedInv, BlockedTypes
<1>2. CASE UNCHANGED <<wait_queues, answers>>
  BY <1>1, <1>2, QueuesStay
<1>3. ASSUME NEW k \in DOMAIN wait_queues, NEW i \in FirstOf(k, c),
             answers' = [answers EXCEPT ![Queue(k)[i].ticket] = @ + 1],
             wait_queues' = SetQueue(k, Without(Queue(k), i))
      PROVE  BlockedInv'
  <2> DEFINE q == wait_queues[k]
             p == Without(q, i)
  <2>1. Queue(k) = q
    BY DEF Queue, MapContains
  <2>2. q \in Seq(Waiter)
    BY DEF BlockedInv, BlockedTypes
  <2>3. i \in 1..Len(q) /\ Len(q) \in Nat
    BY <2>1, <2>2 DEF FirstOf
  <2>4. /\ p \in Seq(Waiter) /\ Len(p) = Len(q) - 1
        /\ \A j \in 1..Len(p) : p[j] = IF j < i THEN q[j] ELSE q[j + 1]
    <3>1. Len(q) - 1 \in Nat /\ \A j \in 1..Len(q) - 1 : j \in 1..Len(q) /\ j + 1 \in 1..Len(q)
      BY <2>3
    <3>2. p \in [1..Len(q) - 1 -> Waiter]
      BY <2>2, <3>1 DEF Without
    <3> HIDE DEF p
    <3>3. p \in Seq(Waiter) /\ Len(p) = Len(q) - 1
      BY <3>1, <3>2, FunctionIsSeq, ZenonT(40)
    <3> QED BY <3>3, Zenon DEF p, Without
  <2> HIDE DEF p
  <2>5. wait_queues' = SetQueue(k, p) /\ answers' = [answers EXCEPT ![q[i].ticket] = @ + 1]
    BY <1>3, <2>1 DEF p
  <2> QED BY <1>1, <2>3, <2>4, <2>5, WaiterAnswered, Zenon
<1> QED BY <1>2, <1>3 DEF RemoveExpired

\* Every step keeps the invariant.
LEMMA BlockingNextInv == BlockedInv /\ [BlockingNext]_blockingVars => BlockedInv'
<1> SUFFICES ASSUME BlockedInv, [BlockingNext]_blockingVars PROVE BlockedInv'
  OBVIOUS
<1>0. context \in Context
  BY DEF BlockedInv, BlockedTypes
<1>1. ASSUME NEW c \in Clients \cup {Nil}, NEW command \in BlockingCommands, BlockOrPop(c, command)
      PROVE  BlockedInv'
  BY <1>1, BlockOrPopInv
<1>2. ASSUME NEW c \in Clients \cup {Nil}, NEW side, NEW k, NEW n, PushAndWake(c, side, k, n)
      PROVE  BlockedInv'
  BY <1>2, EnterContext, WakeInv DEF PushAndWake
<1>3. ASSUME NEW c \in Clients \cup {Nil}, FillQuietly(c) PROVE BlockedInv'
  BY <1>3, EnterContext, QueuesStay DEF FillQuietly
<1>4. CASE AddToQueue
  BY <1>4, WaiterQueued DEF AddToQueue
<1>5. ASSUME NEW c, Expire(c) PROVE BlockedInv'
  BY <1>0, <1>5, QueuesStay DEF Expire
<1>6. CASE RemoveExpired
  BY <1>6, RemoveExpiredInv
<1>7. CASE DropTimer
  BY <1>0, <1>7, QueuesStay DEF DropTimer
<1>8. ASSUME NEW c, Close(c) PROVE BlockedInv'
  BY <1>0, <1>8, QueuesStay DEF Close
<1>9. CASE UNCHANGED blockingVars
  BY <1>0, <1>9, QueuesStay DEF blockingVars
<1> QED BY <1>1, <1>2, <1>3, <1>4, <1>5, <1>6, <1>7, <1>8, <1>9 DEF BlockingNext, ExecutorStep, IoStep

\* The handlers of expired timers.
ExpiredTypes == expired \in Seq(Clients \cup {Nil})

LEMMA ExpiredKept == ExpiredTypes /\ [BlockingNext]_blockingVars => ExpiredTypes'
<1> SUFFICES ASSUME ExpiredTypes, [BlockingNext]_blockingVars PROVE ExpiredTypes'
  OBVIOUS
<1>1. ASSUME NEW c \in Clients \cup {Nil}, Expire(c) PROVE ExpiredTypes'
  BY <1>1 DEF Expire, ExpiredTypes
<1>2. CASE RemoveExpired
  BY <1>2 DEF RemoveExpired, ExpiredTypes
<1>3. CASE UNCHANGED expired
  BY <1>3 DEF ExpiredTypes
<1> QED BY <1>1, <1>2, <1>3, Zenon DEF BlockingNext, ExecutorStep, IoStep, BlockOrPop, PushAndWake,
                                FillQuietly, AddToQueue, DropTimer, Close, blockingVars

-----------------------------------------------------------------------------
(* Theorems                                                                *)

\* Waking a command and its time-out, on two threads, never both answer it: with
\* the null it got when it blocked it has two answers at most.
THEOREM LateAnswersOnce == BlockingSpec => []AnsweredLateOnce
<1>1. BlockedInv => AnsweredLateOnce
  BY DEF BlockedInv
<1> QED BY <1>1, BlockingInitInv, BlockingNextInv, PTL DEF BlockingSpec

\* A wake-up answers the command of its queue that came first.
THEOREM ServedInOrder == BlockingSpec => WaitersInOrder
<1> DEFINE InOrder ==
      \A k \in DOMAIN wait_queues :
          \A i, j \in DOMAIN wait_queues[k] :
              (/\ wait_queues[k][i].ticket < wait_queues[k][j].ticket
               /\ answers'[wait_queues[k][j].ticket] > answers[wait_queues[k][j].ticket]
               /\ expired' = expired)
                  => answers'[wait_queues[k][i].ticket] > answers[wait_queues[k][i].ticket]
<1>1. ASSUME BlockedInv, NEW k \in DOMAIN wait_queues, NEW j \in 1..Len(wait_queues[k]),
             answers' = Append(answers, 1) \/ UNCHANGED answers
      PROVE  ~(answers'[wait_queues[k][j].ticket] > answers[wait_queues[k][j].ticket])
  <2>1. wait_queues[k][j].ticket \in 1..Len(answers) /\ answers \in Seq(Nat)
    BY <1>1 DEF BlockedInv, BlockedTypes, Unanswered
  <2>2. answers'[wait_queues[k][j].ticket] = answers[wait_queues[k][j].ticket]
    BY <1>1, <2>1
  <2>3. answers[wait_queues[k][j].ticket] \in Nat
    BY <2>1
  <2> QED BY <2>2, <2>3
<1>2. ASSUME BlockedInv, NEW l, NEW d, WakeUpBlockedClients(l, d),
             NEW k \in DOMAIN wait_queues, NEW i \in 1..Len(wait_queues[k]), NEW j \in 1..Len(wait_queues[k]),
             wait_queues[k][i].ticket < wait_queues[k][j].ticket
      PROVE  ~(answers'[wait_queues[k][j].ticket] > answers[wait_queues[k][j].ticket])
  <2>1. CASE Queue(l) = <<>>
    BY <1>1, <1>2, <2>1 DEF WakeUpBlockedClients
  <2>2. CASE Queue(l) # <<>>
    <3> DEFINE q == wait_queues[l]
               t == wait_queues[k][j].ticket
    <3>1. l \in DOMAIN wait_queues /\ Queue(l) = q
      BY <2>2, QueueIs
    <3>2. q \in Seq(Waiter) /\ q # <<>> /\ wait_queues[k] \in Seq(Waiter)
      BY <1>2, <2>2, <3>1 DEF BlockedInv, BlockedTypes
    <3>3. 1 \in 1..Len(q) /\ Head(q) = q[1]
      BY <3>2
    <3>4. answers' = [answers EXCEPT ![q[1].ticket] = @ + 1]
      BY <1>2, <2>2, <3>1, <3>3 DEF WakeUpBlockedClients
    <3>5. t # q[1].ticket
      <4> SUFFICES ASSUME t = q[1].ticket PROVE FALSE
        OBVIOUS
      <4>1. k = l /\ j = 1
        BY <1>2, <3>1, <3>3 DEF BlockedInv, OneTicketEach
      <4>2. i = 1 \/ 1 < i
        BY <3>2
      <4>3. wait_queues[k][1].ticket \in Nat /\ wait_queues[k][i].ticket \in Nat
        <5>1. wait_queues[k][1] \in Waiter /\ wait_queues[k][i] \in Waiter
          BY <1>2, <3>2, <3>3, <4>1, ElementOfSeq
        <5> QED BY <5>1 DEF Waiter
      <4>4. i # 1
        BY <1>2, <4>1, <4>3
      <4>5. wait_queues[k][1].ticket < wait_queues[k][i].ticket
        BY <1>2, <4>1, <4>2, <4>4 DEF BlockedInv, QueuedInOrder
      <4> QED BY <1>2, <4>1, <4>3, <4>5
    <3>6. t \in 1..Len(answers) /\ answers \in Seq(Nat) /\ answers[t] = 1
      BY <1>2 DEF BlockedInv, BlockedTypes, Unanswered
    <3> HIDE DEF t, q
    <3>7. answers'[t] = answers[t]
      BY <3>4, <3>5, <3>6
    <3> QED BY <3>6, <3>7 DEF t
  <2> QED BY <2>1, <2>2
<1>3. BlockedInv /\ ExpiredTypes /\ [BlockingNext]_blockingVars => InOrder
  <2> SUFFICES ASSUME BlockedInv, ExpiredTypes, [BlockingNext]_blockingVars,
                      NEW k \in DOMAIN wait_queues, NEW i \in DOMAIN wait_queues[k],
                      NEW j \in DOMAIN wait_queues[k],
                      wait_queues[k][i].ticket < wait_queues[k][j].ticket,
                      answers'[wait_queues[k][j].ticket] > answers[wait_queues[k][j].ticket],
                      expired' = expired
               PROVE  FALSE
    OBVIOUS
  <2>0. i \in 1..Len(wait_queues[k]) /\ j \in 1..Len(wait_queues[k])
    BY SMTT(30) DEF BlockedInv, BlockedTypes
  <2>1. ASSUME NEW c, NEW command, BlockOrPop(c, command) PROVE FALSE
    BY <1>1, <2>0, <2>1, Zenon DEF BlockOrPop
  <2>2. ASSUME NEW c, NEW side, NEW l, NEW n, PushAndWake(c, side, l, n) PROVE FALSE
    BY <1>2, <2>0, <2>2 DEF PushAndWake
  <2>3. ASSUME NEW c, FillQuietly(c) PROVE FALSE
    BY <1>1, <2>0, <2>3, Zenon DEF FillQuietly
  <2>4. CASE AddToQueue
    BY <1>1, <2>0, <2>4 DEF AddToQueue
  <2>5. ASSUME NEW c, Expire(c) PROVE FALSE
    BY <1>1, <2>0, <2>5 DEF Expire
  <2>6. CASE RemoveExpired
    BY <2>6 DEF ExpiredTypes, RemoveExpired
  <2>7. CASE DropTimer
    BY <1>1, <2>0, <2>7 DEF DropTimer
  <2>8. ASSUME NEW c, Close(c) PROVE FALSE
    BY <1>1, <2>0, <2>8 DEF Close
  <2>9. CASE UNCHANGED blockingVars
    BY <1>1, <2>0, <2>9 DEF blockingVars
  <2> QED BY <2>1, <2>2, <2>3, <2>4, <2>5, <2>6, <2>7, <2>8, <2>9 DEF BlockingNext, ExecutorStep, IoStep
<1>4. [BlockingNext]_blockingVars /\ BlockedInv /\ ExpiredTypes => [InOrder]_blockingVars
  BY <1>3
<1>5. BlockingInit => ExpiredTypes
  BY DEF BlockingInit, ExpiredTypes
<1> QED BY <1>4, <1>5, BlockingInitInv, BlockingNextInv, ExpiredKept, PTL DEF BlockingSpec, WaitersInOrder

=============================================================================
