---------------------------- MODULE BlockingLists ---------------------------
(***************************************************************************)
(* What the blocking commands of list_commands.cpp and zset_commands.cpp   *)
(* do to the database, for BlockingManager.                                *)
(***************************************************************************)
EXTENDS BlockingManager, ListCommands, ZSetCommands

CONSTANT Element            \* what is pushed

\* At first all the keys in order; once woken, the first key only.
HandleBLPop(d, woken) == HandleLMPop(d, IF woken THEN SubSeq(ListKeys, 1, 1) ELSE ListKeys, "LEFT", 1)

HandleBRPop(d, woken) == HandleLMPop(d, IF woken THEN SubSeq(ListKeys, 1, 1) ELSE ListKeys, "RIGHT", 1)

\* The others do the same once woken as at first.
HandleBLMPop(d) == HandleLMPop(d, ListKeys, "RIGHT", 2)

HandleBLMove(d) == HandleLMove(d, ListKeys[1], ListKeys[2], "LEFT", "RIGHT")

HandleBZPopMin(d) == HandleZMPop(d, <<ZSetKey>>, FALSE, 1)

HandleBZPopMax(d) == HandleZMPop(d, <<ZSetKey>>, TRUE, 1)

HandleBZMPop(d) == HandleZMPop(d, <<ZSetKey>>, TRUE, 2)

\* It never blocks.
HandleBRPopLPush(d) == HandleRPopLPush(d, ListKeys[2], ListKeys[1])

BlockingAttempt(d, command, woken) ==
    CASE command = "BLPOP" -> HandleBLPop(d, woken)
      [] command = "BRPOP" -> HandleBRPop(d, woken)
      [] command = "BLMPOP" -> HandleBLMPop(d)
      [] command = "BLMOVE" -> HandleBLMove(d)
      [] command = "BZPOPMIN" -> HandleBZPopMin(d)
      [] command = "BZPOPMAX" -> HandleBZPopMax(d)
      [] OTHER -> HandleBZMPop(d)

\* How many list elements a reply hands out; BLMOVE keeps its element.
ElementsTaken(command, reply) ==
    IF reply = Nil \/ command \notin {"BLPOP", "BRPOP", "BLMPOP"} THEN 0 ELSE Len(reply.values)

PushElements(d, side, k, n) ==
    LET values == [i \in 1..n |-> Element]
    IN (IF side = "LEFT" THEN HandleLPush(d, k, values) ELSE HandleRPush(d, k, values)).db

\* LMOVE, RPOPLPUSH and BRPOPLPUSH fill their destination, LPUSHX and RPUSHX a
\* list that is there, ZADD a sorted set, and none of them wakes anybody.
FillsThatWakeNobody(d) ==
    {[db |-> HandleLMove(d, ListKeys[2], ListKeys[1], from, to).db, pushed |-> 0] : from, to \in {"LEFT", "RIGHT"}}
    \cup {[db |-> HandleBRPopLPush(d).db, pushed |-> 0]}
    \cup {[db |-> HandlePushX(d, ListKeys[1], "LEFT", Element).db,
           pushed |-> IF LLenReply(d, ListKeys[1]) > 0 THEN 1 ELSE 0]}
    \cup {[db |-> HandleZAdd(d, ZSetKey, <<1>>, <<Element>>).db, pushed |-> 0]}

-----------------------------------------------------------------------------
(* Properties                                                              *)

\* No element is forgotten or handed out twice on the way through the wait
\* queues: each one pushed is in a list, was handed to a client, or was popped
\* for a late answer that went nowhere because the connection was null, closed
\* or not what Send takes it for.  A wait loses what it is woken with once, and
\* what a command finds at once is never lost.
ElementsAccountedFor ==
    /\ pushed = taken + lost + LLenReply(lists, ListKeys[1]) + LLenReply(lists, ListKeys[2])
    /\ lost <= 2 * Cardinality({t \in DOMAIN answers : answers[t] = 2})

=============================================================================
