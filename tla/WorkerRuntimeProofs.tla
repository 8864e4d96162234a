------------------------- MODULE WorkerRuntimeProofs -------------------------
(***************************************************************************)
(* Proofs about WorkerRuntime for any number of workers, connections and   *)
(* frames and any loop and batch limits.                                   *)
(***************************************************************************)
EXTENDS WorkerRuntime, TLAPS

\* Updating one lane of one queue keeps the queues' type.
LEMMA LaneUpdate ==
  ASSUME NEW A, NEW B, NEW S, NEW f \in [A -> [B -> S]], NEW a, NEW b, NEW v \in S
  PROVE  [f EXCEPT ![a][b] = v] \in [A -> [B -> S]]
BY Zenon

\* The pushes of PubSubManager for one message are responses.
LEMMA PushesType ==
  ASSUME NEW w \in Worker, NEW m \in Command
  PROVE  Pushes(w, m) \in Seq(Response)
BY RuntimeAssumption DEF Pushes, Response

\* The reply to a command is a response.
LEMMA ReplyType ==
  ASSUME NEW m \in Command
  PROVE  Reply(m) \in Response
BY DEF Reply, Response, Command

\* What the executor does to a queue keeps its type: taking the head of a lane,
\* appending to a lane.
LEMMA LaneTake ==
  ASSUME NEW A, NEW B, NEW S, NEW f \in [A -> [B -> Seq(S)]], NEW a \in A, NEW b \in B,
         f[a][b] # <<>>
  PROVE  /\ Head(f[a][b]) \in S
         /\ [f EXCEPT ![a][b] = Tail(@)] \in [A -> [B -> Seq(S)]]
<1>1. f[a][b] \in Seq(S)
  OBVIOUS
<1>2. Head(f[a][b]) \in S /\ Tail(f[a][b]) \in Seq(S)
  BY <1>1
<1>3. QED
  BY <1>2, LaneUpdate

\* Appending to a lane keeps the queues' type.
LEMMA LaneAppend ==
  ASSUME NEW A, NEW B, NEW S, NEW f \in [A -> [B -> Seq(S)]], NEW a \in A, NEW b \in B,
         NEW v \in S
  PROVE  [f EXCEPT ![a][b] = Append(@, v)] \in [A -> [B -> Seq(S)]]
<1>1. f[a][b] \in Seq(S)
  OBVIOUS
<1>2. Append(f[a][b], v) \in Seq(S)
  BY <1>1
<1>3. QED
  BY <1>2, LaneUpdate

\* Appending a sequence to a lane keeps the queues' type.
LEMMA LaneConcat ==
  ASSUME NEW A, NEW B, NEW S, NEW f \in [A -> [B -> Seq(S)]], NEW a \in A, NEW b \in B,
         NEW t \in Seq(S)
  PROVE  [f EXCEPT ![a][b] = @ \o t] \in [A -> [B -> Seq(S)]]
<1>1. f[a][b] \in Seq(S)
  OBVIOUS
<1>2. f[a][b] \o t \in Seq(S)
  BY <1>1
<1>3. QED
  BY <1>2, LaneUpdate

\* What a step leaves alone keeps its type.
LEMMA UnchangedTypes ==
  TypeOK =>
    /\ UNCHANGED <<queues, respq>> => QueuesOK'
    /\ UNCHANGED <<running, pc, done, hasresp>> => ThreadsOK'
    /\ UNCHANGED <<sched, storebuf, posted, io, took>> => HandlerOK'
    /\ UNCHANGED <<client, batch, wire>> => ConnsOK'
BY DEF TypeOK, QueuesOK, ThreadsOK, HandlerOK, ConnsOK, queues, client

\* The compare-exchange keeps the types of the flag and of the handler count.
LEMMA NotifyType ==
  ASSUME HandlerOK, NEW w \in Worker,
         NotifyResponseQueue(w) \/ UNCHANGED <<sched, posted>>
  PROVE  sched' \in [Worker -> BOOLEAN] /\ posted' \in [Worker -> Nat]
<1>1. CASE UNCHANGED <<sched, posted>>
  BY <1>1 DEF HandlerOK
<1>2. CASE sched' = [sched EXCEPT ![w] = TRUE] /\ posted' = [posted EXCEPT ![w] = @ + 1]
  <2>1. sched' \in [Worker -> BOOLEAN]
    BY <1>2 DEF HandlerOK
  <2>2. posted' \in [Worker -> Nat]
    BY <1>2 DEF HandlerOK
  <2>3. QED
    BY <2>1, <2>2
<1>3. QED
  BY <1>1, <1>2 DEF NotifyResponseQueue

\* The initial state has the types.
LEMMA InitType == Init => TypeOK
<1> SUFFICES ASSUME Init PROVE TypeOK
  OBVIOUS
<1>1. QueuesOK
  <2>1. cmdq \in [Worker -> [Worker -> Seq(Command)]]
    BY DEF Init
  <2>2. xresp \in [Worker -> [Worker -> Seq(Command)]]
    BY DEF Init
  <2>3. pubsubq \in [Worker -> [Worker -> Seq(Command)]]
    BY DEF Init
  <2>4. respq \in [Worker -> [Lane -> Seq(Response)]]
    BY DEF Init
  <2>5. QED
    BY <2>1, <2>2, <2>3, <2>4 DEF QueuesOK
<1>2. ThreadsOK
  BY RuntimeAssumption DEF Init, ThreadsOK
<1>3. HandlerOK
  BY RuntimeAssumption DEF Init, HandlerOK
<1>4. ConnsOK
  <2>1. conns \in [Conn -> {"new", "open", "closed"}] /\ issued \in [Conn -> Nat]
    BY DEF Init
  <2>2. batch \in [Conn -> Seq(Response)] /\ wire \in [Conn -> Seq(Response)]
    BY DEF Init
  <2>3. QED
    BY <2>1, <2>2 DEF ConnsOK
<1>5. QED
  BY <1>1, <1>2, <1>3, <1>4 DEF TypeOK

\* What a client and the IO thread do between handlers keeps the types.
LEMMA ClientType ==
  ASSUME TypeOK, NEW c \in Conn, Client(c)
  PROVE  TypeOK'
<1> USE DEF vars, handler, client, queues
<1>1. CASE Accept(c) \/ Close(c)
  <2>1. ConnsOK'
    BY <1>1, Zenon DEF TypeOK, ConnsOK, Accept, Close
  <2>2. QED
    BY <1>1, <2>1, UnchangedTypes DEF TypeOK, Accept, Close
<1>2. CASE \E op \in Sends[c] : Receive(c, op)
  <2>1. PICK op \in Op : Receive(c, op)
    BY <1>2, RuntimeAssumption
  <2> DEFINE w == Home[c]
             m == [conn |-> c, id |-> issued[c] + 1, op |-> op]
  <2>2. w \in Worker /\ issued[c] \in Nat
    BY RuntimeAssumption DEF TypeOK, ConnsOK
  <2>3. m \in Command /\ [conn |-> c, kind |-> "error", cmd |-> m] \in Response
    BY <2>2 DEF Command, Response
  <2>4. cmdq' \in [Worker -> [Worker -> Seq(Command)]]
    <3>1. CASE UNCHANGED cmdq
      BY <3>1 DEF TypeOK, QueuesOK
    <3>2. CASE cmdq' = [cmdq EXCEPT ![w][w] = Append(@, m)]
      BY <3>2, <2>2, <2>3, LaneAppend DEF TypeOK, QueuesOK
    <3>3. QED
      BY <2>1, <3>1, <3>2 DEF Receive
  <2>5. respq' \in [Worker -> [Lane -> Seq(Response)]]
    <3>1. CASE UNCHANGED respq
      BY <3>1 DEF TypeOK, QueuesOK
    <3>2. CASE respq' = [respq EXCEPT ![w]["io"] =
                           Append(@, [conn |-> c, kind |-> "error", cmd |-> m])]
      BY <3>2, <2>2, <2>3, LaneAppend DEF TypeOK, QueuesOK, Lane
    <3>3. QED
      BY <2>1, <3>1, <3>2 DEF Receive
  <2>6. QueuesOK'
    BY <2>1, <2>4, <2>5, Zenon DEF TypeOK, QueuesOK, Receive
  <2>7. issued' \in [Conn -> Nat]
    BY <2>1, <2>2 DEF Receive, TypeOK, ConnsOK
  <2>8. ConnsOK'
    BY <2>1, <2>7 DEF Receive, TypeOK, ConnsOK
  <2>9. QED
    BY <2>1, <2>6, <2>8, UnchangedTypes DEF TypeOK, Receive
<1>3. QED
  BY <1>1, <1>2 DEF Client

\* The executor keeps the types.
LEMMA ExecutorType ==
  ASSUME TypeOK, NEW w \in Worker, ExecutorLoop(w)
  PROVE  TypeOK'
<1> USE DEF vars, handler, client, queues
<1>1. ASSUME NEW p \in Worker, Dequeue(w, p)
      PROVE  /\ Head(cmdq[w][p]) \in Command
             /\ [cmdq EXCEPT ![w][p] = Tail(@)] \in [Worker -> [Worker -> Seq(Command)]]
             /\ done' \in [Worker -> 0..MaxPerLoop]
  <2>1. cmdq[w][p] # <<>> /\ cmdq \in [Worker -> [Worker -> Seq(Command)]]
    BY <1>1 DEF Dequeue, TypeOK, QueuesOK
  <2>2. done' \in [Worker -> 0..MaxPerLoop]
    BY <1>1, RuntimeAssumption DEF Dequeue, TypeOK, ThreadsOK
  <2>3. QED
    BY <2>1, <2>2, LaneTake
<1>2. [hasresp EXCEPT ![w] = TRUE] \in [Worker -> BOOLEAN]
  BY DEF TypeOK, ThreadsOK
<1>3. CASE ExecuteLocal(w)
  <2> DEFINE m == Head(cmdq[w][w])
  <2>1. m \in Command /\ cmdq' \in [Worker -> [Worker -> Seq(Command)]]
    BY <1>1, <1>3 DEF ExecuteLocal
  <2>2. respq' \in [Worker -> [Lane -> Seq(Response)]]
    <3>1. Reply(m) \in Response
      BY <2>1, ReplyType
    <3>2. respq' = [respq EXCEPT ![w]["exec"] = Append(@, Reply(m))]
      BY <1>3 DEF ExecuteLocal
    <3>3. QED
      BY <3>1, <3>2, LaneAppend DEF TypeOK, QueuesOK, Lane
  <2>3. QueuesOK'
    BY <1>3, <2>1, <2>2 DEF ExecuteLocal, TypeOK, QueuesOK
  <2>4. ThreadsOK'
    BY <1>1, <1>2, <1>3 DEF ExecuteLocal, TypeOK, ThreadsOK
  <2>5. QED
    BY <1>3, <2>3, <2>4, UnchangedTypes DEF ExecuteLocal, TypeOK
<1>4. CASE ExecutePublish(w)
  <2> DEFINE m == Head(cmdq[w][w])
  <2>1. m \in Command /\ cmdq' \in [Worker -> [Worker -> Seq(Command)]]
    BY <1>1, <1>4 DEF ExecutePublish
  <2>2. respq' \in [Worker -> [Lane -> Seq(Response)]]
    <3>1. Reply(m) \in Response /\ Pushes(w, m) \in Seq(Response)
      BY <2>1, ReplyType, PushesType
    <3>2. respq[w]["exec"] \in Seq(Response)
      BY DEF TypeOK, QueuesOK, Lane
    <3>3. Append(respq[w]["exec"] \o Pushes(w, m), Reply(m)) \in Seq(Response)
      BY <3>1, <3>2
    <3>4. respq' = [respq EXCEPT ![w]["exec"] = Append(@ \o Pushes(w, m), Reply(m))]
      BY <1>4 DEF ExecutePublish
    <3>5. QED
      BY <3>3, <3>4, LaneUpdate, Zenon DEF TypeOK, QueuesOK
  <2>3. pubsubq' \in [Worker -> [Worker -> Seq(Command)]]
    <3>1. ASSUME NEW v \in Worker
          PROVE  pubsubq[v] \in [Worker -> Seq(Command)]
      BY DEF TypeOK, QueuesOK
    <3>2. ASSUME NEW v \in Worker
          PROVE  [pubsubq[v] EXCEPT ![w] = Append(@, m)] \in [Worker -> Seq(Command)]
      <4>1. Append(pubsubq[v][w], m) \in Seq(Command)
        BY <2>1, <3>1
      <4>2. QED
        BY <3>1, <4>1
    <3>3. pubsubq' = [v \in Worker |-> IF v = w THEN pubsubq[v]
                        ELSE [pubsubq[v] EXCEPT ![w] = Append(@, m)]]
      BY <1>4 DEF ExecutePublish
    <3>4. QED
      BY <3>1, <3>2, <3>3
  <2>4. QueuesOK'
    BY <1>4, <2>1, <2>2, <2>3, SMTT(30) DEF ExecutePublish, TypeOK, QueuesOK
  <2>5. ThreadsOK'
    BY <1>1, <1>2, <1>4 DEF ExecutePublish, TypeOK, ThreadsOK
  <2>6. QED
    BY <1>4, <2>4, <2>5, UnchangedTypes DEF ExecutePublish, TypeOK
<1>5. CASE Forward(w)
  <2> DEFINE m == Head(cmdq[w][w])
             q == [cmdq EXCEPT ![w][w] = Tail(@)]
  <2>1. m \in Command /\ q \in [Worker -> [Worker -> Seq(Command)]]
    BY <1>1, <1>5 DEF Forward
  <2>2. cmdq' = [q EXCEPT ![Target(m)][w] = Append(@, m)]
    BY <1>5 DEF Forward
  <2>3. cmdq' \in [Worker -> [Worker -> Seq(Command)]]
    <3>1. CASE Target(m) \in Worker
      <4> HIDE DEF m, q
      <4>1. QED
        BY <2>1, <2>2, <3>1, LaneAppend
    <3>2. CASE Target(m) \notin Worker
      <4> HIDE DEF m, q
      <4>1. QED
        BY <2>1, <2>2, <3>2, Zenon
    <3>3. QED
      BY <3>1, <3>2
  <2>4. QueuesOK'
    BY <1>5, <2>3, Zenon DEF Forward, TypeOK, QueuesOK
  <2>5. ThreadsOK'
    BY <1>1, <1>5 DEF Forward, TypeOK, ThreadsOK
  <2>6. QED
    BY <1>5, <2>4, <2>5, UnchangedTypes DEF Forward, TypeOK
<1>6. CASE \E p \in Worker : ExecuteForwarded(w, p)
  <2>1. PICK p \in Worker : ExecuteForwarded(w, p)
    BY <1>6
  <2> DEFINE m == Head(cmdq[w][p])
  <2>2. m \in Command /\ cmdq' \in [Worker -> [Worker -> Seq(Command)]]
    BY <1>1, <2>1 DEF ExecuteForwarded
  <2>3. xresp' \in [Worker -> [Worker -> Seq(Command)]]
    <3>1. xresp' = [xresp EXCEPT ![p][w] = Append(@, m)]
      BY <2>1 DEF ExecuteForwarded
    <3>2. xresp \in [Worker -> [Worker -> Seq(Command)]]
      BY DEF TypeOK, QueuesOK
    <3> HIDE DEF m
    <3>3. QED
      BY <2>2, <3>1, <3>2, LaneAppend
  <2>4. QueuesOK'
    BY <2>1, <2>2, <2>3, SMTT(30) DEF ExecuteForwarded, TypeOK, QueuesOK
  <2>5. ThreadsOK'
    BY <1>1, <2>1 DEF ExecuteForwarded, TypeOK, ThreadsOK
  <2>6. QED
    BY <2>1, <2>4, <2>5, UnchangedTypes DEF ExecuteForwarded, TypeOK
<1>7. CASE EndCommands(w) \/ EndCrossResponses(w)
  <2>1. ThreadsOK'
    BY <1>7 DEF EndCommands, EndCrossResponses, TypeOK, ThreadsOK
  <2>2. QED
    BY <1>7, <2>1, UnchangedTypes DEF EndCommands, EndCrossResponses, TypeOK
<1>8. CASE \E p \in Worker : TakeCrossResponse(w, p)
  <2>1. PICK p \in Worker : TakeCrossResponse(w, p)
    BY <1>8
  <2>2. Head(xresp[w][p]) \in Command /\ xresp' \in [Worker -> [Worker -> Seq(Command)]]
    BY <2>1, LaneTake DEF TakeCrossResponse, TypeOK, QueuesOK
  <2>3. respq' \in [Worker -> [Lane -> Seq(Response)]]
    <3> DEFINE r == Reply(Head(xresp[w][p]))
    <3>1. r \in Response
      BY <2>2, ReplyType
    <3>2. respq' = [respq EXCEPT ![w]["exec"] = Append(@, r)]
      BY <2>1 DEF TakeCrossResponse
    <3>3. respq \in [Worker -> [Lane -> Seq(Response)]] /\ "exec" \in Lane
      BY DEF TypeOK, QueuesOK, Lane
    <3> HIDE DEF r
    <3>4. QED
      BY <3>1, <3>2, <3>3, LaneAppend
  <2>4. QueuesOK'
    BY <2>1, <2>2, <2>3, Zenon DEF TakeCrossResponse, TypeOK, QueuesOK
  <2>5. ThreadsOK'
    BY <1>2, <2>1 DEF TakeCrossResponse, TypeOK, ThreadsOK
  <2>6. QED
    BY <2>1, <2>4, <2>5, UnchangedTypes DEF TakeCrossResponse, TypeOK
<1>9. CASE \E p \in Worker : TakePubSub(w, p)
  <2>1. PICK p \in Worker : TakePubSub(w, p)
    BY <1>9
  <2> DEFINE m == Head(pubsubq[w][p])
  <2>2. m \in Command /\ pubsubq' \in [Worker -> [Worker -> Seq(Command)]]
    BY <2>1, LaneTake DEF TakePubSub, TypeOK, QueuesOK
  <2>3. respq' \in [Worker -> [Lane -> Seq(Response)]]
    <3> DEFINE t == Pushes(w, m)
    <3>1. t \in Seq(Response)
      BY <2>2, PushesType
    <3>2. respq' = [respq EXCEPT ![w]["exec"] = @ \o t]
      BY <2>1 DEF TakePubSub
    <3>3. respq \in [Worker -> [Lane -> Seq(Response)]] /\ "exec" \in Lane
      BY DEF TypeOK, QueuesOK, Lane
    <3> HIDE DEF t
    <3>4. QED
      BY <3>1, <3>2, <3>3, LaneConcat
  <2>4. QueuesOK'
    BY <2>1, <2>2, <2>3, Zenon DEF TakePubSub, TypeOK, QueuesOK
  <2>5. QED
    BY <2>1, <2>4, UnchangedTypes DEF TakePubSub, TypeOK
<1>10. CASE Flush(w)
  <2>1. pc' \in [Worker -> {"cmd", "xresp", "pubsub", "exit"}]
    BY <1>10 DEF Flush, TypeOK, ThreadsOK
  <2>2. done' \in [Worker -> 0..MaxPerLoop] /\ hasresp' \in [Worker -> BOOLEAN]
    BY <1>10, RuntimeAssumption DEF Flush, TypeOK, ThreadsOK
  <2>3. ThreadsOK'
    BY <1>10, <2>1, <2>2 DEF Flush, TypeOK, ThreadsOK
  <2>4. sched' \in [Worker -> BOOLEAN] /\ posted' \in [Worker -> Nat]
    BY <1>10, NotifyType DEF Flush, TypeOK
  <2>5. HandlerOK'
    BY <1>10, <2>4 DEF Flush, TypeOK, HandlerOK
  <2>6. QED
    BY <1>10, <2>3, <2>5, UnchangedTypes DEF Flush, TypeOK
<1>11. QED
  BY <1>3, <1>4, <1>5, <1>6, <1>7, <1>8, <1>9, <1>10 DEF ExecutorLoop

\* The response handler keeps the types.
LEMMA HandlerType ==
  ASSUME TypeOK, NEW w \in Worker, ResponseHandler(w)
  PROVE  TypeOK'
<1> USE DEF vars, handler, client, queues
<1>1. CASE BeginHandler(w)
  <2>1. posted' \in [Worker -> Nat]
    BY <1>1 DEF BeginHandler, TypeOK, HandlerOK
  <2>2. io' \in [Worker -> {"idle", "drain", "clear", "check"}]
    BY <1>1 DEF BeginHandler, TypeOK, HandlerOK
  <2>3. took' \in [Worker -> 0..MaxBatch]
    BY <1>1, RuntimeAssumption DEF BeginHandler, TypeOK, HandlerOK
  <2>4. HandlerOK'
    BY <1>1, <2>1, <2>2, <2>3, SMTT(30) DEF BeginHandler, TypeOK, HandlerOK
  <2>5. QED
    BY <1>1, <2>4, UnchangedTypes DEF BeginHandler, TypeOK
<1>2. CASE \E l \in Lane : DrainOne(w, l)
  <2>1. PICK l \in Lane : DrainOne(w, l)
    BY <1>2
  <2> DEFINE r == Head(respq[w][l])
  <2>2. r \in Response /\ respq' \in [Worker -> [Lane -> Seq(Response)]]
    BY <2>1, LaneTake DEF DrainOne, TypeOK, QueuesOK
  <2>3. QueuesOK'
    BY <2>1, <2>2 DEF DrainOne, TypeOK, QueuesOK
  <2>4. took' \in [Worker -> 0..MaxBatch]
    BY <2>1, RuntimeAssumption DEF DrainOne, TypeOK, HandlerOK
  <2>5. HandlerOK'
    BY <2>1, <2>4 DEF DrainOne, TypeOK, HandlerOK
  <2>6. batch' \in [Conn -> Seq(Response)]
    <3>1. r.conn \in Conn
      BY <2>2 DEF Response
    <3>2. Append(batch[r.conn], r) \in Seq(Response)
      BY <2>2, <3>1 DEF TypeOK, ConnsOK
    <3>3. batch' = [batch EXCEPT ![r.conn] = Append(@, r)]
      BY <2>1, SMTT(30) DEF DrainOne
    <3> HIDE DEF r
    <3>4. QED
      BY <3>1, <3>2, <3>3 DEF TypeOK, ConnsOK
  <2>7. ConnsOK'
    BY <2>1, <2>6 DEF DrainOne, TypeOK, ConnsOK
  <2>8. QED
    BY <2>1, <2>3, <2>5, <2>7, UnchangedTypes DEF DrainOne, TypeOK
<1>3. CASE SendBatches(w)
  <2>1. ASSUME NEW c \in Conn
        PROVE  wire[c] \in Seq(Response) /\ wire[c] \o batch[c] \in Seq(Response)
    <3>1. wire[c] \in Seq(Response) /\ batch[c] \in Seq(Response)
      BY DEF TypeOK, ConnsOK
    <3>2. QED
      BY <3>1
  <2>2. wire' \in [Conn -> Seq(Response)]
    BY <1>3, <2>1 DEF SendBatches
  <2>3. batch' \in [Conn -> Seq(Response)]
    BY <1>3 DEF SendBatches, TypeOK, ConnsOK
  <2>4. ConnsOK'
    BY <1>3, <2>2, <2>3 DEF SendBatches, TypeOK, ConnsOK
  <2>5. HandlerOK'
    BY <1>3 DEF SendBatches, TypeOK, HandlerOK
  <2>6. QED
    BY <1>3, <2>4, <2>5, UnchangedTypes DEF SendBatches, TypeOK
<1>4. CASE ClearScheduled(w)
  <2>1. sched' \in [Worker -> BOOLEAN] /\ storebuf' \in [Worker -> BOOLEAN]
    BY <1>4, Zenon DEF ClearScheduled, TypeOK, HandlerOK
  <2>2. HandlerOK'
    BY <1>4, <2>1 DEF ClearScheduled, TypeOK, HandlerOK
  <2>3. QED
    BY <1>4, <2>2, UnchangedTypes DEF ClearScheduled, TypeOK
<1>5. CASE StoreVisible(w)
  <2>1. HandlerOK'
    BY <1>5 DEF StoreVisible, TypeOK, HandlerOK
  <2>2. QED
    BY <1>5, <2>1, UnchangedTypes DEF StoreVisible, TypeOK
<1>6. CASE Recheck(w)
  <2>1. sched' \in [Worker -> BOOLEAN] /\ posted' \in [Worker -> Nat]
    BY <1>6, NotifyType DEF Recheck, TypeOK
  <2>2. HandlerOK'
    BY <1>6, <2>1, Zenon DEF Recheck, TypeOK, HandlerOK
  <2>3. QED
    BY <1>6, <2>2, UnchangedTypes DEF Recheck, TypeOK
<1>7. QED
  BY <1>1, <1>2, <1>3, <1>4, <1>5, <1>6 DEF ResponseHandler

\* Every step keeps the types.
LEMMA StepType == TypeOK /\ [Next]_vars => TypeOK'
<1> SUFFICES ASSUME TypeOK, [Next]_vars PROVE TypeOK'
  OBVIOUS
<1>1. ASSUME NEW w \in Worker, Stop(w) PROVE TypeOK'
  <2> USE DEF handler, client, queues
  <2>1. running' \in [Worker -> BOOLEAN]
    BY <1>1 DEF Stop, TypeOK, ThreadsOK
  <2>2. ThreadsOK'
    BY <1>1, <2>1 DEF Stop, TypeOK, ThreadsOK
  <2>3. QED
    BY <1>1, <2>2, UnchangedTypes DEF Stop, TypeOK
<1>2. CASE UNCHANGED vars
  BY <1>2, UnchangedTypes DEF vars, handler, client, queues, TypeOK
<1>3. QED
  BY <1>1, <1>2, ClientType, ExecutorType, HandlerType DEF Next

\* Every variable keeps its type, and neither thread exceeds its limit, for any
\* number of workers, connections and frames and any limits.
THEOREM TypeCorrect == Spec => []TypeOK
<1>1. QED
  BY InitType, StepType, PTL DEF Spec

-----------------------------------------------------------------------------
(* SingleHandler: it is inductive together with TypeOK.                    *)

\* What SingleHandler says of one worker.
OneHandler(w) ==
  /\ sched[w] <=> (posted[w] > 0 \/ InHandler(w) \/ storebuf[w])
  /\ posted[w] <= 1
  /\ posted[w] = 1 => ~InHandler(w) /\ ~storebuf[w]
  /\ storebuf[w] => ~InHandler(w)

\* A step that touches the flag, the handler count and the handler's position of
\* one worker only is to be examined for that worker only.
LEMMA OtherHandlers ==
  ASSUME SingleHandler, NEW w \in Worker,
         \A v \in Worker \ {w} : /\ sched'[v] = sched[v] /\ storebuf'[v] = storebuf[v]
                                 /\ posted'[v] = posted[v] /\ io'[v] = io[v],
         OneHandler(w)'
  PROVE  SingleHandler'
BY DEF SingleHandler, OneHandler, InHandler

\* The executor keeps SingleHandler: only its compare-exchange posts a handler.
LEMMA ExecutorHandlers ==
  ASSUME TypeOK, SingleHandler, NEW w \in Worker, ExecutorLoop(w)
  PROVE  SingleHandler'
<1> USE DEF handler
<1>1. CASE UNCHANGED handler
  BY <1>1 DEF SingleHandler, InHandler
<1>2. CASE Flush(w)
  <2>1. CASE UNCHANGED <<sched, posted>>
    BY <1>2, <2>1 DEF Flush, SingleHandler, InHandler
  <2>2. CASE /\ ~sched[w] /\ sched' = [sched EXCEPT ![w] = TRUE]
             /\ posted' = [posted EXCEPT ![w] = @ + 1]
    <3>1. posted[w] = 0 /\ ~InHandler(w) /\ ~storebuf[w] /\ posted[w] \in Nat
      BY <2>2 DEF SingleHandler, TypeOK, HandlerOK
    <3>2. sched'[w] /\ posted'[w] = 1 /\ io'[w] = io[w] /\ storebuf'[w] = storebuf[w]
      BY <1>2, <2>2, <3>1 DEF Flush, TypeOK, HandlerOK
    <3>3. OneHandler(w)'
      BY <3>1, <3>2 DEF OneHandler, InHandler
    <3>4. QED
      BY <1>2, <2>2, <3>3, OtherHandlers, Zenon DEF Flush, TypeOK, HandlerOK
  <2>3. QED
    BY <1>2, <2>1, <2>2 DEF Flush, NotifyResponseQueue
<1>3. QED
  BY <1>1, <1>2, Zenon DEF ExecutorLoop, ExecuteLocal, ExecutePublish, Forward, ExecuteForwarded,
    EndCommands, TakeCrossResponse, EndCrossResponses, TakePubSub

\* The response handler keeps SingleHandler, from its post to its recheck.
LEMMA HandlerHandlers ==
  ASSUME TypeOK, SingleHandler, NEW w \in Worker, ResponseHandler(w)
  PROVE  SingleHandler'
<1>0. OneHandler(w) /\ posted[w] \in Nat
  BY DEF SingleHandler, OneHandler, TypeOK, HandlerOK
<1>1. CASE BeginHandler(w)
  <2>1. posted[w] = 1 /\ sched[w] /\ ~storebuf[w]
    BY <1>0, <1>1 DEF BeginHandler, OneHandler
  <2>2. posted'[w] = 0 /\ InHandler(w)' /\ sched'[w] = sched[w] /\ storebuf'[w] = storebuf[w]
    BY <1>1, <2>1 DEF BeginHandler, InHandler, TypeOK, HandlerOK
  <2>3. OneHandler(w)'
    BY <2>1, <2>2 DEF OneHandler
  <2>4. QED
    BY <1>1, <2>3, OtherHandlers DEF BeginHandler, TypeOK, HandlerOK
<1>2. CASE \E l \in Lane : DrainOne(w, l)
  BY <1>2 DEF DrainOne, SingleHandler, InHandler
<1>3. CASE SendBatches(w)
  <2>1. InHandler(w) /\ InHandler(w)'
    BY <1>3, SMTT(30) DEF SendBatches, InHandler, TypeOK, HandlerOK
  <2>2. OneHandler(w)'
    BY <1>0, <1>3, <2>1 DEF SendBatches, OneHandler
  <2>3. QED
    BY <1>3, <2>2, OtherHandlers DEF SendBatches, TypeOK, HandlerOK
<1>4. CASE ClearScheduled(w)
  <2>1. InHandler(w) /\ ~InHandler(w)' /\ posted'[w] = posted[w]
    BY <1>4 DEF ClearScheduled, InHandler, TypeOK, HandlerOK
  <2>2. posted[w] = 0 /\ sched[w] /\ ~storebuf[w]
    BY <1>0, <2>1 DEF OneHandler
  <2>3. sched'[w] <=> storebuf'[w]
    BY <1>4, <2>2 DEF ClearScheduled, TypeOK, HandlerOK
  <2>4. OneHandler(w)'
    BY <2>1, <2>2, <2>3 DEF OneHandler
  <2>5. QED
    BY <1>4, <2>4, OtherHandlers DEF ClearScheduled, TypeOK, HandlerOK
<1>5. CASE StoreVisible(w)
  <2>1. posted[w] = 0 /\ ~InHandler(w)
    BY <1>0, <1>5 DEF StoreVisible, OneHandler
  <2>2. ~sched'[w] /\ ~storebuf'[w] /\ posted'[w] = posted[w] /\ io'[w] = io[w]
    BY <1>5 DEF StoreVisible, TypeOK, HandlerOK
  <2>3. OneHandler(w)'
    BY <2>1, <2>2 DEF OneHandler, InHandler
  <2>4. QED
    BY <1>5, <2>3, OtherHandlers, Zenon DEF StoreVisible, TypeOK, HandlerOK
<1>6. CASE Recheck(w)
  <2>1. ~InHandler(w) /\ ~InHandler(w)' /\ storebuf'[w] = storebuf[w]
    BY <1>6 DEF Recheck, InHandler, TypeOK, HandlerOK
  <2>2. CASE UNCHANGED <<sched, posted>>
    <3>1. OneHandler(w)'
      BY <1>0, <2>1, <2>2 DEF OneHandler
    <3>2. QED
      BY <1>6, <2>2, <3>1, OtherHandlers DEF Recheck, TypeOK, HandlerOK
  <2>3. CASE /\ ~storebuf[w] /\ ~sched[w] /\ sched' = [sched EXCEPT ![w] = TRUE]
             /\ posted' = [posted EXCEPT ![w] = @ + 1]
    <3>1. sched'[w] /\ posted'[w] = 1
      BY <1>0, <2>3 DEF OneHandler, TypeOK, HandlerOK
    <3>2. OneHandler(w)'
      BY <2>1, <2>3, <3>1 DEF OneHandler
    <3>3. QED
      BY <1>6, <2>3, <3>2, OtherHandlers, Zenon DEF Recheck, TypeOK, HandlerOK
  <2>4. QED
    BY <1>6, <2>2, <2>3 DEF Recheck, NotifyResponseQueue
<1>7. QED
  BY <1>1, <1>2, <1>3, <1>4, <1>5, <1>6 DEF ResponseHandler

\* Every step keeps SingleHandler.
LEMMA StepHandlers == TypeOK /\ SingleHandler /\ [Next]_vars => SingleHandler'
<1> SUFFICES ASSUME TypeOK, SingleHandler, [Next]_vars PROVE SingleHandler'
  OBVIOUS
<1>1. CASE UNCHANGED handler
  BY <1>1 DEF handler, SingleHandler, InHandler
<1>2. ASSUME NEW c \in Conn, Client(c) PROVE UNCHANGED handler
  BY <1>2, Zenon DEF Client, Accept, Close, Receive
<1>3. ASSUME NEW w \in Worker, Stop(w) PROVE UNCHANGED handler
  BY <1>3 DEF Stop
<1>4. QED
  BY <1>1, <1>2, <1>3, ExecutorHandlers, HandlerHandlers DEF Next, vars

\* Initially no handler is posted.
LEMMA InitHandlers == Init => SingleHandler
<1> SUFFICES ASSUME Init, NEW w \in Worker PROVE OneHandler(w)
  BY Zenon DEF SingleHandler, OneHandler
<1>1. sched[w] = FALSE
  BY DEF Init
<1>2. storebuf[w] = FALSE
  BY DEF Init
<1>3. posted[w] = 0 /\ io[w] = "idle"
  BY DEF Init
<1>4. ~InHandler(w)
  BY <1>3 DEF InHandler
<1>5. QED
  BY <1>1, <1>2, <1>3, <1>4 DEF OneHandler

\* NotifyResponseQueue's compare-exchange keeps at most one ProcessResponseQueue
\* of a worker posted or running, whether or not the handler's store is fenced.
THEOREM AtMostOneHandler == Spec => []SingleHandler
<1>1. Init => TypeOK /\ SingleHandler
  BY InitType, InitHandlers
<1>2. TypeOK /\ SingleHandler /\ [Next]_vars => (TypeOK /\ SingleHandler)'
  BY StepType, StepHandlers
<1>3. QED
  BY <1>1, <1>2, PTL DEF Spec

-----------------------------------------------------------------------------
(* RepliesAreScheduled, as long as no handler's store of the flag is overtaken *)
(* by the load of the queue's size behind it.  The inductive invariant adds    *)
(* SingleHandler: a compare-exchange that fails means a handler is posted, has *)
(* not cleared the flag yet, or has cleared it and has yet to recheck.         *)

\* A clear of the flag that has not reached memory belongs to a handler that has
\* yet to look at the queue again.  The release store of worker.hpp:2111 does not
\* ensure it; a store with memory_order_seq_cst would.
StoreBeforeRecheck == \A w \in Worker : storebuf[w] => io[w] = "check"

\* What RepliesAreScheduled says of one worker.
ReplySeen(w) == running[w] /\ Holds(respq[w]["exec"], "reply") => WillBeSeen(w)

\* Published messages put no reply into resp_queue_.
LEMMA PushesHoldNoReply ==
  ASSUME NEW q \in Seq(Response), NEW w \in Worker, NEW m \in Command,
         Holds(q \o Pushes(w, m), "reply")
  PROVE  Holds(q, "reply")
<1> DEFINE t == Pushes(w, m)
<1>1. t \in Seq(Response) /\ \A i \in 1..Len(t) : t[i].kind = "push"
  <2>1. \A i \in DOMAIN t : t[i].kind = "push"
    BY DEF Pushes
  <2>2. t \in Seq(Response)
    BY PushesType
  <2> HIDE DEF t
  <2>3. QED
    BY <2>1, <2>2
<1>2. PICK i \in 1..Len(q \o t) : (q \o t)[i].kind = "reply"
  BY DEF Holds
<1> HIDE DEF t
<1>3. CASE i <= Len(q)
  BY <1>1, <1>2, <1>3 DEF Holds
<1>4. CASE i > Len(q)
  <2>1. i - Len(q) \in 1..Len(t) /\ (q \o t)[i] = t[i - Len(q)]
    BY <1>1, <1>2, <1>4
  <2>2. QED
    BY <1>1, <1>2, <2>1
<1>5. QED
  BY <1>2, <1>3, <1>4

\* A step that touches the queue, the flags and the handler of one worker only is
\* to be examined for that worker only.
LEMMA OtherReplies ==
  ASSUME RepliesAreScheduled, NEW w \in Worker,
         \A v \in Worker \ {w} : /\ respq'[v]["exec"] = respq[v]["exec"]
                                 /\ running'[v] = running[v] /\ hasresp'[v] = hasresp[v]
                                 /\ posted'[v] = posted[v] /\ io'[v] = io[v],
         ReplySeen(w)'
  PROVE  RepliesAreScheduled'
BY DEF RepliesAreScheduled, ReplySeen, WillBeSeen

\* The executor keeps RepliesAreScheduled: what it enqueues it remembers in has_responses.
LEMMA ExecutorReplies ==
  ASSUME TypeOK, SingleHandler, StoreBeforeRecheck, RepliesAreScheduled,
         NEW w \in Worker, ExecutorLoop(w)
  PROVE  RepliesAreScheduled'
<1> USE DEF handler, queues
<1>1. CASE ExecuteLocal(w) \/ ExecutePublish(w) \/ \E p \in Worker : TakeCrossResponse(w, p)
  <2>1. hasresp' = [hasresp EXCEPT ![w] = TRUE] /\ UNCHANGED <<running, handler>>
    BY <1>1, Zenon DEF ExecuteLocal, ExecutePublish, TakeCrossResponse
  <2>2. PICK q : respq' = [respq EXCEPT ![w]["exec"] = q]
    BY <1>1, Zenon DEF ExecuteLocal, ExecutePublish, TakeCrossResponse
  <2>3. ReplySeen(w)'
    BY <2>1 DEF ReplySeen, WillBeSeen, TypeOK, ThreadsOK
  <2>4. QED
    BY <2>1, <2>2, <2>3, OtherReplies, Zenon DEF TypeOK, QueuesOK, ThreadsOK
<1>2. CASE \/ Forward(w) \/ EndCommands(w) \/ EndCrossResponses(w)
           \/ \E p \in Worker : ExecuteForwarded(w, p)
  <2>1. UNCHANGED <<respq, running, hasresp, posted, io>>
    BY <1>2, Zenon DEF Forward, EndCommands, EndCrossResponses, ExecuteForwarded
  <2>2. QED
    BY <2>1 DEF RepliesAreScheduled, WillBeSeen
<1>3. CASE \E p \in Worker : TakePubSub(w, p)
  <2>1. PICK p \in Worker : TakePubSub(w, p)
    BY <1>3
  <2> DEFINE m == Head(pubsubq[w][p])
             q == respq[w]["exec"]
  <2>2. m \in Command
    BY <2>1, LaneTake DEF TakePubSub, TypeOK, QueuesOK
  <2>3. q \in Seq(Response)
    BY DEF TypeOK, QueuesOK, Lane
  <2>4. respq' = [respq EXCEPT ![w]["exec"] = q \o Pushes(w, m)]
    BY <2>1 DEF TakePubSub
  <2>5. respq'[w]["exec"] = q \o Pushes(w, m)
    BY <2>4, Zenon DEF TypeOK, QueuesOK, Lane
  <2>6. UNCHANGED <<running, hasresp, posted, io>>
    BY <2>1 DEF TakePubSub
  <2>7. ReplySeen(w)'
    <3>1. SUFFICES ASSUME running[w], Holds(q \o Pushes(w, m), "reply")
                   PROVE  WillBeSeen(w)
      BY <2>5, <2>6 DEF ReplySeen, WillBeSeen
    <3>2. Holds(q, "reply")
      BY <2>2, <2>3, <3>1, PushesHoldNoReply
    <3>3. QED
      BY <3>1, <3>2 DEF RepliesAreScheduled
  <2>8. \A v \in Worker \ {w} : respq'[v]["exec"] = respq[v]["exec"]
    BY <2>4 DEF TypeOK, QueuesOK
  <2>9. QED
    BY <2>6, <2>7, <2>8, OtherReplies
<1>4. CASE Flush(w)
  <2>1. hasresp' = [hasresp EXCEPT ![w] = FALSE] /\ UNCHANGED <<respq, running, io>>
    BY <1>4 DEF Flush
  <2>2. \A v \in Worker \ {w} : posted'[v] = posted[v] /\ hasresp'[v] = hasresp[v]
    BY <1>4 DEF Flush, NotifyResponseQueue, TypeOK, HandlerOK, ThreadsOK
  <2>3. posted[w] \in Nat /\ (posted[w] > 0 => posted'[w] > 0)
    BY <1>4 DEF Flush, NotifyResponseQueue, TypeOK, HandlerOK
  <2>4. ASSUME hasresp[w] PROVE posted'[w] > 0 \/ io[w] # "idle"
    <3>1. CASE sched[w]
      <4>1. posted[w] > 0 \/ InHandler(w) \/ io[w] = "check"
        BY <3>1 DEF SingleHandler, StoreBeforeRecheck
      <4>2. QED
        BY <2>3, <4>1 DEF InHandler
    <3>2. CASE ~sched[w]
      <4>1. posted' = [posted EXCEPT ![w] = @ + 1]
        BY <1>4, <2>4, <3>2 DEF Flush, NotifyResponseQueue
      <4>2. QED
        BY <2>3, <4>1 DEF TypeOK, HandlerOK
    <3>3. QED
      BY <3>1, <3>2
  <2>5. ReplySeen(w)'
    <3>1. SUFFICES ASSUME running[w], Holds(respq[w]["exec"], "reply")
                   PROVE  posted'[w] > 0 \/ io[w] # "idle"
      BY <2>1 DEF ReplySeen, WillBeSeen
    <3>2. hasresp[w] \/ posted[w] > 0 \/ io[w] # "idle"
      BY <3>1 DEF RepliesAreScheduled, WillBeSeen
    <3>3. QED
      BY <2>3, <2>4, <3>2
  <2>6. QED
    BY <2>1, <2>2, <2>5, OtherReplies, Zenon
<1>5. QED
  BY <1>1, <1>2, <1>3, <1>4 DEF ExecutorLoop

\* The handler keeps RepliesAreScheduled: it rechecks the queue after it clears the flag.
LEMMA HandlerReplies ==
  ASSUME TypeOK, SingleHandler, StoreBeforeRecheck, RepliesAreScheduled,
         NEW w \in Worker, ResponseHandler(w)
  PROVE  RepliesAreScheduled'
<1>1. UNCHANGED <<running, hasresp>>
  BY Zenon DEF ResponseHandler, BeginHandler, DrainOne, SendBatches, ClearScheduled,
    StoreVisible, Recheck
<1>2. \A v \in Worker \ {w} : respq'[v]["exec"] = respq[v]["exec"]
  BY Zenon DEF ResponseHandler, BeginHandler, DrainOne, SendBatches, ClearScheduled,
    StoreVisible, Recheck, TypeOK, QueuesOK
<1>3. \A v \in Worker \ {w} : posted'[v] = posted[v] /\ io'[v] = io[v]
  BY Zenon DEF ResponseHandler, BeginHandler, DrainOne, SendBatches, ClearScheduled,
    StoreVisible, Recheck, NotifyResponseQueue, TypeOK, HandlerOK
<1>4. CASE BeginHandler(w) \/ (\E l \in Lane : DrainOne(w, l)) \/ SendBatches(w)
           \/ ClearScheduled(w)
  <2>1. io'[w] # "idle"
    BY <1>4, Zenon DEF BeginHandler, DrainOne, SendBatches, ClearScheduled, TypeOK, HandlerOK
  <2>2. ReplySeen(w)'
    BY <2>1 DEF ReplySeen, WillBeSeen
  <2>3. QED
    BY <1>1, <1>2, <1>3, <2>2, OtherReplies
<1>5. CASE StoreVisible(w)
  BY <1>5 DEF StoreVisible, RepliesAreScheduled, WillBeSeen
<1>6. CASE Recheck(w)
  <2>1. UNCHANGED respq
    BY <1>6 DEF Recheck
  <2>2. ASSUME running[w], Holds(respq[w]["exec"], "reply") PROVE posted'[w] > 0
    <3>1. ~NoResponses(w)
      BY <2>2 DEF NoResponses, Holds, Lane
    <3>2. NotifyResponseQueue(w) /\ ~InHandler(w) /\ ~storebuf[w] /\ posted[w] \in Nat
      BY <1>6, <2>2, <3>1 DEF Recheck, InHandler, TypeOK, HandlerOK
    <3>3. CASE sched[w]
      BY <3>2, <3>3 DEF NotifyResponseQueue, SingleHandler
    <3>4. CASE ~sched[w]
      BY <3>2, <3>4 DEF NotifyResponseQueue, TypeOK, HandlerOK
    <3>5. QED
      BY <3>3, <3>4
  <2>3. ReplySeen(w)'
    BY <1>1, <2>1, <2>2 DEF ReplySeen, WillBeSeen
  <2>4. QED
    BY <1>1, <1>2, <1>3, <2>3, OtherReplies
<1>7. QED
  BY <1>4, <1>5, <1>6 DEF ResponseHandler

\* Every step keeps RepliesAreScheduled.
LEMMA StepReplies ==
  TypeOK /\ SingleHandler /\ StoreBeforeRecheck /\ RepliesAreScheduled /\ [Next]_vars
    => RepliesAreScheduled'
<1> SUFFICES ASSUME TypeOK, SingleHandler, StoreBeforeRecheck, RepliesAreScheduled, [Next]_vars
             PROVE  RepliesAreScheduled'
  OBVIOUS
<1> USE DEF handler
<1>1. ASSUME NEW c \in Conn, Client(c) PROVE RepliesAreScheduled'
  <2>1. UNCHANGED <<running, hasresp, posted, io>>
    BY <1>1, Zenon DEF Client, Accept, Close, Receive
  <2>2. \A v \in Worker : respq'[v]["exec"] = respq[v]["exec"]
    <3>1. CASE UNCHANGED respq
      BY <3>1
    <3>2. ASSUME NEW w, NEW r, respq' = [respq EXCEPT ![w]["io"] = r]
          PROVE  \A v \in Worker : respq'[v]["exec"] = respq[v]["exec"]
      BY <3>2 DEF TypeOK, QueuesOK, Lane
    <3>3. CASE Accept(c) \/ Close(c)
      BY <3>1, <3>3, Zenon DEF Accept, Close
    <3>4. ASSUME NEW op, Receive(c, op)
          PROVE  UNCHANGED respq \/ \E w, r : respq' = [respq EXCEPT ![w]["io"] = r]
      BY <3>4, Zenon DEF Receive
    <3>5. QED
      BY <1>1, <3>1, <3>2, <3>3, <3>4 DEF Client
  <2>3. QED
    BY <2>1, <2>2 DEF RepliesAreScheduled, WillBeSeen
<1>2. ASSUME NEW w \in Worker, Stop(w) PROVE RepliesAreScheduled'
  <2>1. UNCHANGED <<respq, hasresp, posted, io>>
    BY <1>2 DEF Stop
  <2>2. \A v \in Worker : running'[v] => running[v]
    BY <1>2 DEF Stop, TypeOK, ThreadsOK
  <2>3. QED
    BY <2>1, <2>2 DEF RepliesAreScheduled, WillBeSeen
<1>3. CASE UNCHANGED vars
  BY <1>3 DEF vars, RepliesAreScheduled, WillBeSeen
<1>4. QED
  BY <1>1, <1>2, <1>3, ExecutorReplies, HandlerReplies DEF Next

\* Initially there are no replies.
LEMMA InitReplies == Init => RepliesAreScheduled
<1> SUFFICES ASSUME Init, NEW w \in Worker PROVE ~Holds(respq[w]["exec"], "reply")
  BY DEF RepliesAreScheduled
<1>1. respq[w]["exec"] = <<>>
  BY DEF Init, Lane
<1>2. QED
  BY <1>1 DEF Holds

\* The handshake of ExecutorLoop and the handler over response_queue_scheduled_
\* loses no reply, for any limits and whether or not the store of the flag may be
\* delayed, in every behaviour in which no such store is delayed past the recheck
\* behind it: that is the one way in which a reply can be left behind.
THEOREM NoLostReply == Spec /\ []StoreBeforeRecheck => []RepliesAreScheduled
<1> DEFINE IInv == TypeOK /\ SingleHandler /\ RepliesAreScheduled
<1>1. Init => IInv
  BY InitType, InitHandlers, InitReplies
<1>2. IInv /\ StoreBeforeRecheck /\ [Next]_vars => IInv'
  BY StepType, StepHandlers, StepReplies
<1>3. IInv => RepliesAreScheduled
  OBVIOUS
<1>4. QED
  BY <1>1, <1>2, <1>3, PTL DEF Spec

\* A store that is fenced from the load behind it is never delayed at all, so
\* that with one no reply is ever left behind.
LEMMA FencedStoreIsPrompt ==
  ASSUME Fenced
  PROVE  Spec => []StoreBeforeRecheck
<1> DEFINE Prompt == \A w \in Worker : ~storebuf[w]
           IInv == TypeOK /\ Prompt
<1>1. Init => IInv
  BY InitType, Zenon DEF Init
<1>2. ASSUME IInv, [Next]_vars PROVE UNCHANGED storebuf
  <2> USE DEF handler
  <2>1. ASSUME NEW c \in Conn, Client(c) PROVE UNCHANGED storebuf
    BY <2>1, Zenon DEF Client, Accept, Close, Receive
  <2>2. ASSUME NEW w \in Worker, ExecutorLoop(w) PROVE UNCHANGED storebuf
    BY <2>2, Zenon DEF ExecutorLoop, ExecuteLocal, ExecutePublish, Forward, ExecuteForwarded,
      EndCommands, TakeCrossResponse, EndCrossResponses, TakePubSub, Flush
  <2>3. ASSUME NEW w \in Worker, ResponseHandler(w) PROVE UNCHANGED storebuf
    BY <1>2, <2>3, Zenon DEF ResponseHandler, BeginHandler, DrainOne,
      SendBatches, ClearScheduled, StoreVisible, Recheck
  <2>4. ASSUME NEW w \in Worker, Stop(w) PROVE UNCHANGED storebuf
    BY <2>4 DEF Stop
  <2>5. QED
    BY <1>2, <2>1, <2>2, <2>3, <2>4 DEF Next, vars
<1>3. IInv /\ [Next]_vars => IInv'
  BY <1>2, StepType
<1>4. IInv => StoreBeforeRecheck
  BY DEF StoreBeforeRecheck
<1>5. QED
  BY <1>1, <1>3, <1>4, PTL DEF Spec
=============================================================================
