-------------------------- MODULE PersistenceProofs --------------------------
(***************************************************************************)
(* Proofs about the two files.  AofPipeline, for any number of workers and *)
(* writes and any batch size: its types, and that it implements DurableLog *)
(* as the append-only file should.  RdbFormat: which lengths               *)
(* RdbReader::ReadLength reads as RdbWriter::WriteLength has written them. *)
(***************************************************************************)
EXTENDS AofPipeline, RdbFormat, TLAPS

-----------------------------------------------------------------------------
(* Types. *)

\* try_dequeue and Append keep the types of the queue and of the buffer.
LEMMA MoveType ==
  ASSUME TypeOK, NEW w \in Worker, MoveToBuffer(w)
  PROVE  queue' \in [Worker -> Seq(Write)] /\ buffer' \in Seq(Write)
<1>1. queue[w] \in Seq(Write) /\ queue[w] # <<>>
  BY DEF TypeOK, MoveToBuffer
<1>2. Head(queue[w]) \in Write /\ Tail(queue[w]) \in Seq(Write)
  BY <1>1
<1>3. Append(buffer, Head(queue[w])) \in Seq(Write)
  BY <1>2 DEF TypeOK
<1> QED BY <1>2, <1>3 DEF TypeOK, MoveToBuffer

\* Flush keeps the types of the buffer and of the file.
LEMMA FlushType ==
  ASSUME TypeOK, FlushBuffer
  PROVE  file' \in Seq(Write) /\ buffer' \in Seq(Write)
BY DEF TypeOK, FlushBuffer

\* Every step keeps the types.
LEMMA StepType ==
  ASSUME TypeOK, [Next]_vars
  PROVE  TypeOK'
<1>1. CASE UNCHANGED vars
  BY <1>1 DEF vars, workers, TypeOK
<1>2. ASSUME NEW w \in Worker, Executor(w)
      PROVE  TypeOK'
  <2>1. CASE AppendCommand(w)
    <3>1. issued[w] \in Nat /\ issued[w] + 1 \in 0..MaxWrites
      BY <2>1, AofAssumption DEF AppendCommand, TypeOK
    <3>2. [worker |-> w, n |-> issued[w] + 1] \in Write
      BY <3>1 DEF Write
    <3>3. Append(queue[w], [worker |-> w, n |-> issued[w] + 1]) \in Seq(Write)
      BY <3>2 DEF TypeOK
    <3>4. queue' \in [Worker -> Seq(Write)]
      BY <2>1, <3>3 DEF AppendCommand, TypeOK
    <3> QED BY <2>1, <3>1, <3>4 DEF AppendCommand, TypeOK
  <2>2. CASE AppendSignal(w)
    BY <2>2 DEF AppendSignal, Signal, TypeOK
  <2>3. CASE StopWorker(w)
    BY <2>3 DEF StopWorker, TypeOK
  <2> QED BY <1>2, <2>1, <2>2, <2>3 DEF Executor
<1>3. CASE Loop \/ DecideToWait \/ Wait \/ SpuriousWakeup
  BY <1>3, AofAssumption DEF Loop, DecideToWait, Wait, SpuriousWakeup, workers, TypeOK
<1>4. ASSUME NEW w \in Worker, Process(w) \/ FinalProcess(w)
      PROVE  TypeOK'
  <2>1. queue' \in [Worker -> Seq(Write)] /\ buffer' \in Seq(Write)
    BY <1>4, MoveType DEF Process, FinalProcess
  <2>2. processed' \in 0..BatchSize
    BY <1>4, AofAssumption DEF Process, FinalProcess, TypeOK
  <2> QED BY <1>4, <2>1, <2>2 DEF Process, FinalProcess, workers, TypeOK
<1>5. CASE EndBatch \/ FinalFlush \/ Sync \/ JoinSync
  <2>1. file' \in Seq(Write) /\ buffer' \in Seq(Write)
    BY <1>5, FlushType DEF EndBatch, FinalFlush, Sync, JoinSync
  <2> QED BY <1>5, <2>1 DEF EndBatch, FinalFlush, Sync, JoinSync, workers, TypeOK
<1>6. CASE SyncWake
  BY <1>6 DEF SyncWake, workers, TypeOK
<1>7. CASE BeginShutdown \/ ShutdownSignal \/ JoinProcessing
  BY <1>7, Zenon DEF BeginShutdown, ShutdownSignal, JoinProcessing, Signal, workers, TypeOK
<1> QED BY <1>1, <1>2, <1>3, <1>4, <1>5, <1>6, <1>7
        DEF Next, ProcessCommands, SyncThread, Shutdown

\* The initial state has the types.
LEMMA InitType == Init => TypeOK
BY AofAssumption DEF Init, TypeOK

\* Queue, buffer, file, flags and thread positions keep their types, and a batch never
\* takes more than kBatchSize commands.
THEOREM TypeCorrect == Spec => []TypeOK
BY InitType, StepType, PTL DEF Spec

-----------------------------------------------------------------------------
(* The invariant behind the refinement.  What has left the queue is Stream, in the *)
(* file or still in the buffer; Taken counts it.  Stream is a log of exactly the   *)
(* first Taken[w] commands of every w, and the queue holds the rest in order.      *)

Stream == file \o buffer

Taken == [w \in Worker |-> issued[w] - Len(queue[w])]

\* l holds the first d[w] commands of every worker w, in order.
LogOf(l, d) ==
  /\ Log!InOrder(l)
  /\ \A i \in 1..Len(l) : l[i].n \in 1..d[l[i].worker]
  /\ \A w \in Worker : \A n \in 1..d[w] : Log!InLog(l, w, n)

\* q holds the last commands of w, of which there are k.
LaneOf(q, w, k) ==
  /\ Len(q) <= k
  /\ \A i \in 1..Len(q) : q[i] = [worker |-> w, n |-> k - Len(q) + i]

\* Shutdown begins when the workers have stopped; the processing thread leaves its loop
\* after that, and ends when everything is in the file.
Stopping ==
  /\ running <=> shut = "up"
  /\ shut # "up" => \A w \in Worker : wpc[w] = "stopped"
  /\ ppc \in {"final", "exit"} => ~running
  /\ ppc = "exit" => QueueEmpty /\ buffer = <<>>
  /\ shut \in {"stop", "down"} => ppc = "exit"

Pipeline ==
  /\ TypeOK
  /\ LogOf(Stream, Taken)
  /\ \A w \in Worker : LaneOf(queue[w], w, issued[w])
  /\ Stopping

\* A command appended behind the buffer comes behind the whole stream.
LEMMA StreamAppend ==
  ASSUME NEW s \in Seq(Write), NEW t \in Seq(Write), NEW x \in Write
  PROVE  s \o Append(t, x) = Append(s \o t, x)
OBVIOUS

\* A log grows by the next command of a worker.
LEMMA LogGrows ==
  ASSUME NEW l \in Seq(Write), NEW d \in [Worker -> Nat], NEW w \in Worker, LogOf(l, d)
  PROVE  LogOf(Append(l, [worker |-> w, n |-> d[w] + 1]), [d EXCEPT ![w] = @ + 1])
<1> DEFINE x == [worker |-> w, n |-> d[w] + 1]
           m == Append(l, x)
           e == [d EXCEPT ![w] = @ + 1]
<1>1. /\ d[w] \in Nat /\ x \in Write /\ x.worker = w /\ x.n = d[w] + 1
      /\ [x EXCEPT !.n = @ - 1] = [worker |-> w, n |-> d[w]]
  BY DEF Write
<1>2. /\ Len(l) \in Nat /\ Len(m) = Len(l) + 1 /\ m[Len(l) + 1] = x
      /\ \A i \in 1..Len(l) : m[i] = l[i] /\ l[i] \in Write
  BY <1>1
<1>3. /\ e[w] = d[w] + 1 /\ \A v \in Worker : d[v] \in Nat /\ e[v] \in Nat /\ d[v] <= e[v]
      /\ \A v \in Worker : v # w => e[v] = d[v]
  BY <1>1
<1> HIDE DEF x, m, e
<1>4. \A i \in 1..Len(l) : l[i].worker \in Worker /\ l[i].n \in 1..d[l[i].worker]
  BY <1>2 DEF LogOf, Write
<1>5. Log!InOrder(m)
  <2> SUFFICES ASSUME NEW i \in 1..Len(m)
               PROVE  /\ m[i].n = 1 \/ \E j \in 1..(i - 1) : m[j] = [m[i] EXCEPT !.n = @ - 1]
                      /\ \A j \in 1..(i - 1) : m[j].worker = m[i].worker => m[j].n < m[i].n
    BY DEF Log!InOrder
  <2>1. CASE i \in 1..Len(l)
    <3>1. /\ l[i].n = 1 \/ \E j \in 1..(i - 1) : l[j] = [l[i] EXCEPT !.n = @ - 1]
          /\ \A j \in 1..(i - 1) : l[j].worker = l[i].worker => l[j].n < l[i].n
      BY <2>1, Zenon DEF LogOf, Log!InOrder
    <3>2. \A j \in 1..(i - 1) : m[j] = l[j]
      BY <1>2, <2>1
    <3>3. m[i] = l[i]
      BY <1>2, <2>1
    <3> QED BY <3>1, <3>2, <3>3, Zenon
  <2>2. CASE i = Len(l) + 1
    <3>1. m[i] = x /\ \A j \in 1..(i - 1) : j \in 1..Len(l) /\ m[j] = l[j]
      BY <1>2, <2>2
    <3>2. ASSUME NEW j \in 1..(i - 1), m[j].worker = w
          PROVE  m[j].n < x.n
      BY <1>1, <1>4, <3>1, <3>2
    <3>3. ASSUME x.n # 1
          PROVE  \E j \in 1..(i - 1) : m[j] = [x EXCEPT !.n = @ - 1]
      <4>1. d[w] \in 1..d[w]
        BY <1>1, <3>3
      <4>2. PICK j \in 1..Len(l) : l[j].worker = w /\ l[j].n = d[w]
        BY <4>1 DEF LogOf, Log!InLog
      <4>3. l[j] = [worker |-> w, n |-> d[w]]
        BY <1>2, <4>2 DEF Write
      <4>4. j \in 1..(i - 1) /\ m[j] = l[j]
        BY <1>2, <2>2
      <4> QED BY <1>1, <4>3, <4>4
    <3> QED BY <1>1, <3>1, <3>2, <3>3
  <2>3. i \in 1..Len(l) \/ i = Len(l) + 1
    BY <1>2
  <2> QED BY <2>1, <2>2, <2>3, Zenon
<1>6. ASSUME NEW i \in 1..Len(m)
      PROVE  m[i].n \in 1..e[m[i].worker]
  <2>1. CASE i \in 1..Len(l)
    <3>1. m[i] = l[i] /\ l[i].worker \in Worker /\ l[i].n \in 1..d[l[i].worker]
      BY <1>2, <1>4, <2>1
    <3>2. d[l[i].worker] \in Nat /\ e[l[i].worker] \in Nat /\ d[l[i].worker] <= e[l[i].worker]
      BY <1>3, <3>1
    <3> QED BY <3>1, <3>2
  <2>2. CASE i = Len(l) + 1
    <3>1. m[i].worker = w /\ m[i].n = d[w] + 1
      BY <1>1, <1>2, <2>2, Zenon
    <3>2. d[w] + 1 \in 1..e[w]
      BY <1>1, <1>3
    <3> QED BY <3>1, <3>2
  <2> QED BY <1>2, <2>1, <2>2
<1>7. ASSUME NEW v \in Worker, NEW n \in 1..e[v]
      PROVE  Log!InLog(m, v, n)
  <2>1. CASE n \in 1..d[v]
    <3>1. PICK i \in 1..Len(l) : l[i].worker = v /\ l[i].n = n
      BY <2>1, Zenon DEF LogOf, Log!InLog
    <3>2. i \in 1..Len(m) /\ m[i] = l[i]
      BY <1>2
    <3> QED BY <3>1, <3>2 DEF Log!InLog
  <2>2. CASE n \notin 1..d[v]
    <3>1. v = w /\ n = d[w] + 1
      BY <1>3, <2>2
    <3>2. Len(l) + 1 \in 1..Len(m)
      BY <1>2
    <3> QED BY <1>1, <1>2, <3>1, <3>2, Zenon DEF Log!InLog
  <2> QED BY <2>1, <2>2
<1> QED BY <1>5, <1>6, <1>7 DEF LogOf, m, e, x

\* A lane without its first command.
LEMMA LaneTail ==
  ASSUME NEW q \in Seq(Write), q # <<>>, NEW w, NEW k \in Nat, LaneOf(q, w, k)
  PROVE  /\ LaneOf(Tail(q), w, k)
         /\ Head(q) = [worker |-> w, n |-> k - Len(q) + 1]
         /\ k - Len(Tail(q)) = k - Len(q) + 1
<1>1. /\ Len(q) \in Nat /\ Len(q) >= 1 /\ Len(Tail(q)) = Len(q) - 1 /\ Head(q) = q[1]
      /\ \A i \in 1..Len(Tail(q)) : Tail(q)[i] = q[i + 1] /\ i + 1 \in 1..Len(q)
  OBVIOUS
<1>2. ASSUME NEW i \in 1..Len(Tail(q))
      PROVE  Tail(q)[i] = [worker |-> w, n |-> k - Len(Tail(q)) + i]
  <2>1. Tail(q)[i] = [worker |-> w, n |-> k - Len(q) + (i + 1)]
    BY <1>1 DEF LaneOf
  <2>2. k - Len(q) + (i + 1) = k - Len(Tail(q)) + i
    BY <1>1
  <2> QED BY <2>1, <2>2
<1>3. Head(q) = [worker |-> w, n |-> k - Len(q) + 1]
  BY <1>1 DEF LaneOf
<1>4. Len(Tail(q)) <= k /\ k - Len(Tail(q)) = k - Len(q) + 1
  BY <1>1 DEF LaneOf
<1> QED BY <1>2, <1>3, <1>4 DEF LaneOf

\* A lane with one more command.
LEMMA LaneAppend ==
  ASSUME NEW q \in Seq(Write), NEW w \in Worker, NEW k \in Nat, LaneOf(q, w, k)
  PROVE  LET r == Append(q, [worker |-> w, n |-> k + 1])
         IN  LaneOf(r, w, k + 1) /\ (k + 1) - Len(r) = k - Len(q)
<1> DEFINE x == [worker |-> w, n |-> k + 1]
           r == Append(q, x)
<1>1. x \in Write
  BY DEF Write
<1> HIDE DEF x
<1>2. /\ Len(q) \in Nat /\ Len(q) <= k /\ Len(r) = Len(q) + 1 /\ r[Len(q) + 1] = x
      /\ \A i \in 1..Len(q) : r[i] = q[i]
  BY <1>1 DEF LaneOf
<1> HIDE DEF r
<1>3. ASSUME NEW i \in 1..Len(r)
      PROVE  r[i] = [worker |-> w, n |-> (k + 1) - Len(r) + i]
  <2>1. CASE i \in 1..Len(q)
    <3>1. r[i] = [worker |-> w, n |-> k - Len(q) + i]
      BY <1>2, <2>1, Zenon DEF LaneOf
    <3>2. k - Len(q) + i = (k + 1) - Len(r) + i
      BY <1>2
    <3> QED BY <3>1, <3>2
  <2>2. CASE i = Len(q) + 1
    <3>1. k + 1 = (k + 1) - Len(r) + i
      BY <1>2, <2>2
    <3> QED BY <1>2, <2>2, <3>1 DEF x
  <2> QED BY <1>2, <2>1, <2>2
<1>4. Len(r) <= k + 1 /\ (k + 1) - Len(r) = k - Len(q)
  BY <1>2
<1> QED BY <1>3, <1>4 DEF LaneOf, r, x
\* What Taken is worth.
LEMMA TakenType ==
  ASSUME TypeOK, \A w \in Worker : LaneOf(queue[w], w, issued[w])
  PROVE  /\ Taken \in [Worker -> Nat]
         /\ \A w \in Worker : /\ issued[w] \in Nat /\ queue[w] \in Seq(Write)
                              /\ Taken[w] = issued[w] - Len(queue[w]) /\ Taken[w] <= issued[w]
<1> SUFFICES ASSUME NEW w \in Worker
             PROVE  /\ issued[w] \in Nat /\ queue[w] \in Seq(Write)
                    /\ issued[w] - Len(queue[w]) \in Nat
                    /\ issued[w] - Len(queue[w]) <= issued[w]
  BY DEF Taken
<1>1. issued[w] \in Nat /\ queue[w] \in Seq(Write) /\ Len(queue[w]) \in Nat
  BY AofAssumption DEF TypeOK
<1>2. Len(queue[w]) <= issued[w]
  BY DEF LaneOf
<1> QED BY <1>1, <1>2

\* AppendCommand lengthens a lane and leaves the stream.
LEMMA AppendPipeline ==
  ASSUME Pipeline, NEW w \in Worker, AppendCommand(w)
  PROVE  /\ Stream' = Stream /\ Taken' = Taken
         /\ \A v \in Worker : LaneOf(queue'[v], v, issued'[v])
<1>1. /\ Taken \in [Worker -> Nat]
      /\ \A v \in Worker : issued[v] \in Nat /\ queue[v] \in Seq(Write)
  BY TakenType DEF Pipeline
<1> DEFINE r == Append(queue[w], [worker |-> w, n |-> issued[w] + 1])
<1>2. LaneOf(r, w, issued[w] + 1) /\ (issued[w] + 1) - Len(r) = issued[w] - Len(queue[w])
  BY <1>1, LaneAppend DEF Pipeline
<1>3. /\ queue'[w] = r /\ issued'[w] = issued[w] + 1
      /\ \A v \in Worker : v # w => queue'[v] = queue[v] /\ issued'[v] = issued[v]
  BY DEF AppendCommand, Pipeline, TypeOK
<1> HIDE DEF r
<1>4. ASSUME NEW v \in Worker
      PROVE  /\ issued'[v] - Len(queue'[v]) = issued[v] - Len(queue[v])
             /\ LaneOf(queue'[v], v, issued'[v])
  <2>1. CASE v = w
    <3>1. queue'[v] = r /\ issued'[v] = issued[w] + 1
      BY <1>3, <2>1
    <3>2. LaneOf(queue'[v], v, issued'[v])
      BY <1>2, <2>1, <3>1, Zenon
    <3>3. issued'[v] - Len(queue'[v]) = issued[v] - Len(queue[v])
      BY <1>2, <2>1, <3>1, Zenon
    <3> QED BY <3>2, <3>3
  <2>2. CASE v # w
    BY <1>3, <2>2 DEF Pipeline
  <2> QED BY <2>1, <2>2
<1>5. Taken' = Taken
  BY <1>4 DEF Taken
<1>6. Stream' = Stream
  BY DEF AppendCommand, Stream
<1> QED BY <1>4, <1>5, <1>6

\* MoveToBuffer appends the next command of a worker to the stream.
LEMMA MovePipeline ==
  ASSUME Pipeline, NEW w \in Worker, MoveToBuffer(w), file' = file, issued' = issued
  PROVE  /\ LogOf(Stream', Taken')
         /\ \A v \in Worker : LaneOf(queue'[v], v, issued'[v])
<1>1. /\ Taken \in [Worker -> Nat]
      /\ \A v \in Worker : /\ issued[v] \in Nat /\ queue[v] \in Seq(Write)
                           /\ Taken[v] = issued[v] - Len(queue[v])
  BY TakenType DEF Pipeline
<1>2. queue[w] # <<>> /\ LaneOf(queue[w], w, issued[w])
  BY DEF MoveToBuffer, Pipeline
<1>3. /\ LaneOf(Tail(queue[w]), w, issued[w])
      /\ Head(queue[w]) = [worker |-> w, n |-> issued[w] - Len(queue[w]) + 1]
      /\ issued[w] - Len(Tail(queue[w])) = issued[w] - Len(queue[w]) + 1
  BY <1>1, <1>2, LaneTail, Zenon
<1>4. /\ queue'[w] = Tail(queue[w])
      /\ \A v \in Worker : v # w => queue'[v] = queue[v]
  BY DEF MoveToBuffer, Pipeline, TypeOK
<1>5. ASSUME NEW v \in Worker PROVE LaneOf(queue'[v], v, issued'[v])
  BY <1>3, <1>4 DEF Pipeline
<1>6. Taken' = [Taken EXCEPT ![w] = @ + 1]
  <2>1. \A v \in Worker : issued'[v] - Len(queue'[v]) = [Taken EXCEPT ![w] = @ + 1][v]
    BY <1>1, <1>3, <1>4, Zenon
  <2> QED BY <1>1, <2>1, Zenon DEF Taken
<1>7. Head(queue[w]) = [worker |-> w, n |-> Taken[w] + 1] /\ Head(queue[w]) \in Write
  BY <1>1, <1>2, <1>3
<1>8. Stream' = Append(Stream, [worker |-> w, n |-> Taken[w] + 1])
  BY <1>7, StreamAppend, SMTT(30) DEF Stream, MoveToBuffer, Pipeline, TypeOK
<1>9. Stream \in Seq(Write) /\ LogOf(Stream, Taken)
  BY DEF Stream, Pipeline, TypeOK
<1>10. LogOf(Append(Stream, [worker |-> w, n |-> Taken[w] + 1]), [Taken EXCEPT ![w] = @ + 1])
  BY <1>1, <1>9, LogGrows, Zenon
<1> QED BY <1>5, <1>6, <1>8, <1>10

\* Flush leaves the stream.
LEMMA FlushStream ==
  ASSUME TypeOK, FlushBuffer
  PROVE  Stream' = Stream
BY DEF TypeOK, FlushBuffer, Stream

\* Every step keeps the order in which threads stop.
LEMMA StepStopping ==
  ASSUME TypeOK, Stopping, [Next]_vars
  PROVE  Stopping'
<1>1. CASE UNCHANGED vars
  BY <1>1 DEF vars, workers, Stopping, QueueEmpty
<1>2. ASSUME NEW w \in Worker, Executor(w)
      PROVE  Stopping'
  <2>1. CASE AppendCommand(w)
    <3>1. shut = "up" /\ running
      BY <2>1 DEF AppendCommand, Stopping
    <3> QED BY <2>1, <3>1 DEF AppendCommand, Stopping
  <2>2. CASE AppendSignal(w)
    <3>1. shut = "up" /\ running
      BY <2>2 DEF AppendSignal, Stopping
    <3> QED BY <2>2, <3>1 DEF AppendSignal, Signal, Stopping
  <2>3. CASE StopWorker(w)
    <3>1. shut = "up" /\ running
      BY <2>3 DEF StopWorker, Stopping
    <3> QED BY <2>3, <3>1 DEF StopWorker, Stopping
  <2> QED BY <1>2, <2>1, <2>2, <2>3 DEF Executor
<1>3. CASE Loop \/ DecideToWait \/ Wait \/ SpuriousWakeup
  BY <1>3 DEF Loop, DecideToWait, Wait, SpuriousWakeup, workers, Stopping
<1>4. ASSUME NEW w \in Worker, Process(w) \/ FinalProcess(w)
      PROVE  Stopping'
  BY <1>4 DEF Process, FinalProcess, workers, Stopping
<1>5. CASE EndBatch \/ FinalFlush
  BY <1>5 DEF EndBatch, FinalFlush, FlushBuffer, workers, Stopping, QueueEmpty
<1>6. CASE Sync \/ SyncWake
  BY <1>6 DEF Sync, SyncWake, FlushBuffer, workers, Stopping, QueueEmpty
<1>7. CASE BeginShutdown \/ ShutdownSignal \/ JoinProcessing \/ JoinSync
  BY <1>7 DEF BeginShutdown, ShutdownSignal, JoinProcessing, JoinSync, FlushBuffer, Signal,
              workers, Stopping, QueueEmpty
<1> QED BY <1>1, <1>2, <1>3, <1>4, <1>5, <1>6, <1>7
        DEF Next, ProcessCommands, SyncThread, Shutdown

\* Every step keeps Pipeline.
LEMMA StepPipeline ==
  ASSUME Pipeline, [Next]_vars
  PROVE  Pipeline'
<1>1. TypeOK' /\ Stopping'
  BY StepType, StepStopping DEF Pipeline
<1>2. ASSUME Stream' = Stream, issued' = issued, queue' = queue
      PROVE  Pipeline'
  <2>1. Taken' = Taken
    BY <1>2 DEF Taken
  <2> QED BY <1>1, <1>2, <2>1 DEF Pipeline
<1>3. ASSUME LogOf(Stream', Taken'), \A v \in Worker : LaneOf(queue'[v], v, issued'[v])
      PROVE  Pipeline'
  BY <1>1, <1>3 DEF Pipeline
<1>4. CASE UNCHANGED vars
  BY <1>2, <1>4 DEF vars, workers, Stream
<1>5. ASSUME NEW w \in Worker, Executor(w)
      PROVE  Pipeline'
  <2>1. CASE AppendCommand(w)
    BY <1>3, <2>1, AppendPipeline DEF Pipeline
  <2>2. CASE AppendSignal(w) \/ StopWorker(w)
    BY <1>2, <2>2 DEF AppendSignal, StopWorker, Stream
  <2> QED BY <1>5, <2>1, <2>2 DEF Executor
<1>6. CASE Loop \/ DecideToWait \/ Wait \/ SpuriousWakeup \/ SyncWake
  BY <1>2, <1>6 DEF Loop, DecideToWait, Wait, SpuriousWakeup, SyncWake, workers, Stream
<1>7. ASSUME NEW w \in Worker, Process(w) \/ FinalProcess(w)
      PROVE  Pipeline'
  BY <1>3, <1>7, MovePipeline DEF Process, FinalProcess, workers
<1>8. CASE EndBatch \/ FinalFlush \/ Sync \/ JoinSync
  BY <1>2, <1>8, FlushStream DEF EndBatch, FinalFlush, Sync, JoinSync, workers, Pipeline
<1>9. CASE BeginShutdown \/ ShutdownSignal \/ JoinProcessing
  BY <1>2, <1>9 DEF BeginShutdown, ShutdownSignal, JoinProcessing, workers, Stream
<1> QED BY <1>4, <1>5, <1>6, <1>7, <1>8, <1>9
        DEF Next, ProcessCommands, SyncThread, Shutdown

\* The invariant holds initially.
LEMMA InitPipeline == Init => Pipeline
<1> SUFFICES ASSUME Init PROVE Pipeline
  OBVIOUS
<1>1. Stream = <<>> /\ \A w \in Worker : Taken[w] = 0
  BY DEF Init, Stream, Taken
<1>2. LogOf(Stream, Taken)
  BY <1>1 DEF LogOf, Log!InOrder
<1>3. \A w \in Worker : LaneOf(queue[w], w, issued[w])
  <2> SUFFICES ASSUME NEW w \in Worker PROVE LaneOf(queue[w], w, issued[w])
    BY Zenon
  <2>1. queue[w] = <<>> /\ issued[w] = 0 /\ Len(queue[w]) = 0
    BY DEF Init
  <2> QED BY <2>1 DEF LaneOf
<1>4. Stopping
  BY DEF Init, Stopping
<1> QED BY <1>2, <1>3, <1>4, InitType DEF Pipeline
-----------------------------------------------------------------------------
(* The refinement. *)

\* A flush of a buffer that holds something is a Persist of the log, any other flush
\* leaves the log as it is.
LEMMA FlushRefines ==
  ASSUME Pipeline, FlushBuffer, issued' = issued, shut' = shut
  PROVE  Log!Persist \/ UNCHANGED <<issued, file, (shut # "down")>>
<1>1. CASE buffer = <<>>
  <2>1. file' = file
    BY <1>1 DEF FlushBuffer, Pipeline, TypeOK
  <2> QED BY <2>1
<1>2. CASE buffer # <<>>
  <2>1. shut # "down"
    BY <1>2 DEF Pipeline, Stopping
  <2>2. /\ file \in Seq(Write) /\ buffer \in Seq(Write) /\ file' = Stream
        /\ Len(buffer) \in Nat /\ Len(buffer) >= 1 /\ Len(file) \in Nat
        /\ Len(Stream) = Len(file) + Len(buffer)
    BY <1>2 DEF FlushBuffer, Stream, Pipeline, TypeOK
  <2>3. Len(file') > Len(file) /\ SubSeq(file', 1, Len(file)) = file
    <3>1. Len(file') > Len(file)
      BY <2>2
    <3>2. SubSeq(file \o buffer, 1, Len(file)) = file
      BY <2>2
    <3> QED BY <2>2, <3>1, <3>2 DEF Stream
  <2>4. Log!InOrder(file')
    BY <2>2 DEF Pipeline, LogOf
  <2>5. ASSUME NEW i \in 1..Len(file')
        PROVE  file'[i].n \in 1..issued[file'[i].worker]
    <3>1. Stream \in Seq(Write) /\ file' = Stream /\ i \in 1..Len(Stream)
      BY <2>2 DEF Stream
    <3>2. Stream[i].worker \in Worker /\ Stream[i].n \in 1..Taken[Stream[i].worker]
      <4>1. Stream[i] \in Write
        BY <3>1
      <4>2. \A k \in 1..Len(Stream) : Stream[k].n \in 1..Taken[Stream[k].worker]
        BY DEF Pipeline, LogOf
      <4> QED BY <3>1, <4>1, <4>2 DEF Write
    <3>3. /\ Taken[Stream[i].worker] \in Nat /\ issued[Stream[i].worker] \in Nat
          /\ Taken[Stream[i].worker] <= issued[Stream[i].worker]
      BY <3>2, TakenType DEF Pipeline
    <3> QED BY <3>1, <3>2, <3>3
  <2> QED BY <2>1, <2>3, <2>4, <2>5 DEF Log!Persist
<1> QED BY <1>1, <1>2

\* Every step is a step of the log or leaves it as it is.
LEMMA StepRefines ==
  ASSUME Pipeline, [Next]_vars
  PROVE  [Log!Next]_<<issued, file, (shut # "down")>>
<1>1. CASE UNCHANGED vars
  BY <1>1 DEF vars, workers
<1>2. ASSUME NEW w \in Worker, Executor(w)
      PROVE  [Log!Next]_<<issued, file, (shut # "down")>>
  <2>1. CASE AppendCommand(w)
    <3>1. shut = "up" /\ shut' = shut /\ file' = file
      BY <2>1 DEF AppendCommand, Pipeline, Stopping
    <3>2. Log!Accept(w)
      BY <2>1, <3>1 DEF AppendCommand, Log!Accept
    <3> QED BY <3>2 DEF Log!Next
  <2>2. CASE AppendSignal(w) \/ StopWorker(w)
    BY <2>2 DEF AppendSignal, StopWorker
  <2> QED BY <1>2, <2>1, <2>2 DEF Executor
<1>3. CASE Loop \/ DecideToWait \/ Wait \/ SpuriousWakeup \/ SyncWake
  BY <1>3 DEF Loop, DecideToWait, Wait, SpuriousWakeup, SyncWake, workers
<1>4. ASSUME NEW w \in Worker, Process(w) \/ FinalProcess(w)
      PROVE  [Log!Next]_<<issued, file, (shut # "down")>>
  BY <1>4 DEF Process, FinalProcess, workers
<1>5. CASE EndBatch \/ FinalFlush \/ Sync
  BY <1>5, FlushRefines DEF EndBatch, FinalFlush, Sync, workers, Log!Next
<1>6. CASE BeginShutdown \/ ShutdownSignal \/ JoinProcessing
  BY <1>6 DEF BeginShutdown, ShutdownSignal, JoinProcessing, workers
<1>7. CASE JoinSync
  <2>1. /\ buffer = <<>> /\ QueueEmpty /\ file \in Seq(Write)
        /\ shut = "stop" /\ shut' = "down" /\ issued' = issued /\ file' = file \o buffer
    BY <1>7 DEF JoinSync, FlushBuffer, workers, Pipeline, Stopping, TypeOK
  <2>2. file' = file /\ Stream = file
    BY <2>1 DEF Stream
  <2>3. ASSUME NEW w \in Worker, NEW n \in 1..issued[w]
        PROVE  Log!InLog(file, w, n)
    <3>1. Taken[w] = issued[w]
      BY <2>1, TakenType DEF QueueEmpty, Pipeline
    <3> QED BY <2>2, <3>1 DEF Pipeline, LogOf
  <2>4. Log!Close
    BY <2>1, <2>2, <2>3 DEF Log!Close
  <2> QED BY <2>4 DEF Log!Next
<1> QED BY <1>1, <1>2, <1>3, <1>4, <1>5, <1>6, <1>7
        DEF Next, ProcessCommands, SyncThread, Shutdown

\* For any workers, writes and batch size, the queue, the buffer, the two flushing threads
\* and the shutdown sequence implement the append-only log: each worker's commands reach
\* the file in order, once, and all of them before Shutdown returns.
THEOREM Refinement == Spec => ImplementsDurableLog
<1>1. Init => Log!Init
  BY DEF Init, Log!Init
<1>2. Pipeline /\ [Next]_vars => [Log!Next]_<<issued, file, (shut # "down")>>
  BY StepRefines
<1>3. Pipeline /\ [Next]_vars => Pipeline'
  BY StepPipeline
<1> QED BY <1>1, <1>2, <1>3, InitPipeline, PTL DEF Spec, ImplementsDurableLog, Log!Spec

-----------------------------------------------------------------------------
(* Lengths in an RDB file. *)

\* A length below 2^14 is read back, from exactly the bytes that were written,
\* whatever stands behind them in the file.
THEOREM ShortLengthsReadBack ==
    ASSUME NEW n \in Nat, n < 16384, NEW rest \in Seq(0..255)
    PROVE  ReadLength(WriteLength(n) \o rest) = [length |-> n, bytes |-> Len(WriteLength(n))]
<1>1. CASE n < 64
  <2>1. WriteLength(n) = <<n>>
    BY <1>1 DEF WriteLength
  <2>2. (<<n>> \o rest)[1] = n
    OBVIOUS
  <2> QED
    BY <1>1, <2>1, <2>2 DEF ReadLength
<1>2. CASE n >= 64
  <2> DEFINE hi == n \div 256
             lo == n % 256
  <2>1. n = 256 * hi + lo /\ hi \in 0..63 /\ lo \in 0..255
    OBVIOUS
  <2>2. WriteLength(n) = <<64 + hi, lo>>
    BY <1>2 DEF WriteLength
  <2> HIDE DEF hi, lo
  <2>3. (<<64 + hi, lo>> \o rest)[1] = 64 + hi /\ (<<64 + hi, lo>> \o rest)[2] = lo
    BY <2>1
  <2>4. ((64 + hi) * 256 + lo) % 16384 = n
    BY <2>1
  <2>5. Len(<<64 + hi, lo>>) = 2
    OBVIOUS
  <2> DEFINE b == <<64 + hi, lo>> \o rest
  <2>6. b[1] = 64 + hi /\ b[2] = lo
    BY <2>3
  <2> HIDE DEF b
  <2>7. ReadLength(b) = [length |-> n, bytes |-> 2]
    BY <2>1, <2>4, <2>6 DEF ReadLength
  <2> QED
    BY <2>2, <2>5, <2>7 DEF b
<1> QED
  BY <1>1, <1>2

\* A length from 2^14 up to 2^48 is read as 0, and six of its nine bytes are left
\* to be read as something else.
THEOREM LongLengthsReadAsZero ==
    ASSUME NEW n \in Nat, n >= 16384, High(n) < 65536, NEW rest \in Seq(0..255)
    PROVE  /\ ReadLength(WriteLength(n) \o rest) = [length |-> 0, bytes |-> 3]
           /\ Len(WriteLength(n)) = 9
<1> DEFINE h == High(n)
<1>1. h \in Nat /\ h \div 16777216 = 0 /\ h \div 65536 = 0
  BY DEF High
<1>2. PICK u, v, w, x, y, z : EightBytes(h, n) = <<128, 0, 0, u, v, w, x, y, z>>
  BY <1>1 DEF EightBytes
<1>3. WriteLength(n) = <<128, 0, 0, u, v, w, x, y, z>>
  BY <1>2 DEF WriteLength
<1> HIDE DEF h
<1> DEFINE b == <<128, 0, 0, u, v, w, x, y, z>> \o rest
<1>4. b[1] = 128 /\ b[2] = 0 /\ b[3] = 0
  OBVIOUS
<1> HIDE DEF b
<1>5. ReadLength(b) = [length |-> 0, bytes |-> 3]
  BY <1>4 DEF ReadLength
<1> QED
  BY <1>3, <1>5 DEF b

=============================================================================
