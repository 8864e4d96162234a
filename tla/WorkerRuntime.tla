---------------------------- MODULE WorkerRuntime ----------------------------
(***************************************************************************)
(* The request path of the server (src/astra/server/worker.hpp).           *)
(*                                                                         *)
(* Every worker runs two threads.  Its IO thread accepts connections,      *)
(* parses commands into cmd_queue_ and, in handlers posted to io_context_, *)
(* drains resp_queue_ to the sockets.  Its executor thread runs            *)
(* ExecutorLoop: it executes the commands whose first key the worker owns, *)
(* forwards the others to the owner's cmd_queue_, collects the answers of  *)
(* forwarded commands and published messages, and then asks for a handler  *)
(* (NotifyResponseQueue).  The two threads meet on the lock-free queues    *)
(* and on the flag response_queue_scheduled_.                              *)
(*                                                                         *)
(* moodycamel::ConcurrentQueue keeps the order of each producing thread    *)
(* and promises nothing between producers, so a queue is a function from   *)
(* producer to sequence and a dequeue takes the head of any lane.          *)
(*                                                                         *)
(* ExecutorLoop's 1 ms wait has no effect but delay (the loop goes on      *)
(* after the timeout whether it was signalled or not), so neither the wait *)
(* nor NotifyExecutorLoop appears as a step.                               *)
(***************************************************************************)
EXTENDS Naturals, Sequences

CONSTANTS
  Worker,        \* the workers (all_workers_)
  Conn,          \* client connections
  Home,          \* Home[c]: the worker whose acceptor got connection c
  Subs,          \* Subs[w]: the connections of w subscribed to the channel that
                 \* PUBLISH names, in the order w's hash set enumerates them
  MaxCmds,       \* MaxCmds[c], a bound: the frames the client of c sends
  Sends,         \* Sends[c], a bound: what the frames of c may ask for
  MaxPerLoop,    \* kMaxLocalCommandsPerLoop
  MaxBatch,      \* kMaxBatchSize of ProcessResponseQueue
  Publish, Bad,  \* a PUBLISH command; a complete frame that does not parse
  Fenced         \* TRUE when the handler's release store of the flag is not
                 \* reordered with the load of the queue size after it;
                 \* memory_order_release alone does not promise that

\* What a frame asks for: a command on a key some worker owns (a command with
\* no key is one on a key of the home worker), a PUBLISH, or nothing valid.
Op == Worker \cup {Publish, Bad}

ASSUME RuntimeAssumption ==
  /\ Home \in [Conn -> Worker]
  /\ Subs \in [Worker -> Seq(Conn)]
  /\ \A w \in Worker : \A i \in 1..Len(Subs[w]) : Home[Subs[w][i]] = w
  /\ \A w \in Worker : \A i, j \in 1..Len(Subs[w]) : Subs[w][i] = Subs[w][j] => i = j
  /\ MaxCmds \in [Conn -> Nat]
  /\ Sends \in [Conn -> SUBSET Op]
  /\ MaxPerLoop \in Nat \ {0} /\ MaxBatch \in Nat \ {0}
  /\ Publish \notin Worker /\ Bad \notin Worker /\ Publish # Bad
  /\ Fenced \in BOOLEAN

Command == [conn : Conn, id : Nat, op : Op]

\* A response in resp_queue_: the reply to a command, a protocol error, or a
\* message pushed to a subscriber.
Response == [conn : Conn, kind : {"reply", "error", "push"}, cmd : Command]

\* The two threads that enqueue into a worker's resp_queue_.
Lane == {"exec", "io"}

VARIABLES
  conns,    \* connections_: is the connection new, open or closed
  issued,   \* frames the client of a connection has sent
  cmdq,     \* cmdq[w][p]: cmd_queue_ of w, lane of p; lane w is w's IO thread,
            \* any other lane is the executor of p (is_forwarded)
  xresp,    \* xresp[w][p]: cross_worker_resp_queue_ of w, lane of executor p
  pubsubq,  \* pubsubq[w][p]: pubsub_msg_queue_ of w, lane of executor p
  respq,    \* respq[w][l]: resp_queue_ of w
  running,  \* running_
  pc,       \* where ExecutorLoop is
  done,     \* local_cmd_count
  hasresp,  \* has_responses
  sched,    \* response_queue_scheduled_ in memory
  storebuf, \* the handler's store of false has not reached memory yet
  posted,   \* handlers posted to io_context_ that have not begun
  io,       \* where the IO thread is in the handler
  took,     \* total_responses of ProcessResponseQueue
  batch,    \* batch[c]: conn_responses, what the handler took for c
  wire      \* wire[c]: what has been written to the socket of c

queues == <<cmdq, xresp, pubsubq>>
handler == <<sched, storebuf, posted, io, took, batch, wire>>
client == <<conns, issued>>
vars == <<client, queues, respq, running, pc, done, hasresp, handler>>

Init ==
  /\ conns = [c \in Conn |-> "new"]
  /\ issued = [c \in Conn |-> 0]
  /\ cmdq = [w \in Worker |-> [p \in Worker |-> <<>>]]
  /\ xresp = [w \in Worker |-> [p \in Worker |-> <<>>]]
  /\ pubsubq = [w \in Worker |-> [p \in Worker |-> <<>>]]
  /\ respq = [w \in Worker |-> [l \in Lane |-> <<>>]]
  /\ running = [w \in Worker |-> TRUE]
  /\ pc = [w \in Worker |-> "cmd"]
  /\ done = [w \in Worker |-> 0]
  /\ hasresp = [w \in Worker |-> FALSE]
  /\ sched = [w \in Worker |-> FALSE]
  /\ storebuf = [w \in Worker |-> FALSE]
  /\ posted = [w \in Worker |-> 0]
  /\ io = [w \in Worker |-> "idle"]
  /\ took = [w \in Worker |-> 0]
  /\ batch = [c \in Conn |-> <<>>]
  /\ wire = [c \in Conn |-> <<>>]

-----------------------------------------------------------------------------
(* The IO thread, between handlers. *)

\* DoAccept: a connection enters connections_ and starts reading.
Accept(c) ==
  /\ io[Home[c]] = "idle" /\ running[Home[c]]
  /\ conns[c] = "new"
  /\ conns' = [conns EXCEPT ![c] = "open"]
  /\ UNCHANGED <<issued, queues, respq, running, pc, done, hasresp, handler>>

\* DoRead and ProcessCommands, one frame: a command goes to cmd_queue_, a frame
\* that does not parse is answered through resp_queue_ (SendResponseViaQueue).
Receive(c, op) ==
  LET w == Home[c]
      m == [conn |-> c, id |-> issued[c] + 1, op |-> op]
  IN /\ io[w] = "idle" /\ running[w]
     /\ conns[c] = "open" /\ issued[c] < MaxCmds[c]
     /\ issued' = [issued EXCEPT ![c] = @ + 1]
     /\ \/ /\ op # Bad
           /\ cmdq' = [cmdq EXCEPT ![w][w] = Append(@, m)]
           /\ UNCHANGED respq
        \/ /\ op = Bad
           /\ respq' = [respq EXCEPT ![w]["io"] =
                 Append(@, [conn |-> c, kind |-> "error", cmd |-> m])]
           /\ UNCHANGED cmdq
     /\ UNCHANGED <<conns, xresp, pubsubq, running, pc, done, hasresp, handler>>

\* The close callback: the connection leaves connections_.  Its commands stay
\* queued and its subscriptions stay in PubSubManager.
Close(c) ==
  /\ io[Home[c]] = "idle" /\ running[Home[c]]
  /\ conns[c] = "open"
  /\ conns' = [conns EXCEPT ![c] = "closed"]
  /\ UNCHANGED <<issued, queues, respq, running, pc, done, hasresp, handler>>

-----------------------------------------------------------------------------
(* The executor thread: one iteration of ExecutorLoop is cmd, xresp, pubsub. *)

\* RouteToWorker on the first key; a command without one stays where it is.
Target(m) == IF m.op = Publish THEN Home[m.conn] ELSE m.op

Reply(m) == [conn |-> m.conn, kind |-> "reply", cmd |-> m]

\* What worker w enqueues for message m: one push for each of its subscribers.
Pushes(w, m) ==
  [i \in 1..Len(Subs[w]) |-> [conn |-> Subs[w][i], kind |-> "push", cmd |-> m]]

AllEmpty(q) == \A p \in Worker : q[p] = <<>>

\* Mutation of Dequeue: local_cmd_count is not tested.
DequeueUnlimited(w, p) ==
  /\ pc[w] = "cmd"
  /\ cmdq[w][p] # <<>>
  /\ done' = [done EXCEPT ![w] = @ + 1]

\* The next command of cmd_queue_ is taken from lane p.
Dequeue(w, p) ==
  /\ pc[w] = "cmd" /\ done[w] < MaxPerLoop
  /\ cmdq[w][p] # <<>>
  /\ done' = [done EXCEPT ![w] = @ + 1]

\* A command of a client whose key this worker owns is executed here.
ExecuteLocal(w) ==
  LET m == Head(cmdq[w][w])
  IN /\ Dequeue(w, w)
     /\ m.op # Publish /\ Target(m) = w
     /\ cmdq' = [cmdq EXCEPT ![w][w] = Tail(@)]
     /\ respq' = [respq EXCEPT ![w]["exec"] = Append(@, Reply(m))]
     /\ hasresp' = [hasresp EXCEPT ![w] = TRUE]
     /\ UNCHANGED <<client, xresp, pubsubq, running, pc, handler>>

\* PUBLISH: PubSubManager::Publish pushes to the local subscribers and sends the
\* message to every other worker; then the reply is enqueued.
ExecutePublish(w) ==
  LET m == Head(cmdq[w][w])
  IN /\ Dequeue(w, w)
     /\ m.op = Publish
     /\ cmdq' = [cmdq EXCEPT ![w][w] = Tail(@)]
     /\ respq' = [respq EXCEPT ![w]["exec"] = Append(@ \o Pushes(w, m), Reply(m))]
     /\ pubsubq' = [v \in Worker |->
           IF v = w THEN pubsubq[v]
           ELSE [pubsubq[v] EXCEPT ![w] = Append(@, m)]]
     /\ hasresp' = [hasresp EXCEPT ![w] = TRUE]
     /\ UNCHANGED <<client, xresp, running, pc, handler>>

\* A command of a client on a key of another worker goes to that worker.
Forward(w) ==
  LET m == Head(cmdq[w][w])
  IN /\ Dequeue(w, w)
     /\ Target(m) # w
     /\ cmdq' = [cmdq EXCEPT ![w][w] = Tail(@), ![Target(m)][w] = Append(@, m)]
     /\ UNCHANGED <<client, xresp, pubsubq, respq, running, pc, hasresp, handler>>

\* A forwarded command is executed here and answered to its source worker.
ExecuteForwarded(w, p) ==
  LET m == Head(cmdq[w][p])
  IN /\ p # w
     /\ Dequeue(w, p)
     /\ cmdq' = [cmdq EXCEPT ![w][p] = Tail(@)]
     /\ xresp' = [xresp EXCEPT ![p][w] = Append(@, m)]
     /\ UNCHANGED <<client, pubsubq, respq, running, pc, hasresp, handler>>

EndCommands(w) ==
  /\ pc[w] = "cmd"
  /\ done[w] = MaxPerLoop \/ AllEmpty(cmdq[w])
  /\ pc' = [pc EXCEPT ![w] = "xresp"]
  /\ UNCHANGED <<client, queues, respq, running, done, hasresp, handler>>

\* Mutation of TakeCrossResponse: has_responses is not set.
TakeCrossResponseQuietly(w, p) ==
  /\ pc[w] = "xresp" /\ xresp[w][p] # <<>>
  /\ xresp' = [xresp EXCEPT ![w][p] = Tail(@)]
  /\ respq' = [respq EXCEPT ![w]["exec"] = Append(@, Reply(Head(xresp[w][p])))]
  /\ UNCHANGED <<client, cmdq, pubsubq, running, pc, done, hasresp, handler>>

\* The answer of a forwarded command moves to resp_queue_.
TakeCrossResponse(w, p) ==
  /\ pc[w] = "xresp" /\ xresp[w][p] # <<>>
  /\ xresp' = [xresp EXCEPT ![w][p] = Tail(@)]
  /\ respq' = [respq EXCEPT ![w]["exec"] = Append(@, Reply(Head(xresp[w][p])))]
  /\ hasresp' = [hasresp EXCEPT ![w] = TRUE]
  /\ UNCHANGED <<client, cmdq, pubsubq, running, pc, done, handler>>

EndCrossResponses(w) ==
  /\ pc[w] = "xresp" /\ AllEmpty(xresp[w])
  /\ pc' = [pc EXCEPT ![w] = "pubsub"]
  /\ UNCHANGED <<client, queues, respq, running, done, hasresp, handler>>

\* ProcessPubSubMessages: the pushes are enqueued and has_responses is left alone.
TakePubSub(w, p) ==
  /\ pc[w] = "pubsub" /\ pubsubq[w][p] # <<>>
  /\ pubsubq' = [pubsubq EXCEPT ![w][p] = Tail(@)]
  /\ respq' = [respq EXCEPT ![w]["exec"] = @ \o Pushes(w, Head(pubsubq[w][p]))]
  /\ UNCHANGED <<client, cmdq, xresp, running, pc, done, hasresp, handler>>

\* Mutation of NotifyResponseQueue: a plain store in place of the compare-exchange.
NotifyAlways(w) ==
  /\ sched' = [sched EXCEPT ![w] = TRUE]
  /\ posted' = [posted EXCEPT ![w] = @ + 1]

\* NotifyResponseQueue's compare-exchange: the caller that turns the flag from
\* false to true posts a handler, any other caller returns.
NotifyResponseQueue(w) ==
  \/ /\ ~sched[w]
     /\ sched' = [sched EXCEPT ![w] = TRUE]
     /\ posted' = [posted EXCEPT ![w] = @ + 1]
  \/ /\ sched[w]
     /\ UNCHANGED <<sched, posted>>

\* The end of an iteration, once no published message is left; the loop condition
\* reads running_.
Flush(w) ==
  /\ pc[w] = "pubsub" /\ AllEmpty(pubsubq[w])
  /\ IF hasresp[w] THEN NotifyResponseQueue(w) ELSE UNCHANGED <<sched, posted>>
  /\ pc' = [pc EXCEPT ![w] = IF running[w] THEN "cmd" ELSE "exit"]
  /\ done' = [done EXCEPT ![w] = 0]
  /\ hasresp' = [hasresp EXCEPT ![w] = FALSE]
  /\ UNCHANGED <<client, queues, respq, running, storebuf, io, took, batch, wire>>

-----------------------------------------------------------------------------
(* The handler NotifyResponseQueue posts, on the IO thread. *)

NoResponses(w) == \A l \in Lane : respq[w][l] = <<>>

\* ProcessResponseQueue returns at once when the worker is stopping.
BeginHandler(w) ==
  /\ io[w] = "idle" /\ posted[w] > 0
  /\ posted' = [posted EXCEPT ![w] = @ - 1]
  /\ io' = [io EXCEPT ![w] = IF running[w] THEN "drain" ELSE "clear"]
  /\ took' = [took EXCEPT ![w] = 0]
  /\ UNCHANGED <<client, queues, respq, running, pc, done, hasresp,
                 sched, storebuf, batch, wire>>

DrainOne(w, l) ==
  LET r == Head(respq[w][l])
  IN /\ io[w] = "drain" /\ took[w] < MaxBatch
     /\ respq[w][l] # <<>>
     /\ respq' = [respq EXCEPT ![w][l] = Tail(@)]
     /\ took' = [took EXCEPT ![w] = @ + 1]
     /\ batch' = [batch EXCEPT ![r.conn] = Append(@, r)]
     /\ UNCHANGED <<client, queues, running, pc, done, hasresp,
                    sched, storebuf, posted, io, wire>>

\* Mutation of SendBatches: conn_responses survives the handler.
SendBatchesAgain(w) ==
  /\ io[w] = "drain"
  /\ took[w] = MaxBatch \/ NoResponses(w)
  /\ wire' = [c \in Conn |-> IF Home[c] = w /\ conns[c] = "open"
                             THEN wire[c] \o batch[c] ELSE wire[c]]
  /\ io' = [io EXCEPT ![w] = "clear"]
  /\ UNCHANGED <<client, queues, respq, running, pc, done, hasresp,
                 sched, storebuf, posted, took, batch>>

\* What was taken is sent to the connections that are still in connections_
\* (SendBatch, one write for each connection) and dropped for the others.
SendBatches(w) ==
  /\ io[w] = "drain"
  /\ took[w] = MaxBatch \/ NoResponses(w)
  /\ wire' = [c \in Conn |-> IF Home[c] = w /\ conns[c] = "open"
                             THEN wire[c] \o batch[c] ELSE wire[c]]
  /\ batch' = [c \in Conn |-> IF Home[c] = w THEN <<>> ELSE batch[c]]
  /\ io' = [io EXCEPT ![w] = "clear"]
  /\ UNCHANGED <<client, queues, respq, running, pc, done, hasresp,
                 sched, storebuf, posted, took>>

\* response_queue_scheduled_.store(false, memory_order_release)
ClearScheduled(w) ==
  /\ io[w] = "clear"
  /\ IF Fenced THEN /\ sched' = [sched EXCEPT ![w] = FALSE]
                    /\ UNCHANGED storebuf
               ELSE /\ storebuf' = [storebuf EXCEPT ![w] = TRUE]
                    /\ UNCHANGED sched
  /\ io' = [io EXCEPT ![w] = "check"]
  /\ UNCHANGED <<client, queues, respq, running, pc, done, hasresp,
                 posted, took, batch, wire>>

\* A store that was buffered becomes visible to the executor.
StoreVisible(w) ==
  /\ storebuf[w]
  /\ storebuf' = [storebuf EXCEPT ![w] = FALSE]
  /\ sched' = [sched EXCEPT ![w] = FALSE]
  /\ UNCHANGED <<client, queues, respq, running, pc, done, hasresp,
                 posted, io, took, batch, wire>>

\* Mutation of Recheck: the handler ends without looking at the queue again.
RecheckNever(w) ==
  /\ io[w] = "check"
  /\ io' = [io EXCEPT ![w] = "idle"]
  /\ UNCHANGED <<client, queues, respq, running, pc, done, hasresp,
                 sched, posted, storebuf, took, batch, wire>>

\* The last line of the handler: schedule another run if responses arrived
\* meanwhile.  The compare-exchange waits for the buffered store.
Recheck(w) ==
  /\ io[w] = "check"
  /\ IF running[w] /\ ~NoResponses(w)
     THEN ~storebuf[w] /\ NotifyResponseQueue(w)
     ELSE UNCHANGED <<sched, posted>>
  /\ io' = [io EXCEPT ![w] = "idle"]
  /\ UNCHANGED <<client, queues, respq, running, pc, done, hasresp,
                 storebuf, took, batch, wire>>

\* Worker::Stop clears running_; both threads leave when they next read it.
\* Server::Stop stops the workers one after the other, joining each executor.
Stop(w) ==
  /\ running[w]
  /\ \A v \in Worker : running[v] \/ pc[v] = "exit"
  /\ running' = [running EXCEPT ![w] = FALSE]
  /\ UNCHANGED <<client, queues, respq, pc, done, hasresp, handler>>

-----------------------------------------------------------------------------
ExecutorLoop(w) ==
  \/ ExecuteLocal(w) \/ ExecutePublish(w) \/ Forward(w)
  \/ \E p \in Worker : ExecuteForwarded(w, p)
  \/ EndCommands(w)
  \/ \E p \in Worker : TakeCrossResponse(w, p)
  \/ EndCrossResponses(w)
  \/ \E p \in Worker : TakePubSub(w, p)
  \/ Flush(w)

ResponseHandler(w) ==
  \/ BeginHandler(w) \/ \E l \in Lane : DrainOne(w, l)
  \/ SendBatches(w) \/ ClearScheduled(w) \/ StoreVisible(w) \/ Recheck(w)

Client(c) == Accept(c) \/ Close(c) \/ \E op \in Sends[c] : Receive(c, op)

Next ==
  \/ \E c \in Conn : Client(c)
  \/ \E w \in Worker : ExecutorLoop(w) \/ ResponseHandler(w) \/ Stop(w)

Spec == Init /\ [][Next]_vars

\* Both threads of a worker are ordinary threads: each goes on as long as it has
\* a step (the executor's wait is bounded by its timeout, a posted handler is run
\* by io_context_).  Nothing is assumed of clients.
Fairness == \A w \in Worker : WF_vars(ExecutorLoop(w)) /\ WF_vars(ResponseHandler(w))

FairSpec == Spec /\ Fairness

-----------------------------------------------------------------------------
(* Properties. *)

QueuesOK ==
  /\ cmdq \in [Worker -> [Worker -> Seq(Command)]]
  /\ xresp \in [Worker -> [Worker -> Seq(Command)]]
  /\ pubsubq \in [Worker -> [Worker -> Seq(Command)]]
  /\ respq \in [Worker -> [Lane -> Seq(Response)]]

ThreadsOK ==
  /\ running \in [Worker -> BOOLEAN]
  /\ pc \in [Worker -> {"cmd", "xresp", "pubsub", "exit"}]
  /\ done \in [Worker -> 0..MaxPerLoop]
  /\ hasresp \in [Worker -> BOOLEAN]

HandlerOK ==
  /\ sched \in [Worker -> BOOLEAN]
  /\ storebuf \in [Worker -> BOOLEAN]
  /\ posted \in [Worker -> Nat]
  /\ io \in [Worker -> {"idle", "drain", "clear", "check"}]
  /\ took \in [Worker -> 0..MaxBatch]

ConnsOK ==
  /\ conns \in [Conn -> {"new", "open", "closed"}]
  /\ issued \in [Conn -> Nat]
  /\ batch \in [Conn -> Seq(Response)]
  /\ wire \in [Conn -> Seq(Response)]

\* Every variable has the type of the member it models; in particular the executor
\* and the handler never exceed their limits of commands and responses.
TypeOK == QueuesOK /\ ThreadsOK /\ HandlerOK /\ ConnsOK

\* The handler has not yet passed its own clear of the flag.
InHandler(w) == io[w] \in {"drain", "clear"}

\* At most one handler of a worker is posted or draining at any time: the flag
\* response_queue_scheduled_ is true exactly while one is (or while the clear of it
\* has not reached memory), so executor and handler racing in NotifyResponseQueue
\* never queue ProcessResponseQueue twice.
SingleHandler ==
  \A w \in Worker :
    /\ sched[w] <=> (posted[w] > 0 \/ InHandler(w) \/ storebuf[w])
    /\ posted[w] <= 1
    /\ posted[w] = 1 => ~InHandler(w) /\ ~storebuf[w]
    /\ storebuf[w] => ~InHandler(w)

Holds(q, kind) == \E i \in 1..Len(q) : q[i].kind = kind

\* Somebody will still look at resp_queue_: the executor before it ends its
\* iteration, a posted handler, or a handler that has yet to recheck.
WillBeSeen(w) == hasresp[w] \/ posted[w] > 0 \/ io[w] # "idle"

\* No lost wakeup between ExecutorLoop and the response handler: while the worker
\* runs, a reply that is in resp_queue_ is never left with neither thread about
\* to look at the queue again.
RepliesAreScheduled ==
  \A w \in Worker :
    running[w] /\ Holds(respq[w]["exec"], "reply") => WillBeSeen(w)

\* The same for the messages PUBLISH pushes to subscribers, as the comment at the
\* end of ProcessResponseQueue has it ("triggered by asio::post() when responses
\* are ready").
PushesAreScheduled ==
  \A w \in Worker :
    running[w] /\ Holds(respq[w]["exec"], "push") => WillBeSeen(w)

\* Pipelined commands of one connection that the same worker executes are answered
\* in the order they were sent, each once: through cmd_queue_, a possible forward,
\* cross_worker_resp_queue_, resp_queue_ and the batches of the handler.
\* (Commands executed by different workers may overtake each other.)
SameWorkerRepliesInOrder ==
  \A c \in Conn : \A i, j \in 1..Len(wire[c]) :
    /\ i < j
    /\ wire[c][i].kind = "reply" /\ wire[c][j].kind = "reply"
    /\ Target(wire[c][i].cmd) = Target(wire[c][j].cmd)
    => wire[c][i].cmd.id < wire[c][j].cmd.id

\* A subscriber receives the messages of one publisher in the order they were
\* published, each once, also when they travel through pubsub_msg_queue_ to another
\* worker.
PushesInOrder ==
  \A c \in Conn : \A i, j \in 1..Len(wire[c]) :
    /\ i < j
    /\ wire[c][i].kind = "push" /\ wire[c][j].kind = "push"
    /\ wire[c][i].cmd.conn = wire[c][j].cmd.conn
    => wire[c][i].cmd.id < wire[c][j].cmd.id

Replied(c, n) ==
  \E i \in 1..Len(wire[c]) : wire[c][i].kind = "reply" /\ wire[c][i].cmd.id = n

Queued(c, n) ==
  \E i \in 1..Len(cmdq[Home[c]][Home[c]]) :
    cmdq[Home[c]][Home[c]][i].conn = c /\ cmdq[Home[c]][Home[c]][i].id = n

\* Every command put into cmd_queue_ is answered on its connection, unless the
\* connection closes or a worker stops: forwarding, the per-iteration limit, the
\* batch limit and the handler's flag never strand it.
EveryCommandAnswered ==
  \A c \in Conn : \A n \in 1..MaxCmds[c] :
    Queued(c, n) ~> (Replied(c, n) \/ conns[c] = "closed" \/ \E w \in Worker : ~running[w])
=============================================================================
