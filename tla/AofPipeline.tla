----------------------------- MODULE AofPipeline -----------------------------
(***************************************************************************)
(* AOF persistence: PersistenceManager (server/managers.hpp) and AofWriter *)
(* (persistence/aof_writer.hpp), with the part of Server::Stop that shuts  *)
(* them down.                                                              *)
(*                                                                         *)
(* Every worker's executor enqueues its write commands (AppendCommand).    *)
(* The processing thread (ProcessCommands) moves them in batches to the    *)
(* writer's buffer_ and flushes it; the sync thread flushes it once a      *)
(* second.  buffer_mutex_ makes an append and a flush one step each.       *)
(*                                                                         *)
(* command_cv_ is signalled without command_mutex_ and waited on without a *)
(* predicate: a signal that finds no waiter is lost.  absl::CondVar::Wait  *)
(* may also return without a signal.                                       *)
(***************************************************************************)
EXTENDS Naturals, Sequences

CONSTANTS
  Worker,     \* the workers
  MaxWrites,  \* a bound: write commands each worker executes
  BatchSize   \* kBatchSize

ASSUME AofAssumption == MaxWrites \in Nat /\ BatchSize \in Nat \ {0}

Write == [worker : Worker, n : Nat]

VARIABLES
  issued,     \* issued[w]: write commands worker w has enqueued
  wpc,        \* a worker runs, is about to Signal in AppendCommand, has stopped
  queue,      \* queue[w]: command_queue_, the lane of worker w
  running,    \* PersistenceManager::running_
  ppc,        \* where ProcessCommands is
  processed,  \* processed
  buffer,     \* AofWriter::buffer_
  file,       \* what has been written to the file
  syncing,    \* AofWriter::running_
  spc,        \* where SyncThread is
  shut        \* how far Shutdown is

workers == <<issued, wpc>>
vars == <<workers, queue, running, ppc, processed, buffer, file, syncing, spc, shut>>

Init ==
  /\ issued = [w \in Worker |-> 0]
  /\ wpc = [w \in Worker |-> "run"]
  /\ queue = [w \in Worker |-> <<>>]
  /\ running = TRUE
  /\ ppc = "loop"
  /\ processed = 0
  /\ buffer = <<>>
  /\ file = <<>>
  /\ syncing = TRUE
  /\ spc = "wait"
  /\ shut = "up"

-----------------------------------------------------------------------------
(* Helpers. *)

\* command_cv_.Signal(): a thread that is waiting goes on, otherwise nothing.
Signal == ppc' = IF ppc = "wait" THEN "loop" ELSE ppc

\* Mutation of FlushBuffer: it returns before it writes.
FlushBufferSkipped == UNCHANGED <<file, buffer>>

\* AofWriter::Flush, under buffer_mutex_.
FlushBuffer ==
  /\ file' = file \o buffer
  /\ buffer' = <<>>

\* try_dequeue from the lane of w, then AofWriter::Append.
MoveToBuffer(w) ==
  /\ queue[w] # <<>>
  /\ buffer' = Append(buffer, Head(queue[w]))
  /\ queue' = [queue EXCEPT ![w] = Tail(@)]

QueueEmpty == \A w \in Worker : queue[w] = <<>>

-----------------------------------------------------------------------------
(* The workers. *)

\* AppendCommand: enqueue, then Signal.
AppendCommand(w) ==
  /\ wpc[w] = "run" /\ issued[w] < MaxWrites
  /\ issued' = [issued EXCEPT ![w] = @ + 1]
  /\ queue' = [queue EXCEPT ![w] = Append(@, [worker |-> w, n |-> issued[w] + 1])]
  /\ wpc' = [wpc EXCEPT ![w] = "signal"]
  /\ UNCHANGED <<running, ppc, processed, buffer, file, syncing, spc, shut>>

AppendSignal(w) ==
  /\ wpc[w] = "signal"
  /\ Signal
  /\ wpc' = [wpc EXCEPT ![w] = "run"]
  /\ UNCHANGED <<issued, queue, running, processed, buffer, file, syncing, spc, shut>>

\* Worker::Stop joins the executor between two commands.
StopWorker(w) ==
  /\ wpc[w] = "run"
  /\ wpc' = [wpc EXCEPT ![w] = "stopped"]
  /\ UNCHANGED <<issued, queue, running, ppc, processed, buffer, file, syncing, spc, shut>>

-----------------------------------------------------------------------------
(* The processing thread, ProcessCommands. *)

\* while (running_)
Loop ==
  /\ ppc = "loop"
  /\ ppc' = IF running THEN "drain" ELSE "final"
  /\ processed' = 0
  /\ UNCHANGED <<workers, queue, running, buffer, file, syncing, spc, shut>>

\* Mutation of Process: without the limit on a batch.
ProcessUnlimited(w) ==
  /\ ppc = "drain"
  /\ MoveToBuffer(w)
  /\ processed' = processed + 1
  /\ UNCHANGED <<workers, running, ppc, file, syncing, spc, shut>>

\* One command of a batch is taken from the queue and appended.
Process(w) ==
  /\ ppc = "drain" /\ processed < BatchSize
  /\ MoveToBuffer(w)
  /\ processed' = processed + 1
  /\ UNCHANGED <<workers, running, ppc, file, syncing, spc, shut>>

\* A batch that took something is flushed.
EndBatch ==
  /\ ppc = "drain" /\ processed > 0
  /\ processed = BatchSize \/ QueueEmpty
  /\ FlushBuffer
  /\ ppc' = "loop"
  /\ UNCHANGED <<workers, queue, running, processed, syncing, spc, shut>>

\* Nothing was found: the thread is going to wait ...
DecideToWait ==
  /\ ppc = "drain" /\ processed = 0 /\ QueueEmpty
  /\ ppc' = "lock"
  /\ UNCHANGED <<workers, queue, running, processed, buffer, file, syncing, spc, shut>>

\* ... and is from here on reached by a Signal.
Wait ==
  /\ ppc = "lock"
  /\ ppc' = "wait"
  /\ UNCHANGED <<workers, queue, running, processed, buffer, file, syncing, spc, shut>>

SpuriousWakeup ==
  /\ ppc = "wait"
  /\ ppc' = "loop"
  /\ UNCHANGED <<workers, queue, running, processed, buffer, file, syncing, spc, shut>>

\* After the loop what is left is moved and flushed.
FinalProcess(w) ==
  /\ ppc = "final"
  /\ MoveToBuffer(w)
  /\ UNCHANGED <<workers, running, ppc, processed, file, syncing, spc, shut>>

\* Mutation of FinalFlush: the rest of the queue is not drained.
FinalFlushEarly ==
  /\ ppc = "final"
  /\ FlushBuffer
  /\ ppc' = "exit"
  /\ UNCHANGED <<workers, queue, running, processed, syncing, spc, shut>>

FinalFlush ==
  /\ ppc = "final" /\ QueueEmpty
  /\ FlushBuffer
  /\ ppc' = "exit"
  /\ UNCHANGED <<workers, queue, running, processed, syncing, spc, shut>>

-----------------------------------------------------------------------------
(* SyncThread: woken by its timeout or by Stop, it reads running_, then syncs. *)

SyncWake ==
  /\ spc = "wait"
  /\ spc' = IF syncing THEN "sync" ELSE "exit"
  /\ UNCHANGED <<workers, queue, running, ppc, processed, buffer, file, syncing, shut>>

Sync ==
  /\ spc = "sync"
  /\ FlushBuffer
  /\ spc' = IF syncing THEN "wait" ELSE "exit"
  /\ UNCHANGED <<workers, queue, running, ppc, processed, syncing, shut>>

-----------------------------------------------------------------------------
(* Shutdown, which Server::Stop calls once every worker has stopped. *)

BeginShutdown ==
  /\ shut = "up" /\ \A w \in Worker : wpc[w] = "stopped"
  /\ running' = FALSE
  /\ shut' = "signal"
  /\ UNCHANGED <<workers, queue, ppc, processed, buffer, file, syncing, spc>>

ShutdownSignal ==
  /\ shut = "signal"
  /\ Signal
  /\ shut' = "join"
  /\ UNCHANGED <<workers, queue, running, processed, buffer, file, syncing, spc>>

\* processing_thread_.join(), then AofWriter::Stop clears its running_.
JoinProcessing ==
  /\ shut = "join" /\ ppc = "exit"
  /\ syncing' = FALSE
  /\ shut' = "stop"
  /\ UNCHANGED <<workers, queue, running, ppc, processed, buffer, file, spc>>

\* sync_thread_.join(), the last Flush, close.
JoinSync ==
  /\ shut = "stop" /\ spc = "exit"
  /\ FlushBuffer
  /\ shut' = "down"
  /\ UNCHANGED <<workers, queue, running, ppc, processed, syncing, spc>>

-----------------------------------------------------------------------------
ProcessCommands ==
  \/ Loop \/ (\E w \in Worker : Process(w)) \/ EndBatch \/ DecideToWait \/ Wait
  \/ (\E w \in Worker : FinalProcess(w)) \/ FinalFlush

SyncThread == SyncWake \/ Sync

Shutdown == BeginShutdown \/ ShutdownSignal \/ JoinProcessing \/ JoinSync

Executor(w) == AppendCommand(w) \/ AppendSignal(w) \/ StopWorker(w)

Next ==
  \/ \E w \in Worker : Executor(w)
  \/ ProcessCommands \/ SpuriousWakeup \/ SyncThread \/ Shutdown

Spec == Init /\ [][Next]_vars

\* The threads go on while they can (SyncThread's wait has a timeout).  Workers need
\* not write or stop, and nothing is assumed of spurious wakeups.
Fairness ==
  /\ WF_vars(ProcessCommands) /\ WF_vars(SyncThread) /\ WF_vars(Shutdown)
  /\ \A w \in Worker : WF_vars(AppendSignal(w))

FairSpec == Spec /\ Fairness

-----------------------------------------------------------------------------
(* Properties. *)

\* Every variable has the type of the member it models and a batch never exceeds
\* kBatchSize.
TypeOK ==
  /\ issued \in [Worker -> 0..MaxWrites]
  /\ wpc \in [Worker -> {"run", "signal", "stopped"}]
  /\ queue \in [Worker -> Seq(Write)]
  /\ running \in BOOLEAN /\ syncing \in BOOLEAN
  /\ ppc \in {"loop", "drain", "lock", "wait", "final", "exit"}
  /\ processed \in 0..BatchSize
  /\ buffer \in Seq(Write) /\ file \in Seq(Write)
  /\ spc \in {"wait", "sync", "exit"}
  /\ shut \in {"up", "signal", "join", "stop", "down"}

Log == INSTANCE DurableLog WITH accepted <- issued, log <- file, open <- (shut # "down")

\* Queue, buffer, batches, the sync thread and the shutdown sequence together
\* implement the append-only log: commands reach the file in order, once, and all
\* of them before Shutdown returns.
ImplementsDurableLog == Log!Spec

\* What was appended to the buffer is flushed: no schedule of the two flushing
\* threads and of Shutdown leaves it in memory for ever.
BufferReachesFile == buffer # <<>> ~> buffer = <<>>

\* Once begun, Shutdown returns ("Signal the processing thread to wake up").
ShutdownCompletes == (shut = "signal") ~> (shut = "down")
=============================================================================
