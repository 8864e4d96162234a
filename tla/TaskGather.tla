------------------------------ MODULE TaskGather ----------------------------
(***************************************************************************)
(* Commands whose keys lie on several workers.  The worker that runs such  *)
(* a command asks the workers in turn, itself by a direct call and the     *)
(* others by a task in their task_queue_ (Worker::AddTask), and waits for  *)
(* the answers on its executor thread:                                     *)
(*   - MGET and MSET with WaitRemoteTasksWithCallerPump, which runs the    *)
(*     tasks of its own queue in the meantime;                             *)
(*   - SINTER, SUNION, SDIFF, ZINTER, ZUNION, ZDIFF, BITOP and SCAN with   *)
(*     future.get(), which runs nothing.  SINTERCARD, ZINTERCARD and       *)
(*     RANDOMKEY ask as SINTER, ZINTER and SCAN do; KEYS and DBSIZE ask    *)
(*     nobody and read the other workers' databases themselves.            *)
(* A task reads or writes the database of the worker it runs on and        *)
(* answers; for MGET and MSET it does so through references to the         *)
(* caller's stack.  What the commands compute is a parameter here; the     *)
(* module CrossWorker says what it is.                                     *)
(***************************************************************************)
EXTENDS Naturals, Sequences, FiniteSets, DashMap

CONSTANTS NumWorkers,
          ShardKeys,        \* the keys, which every command names all of
          Shard,            \* Shard[k]: the slot of k modulo the workers
          MaxCommands,      \* bound: the commands a worker runs
          MaxWaits,         \* bound: workers in future.get() at a time
          NoKeys,           \* a database without keys
          Answer(_, _, _),  \* Answer(d, name, w): what a task at w answers from d
          Effect(_, _),     \* Effect(d, task): the database after the task
          BitOpValue(_),    \* BitOpValue(answers): what BITOP stores
          LocalWrites(_, _) \* LocalWrites(d, w): d after a command of one key at w

ASSUME ShardAssumption ==
    /\ NumWorkers \in Nat \ {0}
    /\ 1 \in DOMAIN ShardKeys
    /\ Shard \in [{ShardKeys[i] : i \in DOMAIN ShardKeys} -> 0..NumWorkers - 1]

VARIABLES dbs,      \* dbs[w]: the database of worker w
          call,     \* call[w]: the command on the executor thread of w, or NoCall
          tasks,    \* tasks[w]: task_queue_
          left      \* left[w]: the commands w has still to run

gatherVars == <<dbs, call, tasks, left>>

Workers == 0..NumWorkers - 1

Pumping == {"MGET", "MSET"}
Waiting == {"SINTER", "SUNION", "SDIFF", "ZINTER", "ZUNION", "ZDIFF", "BITOP", "SCAN"}

\* No command is running.
NoCall == [name |-> "none", to_ask |-> {}, pending |-> {}, answers |-> <<>>]

GatherInit ==
    /\ dbs = [w \in Workers |-> NoKeys]
    /\ call = [w \in Workers |-> NoCall]
    /\ tasks = [w \in Workers |-> <<>>]
    /\ left = [w \in Workers |-> MaxCommands]

\* MGET and MSET send a worker its own keys; the others send all of them.
Part(name, w) ==
    IF name \in Pumping THEN SelectSeq(ShardKeys, LAMBDA k : Shard[k] = w) ELSE ShardKeys

Asked(name, w) == name \notin Pumping \/ Part(name, w) # <<>>

-----------------------------------------------------------------------------
(* The executor thread of worker w                                         *)

\* A command is taken from the queue when the one before it has returned.
Begin(w, name) ==
    /\ call[w] = NoCall
    /\ left[w] > 0
    /\ name \in Waiting =>
           Cardinality({v \in Workers : call[v] # NoCall /\ call[v].name \notin Pumping}) < MaxWaits
    /\ call' = [call EXCEPT ![w] = [name |-> name, to_ask |-> {v \in Workers : Asked(name, v)}, pending |-> {},
                                    answers |-> [v \in Workers |-> Nil]]]
    /\ left' = [left EXCEPT ![w] = @ - 1]
    /\ UNCHANGED <<dbs, tasks>>

Task(w, v, name, value) == [from |-> w, at |-> v, name |-> name, value |-> value]

\* One round of the loop over all_workers, which comes to worker v.
Ask(w, v) ==
    LET c == call[w]
    IN /\ v \in c.to_ask
       /\ \A u \in c.to_ask : v <= u
       /\ \/ /\ v = w
             /\ call' = [call EXCEPT ![w].to_ask = @ \ {v}, ![w].answers[w] = Answer(dbs[w], c.name, w)]
             /\ dbs' = [dbs EXCEPT ![w] = Effect(@, Task(w, w, c.name, Nil))]
             /\ UNCHANGED tasks
          \/ /\ v # w
             /\ call' = [call EXCEPT ![w].to_ask = @ \ {v}, ![w].pending = @ \cup {v}]
             /\ tasks' = [tasks EXCEPT ![v] = Append(@, Task(w, v, c.name, Nil))]
             /\ UNCHANGED dbs
       /\ UNCHANGED left

AskNext(w) == \E v \in Workers : Ask(w, v)

\* The first task of the queue.
RunTask(w) ==
    LET t == Head(tasks[w])
    IN /\ tasks[w] # <<>>
       /\ tasks' = [tasks EXCEPT ![w] = Tail(@)]
       /\ dbs' = [dbs EXCEPT ![w] = Effect(@, t)]
       /\ call' = [call EXCEPT ![t.from].pending = @ \ {w},
                               ![t.from].answers[w] = Answer(dbs[w], t.name, w)]
       /\ UNCHANGED left

\* From the loop of the executor, between two commands.
ExecutorTasks(w) == call[w] = NoCall /\ RunTask(w)

\* Mutant: the caller looks at its queue only once it has all the answers.
LatePump(w) ==
    /\ call[w] # NoCall
    /\ call[w].name \in Pumping
    /\ call[w].to_ask = {}
    /\ call[w].pending = {}
    /\ RunTask(w)

\* ProcessPendingSchedulerTasksForCrossWorkerWait, while an answer is missing.
CallerPump(w) ==
    /\ call[w] # NoCall
    /\ call[w].name \in Pumping
    /\ call[w].to_ask = {}
    /\ call[w].pending # {}
    /\ RunTask(w)

\* Mutant: the reply does not wait for the workers that were asked.
ReturnAtOnce(w) ==
    /\ call[w] # NoCall
    /\ call[w].to_ask = {}
    /\ call' = [call EXCEPT ![w] = NoCall]
    /\ UNCHANGED <<dbs, tasks, left>>

\* All answers are there.  BITOP has its result stored by the worker of the
\* destination and waits once more.
Return(w) ==
    LET c == call[w]
        value == BitOpValue(c.answers)
        v == Shard[ShardKeys[1]]
    IN /\ c # NoCall
       /\ c.to_ask = {}
       /\ c.pending = {}
       /\ \/ /\ c.name # "BITOP"
             /\ call' = [call EXCEPT ![w] = NoCall]
             /\ UNCHANGED <<dbs, tasks>>
          \/ /\ c.name = "BITOP"
             /\ v = w
             /\ call' = [call EXCEPT ![w] = NoCall]
             /\ dbs' = [dbs EXCEPT ![w] = Effect(@, Task(w, w, "STORE", value))]
             /\ UNCHANGED tasks
          \/ /\ c.name = "BITOP"
             /\ v # w
             /\ call' = [call EXCEPT ![w].name = "STORE", ![w].pending = {v}]
             /\ tasks' = [tasks EXCEPT ![v] = Append(@, Task(w, v, "STORE", value))]
             /\ UNCHANGED dbs
       /\ UNCHANGED left

\* A command with one key, which the router has sent to the worker of the key.
LocalWrite(w) ==
    /\ call[w] = NoCall
    /\ left[w] > 0
    /\ \E d \in LocalWrites(dbs[w], w) : dbs' = [dbs EXCEPT ![w] = d]
    /\ left' = [left EXCEPT ![w] = @ - 1]
    /\ UNCHANGED <<call, tasks>>

Executor(w) ==
    \/ \E name \in Pumping \cup Waiting : Begin(w, name)
    \/ AskNext(w)
    \/ ExecutorTasks(w)
    \/ CallerPump(w)
    \/ Return(w)
    \/ LocalWrite(w)

GatherNext == \E w \in Workers : Executor(w)

\* The executor threads run.
GatherFairness ==
    \A w \in Workers : WF_gatherVars(AskNext(w) \/ ExecutorTasks(w) \/ CallerPump(w) \/ Return(w))

GatherSpec == GatherInit /\ [][GatherNext]_gatherVars /\ GatherFairness

-----------------------------------------------------------------------------
(* Properties                                                              *)

\* A task never outlives the command it belongs to: whoever sent it is still
\* waiting for this very worker, and for each awaited worker there is one task.
\* The tasks of MGET and MSET write through references to the caller's stack.
TasksAreAwaited ==
    \A w, v \in Workers :
        LET mine == {i \in DOMAIN tasks[v] : tasks[v][i].from = w}
        IN /\ mine # {} <=> call[w] # NoCall /\ v \in call[w].pending
           /\ \A i, j \in mine : i = j
           /\ \A i \in mine : tasks[v][i].name = call[w].name

\* Every command that asks other workers returns.
CallsReturn == \A w \in Workers : call[w] # NoCall ~> call[w] = NoCall

=============================================================================
