-------------------------- MODULE TaskGatherProofs -------------------------
(***************************************************************************)
(* For any number of workers and any distribution of the keys: no task     *)
(* that one worker has put into the queue of another outlives the command  *)
(* it belongs to.                                                          *)
(***************************************************************************)
EXTENDS TaskGather, Integers, SequenceTheorems, TLAPS

-----------------------------------------------------------------------------
(* What happens to the queue of a worker when a command of another worker  *)
(* puts a task into it, and when its first task is run.  W are the workers *)
(* and cs[w] is the command on worker w.                                   *)

\* The elements of a queue.
TasksOf(q) == {q[i] : i \in DOMAIN q}

\* Every task in queue q of worker v is awaited by the command that sent it,
\* one of cs, and is the only one of that command there.
QueueInv(W, v, q, cs) ==
    /\ q \in Seq(TasksOf(q))
    /\ \A i \in DOMAIN q :
           /\ q[i].from \in W
           /\ v \in cs[q[i].from].pending
           /\ q[i].name = cs[q[i].from].name
    /\ \A i, j \in DOMAIN q : q[i].from = q[j].from => i = j

\* Whoever waits for v has a task in its queue q.
Awaited(W, v, q, cs) ==
    \A w \in W : v \in cs[w].pending => \E i \in DOMAIN q : q[i].from = w

\* The commands cs and ds on the workers F agree on whether they await v.
AwaitAlike(F, v, cs, ds) ==
    \A f \in F : /\ v \in ds[f].pending <=> v \in cs[f].pending
                 /\ v \in cs[f].pending => ds[f].name = cs[f].name

\* The record of a command: whom it has still to ask, and whom it awaits.
CallInv(W, c) ==
    /\ DOMAIN c = {"name", "to_ask", "pending", "answers"}
    /\ c.to_ask \subseteq W
    /\ c.pending \subseteq W
    /\ c.pending \cap c.to_ask = {}

\* The invariant of the commands cs and the queues qs.  A worker still to be
\* asked is not awaited yet, hence has no task.
TaskInv(W, cs, qs) ==
    /\ DOMAIN cs = W
    /\ DOMAIN qs = W
    /\ \A w \in W : CallInv(W, cs[w])
    /\ \A v \in W : QueueInv(W, v, qs[v], cs) /\ Awaited(W, v, qs[v], cs)

-----------------------------------------------------------------------------

\* A queue is a sequence over its own elements.
LEMMA OwnTasks ==
    ASSUME NEW S, NEW r \in Seq(S)
    PROVE  r \in Seq(TasksOf(r))
<1>1. Len(r) \in Nat /\ DOMAIN r = 1..Len(r) /\ r \in [1..Len(r) -> S]
  OBVIOUS
<1>2. r \in [1..Len(r) -> TasksOf(r)]
  BY <1>1 DEF TasksOf
<1> QED
  BY <1>1, <1>2

\* A queue that a task has been appended to.
LEMMA Appended ==
    ASSUME NEW q, q \in Seq(TasksOf(q)), NEW t
    PROVE  /\ Append(q, t) \in Seq(TasksOf(Append(q, t)))
           /\ DOMAIN q = 1..Len(q)
           /\ Len(q) \in Nat
           /\ DOMAIN Append(q, t) = 1..(Len(q) + 1)
           /\ \A i \in 1..Len(q) : Append(q, t)[i] = q[i]
           /\ Append(q, t)[Len(q) + 1] = t
<1> DEFINE S == TasksOf(q) \cup {t}
           r == Append(q, t)
<1>1. q \in Seq(S) /\ t \in S
  <2>1. TasksOf(q) \subseteq S
    OBVIOUS
  <2> HIDE DEF S
  <2> QED
    BY <2>1 DEF S
<1> HIDE DEF S
<1>2. r \in Seq(S) /\ Len(r) = Len(q) + 1 /\ Len(q) \in Nat /\ DOMAIN q = 1..Len(q)
      /\ (\A i \in 1..Len(q) : r[i] = q[i]) /\ r[Len(q) + 1] = t
  BY <1>1, AppendProperties
<1> HIDE DEF r
<1>3. DOMAIN r = 1..(Len(q) + 1) /\ Len(r) \in Nat
  BY <1>2
<1>4. r \in Seq(TasksOf(r))
  BY <1>2, OwnTasks
<1> QED
  BY <1>2, <1>3, <1>4 DEF r

\* A queue whose first task has been taken.
LEMMA Taken ==
    ASSUME NEW q, q \in Seq(TasksOf(q)), q # <<>>
    PROVE  /\ Tail(q) \in Seq(TasksOf(Tail(q)))
           /\ Len(q) \in Nat \ {0}
           /\ DOMAIN q = 1..Len(q)
           /\ Head(q) = q[1]
           /\ DOMAIN Tail(q) = 1..(Len(q) - 1)
           /\ \A i \in 1..(Len(q) - 1) : Tail(q)[i] = q[i + 1]
<1> DEFINE S == TasksOf(q)
           r == Tail(q)
<1>1. q \in Seq(S)
  OBVIOUS
<1> HIDE DEF S
<1>2. r \in Seq(S) /\ Len(r) = Len(q) - 1 /\ Len(q) \in Nat \ {0} /\ DOMAIN q = 1..Len(q)
      /\ Head(q) = q[1] /\ \A i \in 1..Len(r) : r[i] = q[i + 1]
  BY <1>1, HeadTailProperties
<1> HIDE DEF r
<1>3. DOMAIN r = 1..(Len(q) - 1) /\ Len(r) \in Nat
  BY <1>2
<1>4. r \in Seq(TasksOf(r))
  BY <1>2, OwnTasks
<1> QED
  BY <1>2, <1>3, <1>4 DEF r

\* A queue that stays, while those who wait for its worker go on waiting.
LEMMA QueueStays ==
    ASSUME NEW W, NEW v, NEW q, NEW cs, NEW ds,
           QueueInv(W, v, q, cs), Awaited(W, v, q, cs),
           AwaitAlike(W, v, cs, ds)
    PROVE  QueueInv(W, v, q, ds) /\ Awaited(W, v, q, ds)
<1>1. Awaited(W, v, q, ds)
  BY DEF Awaited, AwaitAlike
<1>2. ASSUME NEW i \in DOMAIN q
      PROVE  q[i].from \in W /\ v \in ds[q[i].from].pending /\ q[i].name = ds[q[i].from].name
  BY <1>2 DEF QueueInv, AwaitAlike
<1> QED
  BY <1>1, <1>2 DEF QueueInv

\* Worker w, which has not waited for v, puts task t into its queue.
LEMMA QueueGrows ==
    ASSUME NEW W, NEW v, NEW q, NEW cs, NEW ds, NEW t, NEW w \in W,
           QueueInv(W, v, q, cs), Awaited(W, v, q, cs),
           t.from = w, t.name = ds[w].name, v \notin cs[w].pending, v \in ds[w].pending,
           AwaitAlike(W \ {w}, v, cs, ds)
    PROVE  QueueInv(W, v, Append(q, t), ds) /\ Awaited(W, v, Append(q, t), ds)
<1> DEFINE r == Append(q, t)
<1>1. /\ r \in Seq(TasksOf(r))
      /\ DOMAIN q = 1..Len(q)
      /\ Len(q) \in Nat
      /\ DOMAIN r = 1..(Len(q) + 1)
      /\ \A i \in 1..Len(q) : r[i] = q[i]
      /\ r[Len(q) + 1] = t
  BY Appended DEF QueueInv
<1> HIDE DEF r
<1>2. ASSUME NEW i \in DOMAIN q
      PROVE  q[i].from \in W \ {w} /\ v \in ds[q[i].from].pending /\ q[i].name = ds[q[i].from].name
  BY <1>2 DEF QueueInv, AwaitAlike
<1>3. ASSUME NEW i \in DOMAIN r
      PROVE  r[i].from \in W /\ v \in ds[r[i].from].pending /\ r[i].name = ds[r[i].from].name
  <2>1. CASE i = Len(q) + 1
    BY <1>1, <2>1
  <2>2. CASE i \in DOMAIN q
    BY <1>1, <1>2, <2>2
  <2> QED
    BY <1>1, <1>3, <2>1, <2>2
<1>4. \A i, j \in DOMAIN q : q[i].from = q[j].from => i = j
  BY DEF QueueInv
<1>5. ASSUME NEW i \in DOMAIN r, NEW j \in DOMAIN r, r[i].from = r[j].from
      PROVE  i = j
  BY <1>1, <1>2, <1>4, <1>5
<1>6. ASSUME NEW f \in W, v \in ds[f].pending
      PROVE  \E i \in DOMAIN r : r[i].from = f
  <2>1. CASE f = w
    BY <1>1, <2>1
  <2>2. CASE f # w
    <3>1. PICK i \in DOMAIN q : q[i].from = f
      BY <1>6, <2>2 DEF Awaited, AwaitAlike
    <3> QED
      BY <1>1, <3>1
  <2> QED
    BY <2>1, <2>2
<1> QED
  BY <1>1, <1>3, <1>5, <1>6 DEF QueueInv, Awaited, r

\* The first task is taken, and its sender no longer waits for v.
LEMMA QueueShrinks ==
    ASSUME NEW W, NEW v, NEW q, NEW cs, NEW ds, q # <<>>,
           QueueInv(W, v, q, cs), Awaited(W, v, q, cs),
           v \notin ds[Head(q).from].pending,
           AwaitAlike(W \ {Head(q).from}, v, cs, ds)
    PROVE  QueueInv(W, v, Tail(q), ds) /\ Awaited(W, v, Tail(q), ds)
<1> DEFINE r == Tail(q)
           w == Head(q).from
<1>1. /\ r \in Seq(TasksOf(r))
      /\ Len(q) \in Nat \ {0}
      /\ DOMAIN q = 1..Len(q)
      /\ w = q[1].from
      /\ DOMAIN r = 1..(Len(q) - 1)
      /\ \A i \in 1..(Len(q) - 1) : r[i] = q[i + 1]
  BY Taken DEF QueueInv
<1> HIDE DEF r, w
<1>2. \A i, j \in DOMAIN q : q[i].from = q[j].from => i = j
  BY DEF QueueInv
<1>3. \A i \in DOMAIN r : /\ i + 1 \in DOMAIN q
                          /\ i + 1 # 1
                          /\ r[i] = q[i + 1]
  BY <1>1
<1>4. ASSUME NEW i \in DOMAIN r
      PROVE  r[i].from \in W /\ v \in ds[r[i].from].pending /\ r[i].name = ds[r[i].from].name
  <2>1. q[i + 1].from # w
    BY <1>1, <1>2, <1>3
  <2>2. /\ r[i].from \in W \ {w}
        /\ v \in cs[r[i].from].pending
        /\ r[i].name = cs[r[i].from].name
    BY <1>3, <2>1 DEF QueueInv
  <2> QED
    BY <2>2 DEF w, AwaitAlike
<1>5. ASSUME NEW i \in DOMAIN r, NEW j \in DOMAIN r, r[i].from = r[j].from
      PROVE  i = j
  BY <1>1, <1>2, <1>3, <1>5
<1>6. ASSUME NEW f \in W, v \in ds[f].pending
      PROVE  \E i \in DOMAIN r : r[i].from = f
  <2>1. f # w /\ v \in cs[f].pending
    BY <1>6 DEF w, AwaitAlike
  <2>2. PICK i \in DOMAIN q : q[i].from = f
    BY <2>1 DEF Awaited
  <2>3. i # 1 /\ i - 1 \in DOMAIN r /\ r[i - 1] = q[i]
    BY <1>1, <2>1, <2>2
  <2> QED
    BY <2>2, <2>3
<1> QED
  BY <1>1, <1>4, <1>5, <1>6 DEF QueueInv, Awaited, r

-----------------------------------------------------------------------------
(* All commands and queues                                                 *)

\* Worker w puts task t into the queue of v, which it has not been waiting for,
\* and waits for v from then on.
LEMMA TaskSent ==
    ASSUME NEW W, NEW cs, NEW qs, NEW ds, NEW rs, TaskInv(W, cs, qs),
           NEW w \in W, NEW v \in W, NEW t,
           v \notin cs[w].pending, cs[w].name = ds[w].name \/ cs[w].pending = {},
           t.from = w, t.name = ds[w].name,
           DOMAIN ds = W, CallInv(W, ds[w]), ds[w].pending = cs[w].pending \cup {v},
           \A u \in W \ {w} : ds[u] = cs[u],
           DOMAIN rs = W, rs[v] = Append(qs[v], t),
           \A u \in W \ {v} : rs[u] = qs[u]
    PROVE  TaskInv(W, ds, rs)
<1>1. \A u \in W : CallInv(W, ds[u])
  BY DEF TaskInv
<1>2. ASSUME NEW u \in W
      PROVE  QueueInv(W, u, rs[u], ds) /\ Awaited(W, u, rs[u], ds)
  <2>1. QueueInv(W, u, qs[u], cs) /\ Awaited(W, u, qs[u], cs)
    BY DEF TaskInv
  <2>2. CASE u = v
    <3>1. AwaitAlike(W \ {w}, v, cs, ds)
      BY DEF AwaitAlike
    <3>2. QueueInv(W, v, Append(qs[v], t), ds) /\ Awaited(W, v, Append(qs[v], t), ds)
      BY <2>1, <2>2, <3>1, QueueGrows, SMTT(30)
    <3> QED
      BY <2>2, <3>2, Zenon
  <2>3. CASE u # v
    <3>1. AwaitAlike(W, u, cs, ds)
      BY <2>3 DEF AwaitAlike
    <3>2. QueueInv(W, u, qs[u], ds) /\ Awaited(W, u, qs[u], ds)
      BY <2>1, <3>1, QueueStays
    <3> QED
      BY <2>3, <3>2
  <2> QED
    BY <2>2, <2>3
<1> QED
  BY <1>1, <1>2 DEF TaskInv

\* A step on the thread of w that leaves the queues as they are, and w waiting
\* for the same workers.
LEMMA QueuesStay ==
    ASSUME NEW W, NEW cs, NEW qs, NEW ds, TaskInv(W, cs, qs),
           NEW w \in W,
           cs[w].name = ds[w].name \/ cs[w].pending = {},
           DOMAIN ds = W, CallInv(W, ds[w]), ds[w].pending = cs[w].pending,
           \A u \in W \ {w} : ds[u] = cs[u]
    PROVE  TaskInv(W, ds, qs)
<1>1. \A u \in W : CallInv(W, ds[u])
  BY DEF TaskInv
<1>2. ASSUME NEW u \in W
      PROVE  QueueInv(W, u, qs[u], ds) /\ Awaited(W, u, qs[u], ds)
  <2>1. QueueInv(W, u, qs[u], cs) /\ Awaited(W, u, qs[u], cs)
    BY DEF TaskInv
  <2>2. AwaitAlike(W, u, cs, ds)
    BY DEF AwaitAlike
  <2> QED
    BY <2>1, <2>2, QueueStays
<1> QED
  BY <1>1, <1>2 DEF TaskInv

\* The sender of the first task of a queue is a worker.
LEMMA FirstSender ==
    ASSUME NEW W, NEW cs, NEW qs, TaskInv(W, cs, qs), NEW w \in W, qs[w] # <<>>
    PROVE  Head(qs[w]).from \in W
<1>1. qs[w] \in Seq(TasksOf(qs[w])) /\ \A i \in DOMAIN qs[w] : qs[w][i].from \in W
  BY DEF TaskInv, QueueInv
<1> QED
  BY <1>1, Taken

\* Worker w runs the first task of its queue, and the worker that has sent it no
\* longer waits for w.
Runs(W, cs, qs, ds, rs, w) ==
    LET h == Head(qs[w]).from
    IN /\ qs[w] # <<>>
       /\ DOMAIN ds = W
       /\ CallInv(W, ds[h])
       /\ ds[h].name = cs[h].name
       /\ ds[h].pending = cs[h].pending \ {w}
       /\ \A u \in W \ {h} : ds[u] = cs[u]
       /\ DOMAIN rs = W
       /\ rs[w] = Tail(qs[w])
       /\ \A u \in W \ {w} : rs[u] = qs[u]

\* Running a task keeps the invariant.
LEMMA TaskRun ==
    ASSUME NEW W, NEW cs, NEW qs, NEW ds, NEW rs, TaskInv(W, cs, qs),
           NEW w \in W, Runs(W, cs, qs, ds, rs, w)
    PROVE  TaskInv(W, ds, rs)
<1> DEFINE h == Head(qs[w]).from
<1>1. h \in W /\ qs[w] # <<>>
  BY FirstSender DEF Runs
<1>2. /\ DOMAIN ds = W
      /\ CallInv(W, ds[h])
      /\ ds[h].name = cs[h].name
      /\ ds[h].pending = cs[h].pending \ {w}
      /\ \A u \in W \ {h} : ds[u] = cs[u]
      /\ DOMAIN rs = W
      /\ rs[w] = Tail(qs[w])
      /\ \A u \in W \ {w} : rs[u] = qs[u]
  BY DEF Runs
<1> HIDE DEF h
<1>3. \A u \in W : CallInv(W, ds[u])
  BY <1>1, <1>2 DEF TaskInv
<1>4. ASSUME NEW u \in W
      PROVE  QueueInv(W, u, rs[u], ds) /\ Awaited(W, u, rs[u], ds)
  <2>1. QueueInv(W, u, qs[u], cs) /\ Awaited(W, u, qs[u], cs)
    BY DEF TaskInv
  <2>2. CASE u = w
    <3>1. AwaitAlike(W \ {h}, w, cs, ds) /\ w \notin ds[h].pending
      BY <1>2 DEF AwaitAlike
    <3>2. QueueInv(W, w, Tail(qs[w]), ds) /\ Awaited(W, w, Tail(qs[w]), ds)
      BY <1>1, <2>1, <2>2, <3>1, QueueShrinks DEF h
    <3> QED
      BY <1>2, <2>2, <3>2, Zenon
  <2>3. CASE u # w
    <3>1. AwaitAlike(W, u, cs, ds)
      BY <1>1, <1>2, <2>3 DEF AwaitAlike
    <3>2. QueueInv(W, u, qs[u], ds) /\ Awaited(W, u, qs[u], ds)
      BY <2>1, <3>1, QueueStays
    <3> QED
      BY <1>2, <2>3, <3>2
  <2> QED
    BY <2>2, <2>3
<1> QED
  BY <1>3, <1>4, <1>2 DEF TaskInv

-----------------------------------------------------------------------------
(* The steps of the workers.                                               *)

\* The inductive invariant: TasksAreAwaited does not say that a worker still to
\* be asked is not awaited, which Ask needs.
GatherInv == TaskInv(Workers, call, tasks)

-----------------------------------------------------------------------------

\* At the start no worker runs a command and all queues are empty.
LEMMA InitGatherInv == GatherInit => GatherInv
<1> SUFFICES ASSUME GatherInit PROVE GatherInv
  OBVIOUS
<1>1. \A w \in Workers : call[w] = NoCall /\ tasks[w] = <<>>
  BY DEF GatherInit
<1>2. CallInv(Workers, NoCall) /\ NoCall.pending = {}
  BY DEF CallInv, NoCall
<1>3. <<>> \in Seq(TasksOf(<<>>)) /\ DOMAIN <<>> = {}
  BY OwnTasks
<1>4. ASSUME NEW v \in Workers
      PROVE  QueueInv(Workers, v, tasks[v], call) /\ Awaited(Workers, v, tasks[v], call)
  <2>1. tasks[v] = <<>> /\ \A w \in Workers : call[w].pending = {}
    BY <1>1, <1>2
  <2> QED
    BY <1>3, <2>1 DEF QueueInv, Awaited
<1> QED
  BY <1>1, <1>2, <1>4 DEF GatherInv, TaskInv, GatherInit

\* What the invariant says of one command.
LEMMA OneCall ==
    ASSUME GatherInv, NEW w \in Workers
    PROVE  /\ DOMAIN call = Workers
           /\ DOMAIN call[w] = {"name", "to_ask", "pending", "answers"}
           /\ call[w].to_ask \subseteq Workers
           /\ call[w].pending \subseteq Workers
           /\ call[w].pending \cap call[w].to_ask = {}
BY DEF GatherInv, TaskInv, CallInv

\* A command begins where there was none.
LEMMA BeginKeepsInv ==
    ASSUME GatherInv, NEW w \in Workers, NEW name, Begin(w, name)
    PROVE  GatherInv'
<1>1. DOMAIN call = Workers /\ call[w].pending = {}
  BY OneCall DEF Begin, NoCall
<1>2. /\ DOMAIN call' = Workers
      /\ CallInv(Workers, call'[w])
      /\ call'[w].pending = {}
      /\ \A u \in Workers \ {w} : call'[u] = call[u]
  BY <1>1 DEF Begin, CallInv
<1>3. tasks' = tasks
  BY DEF Begin
<1> QED
  BY <1>1, <1>2, <1>3, QueuesStay DEF GatherInv

\* A worker that is asked has not been asked before.
LEMMA AskKeepsInv ==
    ASSUME GatherInv, NEW w \in Workers, NEW v \in Workers, Ask(w, v)
    PROVE  GatherInv'
<1>1. /\ DOMAIN call = Workers
      /\ DOMAIN call[w] = {"name", "to_ask", "pending", "answers"}
      /\ call[w].to_ask \subseteq Workers
      /\ call[w].pending \subseteq Workers
      /\ call[w].pending \cap call[w].to_ask = {}
  BY OneCall
<1>2. v \in call[w].to_ask /\ v \notin call[w].pending
  BY <1>1 DEF Ask
<1>3. CASE v = w
  <2>1. /\ call' = [call EXCEPT ![w].to_ask = @ \ {v},
                                ![w].answers[w] = Answer(dbs[w], call[w].name, w)]
        /\ tasks' = tasks
    BY <1>3 DEF Ask
  <2>2. /\ DOMAIN call' = Workers
        /\ call'[w].name = call[w].name
        /\ call'[w].pending = call[w].pending
        /\ CallInv(Workers, call'[w])
        /\ \A u \in Workers \ {w} : call'[u] = call[u]
    BY <1>1, <2>1 DEF CallInv
  <2> QED
    <3>1. TaskInv(Workers, call, tasks)
      BY DEF GatherInv
    <3>2. TaskInv(Workers, call', tasks)
      BY <2>2, <3>1, QueuesStay
    <3> QED
      BY <2>1, <3>2 DEF GatherInv
<1>4. CASE v # w
  <2> DEFINE t == Task(w, v, call[w].name, Nil)
  <2>1. /\ call' = [call EXCEPT ![w].to_ask = @ \ {v}, ![w].pending = @ \cup {v}]
        /\ tasks' = [tasks EXCEPT ![v] = Append(@, t)]
    BY <1>4, Zenon DEF Ask
  <2>2. /\ DOMAIN call' = Workers
        /\ call'[w].name = call[w].name
        /\ call'[w].pending = call[w].pending \cup {v}
        /\ CallInv(Workers, call'[w])
        /\ \A u \in Workers \ {w} : call'[u] = call[u]
    BY <1>1, <2>1 DEF CallInv
  <2>3. t.from = w /\ t.name = call'[w].name
    BY <2>2 DEF Task
  <2> HIDE DEF t
  <2> QED
    <3>1. TaskInv(Workers, call, tasks)
      BY DEF GatherInv
    <3>2. /\ DOMAIN tasks' = Workers
          /\ tasks'[v] = Append(tasks[v], t)
          /\ \A u \in Workers \ {v} : tasks'[u] = tasks[u]
      BY <2>1, <3>1 DEF TaskInv
    <3> QED
      BY <1>2, <2>2, <2>3, <3>1, <3>2, TaskSent DEF GatherInv
<1> QED
  BY <1>3, <1>4

\* The answer of a task ends the wait of its sender for this worker.
LEMMA RunTaskKeepsInv ==
    ASSUME GatherInv, NEW w \in Workers, RunTask(w)
    PROVE  GatherInv'
<1> DEFINE h == Head(tasks[w]).from
<1>1. tasks[w] # <<>> /\ h \in Workers
  BY FirstSender, SMTT(30) DEF GatherInv, RunTask
<1>2. /\ call' = [call EXCEPT ![h].pending = @ \ {w},
                              ![h].answers[w] = Answer(dbs[w], Head(tasks[w]).name, w)]
      /\ tasks' = [tasks EXCEPT ![w] = Tail(@)]
  BY DEF RunTask
<1> HIDE DEF h
<1>3. /\ DOMAIN call = Workers
      /\ DOMAIN call[h] = {"name", "to_ask", "pending", "answers"}
      /\ call[h].to_ask \subseteq Workers
      /\ call[h].pending \subseteq Workers
      /\ call[h].pending \cap call[h].to_ask = {}
  BY <1>1, OneCall
<1>4. /\ DOMAIN call' = Workers
      /\ call'[h].name = call[h].name
      /\ call'[h].pending = call[h].pending \ {w}
      /\ CallInv(Workers, call'[h])
      /\ \A u \in Workers \ {h} : call'[u] = call[u]
  BY <1>1, <1>2, <1>3 DEF CallInv
<1>5. /\ DOMAIN tasks' = Workers
      /\ tasks'[w] = Tail(tasks[w])
      /\ \A u \in Workers \ {w} : tasks'[u] = tasks[u]
  BY <1>2, SMTT(30) DEF GatherInv, TaskInv
<1>6. Runs(Workers, call, tasks, call', tasks', w)
  BY <1>1, <1>4, <1>5 DEF Runs, h
<1> QED
  BY <1>6, TaskRun, SMTT(30) DEF GatherInv

\* A command returns when it waits for nobody.  BITOP then awaits the worker of
\* its destination.
LEMMA ReturnKeepsInv ==
    ASSUME GatherInv, NEW w \in Workers, Return(w)
    PROVE  GatherInv'
<1> DEFINE v == Shard[ShardKeys[1]]
           t == Task(w, v, "STORE", BitOpValue(call[w].answers))
<1>1. /\ DOMAIN call = Workers
      /\ DOMAIN call[w] = {"name", "to_ask", "pending", "answers"}
      /\ call[w].to_ask = {}
      /\ call[w].pending = {}
  BY OneCall DEF Return
<1>2. v \in Workers
  BY ShardAssumption DEF Workers
<1>3. CASE call' = [call EXCEPT ![w] = NoCall] /\ tasks' = tasks
  <2>1. /\ DOMAIN call' = Workers
        /\ CallInv(Workers, call'[w])
        /\ call'[w].pending = call[w].pending
        /\ \A u \in Workers \ {w} : call'[u] = call[u]
    BY <1>1, <1>3 DEF CallInv, NoCall
  <2> QED
    BY <1>1, <1>3, <2>1, QueuesStay, Zenon DEF GatherInv
<1>4. CASE /\ call' = [call EXCEPT ![w].name = "STORE", ![w].pending = {v}]
           /\ tasks' = [tasks EXCEPT ![v] = Append(@, t)]
  <2> HIDE DEF v
  <2>1. /\ DOMAIN call' = Workers
        /\ CallInv(Workers, call'[w])
        /\ call'[w].name = "STORE"
        /\ call'[w].pending = call[w].pending \cup {v}
        /\ \A u \in Workers \ {w} : call'[u] = call[u]
    BY <1>1, <1>2, <1>4 DEF CallInv
  <2>2. t.from = w /\ t.name = call'[w].name
    BY <2>1 DEF Task
  <2> HIDE DEF t
  <2> QED
    <3>1. TaskInv(Workers, call, tasks)
      BY DEF GatherInv
    <3>2. /\ DOMAIN tasks' = Workers
          /\ tasks'[v] = Append(tasks[v], t)
          /\ \A u \in Workers \ {v} : tasks'[u] = tasks[u]
      BY <1>2, <1>4, <3>1 DEF TaskInv
    <3> QED
      BY <1>1, <1>2, <2>1, <2>2, <3>1, <3>2, TaskSent DEF GatherInv
<1> QED
  BY <1>3, <1>4 DEF Return

\* Every step of an executor thread keeps the invariant.
LEMMA NextGatherInv ==
    ASSUME GatherInv, [GatherNext]_gatherVars
    PROVE  GatherInv'
<1>1. CASE UNCHANGED gatherVars
  BY <1>1 DEF gatherVars, GatherInv, TaskInv, QueueInv, Awaited, CallInv
<1>2. ASSUME NEW w \in Workers, Executor(w) PROVE GatherInv'
  <2>1. ASSUME NEW name \in Pumping \cup Waiting, Begin(w, name) PROVE GatherInv'
    BY <2>1, BeginKeepsInv
  <2>2. CASE AskNext(w)
    BY <2>2, AskKeepsInv DEF AskNext
  <2>3. CASE ExecutorTasks(w) \/ CallerPump(w)
    BY <2>3, RunTaskKeepsInv DEF ExecutorTasks, CallerPump
  <2>4. CASE Return(w)
    BY <2>4, ReturnKeepsInv
  <2>5. CASE LocalWrite(w)
    BY <2>5 DEF LocalWrite, GatherInv, TaskInv, QueueInv, Awaited, CallInv
  <2> QED
    BY <1>2, <2>1, <2>2, <2>3, <2>4, <2>5 DEF Executor
<1> QED
  BY <1>1, <1>2 DEF GatherNext

\* The invariant says more than TasksAreAwaited.
LEMMA GatherInvImplies == GatherInv => TasksAreAwaited
<1> SUFFICES ASSUME GatherInv, NEW w \in Workers, NEW v \in Workers
             PROVE  LET mine == {i \in DOMAIN tasks[v] : tasks[v][i].from = w}
                    IN /\ mine # {} <=> call[w] # NoCall /\ v \in call[w].pending
                       /\ \A i, j \in mine : i = j
                       /\ \A i \in mine : tasks[v][i].name = call[w].name
  BY DEF TasksAreAwaited
<1>1. QueueInv(Workers, v, tasks[v], call) /\ Awaited(Workers, v, tasks[v], call)
  BY DEF GatherInv, TaskInv
<1>2. v \in call[w].pending => call[w] # NoCall
  BY DEF NoCall
<1>3. \A i \in DOMAIN tasks[v] :
          /\ v \in call[tasks[v][i].from].pending
          /\ tasks[v][i].name = call[tasks[v][i].from].name
  BY <1>1 DEF QueueInv
<1>4. \A i, j \in DOMAIN tasks[v] : tasks[v][i].from = tasks[v][j].from => i = j
  BY <1>1 DEF QueueInv
<1>5. v \in call[w].pending => \E i \in DOMAIN tasks[v] : tasks[v][i].from = w
  BY <1>1 DEF Awaited
<1> QED
  BY <1>2, <1>3, <1>4, <1>5

\* Whichever commands run, on however many workers: as long as a task is queued
\* its sender waits for the worker that is to run it, so the references that the
\* tasks of MGET and MSET hold to the stack of the sender are valid.
THEOREM GatherSafe == GatherSpec => []TasksAreAwaited
<1>1. GatherInit => GatherInv
  BY InitGatherInv
<1>2. GatherInv /\ [GatherNext]_gatherVars => GatherInv'
  BY NextGatherInv
<1>3. GatherInv => TasksAreAwaited
  BY GatherInvImplies
<1> QED
  BY <1>1, <1>2, <1>3, PTL DEF GatherSpec

=============================================================================
