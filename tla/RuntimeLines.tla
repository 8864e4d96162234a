----------------------------- MODULE RuntimeLines -----------------------------
(***************************************************************************)
(* The lines of queues of WorkerRuntime, and the facts about them that     *)
(* RuntimeOrderProofs rests on.                                            *)
(*                                                                         *)
(* What a connection is owed passes through a line of queues, from         *)
(* cmd_queue_ to the socket.  Flow says of such a line that every queue in *)
(* it holds rising numbers, and that whatever is nearer to the socket has  *)
(* the smaller numbers.  The lemmas say what one step does to a line and   *)
(* what each action of WorkerRuntime does to the queues, and prove that    *)
(* every command and response stays on the worker that owns its connection *)
(* (Placed).                                                               *)
(***************************************************************************)
EXTENDS WorkerRuntimeProofs

-----------------------------------------------------------------------------
(* The elements of a queue q that are in S, by the number f gives them. *)

Nums(q, S, f) == {f[q[i]] : i \in {j \in 1..Len(q) : q[j] \in S}}

Rising(q, S, f) ==
  \A i, j \in 1..Len(q) : i < j /\ q[i] \in S /\ q[j] \in S => f[q[i]] < f[q[j]]

Below(A, B) == \A a \in A, b \in B : a < b

\* Six sets of numbers, each below the next ones.
InLine(A, B, C, D, E, F) ==
  /\ Below(A, B) /\ Below(A, C) /\ Below(A, D) /\ Below(A, E) /\ Below(A, F)
  /\ Below(B, C) /\ Below(B, D) /\ Below(B, E) /\ Below(B, F)
  /\ Below(C, D) /\ Below(C, E) /\ Below(C, F)
  /\ Below(D, E) /\ Below(D, F)
  /\ Below(E, F)

UpTo(k) == 1..k

CNum == [m \in Command |-> m.id]

RNum == [r \in Response |-> r.cmd.id]

\* The line from cmd_queue_ (q) by the queues of other workers (f, x) to resp_queue_
\* (r), the batch of the handler (b) and the socket (s), for the commands in M and the
\* responses in R; k commands have been sent.
Flow(s, b, r, x, f, q, R, M, k) ==
  /\ Rising(s, R, RNum) /\ Rising(b, R, RNum) /\ Rising(r, R, RNum)
  /\ Rising(x, M, CNum) /\ Rising(f, M, CNum) /\ Rising(q, M, CNum)
  /\ InLine(Nums(s, R, RNum), Nums(b, R, RNum), Nums(r, R, RNum),
            Nums(x, M, CNum), Nums(f, M, CNum), Nums(q, M, CNum))
  /\ Nums(s, R, RNum) \cup Nums(b, R, RNum) \cup Nums(r, R, RNum) \cup Nums(x, M, CNum)
       \cup Nums(f, M, CNum) \cup Nums(q, M, CNum) \subseteq UpTo(k)

-----------------------------------------------------------------------------
(* The lines of WorkerRuntime. *)

\* Who is in which queue: the lanes of cmd_queue_ have commands of the connections of
\* the lane's worker, those of the answers the commands of the queue's own connections.
Own(w) == {m \in Command : Home[m.conn] = w /\ m.op # Bad}

For(w, t) == {m \in Own(w) : Target(m) = t /\ t # w}

News(w, v) == {m \in Own(w) : m.op = Publish /\ v # w}

Outgoing(c) == {r \in Response : r.conn = c /\ (r.kind = "reply" => r.cmd.conn = c /\ r.cmd.op # Bad)}

Outgoings(w) == UNION {Outgoing(c) : c \in {d \in Conn : Home[d] = w}}

Errors == {r \in Response : r.kind = "error"}

\* The lane of p in cmd_queue_ of w: the commands of clients, or forwarded ones.
Waiting(w, p) == IF p = w THEN Own(w) ELSE For(p, w)

PlacedCommands == \A w, p \in Worker : cmdq[w][p] \in Seq(Waiting(w, p))

PlacedAnswers == \A w, p \in Worker : xresp[w][p] \in Seq(For(w, p))

PlacedNews == \A w, p \in Worker : pubsubq[w][p] \in Seq(News(p, w))

PlacedResponses ==
  \A w \in Worker : respq[w]["exec"] \in Seq(Outgoings(w)) /\ respq[w]["io"] \in Seq(Errors)

PlacedSockets == \A c \in Conn : batch[c] \in Seq(Outgoing(c)) /\ wire[c] \in Seq(Outgoing(c))

Placed == PlacedCommands /\ PlacedAnswers /\ PlacedNews /\ PlacedResponses /\ PlacedSockets

\* The commands of c that worker t executes and their replies.
Sent(c, t) == {m \in Command : m.conn = c /\ Target(m) = t}

Replies(c, t) == {r \in Response : r.kind = "reply" /\ r.cmd \in Sent(c, t)}

\* The commands of d that publish, and the messages of d to c.
Published(d) == {m \in Command : m.conn = d /\ m.op = Publish}

Messages(d, c) == {r \in Response : r.kind = "push" /\ r.conn = c /\ r.cmd.conn = d}

\* The queues between the workers, which a command of the home worker does not visit.
Answers(c, t) == IF t = Home[c] THEN <<>> ELSE xresp[Home[c]][t]

Forwarded(c, t) == IF t = Home[c] THEN <<>> ELSE cmdq[t][Home[c]]

Mail(d, c) == IF Home[d] = Home[c] THEN <<>> ELSE pubsubq[Home[c]][Home[d]]

ReplyFlow(c, t) ==
  Flow(wire[c], batch[c], respq[Home[c]]["exec"], Answers(c, t), Forwarded(c, t),
       cmdq[Home[c]][Home[c]], Replies(c, t), Sent(c, t), issued[c])

PushFlow(d, c) ==
  Flow(wire[c], batch[c], respq[Home[c]]["exec"], Mail(d, c), <<>>,
       cmdq[Home[d]][Home[d]], Messages(d, c), Published(d), issued[d])

RepliesOrdered == \A c \in Conn : \A t \in Worker : ReplyFlow(c, t)

PushesOrdered == \A d \in Conn : \A c \in Conn : PushFlow(d, c)

-----------------------------------------------------------------------------
(* Queues. *)

\* The first element leaves.
LEMMA NumsTail ==
  ASSUME NEW T, NEW q \in Seq(T), q # <<>>, NEW S, NEW f
  PROVE  /\ Nums(Tail(q), S, f) \subseteq Nums(q, S, f)
         /\ Head(q) \in S => f[Head(q)] \in Nums(q, S, f)
         /\ Rising(q, S, f) => Rising(Tail(q), S, f)
         /\ Rising(q, S, f) /\ Head(q) \in S => Below({f[Head(q)]}, Nums(Tail(q), S, f))
<1> DEFINE r == Tail(q)
<1>1. /\ Len(q) \in Nat /\ Len(q) >= 1 /\ Len(r) = Len(q) - 1 /\ Head(q) = q[1]
      /\ \A i \in 1..Len(r) : r[i] = q[i + 1] /\ i + 1 \in 1..Len(q) /\ 1 < i + 1
  OBVIOUS
<1> HIDE DEF r
<1>2. Nums(r, S, f) \subseteq Nums(q, S, f)
  BY <1>1 DEF Nums
<1>3. Head(q) \in S => f[Head(q)] \in Nums(q, S, f)
  BY <1>1 DEF Nums
<1>4. ASSUME Rising(q, S, f) PROVE Rising(r, S, f)
  <2> SUFFICES ASSUME NEW i \in 1..Len(r), NEW j \in 1..Len(r), i < j, r[i] \in S, r[j] \in S
               PROVE  f[r[i]] < f[r[j]]
    BY DEF Rising
  <2>1. i + 1 \in 1..Len(q) /\ j + 1 \in 1..Len(q) /\ i + 1 < j + 1
    BY <1>1
  <2> QED BY <1>1, <1>4, <2>1 DEF Rising
<1>5. ASSUME Rising(q, S, f), Head(q) \in S PROVE Below({f[Head(q)]}, Nums(r, S, f))
  <2> SUFFICES ASSUME NEW i \in 1..Len(r), r[i] \in S
               PROVE  f[Head(q)] < f[r[i]]
    BY DEF Below, Nums
  <2>1. 1 \in 1..Len(q) /\ i + 1 \in 1..Len(q) /\ 1 < i + 1 /\ r[i] = q[i + 1]
    BY <1>1
  <2> QED BY <1>1, <1>5, <2>1 DEF Rising
<1> QED BY <1>2, <1>3, <1>4, <1>5 DEF r

\* One queue behind the other.
LEMMA NumsConcat ==
  ASSUME NEW T, NEW q \in Seq(T), NEW p \in Seq(T), NEW S, NEW f
  PROVE  /\ Nums(q \o p, S, f) \subseteq Nums(q, S, f) \cup Nums(p, S, f)
         /\ Rising(q, S, f) /\ Rising(p, S, f) /\ Below(Nums(q, S, f), Nums(p, S, f))
              => Rising(q \o p, S, f)
<1> DEFINE r == q \o p
<1>1. /\ Len(q) \in Nat /\ Len(p) \in Nat /\ Len(r) = Len(q) + Len(p)
      /\ \A i \in 1..Len(r) : i <= Len(q) => i \in 1..Len(q) /\ r[i] = q[i]
      /\ \A i \in 1..Len(r) : i > Len(q) => i - Len(q) \in 1..Len(p) /\ r[i] = p[i - Len(q)]
  OBVIOUS
<1> HIDE DEF r
<1>2. ASSUME NEW i \in 1..Len(r), r[i] \in S
      PROVE  /\ i <= Len(q) => f[r[i]] \in Nums(q, S, f)
             /\ i > Len(q) => f[r[i]] \in Nums(p, S, f)
  BY <1>1, <1>2, Zenon DEF Nums
<1>3. Nums(r, S, f) \subseteq Nums(q, S, f) \cup Nums(p, S, f)
  <2> SUFFICES ASSUME NEW i \in 1..Len(r), r[i] \in S
               PROVE  f[r[i]] \in Nums(q, S, f) \cup Nums(p, S, f)
    BY Zenon DEF Nums
  <2>1. i <= Len(q) \/ i > Len(q)
    BY <1>1
  <2> QED BY <1>2, <2>1
<1>4. ASSUME Rising(q, S, f), Rising(p, S, f), Below(Nums(q, S, f), Nums(p, S, f)),
             NEW i \in 1..Len(r), NEW j \in 1..Len(r), i < j, r[i] \in S, r[j] \in S
      PROVE  f[r[i]] < f[r[j]]
  <2>1. CASE j <= Len(q)
    <3>1. i <= Len(q)
      BY <1>1, <1>4, <2>1
    <3> QED BY <1>1, <1>4, <2>1, <3>1 DEF Rising
  <2>2. CASE i > Len(q)
    <3>1. j > Len(q) /\ i - Len(q) < j - Len(q)
      BY <1>1, <1>4, <2>2
    <3> QED BY <1>1, <1>4, <2>2, <3>1, Zenon DEF Rising
  <2>3. CASE i <= Len(q) /\ j > Len(q)
    BY <1>2, <1>4, <2>3 DEF Below
  <2> QED BY <1>1, <2>1, <2>2, <2>3
<1> QED BY <1>3, <1>4, Zenon DEF Rising, r

\* One element is put behind the others.
LEMMA NumsAppend ==
  ASSUME NEW T, NEW q \in Seq(T), NEW x \in T, NEW S, NEW f
  PROVE  /\ x \in S => Nums(Append(q, x), S, f) \subseteq Nums(q, S, f) \cup {f[x]}
         /\ x \notin S => Nums(Append(q, x), S, f) \subseteq Nums(q, S, f)
         /\ Rising(q, S, f) /\ (x \in S => Below(Nums(q, S, f), {f[x]}))
              => Rising(Append(q, x), S, f)
<1>1. <<x>> \in Seq(T) /\ Append(q, x) = q \o <<x>>
  OBVIOUS
<1>2. Len(<<x>>) = 1 /\ <<x>>[1] = x /\ \A i \in 1..Len(<<x>>) : i = 1
  OBVIOUS
<1>3. /\ x \in S => Nums(<<x>>, S, f) = {f[x]}
      /\ x \notin S => Nums(<<x>>, S, f) = {}
  BY <1>2 DEF Nums
<1>4. Rising(<<x>>, S, f)
  BY <1>2 DEF Rising
<1>5. x \notin S => Below(Nums(q, S, f), Nums(<<x>>, S, f))
  BY <1>3 DEF Below
<1>6. /\ Nums(q \o <<x>>, S, f) \subseteq Nums(q, S, f) \cup Nums(<<x>>, S, f)
      /\ Rising(q, S, f) /\ Rising(<<x>>, S, f) /\ Below(Nums(q, S, f), Nums(<<x>>, S, f))
           => Rising(q \o <<x>>, S, f)
  BY <1>1, NumsConcat, Zenon
<1> QED BY <1>1, <1>3, <1>4, <1>5, <1>6, Zenon

\* Nothing is in an empty queue.
LEMMA NumsEmpty ==
  ASSUME NEW S, NEW f
  PROVE  Nums(<<>>, S, f) = {} /\ Rising(<<>>, S, f)
BY DEF Nums, Rising

-----------------------------------------------------------------------------
(* Sets in a line.  N moves from the front of a set to the back of one before it. *)

\* Sets in a line may become smaller.
LEMMA Narrower ==
  ASSUME NEW A, NEW B, NEW C, NEW D, NEW E, NEW F, InLine(A, B, C, D, E, F),
         NEW X \in SUBSET A, NEW Y \in SUBSET B, NEW Z \in SUBSET C,
         NEW U \in SUBSET D, NEW V \in SUBSET E, NEW W \in SUBSET F
  PROVE  InLine(X, Y, Z, U, V, W)
BY DEF InLine, Below

\* From cmd_queue_ to the queue of another worker.
LEMMA MoveSixFive ==
  ASSUME NEW A, NEW B, NEW C, NEW D, NEW E, NEW F, InLine(A, B, C, D, E, F),
         NEW N \in SUBSET F, NEW X \in SUBSET F, Below(N, X), NEW Y \in SUBSET (E \cup N)
  PROVE  InLine(A, B, C, D, Y, X) /\ Below(E, N)
BY DEF InLine, Below

\* From there to the queue of the answers.
LEMMA MoveFiveFour ==
  ASSUME NEW A, NEW B, NEW C, NEW D, NEW E, NEW F, InLine(A, B, C, D, E, F),
         NEW N \in SUBSET E, NEW X \in SUBSET E, Below(N, X), NEW Y \in SUBSET (D \cup N)
  PROVE  InLine(A, B, C, Y, X, F) /\ Below(D, N)
BY DEF InLine, Below

\* From the queue of the answers to resp_queue_.
LEMMA MoveFourThree ==
  ASSUME NEW A, NEW B, NEW C, NEW D, NEW E, NEW F, InLine(A, B, C, D, E, F),
         NEW N \in SUBSET D, NEW X \in SUBSET D, Below(N, X), NEW Y \in SUBSET (C \cup N)
  PROVE  InLine(A, B, Y, X, E, F) /\ Below(C, N)
BY DEF InLine, Below

\* From resp_queue_ to the batch.
LEMMA MoveThreeTwo ==
  ASSUME NEW A, NEW B, NEW C, NEW D, NEW E, NEW F, InLine(A, B, C, D, E, F),
         NEW N \in SUBSET C, NEW X \in SUBSET C, Below(N, X), NEW Y \in SUBSET (B \cup N)
  PROVE  InLine(A, Y, X, D, E, F) /\ Below(B, N)
BY DEF InLine, Below

\* From the batch to the socket.
LEMMA MoveTwoOne ==
  ASSUME NEW A, NEW B, NEW C, NEW D, NEW E, NEW F, InLine(A, B, C, D, E, F),
         NEW Y \in SUBSET (A \cup B)
  PROVE  InLine(Y, {}, C, D, E, F) /\ Below(A, B)
BY DEF InLine, Below

\* From cmd_queue_ to resp_queue_, nothing being on the way.
LEMMA MoveSixThree ==
  ASSUME NEW A, NEW B, NEW C, NEW D, NEW E, NEW F, InLine(A, B, C, D, E, F), D = {}, E = {},
         NEW N \in SUBSET F, NEW X \in SUBSET F, Below(N, X), NEW Y \in SUBSET (C \cup N)
  PROVE  InLine(A, B, Y, D, E, X) /\ Below(C, N)
BY DEF InLine, Below

\* From cmd_queue_ to the queue of the messages.
LEMMA MoveSixFour ==
  ASSUME NEW A, NEW B, NEW C, NEW D, NEW E, NEW F, InLine(A, B, C, D, E, F), E = {},
         NEW N \in SUBSET F, NEW X \in SUBSET F, Below(N, X), NEW Y \in SUBSET (D \cup N)
  PROVE  InLine(A, B, C, Y, E, X) /\ Below(D, N)
BY DEF InLine, Below

\* Numbers above all others come last.
LEMMA EnterSix ==
  ASSUME NEW A, NEW B, NEW C, NEW D, NEW E, NEW F, InLine(A, B, C, D, E, F),
         NEW U, A \cup B \cup C \cup D \cup E \cup F \subseteq U,
         NEW N, Below(U, N), NEW Y \in SUBSET (F \cup N)
  PROVE  InLine(A, B, C, D, E, Y) /\ Below(F, N)
BY DEF InLine, Below

-----------------------------------------------------------------------------
(* What a step does to a line. *)

\* The number of the head of q, if it is in S.
First(q, S, f) == {f[y] : y \in {Head(q)} \cap S}

FlowType(s, b, r, x, f, q) ==
  /\ s \in Seq(Response) /\ b \in Seq(Response) /\ r \in Seq(Response)
  /\ x \in Seq(Command) /\ f \in Seq(Command) /\ q \in Seq(Command)

\* The head of a queue leaves: it is below what stays.
LEMMA FirstLeaves ==
  ASSUME NEW T, NEW q \in Seq(T), q # <<>>, NEW S, NEW f, Rising(q, S, f)
  PROVE  /\ First(q, S, f) \in SUBSET Nums(q, S, f)
         /\ Nums(Tail(q), S, f) \in SUBSET Nums(q, S, f)
         /\ Below(First(q, S, f), Nums(Tail(q), S, f))
         /\ Rising(Tail(q), S, f)
<1>1. /\ Nums(Tail(q), S, f) \subseteq Nums(q, S, f)
      /\ Head(q) \in S => f[Head(q)] \in Nums(q, S, f)
      /\ Rising(Tail(q), S, f)
      /\ Head(q) \in S => Below({f[Head(q)]}, Nums(Tail(q), S, f))
  BY NumsTail
<1> QED BY <1>1 DEF First, Below

\* The head of q joins z.
LEMMA FirstJoins ==
  ASSUME NEW T, NEW q \in Seq(T), q # <<>>, NEW z \in Seq(T), NEW S, NEW f, Rising(z, S, f)
  PROVE  /\ Nums(Append(z, Head(q)), S, f) \in SUBSET (Nums(z, S, f) \cup First(q, S, f))
         /\ Below(Nums(z, S, f), First(q, S, f)) => Rising(Append(z, Head(q)), S, f)
<1>1. Head(q) \in T
  OBVIOUS
<1>2. /\ Head(q) \in S => First(q, S, f) = {f[Head(q)]}
      /\ Head(q) \notin S => First(q, S, f) = {}
  BY DEF First
<1>3. /\ Head(q) \in S
           => Nums(Append(z, Head(q)), S, f) \subseteq Nums(z, S, f) \cup {f[Head(q)]}
      /\ Head(q) \notin S => Nums(Append(z, Head(q)), S, f) \subseteq Nums(z, S, f)
      /\ (Head(q) \in S => Below(Nums(z, S, f), {f[Head(q)]}))
           => Rising(Append(z, Head(q)), S, f)
  BY <1>1, NumsAppend, Zenon
<1>4. CASE Head(q) \in S
  BY <1>2, <1>3, <1>4, Zenon
<1>5. CASE Head(q) \notin S
  BY <1>2, <1>3, <1>5
<1> QED BY <1>4, <1>5

\* A command is taken from cmd_queue_ and forwarded.
LEMMA FlowForward ==
  ASSUME NEW s, NEW b, NEW r, NEW x, NEW f, NEW q, NEW R, NEW M, NEW k \in Nat,
         FlowType(s, b, r, x, f, q), Flow(s, b, r, x, f, q, R, M, k),
         q # <<>>
  PROVE  Flow(s, b, r, x, Append(f, Head(q)), Tail(q), R, M, k)
<1>0. InLine(Nums(s, R, RNum), Nums(b, R, RNum), Nums(r, R, RNum),
             Nums(x, M, CNum), Nums(f, M, CNum), Nums(q, M, CNum))
  BY DEF Flow
<1>1. /\ First(q, M, CNum) \in SUBSET Nums(q, M, CNum)
      /\ Nums(Tail(q), M, CNum) \in SUBSET Nums(q, M, CNum)
      /\ Below(First(q, M, CNum), Nums(Tail(q), M, CNum))
      /\ Rising(Tail(q), M, CNum)
  BY FirstLeaves DEF Flow, FlowType
<1>2. /\ Nums(Append(f, Head(q)), M, CNum) \in SUBSET (Nums(f, M, CNum) \cup First(q, M, CNum))
      /\ Below(Nums(f, M, CNum), First(q, M, CNum)) => Rising(Append(f, Head(q)), M, CNum)
  BY FirstJoins DEF Flow, FlowType
<1>3. /\ InLine(Nums(s, R, RNum), Nums(b, R, RNum), Nums(r, R, RNum), Nums(x, M, CNum),
                Nums(Append(f, Head(q)), M, CNum), Nums(Tail(q), M, CNum))
      /\ Below(Nums(f, M, CNum), First(q, M, CNum))
  BY <1>0, <1>1, <1>2, MoveSixFive
<1> QED BY <1>1, <1>2, <1>3 DEF Flow

\* A forwarded command is executed and its answer sent back.
LEMMA FlowAnswer ==
  ASSUME NEW s, NEW b, NEW r, NEW x, NEW f, NEW q, NEW R, NEW M, NEW k \in Nat,
         FlowType(s, b, r, x, f, q), Flow(s, b, r, x, f, q, R, M, k),
         f # <<>>
  PROVE  Flow(s, b, r, Append(x, Head(f)), Tail(f), q, R, M, k)
<1>0. InLine(Nums(s, R, RNum), Nums(b, R, RNum), Nums(r, R, RNum),
             Nums(x, M, CNum), Nums(f, M, CNum), Nums(q, M, CNum))
  BY Zenon DEF Flow
<1>1. /\ First(f, M, CNum) \in SUBSET Nums(f, M, CNum)
      /\ Nums(Tail(f), M, CNum) \in SUBSET Nums(f, M, CNum)
      /\ Below(First(f, M, CNum), Nums(Tail(f), M, CNum))
      /\ Rising(Tail(f), M, CNum)
  BY FirstLeaves DEF Flow, FlowType
<1>2. /\ Nums(Append(x, Head(f)), M, CNum) \in SUBSET (Nums(x, M, CNum) \cup First(f, M, CNum))
      /\ Below(Nums(x, M, CNum), First(f, M, CNum)) => Rising(Append(x, Head(f)), M, CNum)
  BY FirstJoins, Zenon DEF Flow, FlowType
<1>3. /\ InLine(Nums(s, R, RNum), Nums(b, R, RNum), Nums(r, R, RNum),
                Nums(Append(x, Head(f)), M, CNum), Nums(Tail(f), M, CNum), Nums(q, M, CNum))
      /\ Below(Nums(x, M, CNum), First(f, M, CNum))
  BY <1>0, <1>1, <1>2, MoveFiveFour
<1> QED BY <1>1, <1>2, <1>3 DEF Flow

\* A PUBLISH is taken from cmd_queue_ and sent to the other workers.
LEMMA FlowOffer ==
  ASSUME NEW s, NEW b, NEW r, NEW x, NEW f, NEW q, NEW R, NEW M, NEW k \in Nat,
         FlowType(s, b, r, x, f, q), Flow(s, b, r, x, f, q, R, M, k),
         q # <<>>, f = <<>>
  PROVE  Flow(s, b, r, Append(x, Head(q)), f, Tail(q), R, M, k)
<1>0. InLine(Nums(s, R, RNum), Nums(b, R, RNum), Nums(r, R, RNum),
             Nums(x, M, CNum), Nums(f, M, CNum), Nums(q, M, CNum))
  BY Zenon DEF Flow
<1>1. /\ First(q, M, CNum) \in SUBSET Nums(q, M, CNum)
      /\ Nums(Tail(q), M, CNum) \in SUBSET Nums(q, M, CNum)
      /\ Below(First(q, M, CNum), Nums(Tail(q), M, CNum))
      /\ Rising(Tail(q), M, CNum)
  BY FirstLeaves DEF Flow, FlowType
<1>2. /\ Nums(Append(x, Head(q)), M, CNum) \in SUBSET (Nums(x, M, CNum) \cup First(q, M, CNum))
      /\ Below(Nums(x, M, CNum), First(q, M, CNum)) => Rising(Append(x, Head(q)), M, CNum)
  BY FirstJoins DEF Flow, FlowType
<1>3. Nums(f, M, CNum) = {} /\ Rising(f, M, CNum)
  BY NumsEmpty, Zenon
<1>4. /\ InLine(Nums(s, R, RNum), Nums(b, R, RNum), Nums(r, R, RNum),
                Nums(Append(x, Head(q)), M, CNum), Nums(f, M, CNum), Nums(Tail(q), M, CNum))
      /\ Below(Nums(x, M, CNum), First(q, M, CNum))
  BY <1>0, <1>1, <1>2, <1>3, MoveSixFour
<1> QED BY <1>1, <1>2, <1>3, <1>4 DEF Flow

\* What another worker has sent is turned into responses p.
LEMMA FlowCollect ==
  ASSUME NEW s, NEW b, NEW r, NEW x, NEW f, NEW q, NEW R, NEW M, NEW k \in Nat,
         FlowType(s, b, r, x, f, q), Flow(s, b, r, x, f, q, R, M, k),
         x # <<>>, NEW p \in Seq(Response), Rising(p, R, RNum),
         Nums(p, R, RNum) \in SUBSET First(x, M, CNum)
  PROVE  Flow(s, b, r \o p, Tail(x), f, q, R, M, k)
<1>0. InLine(Nums(s, R, RNum), Nums(b, R, RNum), Nums(r, R, RNum),
             Nums(x, M, CNum), Nums(f, M, CNum), Nums(q, M, CNum))
  BY Zenon DEF Flow
<1>1. /\ First(x, M, CNum) \in SUBSET Nums(x, M, CNum)
      /\ Nums(Tail(x), M, CNum) \in SUBSET Nums(x, M, CNum)
      /\ Below(First(x, M, CNum), Nums(Tail(x), M, CNum))
      /\ Rising(Tail(x), M, CNum)
  BY FirstLeaves, Zenon DEF Flow, FlowType
<1>2. /\ Nums(r \o p, R, RNum) \in SUBSET (Nums(r, R, RNum) \cup Nums(p, R, RNum))
      /\ Below(Nums(r, R, RNum), Nums(p, R, RNum)) => Rising(r \o p, R, RNum)
  BY NumsConcat, Zenon DEF Flow, FlowType
<1>3. Nums(p, R, RNum) \in SUBSET Nums(x, M, CNum) /\ Below(Nums(p, R, RNum), Nums(Tail(x), M, CNum))
  BY <1>1, Zenon DEF Below
<1>4. /\ InLine(Nums(s, R, RNum), Nums(b, R, RNum), Nums(r \o p, R, RNum), Nums(Tail(x), M, CNum),
                Nums(f, M, CNum), Nums(q, M, CNum))
      /\ Below(Nums(r, R, RNum), Nums(p, R, RNum))
  BY <1>0, <1>1, <1>2, <1>3, MoveFourThree
<1> QED BY <1>1, <1>2, <1>3, <1>4 DEF Flow

\* A command is taken from cmd_queue_ and gives the responses p.
LEMMA FlowExecute ==
  ASSUME NEW s, NEW b, NEW r, NEW x, NEW f, NEW q, NEW R, NEW M, NEW k \in Nat,
         FlowType(s, b, r, x, f, q), Flow(s, b, r, x, f, q, R, M, k),
         q # <<>>, NEW p \in Seq(Response), Rising(p, R, RNum),
         Nums(p, R, RNum) \in SUBSET First(q, M, CNum), x = <<>>, f = <<>>
  PROVE  Flow(s, b, r \o p, x, f, Tail(q), R, M, k)
<1>0. InLine(Nums(s, R, RNum), Nums(b, R, RNum), Nums(r, R, RNum),
             Nums(x, M, CNum), Nums(f, M, CNum), Nums(q, M, CNum))
  BY Zenon DEF Flow
<1>1. /\ First(q, M, CNum) \in SUBSET Nums(q, M, CNum)
      /\ Nums(Tail(q), M, CNum) \in SUBSET Nums(q, M, CNum)
      /\ Below(First(q, M, CNum), Nums(Tail(q), M, CNum))
      /\ Rising(Tail(q), M, CNum)
  BY FirstLeaves, Zenon DEF Flow, FlowType
<1>2. /\ Nums(r \o p, R, RNum) \in SUBSET (Nums(r, R, RNum) \cup Nums(p, R, RNum))
      /\ Below(Nums(r, R, RNum), Nums(p, R, RNum)) => Rising(r \o p, R, RNum)
  BY NumsConcat, Zenon DEF Flow, FlowType
<1>3. Nums(p, R, RNum) \in SUBSET Nums(q, M, CNum) /\ Below(Nums(p, R, RNum), Nums(Tail(q), M, CNum))
  BY <1>1, Zenon DEF Below
<1>4. /\ Nums(x, M, CNum) = {} /\ Rising(x, M, CNum)
      /\ Nums(f, M, CNum) = {} /\ Rising(f, M, CNum)
  BY NumsEmpty, Zenon
<1>5. /\ InLine(Nums(s, R, RNum), Nums(b, R, RNum), Nums(r \o p, R, RNum), Nums(x, M, CNum),
                Nums(f, M, CNum), Nums(Tail(q), M, CNum))
      /\ Below(Nums(r, R, RNum), Nums(p, R, RNum))
  BY <1>0, <1>1, <1>2, <1>3, <1>4, MoveSixThree
<1> QED BY <1>1, <1>2, <1>3, <1>4, <1>5 DEF Flow

\* Responses p of other lines come in between.
LEMMA FlowAdd ==
  ASSUME NEW s, NEW b, NEW r, NEW x, NEW f, NEW q, NEW R, NEW M, NEW k \in Nat,
         FlowType(s, b, r, x, f, q), Flow(s, b, r, x, f, q, R, M, k),
         NEW p \in Seq(Response), Rising(p, R, RNum), Nums(p, R, RNum) = {}
  PROVE  Flow(s, b, r \o p, x, f, q, R, M, k)
<1>0. InLine(Nums(s, R, RNum), Nums(b, R, RNum), Nums(r, R, RNum),
             Nums(x, M, CNum), Nums(f, M, CNum), Nums(q, M, CNum))
  BY Zenon DEF Flow
<1>1. /\ Nums(r \o p, R, RNum) \in SUBSET Nums(r, R, RNum)
      /\ Below(Nums(r, R, RNum), Nums(p, R, RNum)) => Rising(r \o p, R, RNum)
  BY NumsConcat, Zenon DEF Flow, FlowType
<1>2. Below(Nums(r, R, RNum), Nums(p, R, RNum))
  BY Zenon DEF Below
<1>3. InLine(Nums(s, R, RNum), Nums(b, R, RNum), Nums(r \o p, R, RNum), Nums(x, M, CNum),
             Nums(f, M, CNum), Nums(q, M, CNum))
  BY <1>0, <1>1, Narrower, Zenon
<1> QED BY <1>1, <1>2, <1>3, Zenon DEF Flow

\* A command is taken from cmd_queue_ for another line.
LEMMA FlowSkip ==
  ASSUME NEW s, NEW b, NEW r, NEW x, NEW f, NEW q, NEW R, NEW M, NEW k \in Nat,
         FlowType(s, b, r, x, f, q), Flow(s, b, r, x, f, q, R, M, k),
         q # <<>>
  PROVE  Flow(s, b, r, x, f, Tail(q), R, M, k)
<1>0. InLine(Nums(s, R, RNum), Nums(b, R, RNum), Nums(r, R, RNum),
             Nums(x, M, CNum), Nums(f, M, CNum), Nums(q, M, CNum))
  BY DEF Flow
<1>1. Nums(Tail(q), M, CNum) \in SUBSET Nums(q, M, CNum) /\ Rising(Tail(q), M, CNum)
  BY FirstLeaves, Zenon DEF Flow, FlowType
<1>2. InLine(Nums(s, R, RNum), Nums(b, R, RNum), Nums(r, R, RNum), Nums(x, M, CNum),
             Nums(f, M, CNum), Nums(Tail(q), M, CNum))
  BY <1>0, <1>1, Narrower, Zenon
<1> QED BY <1>1, <1>2 DEF Flow

\* A response of another connection is taken from resp_queue_.
LEMMA FlowPass ==
  ASSUME NEW s, NEW b, NEW r, NEW x, NEW f, NEW q, NEW R, NEW M, NEW k \in Nat,
         FlowType(s, b, r, x, f, q), Flow(s, b, r, x, f, q, R, M, k),
         r # <<>>
  PROVE  Flow(s, b, Tail(r), x, f, q, R, M, k)
<1>0. InLine(Nums(s, R, RNum), Nums(b, R, RNum), Nums(r, R, RNum),
             Nums(x, M, CNum), Nums(f, M, CNum), Nums(q, M, CNum))
  BY DEF Flow
<1>1. Nums(Tail(r), R, RNum) \in SUBSET Nums(r, R, RNum) /\ Rising(Tail(r), R, RNum)
  BY FirstLeaves, Zenon DEF Flow, FlowType
<1>2. InLine(Nums(s, R, RNum), Nums(b, R, RNum), Nums(Tail(r), R, RNum), Nums(x, M, CNum),
             Nums(f, M, CNum), Nums(q, M, CNum))
  BY <1>0, <1>1, Narrower, Zenon
<1> QED BY <1>1, <1>2, Zenon DEF Flow

\* A response is taken from resp_queue_ into the batch.
LEMMA FlowDrain ==
  ASSUME NEW s, NEW b, NEW r, NEW x, NEW f, NEW q, NEW R, NEW M, NEW k \in Nat,
         FlowType(s, b, r, x, f, q), Flow(s, b, r, x, f, q, R, M, k),
         r # <<>>
  PROVE  Flow(s, Append(b, Head(r)), Tail(r), x, f, q, R, M, k)
<1>0. InLine(Nums(s, R, RNum), Nums(b, R, RNum), Nums(r, R, RNum),
             Nums(x, M, CNum), Nums(f, M, CNum), Nums(q, M, CNum))
  BY DEF Flow
<1>1. /\ First(r, R, RNum) \in SUBSET Nums(r, R, RNum)
      /\ Nums(Tail(r), R, RNum) \in SUBSET Nums(r, R, RNum)
      /\ Below(First(r, R, RNum), Nums(Tail(r), R, RNum))
      /\ Rising(Tail(r), R, RNum)
  BY FirstLeaves, Zenon DEF Flow, FlowType
<1>2. /\ Nums(Append(b, Head(r)), R, RNum) \in SUBSET (Nums(b, R, RNum) \cup First(r, R, RNum))
      /\ Below(Nums(b, R, RNum), First(r, R, RNum)) => Rising(Append(b, Head(r)), R, RNum)
  BY FirstJoins, Zenon DEF Flow, FlowType
<1>3. /\ InLine(Nums(s, R, RNum), Nums(Append(b, Head(r)), R, RNum), Nums(Tail(r), R, RNum),
                Nums(x, M, CNum), Nums(f, M, CNum), Nums(q, M, CNum))
      /\ Below(Nums(b, R, RNum), First(r, R, RNum))
  BY <1>0, <1>1, <1>2, MoveThreeTwo
<1> QED BY <1>1, <1>2, <1>3, Zenon DEF Flow

\* A response of another line comes into the batch.
LEMMA FlowMix ==
  ASSUME NEW s, NEW b, NEW r, NEW x, NEW f, NEW q, NEW R, NEW M, NEW k \in Nat,
         FlowType(s, b, r, x, f, q), Flow(s, b, r, x, f, q, R, M, k),
         NEW v \in Response, v \notin R
  PROVE  Flow(s, Append(b, v), r, x, f, q, R, M, k)
<1>0. InLine(Nums(s, R, RNum), Nums(b, R, RNum), Nums(r, R, RNum),
             Nums(x, M, CNum), Nums(f, M, CNum), Nums(q, M, CNum))
  BY Zenon DEF Flow
<1>1. Nums(Append(b, v), R, RNum) \in SUBSET Nums(b, R, RNum) /\ Rising(Append(b, v), R, RNum)
  BY NumsAppend, Zenon DEF Flow, FlowType
<1>2. InLine(Nums(s, R, RNum), Nums(Append(b, v), R, RNum), Nums(r, R, RNum), Nums(x, M, CNum),
             Nums(f, M, CNum), Nums(q, M, CNum))
  BY <1>0, <1>1, Narrower, Zenon
<1> QED BY <1>1, <1>2, Zenon DEF Flow

\* The batch is written to the socket, or dropped.
LEMMA FlowSend ==
  ASSUME NEW s, NEW b, NEW r, NEW x, NEW f, NEW q, NEW R, NEW M, NEW k \in Nat,
         FlowType(s, b, r, x, f, q), Flow(s, b, r, x, f, q, R, M, k),
         NEW z, z \in {s, s \o b}
  PROVE  Flow(z, <<>>, r, x, f, q, R, M, k)
<1>0. InLine(Nums(s, R, RNum), Nums(b, R, RNum), Nums(r, R, RNum),
             Nums(x, M, CNum), Nums(f, M, CNum), Nums(q, M, CNum))
  BY DEF Flow
<1>1. Nums(<<>>, R, RNum) = {} /\ Rising(<<>>, R, RNum)
  BY NumsEmpty
<1>2. Nums(z, R, RNum) \in SUBSET (Nums(s, R, RNum) \cup Nums(b, R, RNum))
  BY NumsConcat, Zenon DEF FlowType
<1>3. /\ InLine(Nums(z, R, RNum), {}, Nums(r, R, RNum), Nums(x, M, CNum),
                Nums(f, M, CNum), Nums(q, M, CNum))
      /\ Below(Nums(s, R, RNum), Nums(b, R, RNum))
  BY <1>0, <1>2, MoveTwoOne
<1>4. Rising(z, R, RNum)
  BY <1>3, NumsConcat, Zenon DEF Flow, FlowType
<1> QED BY <1>1, <1>2, <1>3, <1>4, Zenon DEF Flow

\* A command is received.
LEMMA FlowEnter ==
  ASSUME NEW s, NEW b, NEW r, NEW x, NEW f, NEW q, NEW R, NEW M, NEW k \in Nat,
         FlowType(s, b, r, x, f, q), Flow(s, b, r, x, f, q, R, M, k),
         NEW m \in Command, m.id = k + 1
  PROVE  Flow(s, b, r, x, f, Append(q, m), R, M, k + 1)
<1>0. InLine(Nums(s, R, RNum), Nums(b, R, RNum), Nums(r, R, RNum),
             Nums(x, M, CNum), Nums(f, M, CNum), Nums(q, M, CNum))
  BY Zenon DEF Flow
<1>1. CNum[m] = k + 1
  BY Zenon DEF CNum
<1>2. /\ Nums(Append(q, m), M, CNum) \in SUBSET (Nums(q, M, CNum) \cup {k + 1})
      /\ Below(Nums(q, M, CNum), {k + 1}) => Rising(Append(q, m), M, CNum)
  BY <1>1, NumsAppend, Zenon DEF Flow, FlowType
<1>3. Nums(s, R, RNum) \cup Nums(b, R, RNum) \cup Nums(r, R, RNum) \cup Nums(x, M, CNum)
        \cup Nums(f, M, CNum) \cup Nums(q, M, CNum) \subseteq UpTo(k)
  BY Zenon DEF Flow
<1>4. /\ InLine(Nums(s, R, RNum), Nums(b, R, RNum), Nums(r, R, RNum), Nums(x, M, CNum),
                Nums(f, M, CNum), Nums(Append(q, m), M, CNum))
      /\ Below(Nums(q, M, CNum), {k + 1})
  <2>1. Below(UpTo(k), {k + 1})
    BY DEF Below, UpTo
  <2> QED BY <1>0, <1>2, <1>3, <2>1, EnterSix
<1>5. UpTo(k) \subseteq UpTo(k + 1) /\ k + 1 \in UpTo(k + 1)
  BY DEF UpTo
<1> QED BY <1>2, <1>3, <1>4, <1>5 DEF Flow

\* A command of another line is received.
LEMMA FlowOther ==
  ASSUME NEW s, NEW b, NEW r, NEW x, NEW f, NEW q, NEW R, NEW M, NEW k \in Nat,
         FlowType(s, b, r, x, f, q), Flow(s, b, r, x, f, q, R, M, k),
         NEW m \in Command, m \notin M
  PROVE  Flow(s, b, r, x, f, Append(q, m), R, M, k)
<1>0. InLine(Nums(s, R, RNum), Nums(b, R, RNum), Nums(r, R, RNum),
             Nums(x, M, CNum), Nums(f, M, CNum), Nums(q, M, CNum))
  BY Zenon DEF Flow
<1>1. Nums(Append(q, m), M, CNum) \in SUBSET Nums(q, M, CNum) /\ Rising(Append(q, m), M, CNum)
  BY NumsAppend, Zenon DEF Flow, FlowType
<1>2. InLine(Nums(s, R, RNum), Nums(b, R, RNum), Nums(r, R, RNum), Nums(x, M, CNum),
             Nums(f, M, CNum), Nums(Append(q, m), M, CNum))
  BY <1>0, <1>1, Narrower, Zenon
<1> QED BY <1>1, <1>2 DEF Flow

\* A frame that does not parse is received.
LEMMA FlowRefuse ==
  ASSUME NEW s, NEW b, NEW r, NEW x, NEW f, NEW q, NEW R, NEW M, NEW k \in Nat,
         Flow(s, b, r, x, f, q, R, M, k)
  PROVE  Flow(s, b, r, x, f, q, R, M, k + 1)
<1>1. UpTo(k) \subseteq UpTo(k + 1)
  BY DEF UpTo
<1> QED BY <1>1 DEF Flow

-----------------------------------------------------------------------------
(* What the executor makes of a command. *)

\* The reply to m belongs to the line of m and is no message.
LEMMA ReplyYields ==
  ASSUME NEW m \in Command, NEW c, NEW t, NEW d
  PROVE  /\ <<Reply(m)>> \in Seq(Response)
         /\ Rising(<<Reply(m)>>, Replies(c, t), RNum)
         /\ Nums(<<Reply(m)>>, Replies(c, t), RNum) = {CNum[y] : y \in {m} \cap Sent(c, t)}
         /\ Rising(<<Reply(m)>>, Messages(d, c), RNum)
         /\ Nums(<<Reply(m)>>, Messages(d, c), RNum) = {}
<1> DEFINE v == Reply(m)
           p == <<v>>
<1>1. v \in Response /\ v.kind = "reply" /\ v.cmd = m
  BY ReplyType DEF Reply
<1>2. RNum[v] = CNum[m]
  BY <1>1, Zenon DEF RNum, CNum
<1>3. v \in Replies(c, t) <=> m \in Sent(c, t)
  BY <1>1 DEF Replies
<1>4. v \notin Messages(d, c)
  BY <1>1 DEF Messages
<1> HIDE DEF v
<1>5. p \in Seq(Response) /\ Len(p) = 1 /\ p[1] = v /\ \A i \in 1..Len(p) : i = 1
  BY <1>1
<1> HIDE DEF p
<1>6. \A S : Rising(p, S, RNum)
  BY <1>5 DEF Rising
<1>7. Nums(p, Messages(d, c), RNum) = {}
  BY <1>4, <1>5, Zenon DEF Nums
<1>8. Nums(p, Replies(c, t), RNum) = {CNum[y] : y \in {m} \cap Sent(c, t)}
  BY <1>2, <1>3, <1>5 DEF Nums
<1> QED BY <1>5, <1>6, <1>7, <1>8, Zenon DEF p, v

\* The pushes for m are messages, one for each subscriber, and no replies.
LEMMA PushYields ==
  ASSUME NEW m \in Command, NEW w \in Worker, NEW c, NEW t, NEW d
  PROVE  /\ Rising(Pushes(w, m), Replies(c, t), RNum)
         /\ Nums(Pushes(w, m), Replies(c, t), RNum) = {}
         /\ Rising(Pushes(w, m), Messages(d, c), RNum)
         /\ m.conn = d => Nums(Pushes(w, m), Messages(d, c), RNum) \subseteq {CNum[m]}
         /\ m.conn # d => Nums(Pushes(w, m), Messages(d, c), RNum) = {}
<1> DEFINE p == Pushes(w, m)
<1>1. Subs[w] \in Seq(Conn) /\ \A i, j \in 1..Len(Subs[w]) : Subs[w][i] = Subs[w][j] => i = j
  BY RuntimeAssumption
<1>2. /\ Len(p) = Len(Subs[w])
      /\ \A i \in 1..Len(p) : p[i] = [conn |-> Subs[w][i], kind |-> "push", cmd |-> m]
  BY <1>1 DEF Pushes
<1>3. \A i \in 1..Len(p) : p[i] \in Response
  BY PushesType
<1> HIDE DEF p
<1>4. \A i \in 1..Len(p) : /\ p[i].conn = Subs[w][i] /\ p[i].kind = "push" /\ p[i].cmd = m
                           /\ RNum[p[i]] = CNum[m]
  <2> SUFFICES ASSUME NEW i \in 1..Len(p)
               PROVE  /\ p[i].conn = Subs[w][i] /\ p[i].kind = "push" /\ p[i].cmd = m
                      /\ RNum[p[i]] = CNum[m]
    BY Zenon
  <2>1. p[i].conn = Subs[w][i] /\ p[i].kind = "push" /\ p[i].cmd = m
    <3>1. p[i] = [conn |-> Subs[w][i], kind |-> "push", cmd |-> m]
      BY <1>2
    <3> QED BY <3>1
  <2>2. RNum[p[i]] = p[i].cmd.id /\ CNum[m] = m.id
    BY <1>3, Zenon DEF RNum, CNum
  <2> QED BY <2>1, <2>2
<1>5. \A i \in 1..Len(p) : p[i] \notin Replies(c, t)
  BY <1>4, Zenon DEF Replies
<1>6. \A i \in 1..Len(p) : p[i] \in Messages(d, c) => m.conn = d /\ Subs[w][i] = c
  BY <1>4, Zenon DEF Messages
<1>7. Rising(p, Replies(c, t), RNum) /\ Nums(p, Replies(c, t), RNum) = {}
  BY <1>5, Zenon DEF Rising, Nums
<1>8. Rising(p, Messages(d, c), RNum)
  <2> SUFFICES ASSUME NEW i \in 1..Len(p), NEW j \in 1..Len(p), i < j,
                      p[i] \in Messages(d, c), p[j] \in Messages(d, c)
               PROVE  FALSE
    BY DEF Rising
  <2>1. i = j
    BY <1>1, <1>2, <1>6, Zenon
  <2> QED BY <2>1
<1>9. /\ m.conn = d => Nums(p, Messages(d, c), RNum) \subseteq {CNum[m]}
      /\ m.conn # d => Nums(p, Messages(d, c), RNum) = {}
  BY <1>4, <1>6, Zenon DEF Nums
<1> QED BY <1>7, <1>8, <1>9, Zenon DEF p

-----------------------------------------------------------------------------
(* The actions, lane by lane. *)

\* Queues q and z differ at most in lane p of worker w.
Elsewhere(q, z, P, w, p) == \A v \in Worker, l \in P : v # w \/ l # p => z[v][l] = q[v][l]

\* A lane is given a new value.
LEMMA LaneSet ==
  ASSUME NEW P, NEW S, NEW q \in [Worker -> [P -> S]], NEW w \in Worker, NEW p \in P, NEW v
  PROVE  /\ [q EXCEPT ![w][p] = v][w][p] = v
         /\ Elsewhere(q, [q EXCEPT ![w][p] = v], P, w, p)
BY DEF Elsewhere

\* The queues have their types.
LEMMA Typed ==
  ASSUME TypeOK
  PROVE  /\ cmdq \in [Worker -> [Worker -> Seq(Command)]]
         /\ xresp \in [Worker -> [Worker -> Seq(Command)]]
         /\ pubsubq \in [Worker -> [Worker -> Seq(Command)]]
         /\ respq \in [Worker -> [Lane -> Seq(Response)]]
         /\ batch \in [Conn -> Seq(Response)] /\ wire \in [Conn -> Seq(Response)]
         /\ issued \in [Conn -> Nat]
         /\ "exec" \in Lane /\ "io" \in Lane
         /\ \A c \in Conn : Home[c] \in Worker
BY RuntimeAssumption, Zenon DEF TypeOK, QueuesOK, ConnsOK, Lane

\* A lane of resp_queue_ is given a new value.
LEMMA ResponseSet ==
  ASSUME TypeOK, NEW w \in Worker, NEW l \in Lane, NEW v, respq' = [respq EXCEPT ![w][l] = v]
  PROVE  respq'[w][l] = v /\ Elsewhere(respq, respq', Lane, w, l)
BY Typed, Zenon DEF Elsewhere

\* Receive, a command.
LEMMA ReceiveEffect ==
  ASSUME TypeOK, NEW c \in Conn, NEW op \in Sends[c], Receive(c, op), op # Bad
  PROVE  LET w == Home[c]
             m == [conn |-> c, id |-> issued[c] + 1, op |-> op]
         IN /\ m \in Command /\ w \in Worker
            /\ cmdq'[w][w] = Append(cmdq[w][w], m) /\ Elsewhere(cmdq, cmdq', Worker, w, w)
            /\ issued' = [issued EXCEPT ![c] = issued[c] + 1]
            /\ UNCHANGED <<xresp, pubsubq, respq, batch, wire>>
<1> DEFINE w == Home[c]
           m == [conn |-> c, id |-> issued[c] + 1, op |-> op]
<1>1. m \in Command /\ w \in Worker
  BY Typed, RuntimeAssumption DEF Command
<1>2. /\ cmdq' = [cmdq EXCEPT ![w][w] = Append(cmdq[w][w], m)]
      /\ issued' = [issued EXCEPT ![c] = issued[c] + 1]
      /\ UNCHANGED <<xresp, pubsubq, respq, batch, wire>>
  BY Zenon DEF Receive, handler
<1> HIDE DEF w, m
<1>3. cmdq'[w][w] = Append(cmdq[w][w], m) /\ Elsewhere(cmdq, cmdq', Worker, w, w)
  BY <1>1, <1>2, Typed, LaneSet, Zenon
<1> QED BY <1>1, <1>2, <1>3, Zenon DEF w, m

\* Receive, a frame that does not parse.
LEMMA RefuseEffect ==
  ASSUME TypeOK, NEW c \in Conn, NEW op \in Sends[c], Receive(c, op), op = Bad
  PROVE  LET w == Home[c]
             m == [conn |-> c, id |-> issued[c] + 1, op |-> op]
             e == [conn |-> c, kind |-> "error", cmd |-> m]
         IN /\ e \in Response /\ w \in Worker
            /\ respq'[w]["io"] = Append(respq[w]["io"], e) /\ Elsewhere(respq, respq', Lane, w, "io")
            /\ issued' = [issued EXCEPT ![c] = issued[c] + 1]
            /\ UNCHANGED <<cmdq, xresp, pubsubq, batch, wire>>
<1> DEFINE w == Home[c]
           m == [conn |-> c, id |-> issued[c] + 1, op |-> op]
           e == [conn |-> c, kind |-> "error", cmd |-> m]
<1>1. m \in Command /\ w \in Worker
  BY Typed, RuntimeAssumption DEF Command
<1>2. e \in Response
  BY <1>1, Zenon DEF Response
<1>3. /\ respq' = [respq EXCEPT ![w]["io"] = Append(respq[w]["io"], e)]
      /\ issued' = [issued EXCEPT ![c] = issued[c] + 1]
      /\ UNCHANGED <<cmdq, xresp, pubsubq, batch, wire>>
  BY Zenon DEF Receive, handler
<1> HIDE DEF w, e
<1>4. respq'[w]["io"] = Append(respq[w]["io"], e) /\ Elsewhere(respq, respq', Lane, w, "io")
  BY <1>1, <1>3, Typed, ResponseSet, Zenon
<1> QED BY <1>1, <1>2, <1>3, <1>4, Zenon DEF w, m, e

\* ExecuteLocal: a response follows what is in resp_queue_.
LEMMA ExecuteEffect ==
  ASSUME TypeOK, NEW w \in Worker, ExecuteLocal(w)
  PROVE  LET m == Head(cmdq[w][w])
         IN /\ m \in Command /\ cmdq[w][w] # <<>> /\ m.op # Publish /\ Target(m) = w
            /\ cmdq'[w][w] = Tail(cmdq[w][w]) /\ Elsewhere(cmdq, cmdq', Worker, w, w)
            /\ respq'[w]["exec"] = Append(respq[w]["exec"], Reply(m))
            /\ Elsewhere(respq, respq', Lane, w, "exec")
            /\ UNCHANGED <<xresp, pubsubq, batch, wire, issued>>
<1> DEFINE m == Head(cmdq[w][w])
<1>1. cmdq[w][w] # <<>> /\ m.op # Publish /\ Target(m) = w
  BY DEF ExecuteLocal, Dequeue
<1>2. m \in Command
  BY <1>1, Typed
<1>3. /\ cmdq' = [cmdq EXCEPT ![w][w] = Tail(cmdq[w][w])]
      /\ respq' = [respq EXCEPT ![w]["exec"] = Append(respq[w]["exec"], Reply(m))]
      /\ UNCHANGED <<xresp, pubsubq, batch, wire, issued>>
  BY Zenon DEF ExecuteLocal, handler, client
<1> HIDE DEF m
<1>4. cmdq'[w][w] = Tail(cmdq[w][w]) /\ Elsewhere(cmdq, cmdq', Worker, w, w)
  BY <1>3, Typed, LaneSet, Zenon
<1>5. /\ respq'[w]["exec"] = Append(respq[w]["exec"], Reply(m))
      /\ Elsewhere(respq, respq', Lane, w, "exec")
  BY <1>3, Typed, ResponseSet, Zenon
<1> QED BY <1>1, <1>2, <1>3, <1>4, <1>5, Zenon DEF m

\* ExecutePublish: pushes and a reply follow what is in resp_queue_, and every other
\* worker gets the message.
LEMMA PublishEffect ==
  ASSUME TypeOK, NEW w \in Worker, ExecutePublish(w)
  PROVE  LET m == Head(cmdq[w][w])
         IN /\ m \in Command /\ cmdq[w][w] # <<>> /\ m.op = Publish
            /\ cmdq'[w][w] = Tail(cmdq[w][w]) /\ Elsewhere(cmdq, cmdq', Worker, w, w)
            /\ respq'[w]["exec"] = Append(respq[w]["exec"] \o Pushes(w, m), Reply(m))
            /\ Elsewhere(respq, respq', Lane, w, "exec")
            /\ \A v \in Worker : v # w => pubsubq'[v][w] = Append(pubsubq[v][w], m)
            /\ \A v, p \in Worker : v = w \/ p # w => pubsubq'[v][p] = pubsubq[v][p]
            /\ UNCHANGED <<xresp, batch, wire, issued>>
<1> DEFINE m == Head(cmdq[w][w])
<1>1. cmdq[w][w] # <<>> /\ m.op = Publish
  BY Zenon DEF ExecutePublish, Dequeue
<1>2. m \in Command
  BY <1>1, Typed
<1>3. /\ cmdq' = [cmdq EXCEPT ![w][w] = Tail(cmdq[w][w])]
      /\ respq' = [respq EXCEPT ![w]["exec"] = Append(respq[w]["exec"] \o Pushes(w, m), Reply(m))]
      /\ UNCHANGED <<xresp, batch, wire, issued>>
  BY Zenon DEF ExecutePublish, handler, client
<1>4. pubsubq' = [v \in Worker |-> IF v = w THEN pubsubq[v]
                                   ELSE [pubsubq[v] EXCEPT ![w] = Append(pubsubq[v][w], m)]]
  BY Zenon DEF ExecutePublish
<1> HIDE DEF m
<1>5. cmdq'[w][w] = Tail(cmdq[w][w]) /\ Elsewhere(cmdq, cmdq', Worker, w, w)
  BY <1>3, Typed, LaneSet, Zenon
<1>6. /\ respq'[w]["exec"] = Append(respq[w]["exec"] \o Pushes(w, m), Reply(m))
      /\ Elsewhere(respq, respq', Lane, w, "exec")
  BY <1>3, Typed, ResponseSet, Zenon
<1>7. \A v \in Worker : pubsubq[v] \in [Worker -> Seq(Command)]
  BY Typed, Zenon
<1>8. /\ \A v \in Worker : v # w => pubsubq'[v][w] = Append(pubsubq[v][w], m)
      /\ \A v, p \in Worker : v = w \/ p # w => pubsubq'[v][p] = pubsubq[v][p]
  BY <1>4, <1>7, Zenon
<1> QED BY <1>1, <1>2, <1>3, <1>5, <1>6, <1>8, Zenon DEF m

\* Forward: the command leaves the client's lane for the lane of w at its owner.
LEMMA ForwardEffect ==
  ASSUME TypeOK, PlacedCommands, NEW w \in Worker, Forward(w)
  PROVE  LET m == Head(cmdq[w][w])
             u == Target(m)
         IN /\ m \in Command /\ m \in For(w, u) /\ cmdq[w][w] # <<>> /\ u \in Worker /\ u # w
            /\ cmdq'[w][w] = Tail(cmdq[w][w])
            /\ cmdq'[u][w] = Append(cmdq[u][w], m)
            /\ \A v, p \in Worker : p # w \/ (v # w /\ v # u) => cmdq'[v][p] = cmdq[v][p]
            /\ UNCHANGED <<xresp, pubsubq, respq, batch, wire, issued>>
<1> DEFINE m == Head(cmdq[w][w])
           u == Target(m)
<1>1. cmdq[w][w] # <<>> /\ u # w
  BY Zenon DEF Forward, Dequeue
<1>2. cmdq[w][w] \in Seq(Own(w))
  BY Zenon DEF PlacedCommands, Waiting
<1>3. m \in Own(w)
  BY <1>1, <1>2
<1>4. m \in Command /\ u \in Worker
  BY <1>3, RuntimeAssumption, Zenon DEF Own, Target, Command, Op
<1>5. m \in For(w, u)
  BY <1>1, <1>3, Zenon DEF For
<1>6. cmdq' = [cmdq EXCEPT ![w][w] = Tail(@), ![u][w] = Append(@, m)]
  BY Zenon DEF Forward
<1>7. UNCHANGED <<xresp, pubsubq, respq, batch, wire, issued>>
  BY Zenon DEF Forward, handler, client
<1> HIDE DEF m, u
<1>8. /\ cmdq'[w][w] = Tail(cmdq[w][w])
      /\ cmdq'[u][w] = Append(cmdq[u][w], m)
      /\ \A v, p \in Worker : p # w \/ (v # w /\ v # u) => cmdq'[v][p] = cmdq[v][p]
  BY <1>1, <1>4, <1>6, Typed, Zenon
<1> QED BY <1>1, <1>4, <1>5, <1>7, <1>8, Zenon DEF m, u

\* ExecuteForwarded: the command leaves cmd_queue_ for the answers of its worker.
LEMMA ForwardedEffect ==
  ASSUME TypeOK, NEW w \in Worker, NEW p \in Worker, ExecuteForwarded(w, p)
  PROVE  LET m == Head(cmdq[w][p])
         IN /\ m \in Command /\ cmdq[w][p] # <<>> /\ p # w
            /\ cmdq'[w][p] = Tail(cmdq[w][p]) /\ Elsewhere(cmdq, cmdq', Worker, w, p)
            /\ xresp'[p][w] = Append(xresp[p][w], m) /\ Elsewhere(xresp, xresp', Worker, p, w)
            /\ UNCHANGED <<pubsubq, respq, batch, wire, issued>>
<1> DEFINE m == Head(cmdq[w][p])
<1>1. cmdq[w][p] # <<>> /\ p # w
  BY DEF ExecuteForwarded, Dequeue
<1>2. m \in Command
  BY <1>1, Typed, SMTT(30)
<1>3. /\ cmdq' = [cmdq EXCEPT ![w][p] = Tail(cmdq[w][p])]
      /\ xresp' = [xresp EXCEPT ![p][w] = Append(xresp[p][w], m)]
      /\ UNCHANGED <<pubsubq, respq, batch, wire, issued>>
  BY Zenon DEF ExecuteForwarded, handler, client
<1> HIDE DEF m
<1>4. cmdq'[w][p] = Tail(cmdq[w][p]) /\ Elsewhere(cmdq, cmdq', Worker, w, p)
  BY <1>3, Typed, LaneSet, Zenon
<1>5. xresp'[p][w] = Append(xresp[p][w], m) /\ Elsewhere(xresp, xresp', Worker, p, w)
  BY <1>3, Typed, LaneSet, Zenon
<1> QED BY <1>1, <1>2, <1>3, <1>4, <1>5 DEF m

\* TakeCrossResponse: an answer becomes a response.
LEMMA CollectEffect ==
  ASSUME TypeOK, NEW w \in Worker, NEW p \in Worker, TakeCrossResponse(w, p)
  PROVE  LET m == Head(xresp[w][p])
         IN /\ m \in Command /\ xresp[w][p] # <<>>
            /\ xresp'[w][p] = Tail(xresp[w][p]) /\ Elsewhere(xresp, xresp', Worker, w, p)
            /\ respq'[w]["exec"] = Append(respq[w]["exec"], Reply(m))
            /\ Elsewhere(respq, respq', Lane, w, "exec")
            /\ UNCHANGED <<cmdq, pubsubq, batch, wire, issued>>
<1> DEFINE m == Head(xresp[w][p])
<1>1. xresp[w][p] # <<>>
  BY DEF TakeCrossResponse
<1>2. m \in Command
  BY <1>1, Typed, SMTT(30)
<1>3. /\ xresp' = [xresp EXCEPT ![w][p] = Tail(xresp[w][p])]
      /\ respq' = [respq EXCEPT ![w]["exec"] = Append(respq[w]["exec"], Reply(m))]
      /\ UNCHANGED <<cmdq, pubsubq, batch, wire, issued>>
  BY Zenon DEF TakeCrossResponse, handler, client
<1> HIDE DEF m
<1>4. xresp'[w][p] = Tail(xresp[w][p]) /\ Elsewhere(xresp, xresp', Worker, w, p)
  BY <1>3, Typed, LaneSet, Zenon
<1>5. /\ respq'[w]["exec"] = Append(respq[w]["exec"], Reply(m))
      /\ Elsewhere(respq, respq', Lane, w, "exec")
  BY <1>3, Typed, ResponseSet, Zenon
<1> QED BY <1>1, <1>2, <1>3, <1>4, <1>5 DEF m

\* TakePubSub: a message of another worker is pushed to the subscribers.
LEMMA NewsEffect ==
  ASSUME TypeOK, NEW w \in Worker, NEW p \in Worker, TakePubSub(w, p)
  PROVE  LET m == Head(pubsubq[w][p])
         IN /\ m \in Command /\ pubsubq[w][p] # <<>>
            /\ pubsubq'[w][p] = Tail(pubsubq[w][p]) /\ Elsewhere(pubsubq, pubsubq', Worker, w, p)
            /\ respq'[w]["exec"] = respq[w]["exec"] \o Pushes(w, m)
            /\ Elsewhere(respq, respq', Lane, w, "exec")
            /\ UNCHANGED <<cmdq, xresp, batch, wire, issued>>
<1> DEFINE m == Head(pubsubq[w][p])
<1>1. pubsubq[w][p] # <<>>
  BY Zenon DEF TakePubSub
<1>2. m \in Command
  BY <1>1, Typed, SMTT(30)
<1>3. /\ pubsubq' = [pubsubq EXCEPT ![w][p] = Tail(pubsubq[w][p])]
      /\ respq' = [respq EXCEPT ![w]["exec"] = respq[w]["exec"] \o Pushes(w, m)]
      /\ UNCHANGED <<cmdq, xresp, batch, wire, issued>>
  BY Zenon DEF TakePubSub, handler, client
<1> HIDE DEF m
<1>4. pubsubq'[w][p] = Tail(pubsubq[w][p]) /\ Elsewhere(pubsubq, pubsubq', Worker, w, p)
  BY <1>3, Typed, LaneSet, Zenon
<1>5. /\ respq'[w]["exec"] = respq[w]["exec"] \o Pushes(w, m)
      /\ Elsewhere(respq, respq', Lane, w, "exec")
  BY <1>3, Typed, ResponseSet, Zenon
<1> QED BY <1>1, <1>2, <1>3, <1>4, <1>5, Zenon DEF m

\* DrainOne: a response moves to the batch of its connection.
LEMMA DrainEffect ==
  ASSUME TypeOK, NEW w \in Worker, NEW l \in Lane, DrainOne(w, l)
  PROVE  LET r == Head(respq[w][l])
         IN /\ r \in Response /\ r.conn \in Conn /\ respq[w][l] # <<>>
            /\ respq'[w][l] = Tail(respq[w][l]) /\ Elsewhere(respq, respq', Lane, w, l)
            /\ batch'[r.conn] = Append(batch[r.conn], r)
            /\ \A c \in Conn : c # r.conn => batch'[c] = batch[c]
            /\ UNCHANGED <<cmdq, xresp, pubsubq, wire, issued>>
<1> DEFINE r == Head(respq[w][l])
<1>1. respq[w][l] # <<>>
  BY Zenon DEF DrainOne
<1>2. r \in Response
  BY <1>1, Typed
<1>3. r.conn \in Conn
  BY <1>2, Zenon DEF Response
<1>4. /\ respq' = [respq EXCEPT ![w][l] = Tail(respq[w][l])]
      /\ batch' = [batch EXCEPT ![r.conn] = Append(batch[r.conn], r)]
      /\ UNCHANGED <<cmdq, xresp, pubsubq, wire, issued>>
  BY Zenon DEF DrainOne, queues, client
<1> HIDE DEF r
<1>5. respq'[w][l] = Tail(respq[w][l]) /\ Elsewhere(respq, respq', Lane, w, l)
  BY <1>4, Typed, ResponseSet, Zenon
<1>6. /\ batch'[r.conn] = Append(batch[r.conn], r)
      /\ \A c \in Conn : c # r.conn => batch'[c] = batch[c]
  BY <1>3, <1>4, Typed, Zenon
<1> QED BY <1>1, <1>2, <1>3, <1>4, <1>5, <1>6, Zenon DEF r

\* SendBatches: what was taken for a connection is written, or dropped.
LEMMA SendEffect ==
  ASSUME NEW w \in Worker, SendBatches(w)
  PROVE  /\ \A c \in Conn : Home[c] = w => batch'[c] = <<>> /\ wire'[c] \in {wire[c], wire[c] \o batch[c]}
         /\ \A c \in Conn : Home[c] # w => batch'[c] = batch[c] /\ wire'[c] = wire[c]
         /\ UNCHANGED <<cmdq, xresp, pubsubq, respq, issued>>
BY ZenonT(40) DEF SendBatches, queues, client

\* What the other actions leave alone.
Still == UNCHANGED <<cmdq, xresp, pubsubq, respq, batch, wire, issued>>

\* The actions that move nothing.
LEMMA StillEffect ==
  ASSUME NEW w, NEW c,
         \/ Accept(c) \/ Close(c) \/ Stop(w)
         \/ EndCommands(w) \/ EndCrossResponses(w) \/ Flush(w)
         \/ BeginHandler(w) \/ ClearScheduled(w) \/ StoreVisible(w) \/ Recheck(w)
  PROVE  Still
BY DEF Still, queues, handler, client, Accept, Close, Stop, EndCommands,
       EndCrossResponses, Flush, BeginHandler, ClearScheduled, StoreVisible, Recheck

-----------------------------------------------------------------------------
(* Everything stays where it belongs. *)

\* Queues of elements of S.
LEMMA Members ==
  ASSUME NEW S, NEW q \in Seq(S)
  PROVE  /\ q # <<>> => Head(q) \in S /\ Tail(q) \in Seq(S)
         /\ \A v \in S : Append(q, v) \in Seq(S)
         /\ \A z \in Seq(S) : q \o z \in Seq(S)
OBVIOUS

\* The responses the executor of w makes go to connections of w.
LEMMA MadeHere ==
  ASSUME NEW w \in Worker, NEW m \in Command
  PROVE  /\ m \in Own(w) => Reply(m) \in Outgoings(w)
         /\ Pushes(w, m) \in Seq(Outgoings(w))
<1>1. ASSUME m \in Own(w) PROVE Reply(m) \in Outgoings(w)
  <2>1. Reply(m) \in Response /\ Reply(m).conn = m.conn /\ Reply(m).cmd = m /\ m.conn \in Conn
    BY ReplyType DEF Reply, Command
  <2>2. Reply(m) \in Outgoing(m.conn)
    BY <1>1, <2>1, Zenon DEF Outgoing, Own
  <2> QED BY <1>1, <2>1, <2>2, Zenon DEF Outgoings, Own
<1>2. Pushes(w, m) \in Seq(Outgoings(w))
  <2> DEFINE z == Pushes(w, m)
  <2>1. Subs[w] \in Seq(Conn) /\ \A i \in 1..Len(Subs[w]) : Home[Subs[w][i]] = w
    BY RuntimeAssumption
  <2>2. z \in Seq(Response)
    BY PushesType, Zenon
  <2>3. \A i \in 1..Len(z) : i \in 1..Len(Subs[w]) /\ z[i] = [conn |-> Subs[w][i], kind |-> "push", cmd |-> m]
    BY <2>1 DEF Pushes
  <2> HIDE DEF z
  <2>4. ASSUME NEW i \in 1..Len(z) PROVE z[i] \in Outgoings(w)
    <3>0. z[i] = [conn |-> Subs[w][i], kind |-> "push", cmd |-> m]
      BY <2>3, Zenon
    <3>1. z[i] \in Response
      BY <2>2
    <3>2. z[i].conn = Subs[w][i] /\ z[i].kind = "push"
      BY <3>0
    <3>3. Subs[w][i] \in Conn /\ Home[Subs[w][i]] = w
      <4>1. i \in 1..Len(Subs[w])
        BY <2>3, Zenon
      <4> QED BY <2>1, <4>1
    <3>4. z[i] \in Outgoing(Subs[w][i])
      BY <3>1, <3>2 DEF Outgoing
    <3> QED BY <3>3, <3>4, Zenon DEF Outgoings
  <2> QED BY <2>2, <2>4 DEF z
<1> QED BY <1>1, <1>2, Zenon

\* Where a response goes from resp_queue_.
LEMMA Addressed ==
  ASSUME NEW w \in Worker, NEW r
  PROVE  /\ r \in Outgoings(w) => r \in Outgoing(r.conn) /\ Home[r.conn] = w
         /\ r \in Errors => r \in Outgoing(r.conn)
BY Zenon DEF Outgoings, Outgoing, Errors

\* A step that changes one lane of cmd_queue_.
LEMMA KeepCommands ==
  ASSUME PlacedCommands, NEW w \in Worker, NEW p \in Worker,
         cmdq'[w][p] \in Seq(Waiting(w, p)), Elsewhere(cmdq, cmdq', Worker, w, p)
  PROVE  PlacedCommands'
BY Zenon DEF PlacedCommands, Elsewhere, Waiting

\* A step that changes one lane of cross_worker_resp_queue_.
LEMMA KeepAnswers ==
  ASSUME PlacedAnswers, NEW w \in Worker, NEW p \in Worker,
         xresp'[w][p] \in Seq(For(w, p)), Elsewhere(xresp, xresp', Worker, w, p)
  PROVE  PlacedAnswers'
BY Zenon DEF PlacedAnswers, Elsewhere

\* A step that changes one lane of pubsub_msg_queue_.
LEMMA KeepNews ==
  ASSUME PlacedNews, NEW w \in Worker, NEW p \in Worker,
         pubsubq'[w][p] \in Seq(News(p, w)), Elsewhere(pubsubq, pubsubq', Worker, w, p)
  PROVE  PlacedNews'
BY Zenon DEF PlacedNews, Elsewhere

\* A step that changes one lane of resp_queue_.
LEMMA KeepResponses ==
  ASSUME PlacedResponses, NEW w \in Worker, NEW l \in Lane,
         l = "exec" => respq'[w][l] \in Seq(Outgoings(w)),
         l = "io" => respq'[w][l] \in Seq(Errors),
         Elsewhere(respq, respq', Lane, w, l)
  PROVE  PlacedResponses'
BY DEF PlacedResponses, Elsewhere, Lane

\* A queue that does not change stays as it is.
LEMMA KeepStill ==
  /\ PlacedCommands /\ cmdq' = cmdq => PlacedCommands'
  /\ PlacedAnswers /\ xresp' = xresp => PlacedAnswers'
  /\ PlacedNews /\ pubsubq' = pubsubq => PlacedNews'
  /\ PlacedResponses /\ respq' = respq => PlacedResponses'
  /\ PlacedSockets /\ batch' = batch /\ wire' = wire => PlacedSockets'
BY DEF PlacedCommands, PlacedAnswers, PlacedNews, PlacedResponses, PlacedSockets

\* What a client sends.
LEMMA ReceivePlaced ==
  ASSUME TypeOK, Placed, NEW c \in Conn, NEW op \in Sends[c], Receive(c, op)
  PROVE  Placed'
<1> DEFINE w == Home[c]
           m == [conn |-> c, id |-> issued[c] + 1, op |-> op]
           e == [conn |-> c, kind |-> "error", cmd |-> m]
<1>1. CASE op # Bad
  <2>1. /\ m \in Command /\ w \in Worker
        /\ cmdq'[w][w] = Append(cmdq[w][w], m) /\ Elsewhere(cmdq, cmdq', Worker, w, w)
        /\ UNCHANGED <<xresp, pubsubq, respq, batch, wire>>
    BY <1>1, ReceiveEffect, Zenon
  <2>2. m \in Own(w)
    BY <1>1, <2>1, Zenon DEF Own
  <2> HIDE DEF w, m
  <2>3. cmdq'[w][w] \in Seq(Waiting(w, w))
    BY <2>1, <2>2, Members, Zenon DEF Placed, PlacedCommands, Waiting
  <2>4. PlacedCommands'
    BY <2>1, <2>3, KeepCommands, Zenon DEF Placed
  <2> QED BY <2>1, <2>4, KeepStill, Zenon DEF Placed
<1>2. CASE op = Bad
  <2>1. /\ e \in Response /\ w \in Worker
        /\ respq'[w]["io"] = Append(respq[w]["io"], e) /\ Elsewhere(respq, respq', Lane, w, "io")
        /\ UNCHANGED <<cmdq, xresp, pubsubq, batch, wire>>
    BY <1>2, RefuseEffect, Zenon
  <2>2. e \in Errors
    BY <2>1, Zenon DEF Errors
  <2> HIDE DEF w, e
  <2>3. respq[w]["io"] \in Seq(Errors)
    BY <2>1, Zenon DEF Placed, PlacedResponses
  <2>4. respq'[w]["io"] \in Seq(Errors)
    BY <2>1, <2>2, <2>3, Members, Zenon
  <2>5. PlacedResponses'
    BY <2>1, <2>4, KeepResponses, Zenon DEF Placed, Lane
  <2> QED BY <2>1, <2>5, KeepStill, Zenon DEF Placed
<1> QED BY <1>1, <1>2, Zenon

\* What the executor takes from the lane of the clients.
LEMMA CommandPlaced ==
  ASSUME TypeOK, Placed, NEW w \in Worker,
         ExecuteLocal(w) \/ ExecutePublish(w) \/ Forward(w)
  PROVE  Placed'
<1> DEFINE m == Head(cmdq[w][w])
           u == Target(m)
<1>1. /\ cmdq[w][w] \in Seq(Own(w)) /\ respq[w]["exec"] \in Seq(Outgoings(w))
      /\ Waiting(w, w) = Own(w)
  BY Zenon DEF Placed, PlacedCommands, PlacedResponses, Waiting
<1>2. CASE ExecuteLocal(w)
  <2>1. /\ m \in Command /\ cmdq[w][w] # <<>>
        /\ cmdq'[w][w] = Tail(cmdq[w][w]) /\ Elsewhere(cmdq, cmdq', Worker, w, w)
        /\ respq'[w]["exec"] = Append(respq[w]["exec"], Reply(m))
        /\ Elsewhere(respq, respq', Lane, w, "exec")
        /\ UNCHANGED <<xresp, pubsubq, batch, wire>>
    BY <1>2, ExecuteEffect, Zenon
  <2>2. m \in Own(w) /\ cmdq'[w][w] \in Seq(Own(w))
    BY <1>1, <2>1, Members
  <2> HIDE DEF m
  <2>3. respq'[w]["exec"] \in Seq(Outgoings(w))
    BY <1>1, <2>1, <2>2, MadeHere, Members, Zenon
  <2>4. PlacedCommands' /\ PlacedResponses'
    BY <1>1, <2>1, <2>2, <2>3, KeepCommands, KeepResponses, Zenon DEF Placed, Lane
  <2> QED BY <2>1, <2>4, KeepStill, Zenon DEF Placed
<1>3. CASE ExecutePublish(w)
  <2>1. /\ m \in Command /\ cmdq[w][w] # <<>> /\ m.op = Publish
        /\ cmdq'[w][w] = Tail(cmdq[w][w]) /\ Elsewhere(cmdq, cmdq', Worker, w, w)
        /\ respq'[w]["exec"] = Append(respq[w]["exec"] \o Pushes(w, m), Reply(m))
        /\ Elsewhere(respq, respq', Lane, w, "exec")
        /\ \A v \in Worker : v # w => pubsubq'[v][w] = Append(pubsubq[v][w], m)
        /\ \A v, p \in Worker : v = w \/ p # w => pubsubq'[v][p] = pubsubq[v][p]
        /\ UNCHANGED <<xresp, batch, wire>>
    BY <1>3, PublishEffect, Zenon
  <2>2. m \in Own(w) /\ cmdq'[w][w] \in Seq(Own(w))
    BY <1>1, <2>1, Members, Zenon
  <2> HIDE DEF m
  <2>3. respq'[w]["exec"] \in Seq(Outgoings(w))
    <3>1. Pushes(w, m) \in Seq(Outgoings(w)) /\ Reply(m) \in Outgoings(w)
      BY <2>1, <2>2, MadeHere, Zenon
    <3>2. respq[w]["exec"] \o Pushes(w, m) \in Seq(Outgoings(w))
      BY <1>1, <3>1, Members, Zenon
    <3> QED BY <2>1, <3>1, <3>2, Members, Zenon
  <2>4. PlacedCommands' /\ PlacedResponses'
    BY <1>1, <2>1, <2>2, <2>3, KeepCommands, KeepResponses, Zenon DEF Placed, Lane
  <2>5. ASSUME NEW v \in Worker, NEW p \in Worker PROVE pubsubq'[v][p] \in Seq(News(p, v))
    <3>1. pubsubq[v][p] \in Seq(News(p, v))
      BY Zenon DEF Placed, PlacedNews
    <3>2. CASE v # w /\ p = w
      <4>1. m \in News(w, v)
        BY <2>1, <2>2, <3>2 DEF News
      <4> QED BY <2>1, <3>1, <3>2, <4>1, Members, ZenonT(40)
    <3> QED BY <2>1, <3>1, <3>2, Zenon
  <2>6. PlacedNews'
    BY <2>5, Zenon DEF PlacedNews
  <2> QED BY <2>1, <2>4, <2>6, KeepStill, Zenon DEF Placed
<1>4. CASE Forward(w)
  <2>1. /\ m \in Command /\ m \in For(w, u) /\ cmdq[w][w] # <<>> /\ u \in Worker /\ u # w
        /\ cmdq'[w][w] = Tail(cmdq[w][w])
        /\ cmdq'[u][w] = Append(cmdq[u][w], m)
        /\ \A v, p \in Worker : p # w \/ (v # w /\ v # u) => cmdq'[v][p] = cmdq[v][p]
        /\ UNCHANGED <<xresp, pubsubq, respq, batch, wire>>
    BY <1>4, ForwardEffect, Zenon DEF Placed
  <2> HIDE DEF m, u
  <2>2. cmdq'[w][w] \in Seq(Waiting(w, w))
    BY <1>1, <2>1, Members, Zenon
  <2>3. cmdq[u][w] \in Seq(For(w, u)) /\ Waiting(u, w) = For(w, u)
    BY <2>1, Zenon DEF Placed, PlacedCommands, Waiting
  <2>4. cmdq'[u][w] \in Seq(Waiting(u, w))
    BY <2>1, <2>3, Members
  <2>5. ASSUME NEW v \in Worker, NEW p \in Worker PROVE cmdq'[v][p] \in Seq(Waiting(v, p))
    <3>1. cmdq[v][p] \in Seq(Waiting(v, p))
      BY Zenon DEF Placed, PlacedCommands
    <3> QED BY <2>1, <2>2, <2>4, <3>1, Zenon
  <2>6. PlacedCommands'
    BY <2>5 DEF PlacedCommands, Waiting
  <2> QED BY <2>1, <2>6, KeepStill, Zenon DEF Placed
<1> QED BY <1>2, <1>3, <1>4, Zenon

\* What the executor takes from the other workers.
LEMMA CollectPlaced ==
  ASSUME TypeOK, Placed, NEW w \in Worker, NEW p \in Worker,
         ExecuteForwarded(w, p) \/ TakeCrossResponse(w, p) \/ TakePubSub(w, p)
  PROVE  Placed'
<1>1. /\ respq[w]["exec"] \in Seq(Outgoings(w)) /\ xresp[w][p] \in Seq(For(w, p))
      /\ xresp[p][w] \in Seq(For(p, w)) /\ pubsubq[w][p] \in Seq(News(p, w))
      /\ cmdq[w][p] \in Seq(Waiting(w, p))
  BY Zenon DEF Placed, PlacedCommands, PlacedAnswers, PlacedNews, PlacedResponses
<1>2. CASE ExecuteForwarded(w, p)
  <2> DEFINE m == Head(cmdq[w][p])
  <2>1. /\ m \in Command /\ cmdq[w][p] # <<>> /\ p # w
        /\ cmdq'[w][p] = Tail(cmdq[w][p]) /\ Elsewhere(cmdq, cmdq', Worker, w, p)
        /\ xresp'[p][w] = Append(xresp[p][w], m) /\ Elsewhere(xresp, xresp', Worker, p, w)
        /\ UNCHANGED <<pubsubq, respq, batch, wire>>
    BY <1>2, ForwardedEffect, Zenon
  <2>2. m \in Waiting(w, p) /\ cmdq'[w][p] \in Seq(Waiting(w, p)) /\ Waiting(w, p) = For(p, w)
    BY <1>1, <2>1, Members, Zenon DEF Waiting
  <2> HIDE DEF m
  <2>3. xresp'[p][w] \in Seq(For(p, w))
    BY <1>1, <2>1, <2>2, Members, Zenon
  <2>4. PlacedCommands' /\ PlacedAnswers'
    BY <2>1, <2>2, <2>3, KeepCommands, KeepAnswers, Zenon DEF Placed
  <2> QED BY <2>1, <2>4, KeepStill, Zenon DEF Placed
<1>3. CASE TakeCrossResponse(w, p)
  <2> DEFINE m == Head(xresp[w][p])
  <2>1. /\ m \in Command /\ xresp[w][p] # <<>>
        /\ xresp'[w][p] = Tail(xresp[w][p]) /\ Elsewhere(xresp, xresp', Worker, w, p)
        /\ respq'[w]["exec"] = Append(respq[w]["exec"], Reply(m))
        /\ Elsewhere(respq, respq', Lane, w, "exec")
        /\ UNCHANGED <<cmdq, pubsubq, batch, wire>>
    BY <1>3, CollectEffect, Zenon
  <2>2. m \in Own(w) /\ xresp'[w][p] \in Seq(For(w, p))
    BY <1>1, <2>1, Members, Zenon DEF For
  <2> HIDE DEF m
  <2>3. respq'[w]["exec"] \in Seq(Outgoings(w))
    BY <1>1, <2>1, <2>2, MadeHere, Members, Zenon
  <2>4. PlacedAnswers' /\ PlacedResponses'
    BY <2>1, <2>2, <2>3, KeepAnswers, KeepResponses, Zenon DEF Placed, Lane
  <2> QED BY <2>1, <2>4, KeepStill, Zenon DEF Placed
<1>4. CASE TakePubSub(w, p)
  <2> DEFINE m == Head(pubsubq[w][p])
  <2>1. /\ m \in Command /\ pubsubq[w][p] # <<>>
        /\ pubsubq'[w][p] = Tail(pubsubq[w][p]) /\ Elsewhere(pubsubq, pubsubq', Worker, w, p)
        /\ respq'[w]["exec"] = respq[w]["exec"] \o Pushes(w, m)
        /\ Elsewhere(respq, respq', Lane, w, "exec")
        /\ UNCHANGED <<cmdq, xresp, batch, wire>>
    BY <1>4, NewsEffect, Zenon
  <2>2. pubsubq'[w][p] \in Seq(News(p, w))
    BY <1>1, <2>1, Members, Zenon
  <2> HIDE DEF m
  <2>3. respq'[w]["exec"] \in Seq(Outgoings(w))
    BY <1>1, <2>1, MadeHere, Members, Zenon
  <2>4. PlacedNews' /\ PlacedResponses'
    BY <2>1, <2>2, <2>3, KeepNews, KeepResponses, Zenon DEF Placed, Lane
  <2> QED BY <2>1, <2>4, KeepStill, Zenon DEF Placed
<1> QED BY <1>2, <1>3, <1>4, Zenon

\* What the handler takes and sends.
LEMMA HandlerPlaced ==
  ASSUME TypeOK, Placed, NEW w \in Worker,
         SendBatches(w) \/ \E l \in Lane : DrainOne(w, l)
  PROVE  Placed'
<1>1. ASSUME NEW l \in Lane, DrainOne(w, l) PROVE Placed'
  <2> DEFINE r == Head(respq[w][l])
  <2>1. /\ r \in Response /\ r.conn \in Conn /\ respq[w][l] # <<>>
        /\ respq'[w][l] = Tail(respq[w][l]) /\ Elsewhere(respq, respq', Lane, w, l)
        /\ batch'[r.conn] = Append(batch[r.conn], r)
        /\ \A c \in Conn : c # r.conn => batch'[c] = batch[c]
        /\ UNCHANGED <<cmdq, xresp, pubsubq, wire>>
    BY <1>1, DrainEffect, Zenon
  <2>2. /\ l = "exec" => r \in Outgoings(w) /\ respq'[w][l] \in Seq(Outgoings(w))
        /\ l = "io" => r \in Errors /\ respq'[w][l] \in Seq(Errors)
    <3>1. CASE l = "exec"
      <4>1. respq[w][l] \in Seq(Outgoings(w))
        BY <3>1, Zenon DEF Placed, PlacedResponses
      <4> QED BY <2>1, <3>1, <4>1, Members, Zenon
    <3>2. CASE l = "io"
      <4>1. respq[w][l] \in Seq(Errors)
        BY <3>2, Zenon DEF Placed, PlacedResponses
      <4> QED BY <2>1, <3>2, <4>1, Members, Zenon
    <3> QED BY <3>1, <3>2, Zenon
  <2> HIDE DEF r
  <2>3. r \in Outgoing(r.conn)
    BY <2>2, Addressed, Zenon DEF Lane
  <2>4. PlacedResponses'
    BY <2>1, <2>2, KeepResponses, Zenon DEF Placed
  <2>5. ASSUME NEW c \in Conn PROVE batch'[c] \in Seq(Outgoing(c)) /\ wire'[c] \in Seq(Outgoing(c))
    <3>1. batch[c] \in Seq(Outgoing(c)) /\ wire[c] \in Seq(Outgoing(c)) /\ wire'[c] = wire[c]
      BY <2>1, Zenon DEF Placed, PlacedSockets
    <3>2. CASE c = r.conn
      <4>1. Append(batch[c], r) \in Seq(Outgoing(c))
        BY <2>3, <3>1, <3>2
      <4> QED BY <2>1, <3>1, <3>2, <4>1, Zenon
    <3> QED BY <2>1, <3>1, <3>2, Zenon
  <2>6. PlacedSockets'
    BY <2>5, Zenon DEF PlacedSockets
  <2> QED BY <2>1, <2>4, <2>6, KeepStill, Zenon DEF Placed
<1>2. ASSUME SendBatches(w) PROVE Placed'
  <2>1. /\ \A c \in Conn : Home[c] = w => batch'[c] = <<>> /\ wire'[c] \in {wire[c], wire[c] \o batch[c]}
        /\ \A c \in Conn : Home[c] # w => batch'[c] = batch[c] /\ wire'[c] = wire[c]
        /\ UNCHANGED <<cmdq, xresp, pubsubq, respq>>
    BY <1>2, SendEffect, Zenon
  <2>2. ASSUME NEW c \in Conn PROVE batch'[c] \in Seq(Outgoing(c)) /\ wire'[c] \in Seq(Outgoing(c))
    <3>1. batch[c] \in Seq(Outgoing(c)) /\ wire[c] \in Seq(Outgoing(c))
      BY DEF Placed, PlacedSockets
    <3>2. wire[c] \o batch[c] \in Seq(Outgoing(c)) /\ <<>> \in Seq(Outgoing(c))
      BY <3>1
    <3> QED BY <2>1, <3>1, <3>2, Zenon
  <2>3. PlacedSockets'
    BY <2>2, Zenon DEF PlacedSockets
  <2> QED BY <2>1, <2>3, KeepStill, Zenon DEF Placed
<1> QED BY <1>1, <1>2, Zenon

===============================================================================
