-------------------------- MODULE RuntimeOrderProofs --------------------------
(***************************************************************************)
(* Proofs about the order of what WorkerRuntime sends, for any workers,    *)
(* connections, commands and limits: the replies of one worker to one      *)
(* connection, and the messages of one publisher to one subscriber.        *)
(*                                                                         *)
(* The inductive invariant, Ordered, is that everything is in its place    *)
(* (Placed) and that every line of replies and every line of published     *)
(* messages is a Flow.  Each action is one step along the lines it         *)
(* touches and leaves the others alone.                                    *)
(***************************************************************************)
EXTENDS RuntimeLines

-----------------------------------------------------------------------------
(* The end of every line: resp_queue_, the batch and the socket. *)

\* One response is put behind the others.
LEMMA OneMore ==
  ASSUME NEW r \in Seq(Response), NEW v \in Response
  PROVE  Append(r, v) = r \o <<v>>
OBVIOUS

\* The handler moves a line on.
LEMMA HandlerFlow ==
  ASSUME TypeOK, Placed, NEW w \in Worker, NEW c \in Conn,
         SendBatches(w) \/ \E l \in Lane : DrainOne(w, l),
         NEW x \in Seq(Command), NEW f \in Seq(Command), NEW q \in Seq(Command),
         NEW R, NEW M, NEW k \in Nat, \A v \in Errors : v \notin R,
         Flow(wire[c], batch[c], respq[Home[c]]["exec"], x, f, q, R, M, k)
  PROVE  Flow(wire'[c], batch'[c], respq'[Home[c]]["exec"], x, f, q, R, M, k)
<1> DEFINE h == Home[c]
           s == wire[c]
           b == batch[c]
           y == respq[h]["exec"]
<1>1. h \in Worker /\ FlowType(s, b, y, x, f, q)
  BY Typed, Zenon DEF FlowType
<1>2. Flow(s, b, y, x, f, q, R, M, k)
  BY Zenon
<1>3. ASSUME NEW l \in Lane, DrainOne(w, l)
      PROVE  Flow(wire'[c], batch'[c], respq'[h]["exec"], x, f, q, R, M, k)
  <2> DEFINE r == Head(respq[w][l])
  <2>1. /\ r \in Response /\ respq[w][l] # <<>>
        /\ respq'[w][l] = Tail(respq[w][l]) /\ Elsewhere(respq, respq', Lane, w, l)
        /\ batch'[r.conn] = Append(batch[r.conn], r)
        /\ r.conn # c => batch'[c] = batch[c]
        /\ wire'[c] = s
    BY <1>3, DrainEffect, Zenon
  <2>2. CASE l = "exec" /\ h = w
    <3>1. y # <<>> /\ r = Head(y) /\ respq'[h]["exec"] = Tail(y)
      BY <2>1, <2>2, Zenon
    <3>2. CASE r.conn = c
      <4>1. batch'[c] = Append(b, Head(y))
        BY <2>1, <3>1, <3>2, Zenon
      <4>2. Flow(s, Append(b, Head(y)), Tail(y), x, f, q, R, M, k)
        BY <1>1, <1>2, <3>1, FlowDrain, Zenon
      <4> QED BY <2>1, <3>1, <4>1, <4>2, Zenon
    <3>3. CASE r.conn # c
      <4>1. Flow(s, b, Tail(y), x, f, q, R, M, k)
        BY <1>1, <1>2, <3>1, FlowPass, Zenon
      <4> QED BY <2>1, <3>1, <3>3, <4>1, Zenon
    <3> QED BY <3>2, <3>3, Zenon
  <2>3. CASE l = "exec" /\ h # w
    <3>1. respq'[h]["exec"] = y
      BY <1>1, <2>1, <2>3, Zenon DEF Elsewhere, Lane
    <3>2. respq[w][l] \in Seq(Outgoings(w))
      BY <2>3, Zenon DEF Placed, PlacedResponses
    <3>3. r \in Outgoings(w)
      BY <2>1, <3>2, Members, Zenon
    <3>4. r.conn # c
      <4> HIDE DEF r
      <4> QED BY <2>3, <3>3, Addressed, Zenon
    <3> QED BY <1>2, <2>1, <3>1, <3>4, Zenon
  <2>4. CASE l = "io"
    <3>1. respq'[h]["exec"] = y
      BY <1>1, <2>1, <2>4, Zenon DEF Elsewhere, Lane
    <3>2. respq[w][l] \in Seq(Errors)
      BY <2>4, Zenon DEF Placed, PlacedResponses
    <3>3. r \notin R
      <4>1. r \in Errors
        BY <2>1, <3>2, Members, Zenon
      <4> HIDE DEF r
      <4> QED BY <4>1, Zenon
    <3>4. CASE r.conn = c
      <4> HIDE DEF r
      <4>1. batch'[c] = Append(b, r)
        BY <2>1, <3>4, Zenon
      <4>2. Flow(s, Append(b, r), y, x, f, q, R, M, k)
        BY <1>1, <1>2, <2>1, <3>3, FlowMix, Zenon
      <4> QED BY <2>1, <3>1, <4>1, <4>2, Zenon
    <3> QED BY <1>2, <2>1, <3>1, <3>4, Zenon
  <2> QED BY <2>2, <2>3, <2>4, Zenon DEF Lane
<1>4. ASSUME SendBatches(w)
      PROVE  Flow(wire'[c], batch'[c], respq'[h]["exec"], x, f, q, R, M, k)
  <2>1. /\ h = w => batch'[c] = <<>> /\ wire'[c] \in {s, s \o b}
        /\ h # w => batch'[c] = b /\ wire'[c] = s
        /\ respq'[h]["exec"] = y
    BY <1>4, SendEffect, Zenon
  <2>2. CASE h = w
    <3>1. wire'[c] \in {s, s \o b}
      BY <2>1, <2>2, Zenon
    <3>2. Flow(wire'[c], <<>>, y, x, f, q, R, M, k)
      BY <1>1, <1>2, <3>1, FlowSend, Zenon
    <3> QED BY <2>1, <2>2, <3>2, Zenon
  <2> QED BY <1>2, <2>1, <2>2, Zenon
<1> QED BY <1>3, <1>4, Zenon

\* The executor answers the command at the head of q.
LEMMA AnswerHere ==
  ASSUME NEW s, NEW b, NEW r, NEW x, NEW f, NEW q, NEW c, NEW t, NEW k \in Nat,
         FlowType(s, b, r, x, f, q), Flow(s, b, r, x, f, q, Replies(c, t), Sent(c, t), k),
         q # <<>>, Head(q) \in Sent(c, t) => x = <<>> /\ f = <<>>
  PROVE  Flow(s, b, Append(r, Reply(Head(q))), x, f, Tail(q), Replies(c, t), Sent(c, t), k)
<1> DEFINE m == Head(q)
           z == <<Reply(m)>>
           R == Replies(c, t)
           M == Sent(c, t)
<1>1. m \in Command /\ Tail(q) \in Seq(Command) /\ r \in Seq(Response)
  BY DEF FlowType
<1>2. /\ z \in Seq(Response) /\ Rising(z, R, RNum)
      /\ Nums(z, R, RNum) = {CNum[y] : y \in {m} \cap M}
  BY <1>1, ReplyYields, Zenon
<1>3. Append(r, Reply(m)) = r \o z
  BY <1>1, ReplyType, OneMore, Zenon
<1>4. CASE m \in M
  <2>1. Nums(z, R, RNum) \in SUBSET First(q, M, CNum) /\ x = <<>> /\ f = <<>>
    BY <1>2, <1>4, Zenon DEF First
  <2> HIDE DEF z, m, R, M
  <2>2. Flow(s, b, r \o z, x, f, Tail(q), R, M, k)
    BY <1>2, <2>1, FlowExecute, Zenon DEF R, M
  <2> QED BY <1>3, <2>2, Zenon DEF m, R, M
<1>5. CASE m \notin M
  <2>1. Nums(z, R, RNum) = {}
    BY <1>2, <1>5, Zenon
  <2>2. FlowType(s, b, r, x, f, Tail(q))
    BY <1>1, Zenon DEF FlowType
  <2> HIDE DEF z, m, R, M
  <2>3. Flow(s, b, r, x, f, Tail(q), R, M, k)
    BY FlowSkip, Zenon DEF R, M
  <2>4. Flow(s, b, r \o z, x, f, Tail(q), R, M, k)
    BY <1>2, <2>1, <2>2, <2>3, FlowAdd, Zenon
  <2> QED BY <1>3, <2>4, Zenon DEF m, R, M
<1> QED BY <1>4, <1>5

-----------------------------------------------------------------------------
(* The lines of the replies. *)

\* The queues of a line of replies have their types.
LEMMA ReplyTyped ==
  ASSUME TypeOK, NEW c \in Conn, NEW t \in Worker
  PROVE  /\ Home[c] \in Worker /\ issued[c] \in Nat
         /\ Answers(c, t) \in Seq(Command) /\ Forwarded(c, t) \in Seq(Command)
         /\ cmdq[Home[c]][Home[c]] \in Seq(Command)
         /\ respq[Home[c]]["exec"] \in Seq(Response)
         /\ FlowType(wire[c], batch[c], respq[Home[c]]["exec"], Answers(c, t), Forwarded(c, t),
                     cmdq[Home[c]][Home[c]])
<1>1. Home[c] \in Worker /\ issued[c] \in Nat
  BY Typed, Zenon
<1>2. xresp[Home[c]][t] \in Seq(Command) /\ cmdq[t][Home[c]] \in Seq(Command)
  BY <1>1, Typed
<1>3. Answers(c, t) \in Seq(Command) /\ Forwarded(c, t) \in Seq(Command)
  BY <1>2 DEF Answers, Forwarded
<1>4. /\ wire[c] \in Seq(Response) /\ batch[c] \in Seq(Response)
      /\ respq[Home[c]]["exec"] \in Seq(Response) /\ cmdq[Home[c]][Home[c]] \in Seq(Command)
  BY <1>1, Typed, Zenon
<1> QED BY <1>1, <1>3, <1>4, Zenon DEF FlowType

\* A line of replies from the state of its queues after a step.
LEMMA ReplyNow ==
  ASSUME NEW c, NEW t, NEW s, NEW b, NEW r, NEW x, NEW f, NEW q, NEW k,
         Flow(s, b, r, x, f, q, Replies(c, t), Sent(c, t), k),
         wire'[c] = s, batch'[c] = b, respq'[Home[c]]["exec"] = r, Answers(c, t)' = x,
         Forwarded(c, t)' = f, cmdq'[Home[c]][Home[c]] = q, issued'[c] = k
  PROVE  ReplyFlow(c, t)'
BY DEF ReplyFlow

\* What a client sends keeps the lines of the replies.
LEMMA ReceiveReplies ==
  ASSUME TypeOK, NEW d \in Conn, NEW op \in Sends[d], Receive(d, op),
         NEW c \in Conn, NEW t \in Worker, ReplyFlow(c, t)
  PROVE  ReplyFlow(c, t)'
<1> DEFINE w == Home[d]
           m == [conn |-> d, id |-> issued[d] + 1, op |-> op]
           h == Home[c]
           q == cmdq[h][h]
           y == respq[h]["exec"]
           x == Answers(c, t)
           f == Forwarded(c, t)
           R == Replies(c, t)
           M == Sent(c, t)
           k == issued[c]
<1>1. h \in Worker /\ k \in Nat /\ FlowType(wire[c], batch[c], y, x, f, q)
  BY ReplyTyped, Zenon
<1>2. Flow(wire[c], batch[c], y, x, f, q, R, M, k)
  BY DEF ReplyFlow
<1>3. CASE op # Bad
  <2>1. /\ m \in Command /\ w \in Worker
        /\ cmdq'[w][w] = Append(cmdq[w][w], m) /\ Elsewhere(cmdq, cmdq', Worker, w, w)
        /\ issued' = [issued EXCEPT ![d] = issued[d] + 1]
        /\ UNCHANGED <<xresp, respq, batch, wire>>
    BY <1>3, ReceiveEffect, Zenon
  <2>2. m.conn = d /\ m.id = issued[d] + 1
    BY Zenon
  <2> HIDE DEF m
  <2>3. Answers(c, t)' = x /\ Forwarded(c, t)' = f
    BY <1>1, <2>1, ZenonT(40) DEF Answers, Forwarded, Elsewhere
  <2>4. c = d => issued'[c] = k + 1
    BY <2>1, Typed, Zenon
  <2>5. c # d => issued'[c] = k
    BY <2>1, Typed, Zenon
  <2>6. h # w => cmdq'[h][h] = q
    BY <1>1, <2>1 DEF Elsewhere
  <2>7. h = w => cmdq'[h][h] = Append(q, m)
    BY <2>1, Zenon
  <2> HIDE DEF x, f, q, y, k, R, M
  <2>8. CASE c = d
    <3>1. m.id = k + 1 /\ h = w
      BY <2>2, <2>8 DEF k
    <3>2. Flow(wire[c], batch[c], y, x, f, Append(q, m), R, M, k + 1)
      BY <1>1, <1>2, <2>1, <3>1, FlowEnter, Zenon
    <3> QED BY <2>1, <2>3, <2>4, <2>7, <2>8, <3>1, <3>2, ReplyNow, Zenon DEF y, R, M
  <2>9. CASE c # d /\ h = w
    <3>1. m \notin M
      BY <2>2, <2>9, Zenon DEF M, Sent
    <3>2. Flow(wire[c], batch[c], y, x, f, Append(q, m), R, M, k)
      BY <1>1, <1>2, <2>1, <3>1, FlowOther, Zenon
    <3> QED BY <2>1, <2>3, <2>5, <2>7, <2>9, <3>2, ReplyNow, Zenon DEF y, R, M
  <2>10. CASE c # d /\ h # w
    BY <1>2, <2>1, <2>3, <2>5, <2>6, <2>10, ReplyNow, Zenon DEF y, R, M
  <2> QED BY <2>8, <2>9, <2>10, Zenon
<1>4. CASE op = Bad
  <2>1. /\ w \in Worker /\ Elsewhere(respq, respq', Lane, w, "io")
        /\ issued' = [issued EXCEPT ![d] = issued[d] + 1]
        /\ UNCHANGED <<cmdq, xresp, batch, wire>>
    BY <1>4, RefuseEffect, Zenon
  <2>2. Answers(c, t)' = x /\ Forwarded(c, t)' = f /\ cmdq'[h][h] = q
    BY <2>1, Zenon DEF Answers, Forwarded
  <2>3. respq'[h]["exec"] = y
    BY <1>1, <2>1, Zenon DEF Elsewhere, Lane
  <2>4. issued'[c] = k \/ issued'[c] = k + 1
    BY <2>1, Typed, Zenon
  <2> HIDE DEF x, f, q, y, k, R, M
  <2>5. Flow(wire[c], batch[c], y, x, f, q, R, M, k + 1)
    BY <1>1, <1>2, FlowRefuse
  <2>6. Flow(wire'[c], batch'[c], y, x, f, q, R, M, issued'[c])
    BY <1>2, <2>1, <2>4, <2>5, Zenon
  <2> QED BY <2>2, <2>3, <2>6, ReplyNow, Zenon DEF R, M
<1> QED BY <1>3, <1>4, Zenon

\* What the executor does with a command of a client keeps the lines of the replies.
LEMMA CommandReplies ==
  ASSUME TypeOK, Placed, NEW w \in Worker,
         ExecuteLocal(w) \/ ExecutePublish(w) \/ Forward(w),
         NEW c \in Conn, NEW t \in Worker, ReplyFlow(c, t)
  PROVE  ReplyFlow(c, t)'
<1> DEFINE m == Head(cmdq[w][w])
           u == Target(m)
           h == Home[c]
           q == cmdq[h][h]
           y == respq[h]["exec"]
           x == Answers(c, t)
           f == Forwarded(c, t)
           R == Replies(c, t)
           M == Sent(c, t)
           k == issued[c]
<1>1. h \in Worker /\ k \in Nat /\ FlowType(wire[c], batch[c], y, x, f, q)
  BY ReplyTyped, Zenon
<1>2. Flow(wire[c], batch[c], y, x, f, q, R, M, k)
  BY Zenon DEF ReplyFlow
<1>3. ASSUME cmdq[w][w] # <<>>, m \in Command, u = w,
             cmdq'[w][w] = Tail(cmdq[w][w]), Elsewhere(cmdq, cmdq', Worker, w, w),
             Elsewhere(respq, respq', Lane, w, "exec"), UNCHANGED <<xresp, batch, wire, issued>>,
             NEW z \in Seq(Response), Rising(z, R, RNum), Nums(z, R, RNum) = {},
             respq'[w]["exec"] = Append(respq[w]["exec"] \o z, Reply(m))
      PROVE  ReplyFlow(c, t)'
  <2>1. Answers(c, t)' = x /\ Forwarded(c, t)' = f
    BY <1>1, <1>3 DEF Answers, Forwarded, Elsewhere
  <2>2. CASE h = w
    <3>1. q # <<>> /\ m = Head(q) /\ cmdq'[h][h] = Tail(q)
      BY <1>3, <2>2
    <3>2. respq'[h]["exec"] = Append(y \o z, Reply(Head(q)))
      BY <1>3, <2>2, Zenon
    <3>3. Head(q) \in M => x = <<>> /\ f = <<>>
      BY <1>3, <2>2, Zenon DEF Sent, Answers, Forwarded
    <3>4. FlowType(wire[c], batch[c], y \o z, x, f, q)
      BY <1>1, <1>3 DEF FlowType
    <3> HIDE DEF m, q, y, x, f, R, M, k
    <3>5. Flow(wire[c], batch[c], y \o z, x, f, q, R, M, k)
      BY <1>1, <1>2, <1>3, FlowAdd, Zenon
    <3>6. Flow(wire[c], batch[c], Append(y \o z, Reply(Head(q))), x, f, Tail(q), R, M, k)
      BY <1>1, <3>1, <3>3, <3>4, <3>5, AnswerHere, Zenon DEF R, M
    <3> QED BY <1>3, <2>1, <3>1, <3>2, <3>6, ReplyNow, Zenon DEF R, M, k
  <2>3. CASE h # w
    <3>1. cmdq'[h][h] = q /\ respq'[h]["exec"] = y
      BY <1>1, <1>3, <2>3, Zenon DEF Elsewhere, Lane
    <3> HIDE DEF q, y, x, f, R, M, k
    <3> QED BY <1>2, <1>3, <2>1, <3>1, ReplyNow, Zenon DEF R, M, k
  <2> QED BY <2>2, <2>3, Zenon
<1>4. CASE ExecuteLocal(w)
  <2>1. /\ m \in Command /\ cmdq[w][w] # <<>> /\ u = w
        /\ cmdq'[w][w] = Tail(cmdq[w][w]) /\ Elsewhere(cmdq, cmdq', Worker, w, w)
        /\ respq'[w]["exec"] = Append(respq[w]["exec"], Reply(m))
        /\ Elsewhere(respq, respq', Lane, w, "exec")
        /\ UNCHANGED <<xresp, batch, wire, issued>>
    BY <1>4, ExecuteEffect
  <2>2. /\ <<>> \in Seq(Response) /\ Rising(<<>>, R, RNum) /\ Nums(<<>>, R, RNum) = {}
    BY NumsEmpty
  <2>3. respq[w]["exec"] \o <<>> = respq[w]["exec"]
    BY Typed
  <2> HIDE DEF m, u, R
  <2> QED BY <1>3, <2>1, <2>2, <2>3, Zenon
<1>5. CASE ExecutePublish(w)
  <2>1. /\ m \in Command /\ cmdq[w][w] # <<>> /\ m.op = Publish
        /\ cmdq'[w][w] = Tail(cmdq[w][w]) /\ Elsewhere(cmdq, cmdq', Worker, w, w)
        /\ respq'[w]["exec"] = Append(respq[w]["exec"] \o Pushes(w, m), Reply(m))
        /\ Elsewhere(respq, respq', Lane, w, "exec")
        /\ UNCHANGED <<xresp, batch, wire, issued>>
    BY <1>5, PublishEffect, Zenon
  <2>2. cmdq[w][w] \in Seq(Own(w))
    BY Zenon DEF Placed, PlacedCommands, Waiting
  <2>3. u = w
    BY <2>1, <2>2 DEF Own, Target
  <2> HIDE DEF m, u
  <2>4. /\ Pushes(w, m) \in Seq(Response)
        /\ Rising(Pushes(w, m), R, RNum) /\ Nums(Pushes(w, m), R, RNum) = {}
    BY <2>1, PushesType, PushYields, Zenon
  <2> HIDE DEF R
  <2> QED BY <1>3, <2>1, <2>3, <2>4, Zenon
<1>6. CASE Forward(w)
  <2>1. /\ m \in Command /\ cmdq[w][w] # <<>> /\ u \in Worker /\ u # w
        /\ cmdq'[w][w] = Tail(cmdq[w][w])
        /\ cmdq'[u][w] = Append(cmdq[u][w], m)
        /\ \A v, p \in Worker : p # w \/ (v # w /\ v # u) => cmdq'[v][p] = cmdq[v][p]
        /\ UNCHANGED <<xresp, respq, batch, wire, issued>>
    BY <1>6, ForwardEffect, Zenon DEF Placed
  <2>2. Answers(c, t)' = x /\ respq'[h]["exec"] = y
    BY <2>1, Zenon DEF Answers
  <2>3. CASE h # w
    <3>1. cmdq'[h][h] = q /\ Forwarded(c, t)' = f
      BY <1>1, <2>1, <2>3, Zenon DEF Forwarded
    <3> HIDE DEF q, y, x, f, R, M, k
    <3> QED BY <1>2, <2>1, <2>2, <3>1, ReplyNow, Zenon DEF R, M, k
  <2>4. CASE h = w /\ t = u
    <3>1. /\ q # <<>> /\ cmdq'[h][h] = Tail(q) /\ Forwarded(c, t)' = Append(f, Head(q))
      BY <2>1, <2>4, Zenon DEF Forwarded
    <3> HIDE DEF q, y, x, f, R, M, k
    <3>2. Flow(wire[c], batch[c], y, x, Append(f, Head(q)), Tail(q), R, M, k)
      BY <1>1, <1>2, <3>1, FlowForward
    <3> QED BY <2>1, <2>2, <3>1, <3>2, ReplyNow, Zenon DEF R, M, k
  <2>5. CASE h = w /\ t # u
    <3>1. /\ q # <<>> /\ cmdq'[h][h] = Tail(q) /\ Forwarded(c, t)' = f
      BY <2>1, <2>5, Zenon DEF Forwarded
    <3> HIDE DEF q, y, x, f, R, M, k
    <3>2. Flow(wire[c], batch[c], y, x, f, Tail(q), R, M, k)
      BY <1>1, <1>2, <3>1, FlowSkip
    <3> QED BY <2>1, <2>2, <3>1, <3>2, ReplyNow, Zenon DEF R, M, k
  <2> QED BY <2>3, <2>4, <2>5, Zenon
<1> QED BY <1>4, <1>5, <1>6

\* What the executor takes from other workers keeps the lines of the replies.
LEMMA CollectReplies ==
  ASSUME TypeOK, Placed, NEW w \in Worker, NEW p \in Worker,
         ExecuteForwarded(w, p) \/ TakeCrossResponse(w, p) \/ TakePubSub(w, p),
         NEW c \in Conn, NEW t \in Worker, ReplyFlow(c, t)
  PROVE  ReplyFlow(c, t)'
<1> DEFINE h == Home[c]
           q == cmdq[h][h]
           y == respq[h]["exec"]
           x == Answers(c, t)
           f == Forwarded(c, t)
           R == Replies(c, t)
           M == Sent(c, t)
           k == issued[c]
<1>1. h \in Worker /\ k \in Nat /\ FlowType(wire[c], batch[c], y, x, f, q)
  BY ReplyTyped, Zenon
<1>2. Flow(wire[c], batch[c], y, x, f, q, R, M, k)
  BY Zenon DEF ReplyFlow
<1>3. CASE ExecuteForwarded(w, p)
  <2>1. /\ cmdq[w][p] # <<>> /\ p # w
        /\ cmdq'[w][p] = Tail(cmdq[w][p]) /\ Elsewhere(cmdq, cmdq', Worker, w, p)
        /\ xresp'[p][w] = Append(xresp[p][w], Head(cmdq[w][p]))
        /\ Elsewhere(xresp, xresp', Worker, p, w)
        /\ UNCHANGED <<respq, batch, wire, issued>>
    BY <1>3, ForwardedEffect, Zenon
  <2>2. cmdq'[h][h] = q
    BY <1>1, <2>1 DEF Elsewhere
  <2>3. CASE h = p /\ t = w
    <3>1. f # <<>> /\ Answers(c, t)' = Append(x, Head(f)) /\ Forwarded(c, t)' = Tail(f)
      BY <2>1, <2>3, Zenon DEF Answers, Forwarded
    <3> HIDE DEF q, y, x, f, R, M, k
    <3>2. Flow(wire[c], batch[c], y, Append(x, Head(f)), Tail(f), q, R, M, k)
      BY <1>1, <1>2, <3>1, FlowAnswer, Zenon
    <3> QED BY <2>1, <2>2, <3>1, <3>2, ReplyNow, Zenon DEF y, R, M, k
  <2>4. CASE ~(h = p /\ t = w)
    <3>1. Answers(c, t)' = x /\ Forwarded(c, t)' = f
      BY <1>1, <2>1, <2>4, Zenon DEF Answers, Forwarded, Elsewhere
    <3> HIDE DEF q, y, x, f, R, M, k
    <3> QED BY <1>2, <2>1, <2>2, <3>1, ReplyNow, Zenon DEF y, R, M, k
  <2> QED BY <2>3, <2>4, Zenon
<1>4. CASE TakeCrossResponse(w, p)
  <2> DEFINE m == Head(xresp[w][p])
             z == <<Reply(m)>>
  <2>1. /\ m \in Command /\ xresp[w][p] # <<>>
        /\ xresp'[w][p] = Tail(xresp[w][p]) /\ Elsewhere(xresp, xresp', Worker, w, p)
        /\ respq'[w]["exec"] = Append(respq[w]["exec"], Reply(m))
        /\ Elsewhere(respq, respq', Lane, w, "exec")
        /\ UNCHANGED <<cmdq, batch, wire, issued>>
    BY <1>4, CollectEffect, Zenon
  <2>2. Forwarded(c, t)' = f /\ cmdq'[h][h] = q
    BY <2>1, Zenon DEF Forwarded
  <2>3. /\ z \in Seq(Response) /\ Rising(z, R, RNum)
        /\ Nums(z, R, RNum) = {CNum[v] : v \in {m} \cap M}
    BY <2>1, ReplyYields, Zenon
  <2>4. h = w => respq'[h]["exec"] = y \o z
    BY <1>1, <2>1, ReplyTyped, ReplyType, OneMore, Zenon
  <2>5. xresp[w][p] \in Seq(For(w, p))
    BY Zenon DEF Placed, PlacedAnswers
  <2>6. m \in For(w, p)
    BY <2>1, <2>5, Members, Zenon
  <2>7. CASE h # w
    <3>1. respq'[h]["exec"] = y /\ Answers(c, t)' = x
      BY <1>1, <2>1, <2>7, Zenon DEF Elsewhere, Lane, Answers
    <3> HIDE DEF q, y, x, f, R, M, k
    <3> QED BY <1>2, <2>1, <2>2, <3>1, ReplyNow, Zenon DEF R, M, k
  <2>8. CASE h = w /\ t = p
    <3>0. p # w
      BY <2>6, Zenon DEF For
    <3>1. x # <<>> /\ m = Head(x) /\ Answers(c, t)' = Tail(x)
      BY <2>1, <2>8, <3>0, Zenon DEF Answers
    <3>2. Nums(z, R, RNum) \in SUBSET First(x, M, CNum)
      BY <2>3, <3>1, Zenon DEF First
    <3> HIDE DEF q, y, x, f, R, M, k, m, z
    <3>3. Flow(wire[c], batch[c], y \o z, Tail(x), f, q, R, M, k)
      BY <1>1, <1>2, <2>3, <3>1, <3>2, FlowCollect, Zenon
    <3> QED BY <2>1, <2>2, <2>4, <2>8, <3>1, <3>3, ReplyNow, Zenon DEF R, M, k
  <2>9. CASE h = w /\ t # p
    <3>1. Answers(c, t)' = x
      BY <2>1, <2>9, Zenon DEF Answers, Elsewhere
    <3>2. m \notin M
      BY <2>6, <2>9 DEF For, Sent
    <3>3. Nums(z, R, RNum) = {}
      BY <2>3, <3>2, Zenon
    <3> HIDE DEF q, y, x, f, R, M, k, m, z
    <3>4. Flow(wire[c], batch[c], y \o z, x, f, q, R, M, k)
      BY <1>1, <1>2, <2>3, <3>3, FlowAdd, Zenon
    <3> QED BY <2>1, <2>2, <2>4, <2>9, <3>1, <3>4, ReplyNow, Zenon DEF R, M, k
  <2> QED BY <2>7, <2>8, <2>9, Zenon
<1>5. CASE TakePubSub(w, p)
  <2> DEFINE m == Head(pubsubq[w][p])
             z == Pushes(w, m)
  <2>1. /\ m \in Command
        /\ respq'[w]["exec"] = respq[w]["exec"] \o z
        /\ Elsewhere(respq, respq', Lane, w, "exec")
        /\ UNCHANGED <<cmdq, xresp, batch, wire, issued>>
    BY <1>5, NewsEffect, Zenon
  <2>2. Forwarded(c, t)' = f /\ Answers(c, t)' = x /\ cmdq'[h][h] = q
    BY <2>1, Zenon DEF Forwarded, Answers
  <2> HIDE DEF m
  <2>3. z \in Seq(Response) /\ Rising(z, R, RNum) /\ Nums(z, R, RNum) = {}
    BY <2>1, PushesType, PushYields, Zenon
  <2> HIDE DEF z
  <2>4. h = w => respq'[h]["exec"] = y \o z
    BY <2>1, Zenon
  <2>5. h # w => respq'[h]["exec"] = y
    BY <1>1, <2>1, Zenon DEF Elsewhere, Lane
  <2> HIDE DEF q, y, x, f, R, M, k
  <2>6. Flow(wire[c], batch[c], y \o z, x, f, q, R, M, k)
    BY <1>1, <1>2, <2>3, FlowAdd, Zenon
  <2> QED BY <1>2, <2>1, <2>2, <2>4, <2>5, <2>6, ReplyNow, Zenon DEF R, M, k
<1> QED BY <1>3, <1>4, <1>5, Zenon

\* What the handler does keeps the lines of the replies.
LEMMA SentReplies ==
  ASSUME TypeOK, Placed, NEW w \in Worker, SendBatches(w) \/ \E l \in Lane : DrainOne(w, l),
         NEW c \in Conn, NEW t \in Worker, ReplyFlow(c, t)
  PROVE  ReplyFlow(c, t)'
<1> DEFINE h == Home[c]
           q == cmdq[h][h]
           x == Answers(c, t)
           f == Forwarded(c, t)
           R == Replies(c, t)
           M == Sent(c, t)
           k == issued[c]
<1>1. k \in Nat /\ x \in Seq(Command) /\ f \in Seq(Command) /\ q \in Seq(Command)
  BY ReplyTyped, Zenon
<1>2. Flow(wire[c], batch[c], respq[h]["exec"], x, f, q, R, M, k)
  BY DEF ReplyFlow
<1>3. \A v \in Errors : v \notin R
  BY Zenon DEF Errors, Replies
<1>4. UNCHANGED <<cmdq, xresp, issued>>
  BY SendEffect, DrainEffect, Zenon
<1>5. Answers(c, t)' = x /\ Forwarded(c, t)' = f /\ cmdq'[h][h] = q /\ issued'[c] = k
  BY <1>4, Zenon DEF Answers, Forwarded
<1> HIDE DEF q, x, f, R, M, k
<1>6. Flow(wire'[c], batch'[c], respq'[h]["exec"], x, f, q, R, M, k)
  BY <1>1, <1>2, <1>3, HandlerFlow, Zenon
<1> QED BY <1>5, <1>6, ReplyNow, Zenon DEF R, M

-----------------------------------------------------------------------------
(* The lines of the published messages. *)

\* The queues of a line of messages have their types.
LEMMA PushTyped ==
  ASSUME TypeOK, NEW d \in Conn, NEW c \in Conn
  PROVE  /\ Home[d] \in Worker /\ Home[c] \in Worker /\ issued[d] \in Nat
         /\ Mail(d, c) \in Seq(Command) /\ <<>> \in Seq(Command)
         /\ cmdq[Home[d]][Home[d]] \in Seq(Command)
         /\ respq[Home[c]]["exec"] \in Seq(Response)
         /\ FlowType(wire[c], batch[c], respq[Home[c]]["exec"], Mail(d, c), <<>>,
                     cmdq[Home[d]][Home[d]])
<1>1. Home[d] \in Worker /\ Home[c] \in Worker /\ issued[d] \in Nat
  BY Typed, Zenon
<1>2. pubsubq[Home[c]][Home[d]] \in Seq(Command)
  BY <1>1, Typed, Zenon
<1>3. Mail(d, c) \in Seq(Command) /\ <<>> \in Seq(Command)
  BY <1>2 DEF Mail
<1>4. /\ wire[c] \in Seq(Response) /\ batch[c] \in Seq(Response)
      /\ respq[Home[c]]["exec"] \in Seq(Response) /\ cmdq[Home[d]][Home[d]] \in Seq(Command)
  BY <1>1, Typed, Zenon
<1> QED BY <1>1, <1>3, <1>4 DEF FlowType

\* A line of messages from the state of its queues after a step.
LEMMA PushNow ==
  ASSUME NEW d, NEW c, NEW s, NEW b, NEW r, NEW x, NEW f, NEW q, NEW k,
         Flow(s, b, r, x, f, q, Messages(d, c), Published(d), k), f = <<>>,
         wire'[c] = s, batch'[c] = b, respq'[Home[c]]["exec"] = r, Mail(d, c)' = x,
         cmdq'[Home[d]][Home[d]] = q, issued'[d] = k
  PROVE  PushFlow(d, c)'
BY DEF PushFlow

\* What a client sends keeps the lines of the messages.
LEMMA ReceivePushes ==
  ASSUME TypeOK, NEW o \in Conn, NEW op \in Sends[o], Receive(o, op),
         NEW d \in Conn, NEW c \in Conn, PushFlow(d, c)
  PROVE  PushFlow(d, c)'
<1> DEFINE w == Home[o]
           m == [conn |-> o, id |-> issued[o] + 1, op |-> op]
           g == Home[d]
           h == Home[c]
           q == cmdq[g][g]
           y == respq[h]["exec"]
           x == Mail(d, c)
           f == <<>>
           R == Messages(d, c)
           M == Published(d)
           k == issued[d]
<1>1. /\ g \in Worker /\ h \in Worker /\ k \in Nat
      /\ FlowType(wire[c], batch[c], y, x, f, q)
  BY PushTyped, Zenon
<1>2. Flow(wire[c], batch[c], y, x, f, q, R, M, k)
  BY Zenon DEF PushFlow
<1>3. CASE op # Bad
  <2>1. /\ m \in Command /\ w \in Worker
        /\ cmdq'[w][w] = Append(cmdq[w][w], m) /\ Elsewhere(cmdq, cmdq', Worker, w, w)
        /\ issued' = [issued EXCEPT ![o] = issued[o] + 1]
        /\ UNCHANGED <<pubsubq, respq, batch, wire>>
    BY <1>3, ReceiveEffect, Zenon
  <2>2. m.conn = o /\ m.id = issued[o] + 1
    BY Zenon
  <2> HIDE DEF m
  <2>3. Mail(d, c)' = x
    BY <2>1, Zenon DEF Mail
  <2>4. d = o => issued'[d] = k + 1
    BY <2>1, Typed, Zenon
  <2>5. d # o => issued'[d] = k
    BY <2>1, Typed, Zenon
  <2>6. g # w => cmdq'[g][g] = q
    BY <1>1, <2>1, Zenon DEF Elsewhere
  <2>7. g = w => cmdq'[g][g] = Append(q, m)
    BY <2>1, Zenon
  <2>8. f = <<>>
    BY Zenon
  <2> HIDE DEF x, f, q, y, k, R, M
  <2>9. CASE d = o
    <3>1. m.id = k + 1 /\ g = w
      BY <2>2, <2>9, Zenon DEF k
    <3>2. Flow(wire[c], batch[c], y, x, f, Append(q, m), R, M, k + 1)
      BY <1>1, <1>2, <2>1, <3>1, FlowEnter, Zenon
    <3> QED BY <2>1, <2>3, <2>4, <2>7, <2>8, <2>9, <3>1, <3>2, PushNow, Zenon DEF y, R, M
  <2>10. CASE d # o /\ g = w
    <3>1. m \notin M
      BY <2>2, <2>10, Zenon DEF M, Published
    <3>2. Flow(wire[c], batch[c], y, x, f, Append(q, m), R, M, k)
      BY <1>1, <1>2, <2>1, <3>1, FlowOther, Zenon
    <3> QED BY <2>1, <2>3, <2>5, <2>7, <2>8, <2>10, <3>2, PushNow, Zenon DEF y, R, M
  <2>11. CASE d # o /\ g # w
    BY <1>2, <2>1, <2>3, <2>5, <2>6, <2>8, <2>11, PushNow, Zenon DEF y, R, M
  <2> QED BY <2>9, <2>10, <2>11, Zenon
<1>4. CASE op = Bad
  <2>1. /\ w \in Worker /\ Elsewhere(respq, respq', Lane, w, "io")
        /\ issued' = [issued EXCEPT ![o] = issued[o] + 1]
        /\ UNCHANGED <<cmdq, pubsubq, batch, wire>>
    BY <1>4, RefuseEffect, Zenon
  <2>2. Mail(d, c)' = x /\ f = <<>> /\ cmdq'[g][g] = q
    BY <2>1, Zenon DEF Mail
  <2>3. respq'[h]["exec"] = y
    BY <1>1, <2>1, Zenon DEF Elsewhere, Lane
  <2>4. issued'[d] = k \/ issued'[d] = k + 1
    BY <2>1, Typed
  <2> HIDE DEF x, f, q, y, k, R, M
  <2>5. Flow(wire[c], batch[c], y, x, f, q, R, M, k + 1)
    BY <1>1, <1>2, FlowRefuse, Zenon
  <2>6. Flow(wire'[c], batch'[c], y, x, f, q, R, M, issued'[d])
    BY <1>2, <2>1, <2>4, <2>5, Zenon
  <2> QED BY <2>2, <2>3, <2>6, PushNow, Zenon DEF R, M
<1> QED BY <1>3, <1>4, Zenon

\* What the handler does keeps the lines of the messages.
LEMMA SentPushes ==
  ASSUME TypeOK, Placed, NEW w \in Worker, SendBatches(w) \/ \E l \in Lane : DrainOne(w, l),
         NEW d \in Conn, NEW c \in Conn, PushFlow(d, c)
  PROVE  PushFlow(d, c)'
<1> DEFINE g == Home[d]
           h == Home[c]
           q == cmdq[g][g]
           x == Mail(d, c)
           f == <<>>
           R == Messages(d, c)
           M == Published(d)
           k == issued[d]
<1>1. k \in Nat /\ x \in Seq(Command) /\ f \in Seq(Command) /\ q \in Seq(Command)
  BY PushTyped, Zenon
<1>2. Flow(wire[c], batch[c], respq[h]["exec"], x, f, q, R, M, k)
  BY Zenon DEF PushFlow
<1>3. \A v \in Errors : v \notin R
  BY Zenon DEF Errors, Messages
<1>4. UNCHANGED <<cmdq, pubsubq, issued>>
  BY SendEffect, DrainEffect, Zenon
<1>5. Mail(d, c)' = x /\ f = <<>> /\ cmdq'[g][g] = q /\ issued'[d] = k
  BY <1>4, Zenon DEF Mail
<1> HIDE DEF q, x, f, R, M, k
<1>6. Flow(wire'[c], batch'[c], respq'[h]["exec"], x, f, q, R, M, k)
  BY <1>1, <1>2, <1>3, HandlerFlow, Zenon
<1> QED BY <1>5, <1>6, PushNow, Zenon DEF R, M

\* What the executor does with a command of a client keeps the lines of the messages.
LEMMA CommandPushes ==
  ASSUME TypeOK, Placed, NEW w \in Worker,
         ExecuteLocal(w) \/ ExecutePublish(w) \/ Forward(w),
         NEW d \in Conn, NEW c \in Conn, PushFlow(d, c)
  PROVE  PushFlow(d, c)'
<1> DEFINE m == Head(cmdq[w][w])
           z == <<Reply(m)>>
           g == Home[d]
           h == Home[c]
           q == cmdq[g][g]
           y == respq[h]["exec"]
           x == Mail(d, c)
           f == <<>>
           R == Messages(d, c)
           M == Published(d)
           k == issued[d]
<1>1. /\ g \in Worker /\ h \in Worker /\ k \in Nat
      /\ FlowType(wire[c], batch[c], y, x, f, q)
  BY PushTyped, Zenon
<1>2. Flow(wire[c], batch[c], y, x, f, q, R, M, k)
  BY Zenon DEF PushFlow
<1>3. f = <<>>
  BY Zenon
<1>4. ASSUME m \in Command
      PROVE  z \in Seq(Response) /\ Rising(z, R, RNum) /\ Nums(z, R, RNum) = {}
  BY <1>4, ReplyYields, Zenon
<1>5. CASE ExecuteLocal(w)
  <2>1. /\ m \in Command /\ cmdq[w][w] # <<>>
        /\ cmdq'[w][w] = Tail(cmdq[w][w]) /\ Elsewhere(cmdq, cmdq', Worker, w, w)
        /\ respq'[w]["exec"] = Append(respq[w]["exec"], Reply(m))
        /\ Elsewhere(respq, respq', Lane, w, "exec")
        /\ UNCHANGED <<pubsubq, batch, wire, issued>>
    BY <1>5, ExecuteEffect, Zenon
  <2>2. Mail(d, c)' = x
    BY <2>1, Zenon DEF Mail
  <2>3. h = w => respq'[h]["exec"] = y \o z
    BY <1>1, <2>1, PushTyped, ReplyType, OneMore, Zenon
  <2>4. h # w => respq'[h]["exec"] = y
    BY <1>1, <2>1, Zenon DEF Elsewhere, Lane
  <2>5. g = w => q # <<>> /\ cmdq'[g][g] = Tail(q)
    BY <2>1, Zenon
  <2>6. g # w => cmdq'[g][g] = q
    BY <1>1, <2>1, Zenon DEF Elsewhere
  <2> HIDE DEF m, z, q, y, x, f, R, M, k
  <2>7. PICK n : n = cmdq'[g][g]
    BY Zenon
  <2>8. Flow(wire[c], batch[c], y, x, f, n, R, M, k) /\ FlowType(wire[c], batch[c], y, x, f, n)
    <3>1. CASE g = w
      <4>1. FlowType(wire[c], batch[c], y, x, f, Tail(q))
        BY <1>1, <2>5, <3>1 DEF FlowType
      <4> QED BY <1>1, <1>2, <2>5, <2>7, <3>1, <4>1, FlowSkip, Zenon
    <3> QED BY <1>1, <1>2, <2>6, <2>7, <3>1, Zenon
  <2>9. Flow(wire[c], batch[c], y \o z, x, f, n, R, M, k)
    BY <1>1, <1>4, <2>1, <2>8, FlowAdd, Zenon
  <2> QED BY <1>3, <2>1, <2>2, <2>3, <2>4, <2>7, <2>8, <2>9, PushNow, Zenon DEF R, M, k
<1>6. CASE ExecutePublish(w)
  <2> DEFINE e == Pushes(w, m)
  <2>1. /\ m \in Command /\ cmdq[w][w] # <<>> /\ m.op = Publish
        /\ cmdq'[w][w] = Tail(cmdq[w][w]) /\ Elsewhere(cmdq, cmdq', Worker, w, w)
        /\ respq'[w]["exec"] = Append(respq[w]["exec"] \o e, Reply(m))
        /\ Elsewhere(respq, respq', Lane, w, "exec")
        /\ \A v \in Worker : v # w => pubsubq'[v][w] = Append(pubsubq[v][w], m)
        /\ \A v, p \in Worker : v = w \/ p # w => pubsubq'[v][p] = pubsubq[v][p]
        /\ UNCHANGED <<batch, wire, issued>>
    BY <1>6, PublishEffect, Zenon
  <2>2. cmdq[w][w] \in Seq(Own(w))
    BY Zenon DEF Placed, PlacedCommands, Waiting
  <2>3. Home[m.conn] = w
    <3>1. m \in Own(w)
      BY <2>1, <2>2, Members, Zenon
    <3> QED BY <3>1, Zenon DEF Own
  <2>4. /\ e \in Seq(Response) /\ Rising(e, R, RNum)
        /\ m.conn = d => Nums(e, R, RNum) \subseteq {CNum[m]}
        /\ m.conn # d => Nums(e, R, RNum) = {}
    <3> HIDE DEF m
    <3> QED BY <2>1, PushesType, PushYields, Zenon
  <2>5. y \o e \in Seq(Response) /\ FlowType(wire[c], batch[c], y \o e, x, f, q)
    <3>1. y \in Seq(Response)
      BY <1>1, Zenon DEF FlowType
    <3>2. y \o e \in Seq(Response)
      BY <2>4, <3>1, Members, Zenon
    <3> QED BY <1>1, <3>2, Zenon DEF FlowType
  <2>6. h = w => respq'[h]["exec"] = (y \o e) \o z
    <3> HIDE DEF m, e, y, x, q, f
    <3> QED BY <2>1, <2>5, ReplyType, OneMore, Zenon DEF y, z
  <2>7. h # w => respq'[h]["exec"] = y
    BY <1>1, <2>1, Zenon DEF Elsewhere, Lane
  <2>8. g = w => q # <<>> /\ m = Head(q) /\ cmdq'[g][g] = Tail(q)
    BY <2>1, Zenon
  <2>9. g # w => cmdq'[g][g] = q /\ Mail(d, c)' = x
    BY <1>1, <2>1, Zenon DEF Elsewhere, Mail
  <2>10. g = w /\ h = w => x = <<>> /\ Mail(d, c)' = x
    BY Zenon DEF Mail
  <2>11. g = w /\ h # w => Mail(d, c)' = Append(x, m)
    BY <1>1, <2>1, Zenon DEF Mail
  <2>12. g = w => Nums(e, R, RNum) \in SUBSET First(q, M, CNum)
    <3>1. m.conn = d => m \in M
      BY <2>1, Zenon DEF Published
    <3> HIDE DEF m, e, q, R, M
    <3>2. g = w /\ m.conn = d => First(q, M, CNum) = {CNum[m]}
      BY <2>8, <3>1 DEF First
    <3> QED BY <2>4, <3>2, Zenon
  <2>13. g # w => m.conn # d
    BY <2>3, Zenon
  <2>14. q # <<>> => FlowType(wire[c], batch[c], y \o e, x, f, Tail(q))
    <3> HIDE DEF e, q, y, x, f
    <3>1. q \in Seq(Command)
      BY <1>1, Zenon DEF FlowType
    <3>2. q # <<>> => Tail(q) \in Seq(Command)
      BY <3>1, Members, Zenon
    <3> QED BY <2>5, <3>2, Zenon DEF FlowType
  <2> HIDE DEF m, z, e, q, y, x, f, R, M, k
  <2>15. CASE g = w /\ h = w
    <3>1. Flow(wire[c], batch[c], y \o e, x, f, Tail(q), R, M, k)
      BY <1>1, <1>2, <1>3, <2>4, <2>8, <2>10, <2>12, <2>14, <2>15, FlowExecute, SMTT(30)
    <3>2. Flow(wire[c], batch[c], (y \o e) \o z, x, f, Tail(q), R, M, k)
      BY <1>1, <1>4, <2>1, <2>8, <2>14, <2>15, <3>1, FlowAdd, Zenon
    <3> QED BY <1>3, <2>1, <2>6, <2>8, <2>10, <2>15, <3>2, PushNow, ZenonT(40) DEF R, M, k
  <2>16. CASE g = w /\ h # w
    <3>1. Flow(wire[c], batch[c], y, Append(x, Head(q)), f, Tail(q), R, M, k)
      BY <1>1, <1>2, <1>3, <2>8, <2>16, FlowOffer, Zenon
    <3> QED BY <1>3, <2>1, <2>7, <2>8, <2>11, <2>16, <3>1, PushNow, Zenon DEF R, M, k
  <2>17. CASE g # w /\ h = w
    <3>1. Flow(wire[c], batch[c], y \o e, x, f, q, R, M, k)
      BY <1>1, <1>2, <2>4, <2>13, <2>17, FlowAdd, Zenon
    <3>2. Flow(wire[c], batch[c], (y \o e) \o z, x, f, q, R, M, k)
      BY <1>1, <1>4, <2>1, <2>5, <3>1, FlowAdd, Zenon
    <3> QED BY <1>3, <2>1, <2>6, <2>9, <2>17, <3>2, PushNow, Zenon DEF R, M, k
  <2>18. CASE g # w /\ h # w
    BY <1>2, <1>3, <2>1, <2>7, <2>9, <2>18, PushNow, Zenon DEF R, M, k
  <2> QED BY <2>15, <2>16, <2>17, <2>18, Zenon
<1>7. CASE Forward(w)
  <2> DEFINE u == Target(m)
  <2>1. /\ cmdq[w][w] # <<>>
        /\ cmdq'[w][w] = Tail(cmdq[w][w])
        /\ \A v, p \in Worker : p # w \/ (v # w /\ v # u) => cmdq'[v][p] = cmdq[v][p]
        /\ UNCHANGED <<pubsubq, respq, batch, wire, issued>>
    BY <1>7, ForwardEffect, Zenon DEF Placed
  <2>2. Mail(d, c)' = x /\ respq'[h]["exec"] = y
    BY <2>1, Zenon DEF Mail
  <2>3. g = w => q # <<>> /\ cmdq'[g][g] = Tail(q)
    BY <2>1, Zenon
  <2>4. g # w => cmdq'[g][g] = q
    BY <1>1, <2>1, Zenon
  <2> HIDE DEF q, y, x, f, R, M, k
  <2>5. CASE g = w
    <3>1. Flow(wire[c], batch[c], y, x, f, Tail(q), R, M, k)
      BY <1>1, <1>2, <2>3, <2>5, FlowSkip, Zenon
    <3> QED BY <1>3, <2>1, <2>2, <2>3, <2>5, <3>1, PushNow, Zenon DEF R, M, k
  <2>6. CASE g # w
    BY <1>2, <1>3, <2>1, <2>2, <2>4, <2>6, PushNow, Zenon DEF R, M, k
  <2> QED BY <2>5, <2>6, Zenon
<1> QED BY <1>5, <1>6, <1>7, Zenon

\* What the executor takes from other workers keeps the lines of the messages.
LEMMA CollectPushes ==
  ASSUME TypeOK, Placed, NEW w \in Worker, NEW p \in Worker,
         ExecuteForwarded(w, p) \/ TakeCrossResponse(w, p) \/ TakePubSub(w, p),
         NEW d \in Conn, NEW c \in Conn, PushFlow(d, c)
  PROVE  PushFlow(d, c)'
<1> DEFINE g == Home[d]
           h == Home[c]
           q == cmdq[g][g]
           y == respq[h]["exec"]
           x == Mail(d, c)
           f == <<>>
           R == Messages(d, c)
           M == Published(d)
           k == issued[d]
<1>1. /\ g \in Worker /\ h \in Worker /\ k \in Nat
      /\ FlowType(wire[c], batch[c], y, x, f, q)
  BY PushTyped, Zenon
<1>2. Flow(wire[c], batch[c], y, x, f, q, R, M, k)
  BY DEF PushFlow
<1>3. f = <<>>
  BY Zenon
<1>4. CASE ExecuteForwarded(w, p)
  <2>1. /\ p # w /\ Elsewhere(cmdq, cmdq', Worker, w, p)
        /\ UNCHANGED <<pubsubq, respq, batch, wire, issued>>
    BY <1>4, ForwardedEffect, Zenon
  <2>2. cmdq'[g][g] = q /\ Mail(d, c)' = x /\ respq'[h]["exec"] = y
    BY <1>1, <2>1, Zenon DEF Elsewhere, Mail
  <2> HIDE DEF q, y, x, f, R, M, k
  <2> QED BY <1>2, <1>3, <2>1, <2>2, PushNow, Zenon DEF R, M, k
<1>5. CASE TakeCrossResponse(w, p)
  <2> DEFINE m == Head(xresp[w][p])
             z == <<Reply(m)>>
  <2>1. /\ m \in Command
        /\ respq'[w]["exec"] = Append(respq[w]["exec"], Reply(m))
        /\ Elsewhere(respq, respq', Lane, w, "exec")
        /\ UNCHANGED <<cmdq, pubsubq, batch, wire, issued>>
    BY <1>5, CollectEffect, Zenon
  <2>2. Mail(d, c)' = x /\ cmdq'[g][g] = q
    BY <2>1 DEF Mail
  <2>3. z \in Seq(Response) /\ Rising(z, R, RNum) /\ Nums(z, R, RNum) = {}
    BY <2>1, ReplyYields, Zenon
  <2>4. h = w => respq'[h]["exec"] = y \o z
    BY <1>1, <2>1, PushTyped, ReplyType, OneMore, Zenon
  <2>5. h # w => respq'[h]["exec"] = y
    BY <1>1, <2>1, Zenon DEF Elsewhere, Lane
  <2> HIDE DEF m, z, q, y, x, f, R, M, k
  <2>6. Flow(wire[c], batch[c], y \o z, x, f, q, R, M, k)
    BY <1>1, <1>2, <2>3, FlowAdd, Zenon
  <2> QED BY <1>2, <1>3, <2>1, <2>2, <2>4, <2>5, <2>6, PushNow, Zenon DEF R, M, k
<1>6. CASE TakePubSub(w, p)
  <2> DEFINE m == Head(pubsubq[w][p])
             e == Pushes(w, m)
  <2>1. /\ m \in Command /\ pubsubq[w][p] # <<>>
        /\ pubsubq'[w][p] = Tail(pubsubq[w][p]) /\ Elsewhere(pubsubq, pubsubq', Worker, w, p)
        /\ respq'[w]["exec"] = respq[w]["exec"] \o e
        /\ Elsewhere(respq, respq', Lane, w, "exec")
        /\ UNCHANGED <<cmdq, batch, wire, issued>>
    BY <1>6, NewsEffect, Zenon
  <2>2. pubsubq[w][p] \in Seq(News(p, w))
    BY Zenon DEF Placed, PlacedNews
  <2>3. m \in News(p, w)
    BY <2>1, <2>2, Members, Zenon
  <2>4. Home[m.conn] = p /\ m.op = Publish /\ p # w
    BY <2>3, Zenon DEF News, Own
  <2>5. /\ e \in Seq(Response) /\ Rising(e, R, RNum)
        /\ m.conn = d => Nums(e, R, RNum) \subseteq {CNum[m]}
        /\ m.conn # d => Nums(e, R, RNum) = {}
    <3> HIDE DEF m
    <3> QED BY <2>1, PushesType, PushYields, Zenon
  <2>6. h = w => respq'[h]["exec"] = y \o e
    BY <2>1, Zenon
  <2>7. CASE h # w
    <3>1. respq'[h]["exec"] = y /\ Mail(d, c)' = x /\ cmdq'[g][g] = q
      BY <1>1, <2>1, <2>7, Zenon DEF Elsewhere, Lane, Mail
    <3> HIDE DEF q, y, x, f, R, M, k
    <3> QED BY <1>2, <1>3, <2>1, <3>1, PushNow, Zenon DEF R, M, k
  <2>8. CASE h = w /\ g = p
    <3>1. x # <<>> /\ m = Head(x) /\ Mail(d, c)' = Tail(x) /\ cmdq'[g][g] = q
      BY <2>1, <2>4, <2>8, Zenon DEF Mail
    <3>2. m.conn = d => m \in M
      BY <2>1, <2>4, Zenon DEF Published
    <3>3. m.conn = d => First(x, M, CNum) = {CNum[m]}
      BY <3>1, <3>2 DEF First
    <3> HIDE DEF m, e, q, y, x, f, R, M, k
    <3>4. Nums(e, R, RNum) \in SUBSET First(x, M, CNum)
      BY <2>5, <3>3, Zenon
    <3>5. Flow(wire[c], batch[c], y \o e, Tail(x), f, q, R, M, k)
      BY <1>1, <1>2, <2>5, <3>1, <3>4, FlowCollect, Zenon
    <3> QED BY <1>3, <2>1, <2>6, <2>8, <3>1, <3>5, PushNow, Zenon DEF R, M, k
  <2>9. CASE h = w /\ g # p
    <3>1. Mail(d, c)' = x /\ cmdq'[g][g] = q
      BY <1>1, <2>1, <2>9, Zenon DEF Mail, Elsewhere
    <3>2. m.conn # d
      BY <2>4, <2>9, Zenon
    <3> HIDE DEF m, e, q, y, x, f, R, M, k
    <3>3. Flow(wire[c], batch[c], y \o e, x, f, q, R, M, k)
      BY <1>1, <1>2, <2>5, <3>2, FlowAdd, Zenon
    <3> QED BY <1>3, <2>1, <2>6, <2>9, <3>1, <3>3, PushNow, Zenon DEF R, M, k
  <2> QED BY <2>7, <2>8, <2>9, Zenon
<1> QED BY <1>4, <1>5, <1>6

-----------------------------------------------------------------------------
(* The invariant and the theorems. *)

\* The inductive invariant: every queue holds what belongs there, in order.
Ordered == Placed /\ RepliesOrdered /\ PushesOrdered

\* Nothing is queued at first.
LEMMA InitOrdered == Init => Ordered
<1> SUFFICES ASSUME Init PROVE Ordered
  BY Zenon
<1>1. /\ \A w \in Worker : \A p \in Worker : cmdq[w][p] = <<>> /\ xresp[w][p] = <<>> /\ pubsubq[w][p] = <<>>
      /\ \A w \in Worker : respq[w]["exec"] = <<>> /\ respq[w]["io"] = <<>>
      /\ \A c \in Conn : batch[c] = <<>> /\ wire[c] = <<>> /\ issued[c] = 0 /\ Home[c] \in Worker
  BY RuntimeAssumption, Zenon DEF Init, Lane
<1>2. \A S : <<>> \in Seq(S)
  OBVIOUS
<1>3. Placed
  BY <1>1, <1>2, Zenon DEF Placed, PlacedCommands, PlacedAnswers, PlacedNews, PlacedResponses, PlacedSockets
<1>4. ASSUME NEW z, z = <<>>, NEW R, NEW M, NEW k PROVE Flow(z, z, z, z, z, z, R, M, k)
  <2>1. \A S, n : Rising(z, S, n) /\ Nums(z, S, n) = {}
    BY <1>4, NumsEmpty
  <2>2. ASSUME NEW E, E = {} PROVE InLine(E, E, E, E, E, E)
    BY <2>2, Zenon DEF InLine, Below
  <2> QED BY <2>1, <2>2 DEF Flow
<1>5. RepliesOrdered
  <2> SUFFICES ASSUME NEW c \in Conn, NEW t \in Worker PROVE ReplyFlow(c, t)
    BY Zenon DEF RepliesOrdered
  <2>1. Answers(c, t) = <<>> /\ Forwarded(c, t) = <<>>
    BY <1>1, Zenon DEF Answers, Forwarded
  <2> QED BY <1>1, <1>4, <2>1 DEF ReplyFlow
<1>6. PushesOrdered
  <2> SUFFICES ASSUME NEW d \in Conn, NEW c \in Conn PROVE PushFlow(d, c)
    BY Zenon DEF PushesOrdered
  <2>1. Mail(d, c) = <<>>
    BY <1>1, Zenon DEF Mail
  <2> QED BY <1>1, <1>4, <2>1 DEF PushFlow
<1> QED BY <1>3, <1>5, <1>6 DEF Ordered

\* A step that moves nothing.
LEMMA StillOrdered ==
  ASSUME Ordered, Still
  PROVE  Ordered'
<1>1. Placed'
  BY KeepStill, Zenon DEF Ordered, Placed, Still
<1>2. ASSUME NEW c \in Conn, NEW t \in Worker PROVE ReplyFlow(c, t)'
  <2>1. ReplyFlow(c, t)
    BY Zenon DEF Ordered, RepliesOrdered
  <2> QED BY <2>1, Zenon DEF ReplyFlow, Answers, Forwarded, Still
<1>3. ASSUME NEW d \in Conn, NEW c \in Conn PROVE PushFlow(d, c)'
  <2>1. PushFlow(d, c)
    BY Zenon DEF Ordered, PushesOrdered
  <2> QED BY <2>1, Zenon DEF PushFlow, Mail, Still
<1> QED BY <1>1, <1>2, <1>3, Zenon DEF Ordered, RepliesOrdered, PushesOrdered

\* Every step keeps Ordered.
LEMMA StepOrdered ==
  ASSUME TypeOK, Ordered, [Next]_vars
  PROVE  Ordered'
<1>1. /\ Placed
      /\ \A c \in Conn : \A t \in Worker : ReplyFlow(c, t)
      /\ \A d \in Conn : \A c \in Conn : PushFlow(d, c)
  BY Zenon DEF Ordered, RepliesOrdered, PushesOrdered
<1>2. ASSUME Placed', \A c \in Conn : \A t \in Worker : ReplyFlow(c, t)',
             \A d \in Conn : \A c \in Conn : PushFlow(d, c)'
      PROVE  Ordered'
  BY <1>2, Zenon DEF Ordered, RepliesOrdered, PushesOrdered
<1>3. CASE UNCHANGED vars
  <2>1. Still
    BY <1>3, Zenon DEF Still, vars, queues, handler, client
  <2> QED BY <2>1, StillOrdered, Zenon
<1>4. ASSUME NEW c \in Conn, Client(c) PROVE Ordered'
  <2>1. CASE Accept(c) \/ Close(c)
    <3>1. Still
      BY <2>1, StillEffect, Zenon
    <3> QED BY <3>1, StillOrdered, Zenon
  <2>2. ASSUME NEW op \in Sends[c], Receive(c, op) PROVE Ordered'
    BY <1>1, <1>2, <2>2, ReceivePlaced, ReceiveReplies, ReceivePushes, Zenon
  <2> QED BY <1>4, <2>1, <2>2, Zenon DEF Client
<1>5. ASSUME NEW w \in Worker, ExecutorLoop(w) PROVE Ordered'
  <2>1. CASE ExecuteLocal(w) \/ ExecutePublish(w) \/ Forward(w)
    BY <1>1, <1>2, <2>1, CommandPlaced, CommandReplies, CommandPushes
  <2>2. ASSUME NEW p \in Worker,
               ExecuteForwarded(w, p) \/ TakeCrossResponse(w, p) \/ TakePubSub(w, p)
        PROVE  Ordered'
    BY <1>1, <1>2, <2>2, CollectPlaced, CollectReplies, CollectPushes, Zenon
  <2>3. CASE EndCommands(w) \/ EndCrossResponses(w) \/ Flush(w)
    <3>1. Still
      BY <2>3, StillEffect, Zenon
    <3> QED BY <3>1, StillOrdered
  <2> QED BY <1>5, <2>1, <2>2, <2>3, Zenon DEF ExecutorLoop
<1>6. ASSUME NEW w \in Worker, ResponseHandler(w) \/ Stop(w) PROVE Ordered'
  <2>1. CASE SendBatches(w) \/ \E l \in Lane : DrainOne(w, l)
    BY <1>1, <1>2, <2>1, HandlerPlaced, SentReplies, SentPushes, Zenon
  <2>2. CASE Stop(w) \/ BeginHandler(w) \/ ClearScheduled(w) \/ StoreVisible(w) \/ Recheck(w)
    <3>1. Still
      BY <2>2, StillEffect, Zenon
    <3> QED BY <3>1, StillOrdered
  <2> QED BY <1>6, <2>1, <2>2, Zenon DEF ResponseHandler
<1> QED BY <1>3, <1>4, <1>5, <1>6, Zenon DEF Next

\* What is in order on the way is in order on the socket.
LEMMA SocketOrdered ==
  ASSUME TypeOK, Ordered
  PROVE  SameWorkerRepliesInOrder /\ PushesInOrder
<1> SUFFICES ASSUME NEW c \in Conn, NEW i \in 1..Len(wire[c]), NEW j \in 1..Len(wire[c]), i < j
             PROVE  /\ /\ wire[c][i].kind = "reply" /\ wire[c][j].kind = "reply"
                       /\ Target(wire[c][i].cmd) = Target(wire[c][j].cmd)
                       => wire[c][i].cmd.id < wire[c][j].cmd.id
                    /\ /\ wire[c][i].kind = "push" /\ wire[c][j].kind = "push"
                       /\ wire[c][i].cmd.conn = wire[c][j].cmd.conn
                       => wire[c][i].cmd.id < wire[c][j].cmd.id
  BY Zenon DEF SameWorkerRepliesInOrder, PushesInOrder
<1> DEFINE a == wire[c][i]
           b == wire[c][j]
<1>1. wire[c] \in Seq(Outgoing(c))
  BY Zenon DEF Ordered, Placed, PlacedSockets
<1>2. a \in Outgoing(c) /\ b \in Outgoing(c)
  BY <1>1
<1>3. /\ a \in Response /\ b \in Response /\ a.conn = c /\ b.conn = c
      /\ a.kind = "reply" => a.cmd.conn = c /\ a.cmd.op # Bad
      /\ b.kind = "reply" => b.cmd.conn = c /\ b.cmd.op # Bad
  BY <1>2, Zenon DEF Outgoing
<1>4. RNum[a] = a.cmd.id /\ RNum[b] = b.cmd.id
  BY <1>3, Zenon DEF RNum
<1>5. a.cmd \in Command /\ b.cmd \in Command
  BY <1>3 DEF Response
<1>6. ASSUME a.kind = "reply", b.kind = "reply", Target(a.cmd) = Target(b.cmd)
      PROVE  a.cmd.id < b.cmd.id
  <2> DEFINE t == Target(a.cmd)
  <2>1. t \in Worker
    BY <1>3, <1>5, <1>6, RuntimeAssumption, Zenon DEF Target, Command, Op
  <2>2. a \in Replies(c, t) /\ b \in Replies(c, t)
    BY <1>3, <1>5, <1>6, Zenon DEF Replies, Sent
  <2> HIDE DEF t
  <2>3. Rising(wire[c], Replies(c, t), RNum)
    BY <2>1, Zenon DEF Ordered, RepliesOrdered, ReplyFlow, Flow
  <2> QED BY <1>4, <2>2, <2>3, Zenon DEF Rising
<1>7. ASSUME a.kind = "push", b.kind = "push", a.cmd.conn = b.cmd.conn
      PROVE  a.cmd.id < b.cmd.id
  <2> DEFINE d == a.cmd.conn
  <2>1. d \in Conn
    BY <1>5, Zenon DEF Command
  <2>2. a \in Messages(d, c) /\ b \in Messages(d, c)
    BY <1>3, <1>7, Zenon DEF Messages
  <2> HIDE DEF d
  <2>3. Rising(wire[c], Messages(d, c), RNum)
    BY <2>1, Zenon DEF Ordered, PushesOrdered, PushFlow, Flow
  <2> QED BY <1>4, <2>2, <2>3, Zenon DEF Rising
<1> QED BY <1>6, <1>7, Zenon

\* Ordered is an invariant.
THEOREM AlwaysOrdered == Spec => []Ordered
<1>1. TypeOK /\ Ordered /\ [Next]_vars => Ordered'
  BY StepOrdered
<1> QED BY InitOrdered, <1>1, TypeCorrect, PTL DEF Spec

\* Pipelined commands of one connection that the same worker executes are answered in
\* the order they were sent, each at most once, whatever the workers and connections:
\* cmd_queue_, forwarding, cross_worker_resp_queue_, resp_queue_ and the handler's
\* batches never let one overtake the other.
THEOREM RepliesInOrder == Spec => []SameWorkerRepliesInOrder
<1>1. TypeOK /\ Ordered => SameWorkerRepliesInOrder
  BY SocketOrdered, Zenon
<1> QED BY <1>1, TypeCorrect, AlwaysOrdered, PTL

\* A subscriber receives the messages of one publisher in the order they were
\* published, each at most once, also through pubsub_msg_queue_ of another worker.
THEOREM MessagesInOrder == Spec => []PushesInOrder
<1>1. TypeOK /\ Ordered => PushesInOrder
  BY SocketOrdered
<1> QED BY <1>1, TypeCorrect, AlwaysOrdered, PTL
=============================================================================
