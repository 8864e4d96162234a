---------------------------- MODULE MCTransactions ----------------------------
(* Instances of Transactions for TLC. *)
EXTENDS Transactions, TLC

CONSTANTS c1, c2, near, far

\* c1 runs transactions; c2 only writes.
TwoConns == {c1, c2}
TwoKeys == {near, far}
NearKey == {near}
RunnerAndWriter == (c1 :> ControlNames \cup {"SET"}) @@ (c2 :> {"SET", "HSET", "EXPIRE"})
RunnerFrames == (c1 :> 4) @@ (c2 :> 1)
ForwardsSome == {"DEL", "EXISTS", "SET"}

\* c1 alone, with more commands waiting.
OneConn == {c1}
MultiOnly == c1 :> {"MULTI", "SET", "EXEC", "DISCARD"}
ThreeFrames == c1 :> 3
NoForwards == {}

\* c1 watches, other workers write.
WatchOnly == c1 :> {"WATCH"}
OneFrame == c1 :> 1
Hashes == {"HSET"}
===============================================================================
