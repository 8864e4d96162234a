---------------------------- MODULE MCWorkerRuntime --------------------------
(* Instances of WorkerRuntime with two workers.                              *)
EXTENDS WorkerRuntime, TLC

CONSTANTS w1, w2, c1, c2

TwoWorkers == {w1, w2}

\* One client that pipelines commands for both workers and publishes to a channel
\* it has subscribed to.
OneConn == {c1}
OneHome == (c1 :> w1)
OneSubs == (w1 :> <<c1>>) @@ (w2 :> <<>>)
TwoCmds == (c1 :> 2)
AnySends == (c1 :> Op)

\* A publisher on one worker and a silent subscriber on the other.
PairConn == {c1, c2}
PairHome == (c1 :> w1) @@ (c2 :> w2)
PairSubs == (w1 :> <<>>) @@ (w2 :> <<c2>>)
PairCmds == (c1 :> 1) @@ (c2 :> 0)
PairSends == (c1 :> {Publish}) @@ (c2 :> {w2})

\* The same with two messages, and one command of the subscriber, whose reply takes
\* the messages along to the socket.
MessageCmds == (c1 :> 2) @@ (c2 :> 1)
=============================================================================
