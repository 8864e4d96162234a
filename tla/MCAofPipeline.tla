---------------------------- MODULE MCAofPipeline ----------------------------
(* Instances of AofPipeline.                                                 *)
EXTENDS AofPipeline, TLC

CONSTANTS w1, w2

TwoWorkers == {w1, w2}
=============================================================================
