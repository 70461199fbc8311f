-------------------------- MODULE MCReplayRecorder --------------------------
(* Instances of ReplayRecorder for TLC: a ring of three entries of two     *)
(* cells, with and without a rest of one cell behind them.                 *)
EXTENDS ReplayRecorder

CONSTANT w1
MCWriters == {w1}
=============================================================================
