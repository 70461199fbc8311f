----------------------------- MODULE MCBlkLocks -----------------------------
(* Instances of BlkLocks for TLC.                                          *)
EXTENDS BlkLocks, TLC

CONSTANTS t1, t2, t3
MCThreads == {t1, t2, t3}
=============================================================================
