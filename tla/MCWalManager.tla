---------------------------- MODULE MCWalManager ----------------------------
(* Instances of WalManager for TLC.                                        *)
EXTENDS WalManager

\* A small entry, and one of another size whose last cell is padding.
MCShapes == {[content |-> 2, len |-> 2], [content |-> 2, len |-> 3]}
MCSmall == {[content |-> 2, len |-> 2]}

\* A caller that recovers before it writes, many processes one after the other:
\* failing writes in one setup, power loss in another.
MCRecovery ==
  [segmentSize |-> 99, maxEntries |-> 99, recoverFirst |-> TRUE, quiescent |-> TRUE,
   writesMayFail |-> FALSE, powerLoss |-> FALSE,
   maxSegments |-> 1, maxWrites |-> 4, maxOpens |-> 6]
MCFailing == [MCRecovery EXCEPT !.writesMayFail = TRUE]
MCPowerLoss == [MCRecovery EXCEPT !.powerLoss = TRUE, !.maxWrites = 3]
\* The first process in a directory, with small segments.
MCSession ==
  [segmentSize |-> 5, maxEntries |-> 2, recoverFirst |-> FALSE, quiescent |-> TRUE,
   writesMayFail |-> TRUE, powerLoss |-> TRUE,
   maxSegments |-> 3, maxWrites |-> 3, maxOpens |-> 1]
MCSetups == {MCFailing, MCPowerLoss, MCSession}

\* Processes that write at once, and processes that recover first.
MCReopen == {[MCRecovery EXCEPT !.recoverFirst = FALSE]}
MCReplay == {MCRecovery}
=============================================================================
