---------------------------- MODULE BootTelemetry ----------------------------
(***************************************************************************)
(* A terminal that boots again and again and the gateway that collects its *)
(* reports.  A report may be lost, and may arrive while the terminal is    *)
(* already in a later boot.                                                *)
(***************************************************************************)
EXTENDS BootAgent, BootGateway

vars == <<agentVars, gatewayVars>>

Init == AgentInit /\ GatewayInit

AgentStep == AgentNext /\ UNCHANGED gatewayVars
GatewayStep == GatewayNext /\ UNCHANGED agentVars

\* A report reaches the gateway, or is lost with its connection.
Deliver ==
  \E report \in net :
    /\ net' = net \ {report}
    /\ ReceiveReport(report)
    /\ UNCHANGED <<pc, boots, config, meta, file, received, bb, bbFile, rc>>

Lose ==
  \E report \in net :
    /\ net' = net \ {report}
    /\ UNCHANGED <<pc, boots, config, meta, file, received, bb, bbFile, rc, gatewayVars>>

Next == AgentStep \/ GatewayStep \/ Deliver \/ Lose

Spec == Init /\ [][Next]_vars

-----------------------------------------------------------------------------
(* Properties.                                                             *)

\* A boot is counted once: whatever is lost or late, no two reports in the
\* system are of the same boot, so the number of boots and the success rate
\* the gateway shows are of different boots.
OneReportPerBoot ==
  LET arrived == handling \cup ToSet(stored)
  IN  /\ IsInjective([i \in DOMAIN stored |-> stored[i].boot])
      /\ \A r \in handling : \A i \in DOMAIN stored : r.boot # stored[i].boot
      /\ \A r \in net : \A s \in arrived : r.boot # s.boot
=============================================================================
