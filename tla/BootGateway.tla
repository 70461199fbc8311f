----------------------------- MODULE BootGateway -----------------------------
(***************************************************************************)
(* The boot reports of the API gateway, server/api_gateway/src/main.rs.    *)
(*                                                                         *)
(* boot_report_handler stamps a report with the time and only then takes   *)
(* the lock and appends it, so two reports may be stored against the order *)
(* of their stamps.  Beyond MaxReports the oldest are dropped.  The        *)
(* statistics are computed from what is stored when they are asked for.    *)
(***************************************************************************)
EXTENDS Integers, Sequences, FiniteSets, SequencesExt, FiniteSetsExt

CONSTANTS
  MaxReports, DrainCount,  \* 10000 and 1000
  MaxClears                \* bound: calls of boot_sessions_clear_handler

ASSUME GatewayAssumption ==
  MaxReports \in Nat /\ DrainCount \in 1..(MaxReports + 1) /\ MaxClears \in Nat

VARIABLES
  reports,   \* boot_reports
  handling,  \* reports that are stamped and not yet stored
  clock,     \* Utc::now(), in reports stamped
  clears,
  stored     \* history: the reports stored since the last clear

gatewayVars == <<reports, handling, clock, clears, stored>>

GatewayInit ==
  reports = <<>> /\ handling = {} /\ clock = 0 /\ clears = 0 /\ stored = <<>>

\* boot_report_handler, up to the lock.  The stamps are RFC 3339 strings, whose
\* order as strings is that of the times.
ReceiveReport(report) ==
  /\ handling' = handling \cup {[boot |-> report.boot, machine |-> report.machine,
                                 result |-> report.result, timestamp |-> clock + 1]}
  /\ clock' = clock + 1
  /\ UNCHANGED <<reports, clears, stored>>

\* Faulty trimming: the newest reports go.
TrimmedNewest(all) ==
  IF Len(all) > MaxReports THEN SubSeq(all, 1, Len(all) - DrainCount) ELSE all

\* The limit on the stored reports.
Trimmed(all) ==
  IF Len(all) > MaxReports THEN SubSeq(all, DrainCount + 1, Len(all)) ELSE all

\* The rest of boot_report_handler.
StoreReport(report) ==
  /\ report \in handling
  /\ handling' = handling \ {report}
  /\ reports' = Trimmed(Append(reports, report))
  /\ stored' = Append(stored, report)
  /\ UNCHANGED <<clock, clears>>

\* boot_sessions_clear_handler.
ClearSessions ==
  /\ clears < MaxClears /\ clears' = clears + 1
  /\ reports' = <<>> /\ stored' = <<>>
  /\ UNCHANGED <<handling, clock>>

GatewayNext == (\E report \in handling : StoreReport(report)) \/ ClearSessions

-----------------------------------------------------------------------------
(* The readers.                                                            *)

Succeeded(report) == report.result \in {"ok", "success"}
Count(list, Test(_)) == Len(SelectSeq(list, Test))

\* boot_stats_handler.
BootStats ==
  [machines |-> Cardinality({reports[i].machine : i \in DOMAIN reports}),
   boots    |-> Len(reports),
   success  |-> Count(reports, Succeeded),
   failed   |-> Len(reports) - Count(reports, Succeeded)]

NoMachineInfo == [boots |-> 0, success |-> 0, failed |-> 0, lastSeen |-> 0, lastBootId |-> 0]

\* Faulty summary: the report stored last counts as the latest.
CountReportLast(info, report) ==
  [boots      |-> info.boots + 1,
   success    |-> info.success + (IF Succeeded(report) THEN 1 ELSE 0),
   failed     |-> info.failed + (IF Succeeded(report) THEN 0 ELSE 1),
   lastSeen   |-> report.timestamp,
   lastBootId |-> report.boot]

\* One report of a machine, in the order they are stored.
CountReport(info, report) ==
  [boots      |-> info.boots + 1,
   success    |-> info.success + (IF Succeeded(report) THEN 1 ELSE 0),
   failed     |-> info.failed + (IF Succeeded(report) THEN 0 ELSE 1),
   lastSeen   |-> IF report.timestamp > info.lastSeen THEN report.timestamp ELSE info.lastSeen,
   lastBootId |-> IF report.timestamp > info.lastSeen THEN report.boot ELSE info.lastBootId]

\* boot_machines_handler: the entry of a machine.
MachineInfo(machine) ==
  FoldLeft(CountReport, NoMachineInfo,
           SelectSeq(reports, LAMBDA report : report.machine = machine))

-----------------------------------------------------------------------------
(* Properties.                                                             *)

\* What is dropped is dropped from the old end, and never so much that fewer
\* than MaxReports - DrainCount + 1 are left: the gateway always knows the
\* latest boots.
NewestReportsKept ==
  LET kept == Len(reports)
  IN  /\ reports = SubSeq(stored, Len(stored) - kept + 1, Len(stored))
      /\ kept = Len(stored) \/ kept > MaxReports - DrainCount

\* The two summaries the console polls tell the same story: the machines' boots
\* add up to the statistics', and the last boot of a machine is the one reported
\* last even when a slow handler stored an earlier report after it.
MachinesTellLatest ==
  LET machines == {reports[i].machine : i \in DOMAIN reports}
      Own(m)   == {i \in DOMAIN reports : reports[i].machine = m}
  IN  /\ BootStats.boots = MapThenSumSet(LAMBDA m : MachineInfo(m).boots, machines)
      /\ BootStats.failed = MapThenSumSet(LAMBDA m : MachineInfo(m).failed, machines)
      /\ \A m \in machines : \E i \in Own(m) :
            /\ MachineInfo(m).lastBootId = reports[i].boot
            /\ \A k \in Own(m) : reports[k].timestamp <= reports[i].timestamp
=============================================================================
