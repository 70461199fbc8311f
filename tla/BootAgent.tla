------------------------------ MODULE BootAgent ------------------------------
(***************************************************************************)
(* The boot agent of one terminal, client/boot_agent, with the cached      *)
(* boot.meta (boot_meta.cpp) and the black box recorder                    *)
(* (client/blackbox).                                                      *)
(*                                                                         *)
(* One run of BootAgent::Run is a boot: find the server, register,         *)
(* download boot.meta, save it, report, flush the black box.  Each step    *)
(* that waits for the network or the disk is an action; what the sockets,  *)
(* the DHCP server and the disk answer is the action's parameter.  The     *)
(* terminal may lose power between any two steps and boots again with what *)
(* is on its disk.                                                         *)
(***************************************************************************)
EXTENDS Integers, Sequences, FiniteSets, SequencesExt

CONSTANTS
  Versions,   \* the boot.metas servers hand out
  BbSlots,    \* entries that fit into the black box: BB_RING_SIZE / 26 - 1
  MaxBoots    \* bound: boots

ASSUME BootAssumption == BbSlots \in Nat /\ MaxBoots \in Nat

VARIABLES
  pc,       \* the next step of Run, "off" between boots
  boots,    \* history: boots so far; numbers the boot identifiers
  config,   \* config_: which addresses and identifiers are known
  meta,     \* BootMetaCache: meta_ and valid_
  file,     \* C:\HyperDisk\boot.meta: its cells; to Load a missing file is an empty one
  received, \* history: the versions a server has sent
  bb,       \* the black box: initialized_ and the entries
  bbFile,   \* this boot's black box file: entry_count of its header, its entries
            \* and whether the footer is there
  rc,       \* what Run returned (0, -1 or -3), "running" or "crashed"
  net       \* reports on their way to the gateway

agentVars == <<pc, boots, config, meta, file, received, bb, bbFile, rc, net>>

\* machine_id: the MAC address, a random number (that of the boot), or empty.
MacMachine == 0
NoMachine == -1

\* A boot.meta is three cells: the magic, the fields and the CRC over what comes
\* before it.  A cell that was never written reads as zero.
MetaSize == 3
Magic == "HDBM"
Image(version) == <<Magic, version, version>>
Zeros(n) == [i \in 1..n |-> "zero"]

\* ApplyDefaults leaves the CRC zero.
NoMeta == [value |-> <<Magic, "defaults", "zero">>, valid |-> FALSE]

\* What a disk may hold of cells written to a file: those before some place, and
\* either nothing or zeros from there on.
Remains(cells) ==
  UNION {{SubSeq(cells, 1, k), SubSeq(cells, 1, k) \o Zeros(Len(cells) - k)} : k \in 0..Len(cells)}

NoConfig == [server |-> FALSE, primary |-> FALSE, bootId |-> 0, machine |-> NoMachine]
NoBlackBox == [initialized |-> FALSE, entries |-> <<>>]
NoBbFile == [count |-> 0, entries |-> <<>>, footer |-> FALSE]

AgentInit ==
  /\ pc = "off" /\ boots = 0 /\ rc = "off"
  /\ config = NoConfig /\ meta = NoMeta /\ bb = NoBlackBox
  /\ file = <<>> /\ received = {}
  /\ bbFile = NoBbFile /\ net = {}

-----------------------------------------------------------------------------
(* The black box and the cached boot.meta.                                 *)

\* The phase RecordBbPhase writes for a phase of the boot.
BbPhase(phase) == IF phase = "WINPE_START" THEN "WINPE" ELSE "BOOTAGENT"

\* RecordBbPhase: dropped without a buffer, and when the buffer is full.
Record(phase, status) ==
  IF ~bb.initialized \/ Len(bb.entries) >= BbSlots THEN bb
  ELSE [bb EXCEPT !.entries = Append(@, [phase |-> BbPhase(phase), status |-> status])]

\* Faulty check: the fields are taken as they are.
ValidateCrcNever(cells) == TRUE

\* ValidateCrc: the CRC is that of the fields, and no other fields have it.
ValidateCrc(cells) == cells[2] \in Versions /\ cells[3] = cells[2]

\* What Load and LoadFromServer ask of the bytes they are given.
Acceptable(cells) ==
  /\ Len(cells) >= MetaSize
  /\ cells[1] = Magic
  /\ ValidateCrc(cells)

\* BootMetaCache::Load: the file's contents, or the defaults.
Loadable == Acceptable(file)
Load == IF Loadable THEN [value |-> SubSeq(file, 1, MetaSize), valid |-> TRUE] ELSE NoMeta

-----------------------------------------------------------------------------
(* BootAgent::Run.                                                         *)

\* main and the beginning of Run: the address may come from the command line,
\* the machine is named by its MAC address or, without one, at random; the
\* black box may get no memory.
PowerOn(serverGiven, hasMac, memory) ==
  /\ pc = "off" /\ boots < MaxBoots
  /\ boots' = boots + 1
  /\ config' = [server |-> serverGiven, primary |-> serverGiven, bootId |-> boots + 1,
                machine |-> IF hasMac THEN MacMachine ELSE boots + 1]
  /\ meta' = [value |-> Zeros(MetaSize), valid |-> FALSE]
  /\ bb' = [initialized |-> memory,
            entries |-> IF memory /\ BbSlots > 0
                        THEN <<[phase |-> BbPhase("BOOTAGENT_START"), status |-> "SUCCESS"]>>
                        ELSE <<>>]
  /\ bbFile' = NoBbFile /\ rc' = "running" /\ pc' = "discover"
  /\ UNCHANGED <<file, net, received>>

\* DiscoverServer finds an offer.  It counts when it names the server (option
\* 54), or when the command line did.
DiscoverServer(named) ==
  /\ pc = "discover" /\ (named \/ config.server)
  /\ config' = [config EXCEPT !.server = TRUE, !.primary = @ \/ named]
  /\ bb' = Record("DHCP_DISCOVER", "SUCCESS")
  /\ pc' = "register"
  /\ UNCHANGED <<boots, meta, file, bbFile, rc, net, received>>

\* No usable offer: LoadFallbackConfig replaces the configuration, keeping only
\* the server address, and succeeds if the cached boot.meta does.
LoadFallbackConfig ==
  /\ pc = "discover"
  /\ config' = [server |-> config.server, primary |-> TRUE, bootId |-> 0, machine |-> NoMachine]
  /\ meta' = Load
  /\ IF Loadable
     THEN bb' = Record("DHCP_DISCOVER", "SUCCESS") /\ pc' = "register" /\ rc' = rc
     ELSE bb' = Record("DHCP_DISCOVER", "FAIL") /\ pc' = "report" /\ rc' = "noServer"
  /\ UNCHANGED <<boots, file, bbFile, net, received>>

\* A failed registration is recorded and otherwise ignored.
RegisterTerminal(connected) ==
  /\ pc = "register"
  /\ bb' = Record("GRPC_REGISTER", IF connected THEN "SUCCESS" ELSE "FAIL")
  /\ pc' = "download"
  /\ UNCHANGED <<boots, config, meta, file, bbFile, rc, net, received>>

\* DownloadBootMeta over HTTP: any body will do, and it is not kept.
DownloadHttp(body) ==
  /\ pc = "download"
  /\ IF config.primary /\ body
     THEN pc' = "verify" /\ bb' = Record("CHUNKSTREAM_DL", "SUCCESS")
     ELSE pc' = "rpc" /\ bb' = bb
  /\ UNCHANGED <<boots, config, meta, file, bbFile, rc, net, received>>

\* LoadFromServer is answered with a boot.meta, or what is left of one; it is
\* saved next.
DownloadRpc(version) ==
  /\ pc = "rpc"
  /\ \E cells \in Remains(Image(version)) :
       /\ Acceptable(cells)
       /\ meta' = [value |-> cells, valid |-> TRUE]
  /\ received' = received \cup {version}
  /\ pc' = "save"
  /\ UNCHANGED <<boots, config, file, bb, bbFile, rc, net>>

\* Faulty error path: a failed download ends the boot.
DownloadFailsHalts ==
  /\ pc = "rpc"
  /\ meta' = Load
  /\ bb' = Record("CHUNKSTREAM_DL", "FAIL") /\ pc' = "report" /\ rc' = "noMeta"
  /\ UNCHANGED <<boots, config, file, bbFile, net, received>>

\* Neither way gives a usable boot.meta: the cached one is used, or Run halts.
DownloadFails ==
  /\ pc = "rpc"
  /\ meta' = Load
  /\ IF Loadable
     THEN bb' = Record("CHUNKSTREAM_DL", "SUCCESS") /\ pc' = "verify" /\ rc' = rc
     ELSE bb' = Record("CHUNKSTREAM_DL", "FAIL") /\ pc' = "report" /\ rc' = "noMeta"
  /\ UNCHANGED <<boots, config, file, bbFile, net, received>>

\* BootMetaCache::Save truncates the file ...
SaveTruncates ==
  /\ pc = "save"
  /\ file' = <<>> /\ pc' = "write"
  /\ UNCHANGED <<boots, config, meta, bb, bbFile, rc, net, received>>

\* ... and writes the cells, with the magic and a CRC of its own.  The write may
\* end early, and the file may not be open at all: Save's result is not looked at.
SaveEnds(cells) ==
  /\ \/ pc = "save" /\ cells = 0 /\ file' = file
     \/ pc = "write" /\ file' = SubSeq(Image(meta.value[2]), 1, cells)
  /\ bb' = Record("CHUNKSTREAM_DL", "SUCCESS")
  /\ pc' = "verify"
  /\ UNCHANGED <<boots, config, meta, bbFile, rc, net, received>>

\* VerifyIntegrity and InitializeVirtualDisk, which never fail: a boot.meta
\* that is not valid is accepted.
VerifyIntegrity ==
  /\ pc = "verify"
  /\ bb' = Record("INTEGRITY_CHECK", "SUCCESS")
  /\ rc' = "complete" /\ pc' = "report"
  /\ UNCHANGED <<boots, config, meta, file, bbFile, net, received>>

Report == [boot |-> config.bootId, machine |-> config.machine,
           result |-> IF rc = "complete" THEN "success" ELSE "fail"]

\* After the report of a complete boot the last phase is recorded.
AfterReport == IF rc = "complete" THEN Record("WINPE_START", "SUCCESS") ELSE bb

\* Faulty report: it is sent again when the answer does not come in time.
ReportSentRetries(connected) ==
  /\ pc = "report"
  /\ \/ /\ config.server /\ config.bootId # 0 /\ connected
        /\ net' = net \cup {Report}
        /\ pc' \in {"report", "flush"} /\ bb' = IF pc' = "flush" THEN AfterReport ELSE bb
     \/ net' = net /\ bb' = AfterReport /\ pc' = "flush"
  /\ UNCHANGED <<boots, config, meta, file, bbFile, rc, received>>

\* ReportTelemetry: nothing without an address or an identifier; otherwise one
\* attempt, whose answer is waited for no longer than three seconds.
ReportTelemetry(connected) ==
  /\ pc = "report"
  /\ net' = IF config.server /\ config.bootId # 0 /\ connected THEN net \cup {Report} ELSE net
  /\ bb' = AfterReport
  /\ pc' = "flush"
  /\ UNCHANGED <<boots, config, meta, file, bbFile, rc, received>>

\* The process is gone and its memory with it.
ProcessEnds ==
  /\ pc' = "off" /\ config' = NoConfig /\ meta' = NoMeta /\ bb' = NoBlackBox

\* FlushToDisk and FlushEmergency write header, entries and footer; "cells" of
\* them reach the disk, none when the file cannot be opened.  What fwrite
\* returns is not looked at.
BbFile(entries, cells) ==
  IF ~bb.initialized \/ bb.entries = <<>> \/ cells = 0 THEN bbFile
  ELSE [count |-> Len(entries),
        entries |-> SubSeq(entries, 1, Min({cells - 1, Len(entries)})),
        footer |-> cells > Len(entries) + 1]

\* Faulty flush: failed phases are left out.
FlushSuccesses(cells) ==
  /\ pc = "flush"
  /\ bbFile' = BbFile(SelectSeq(bb.entries, LAMBDA e : e.status = "SUCCESS"), cells)
  /\ ProcessEnds
  /\ UNCHANGED <<boots, file, rc, net, received>>

\* The flush, and the return from Run.
Flush(cells) ==
  /\ pc = "flush"
  /\ bbFile' = BbFile(bb.entries, cells)
  /\ ProcessEnds
  /\ UNCHANGED <<boots, file, rc, net, received>>

\* The power goes: what was on the disk stays, with what a flush has written.
\* Any part of a boot.meta that is being written may be there; one whose write
\* has returned and is still to reach the disk comes to nothing else.
Crash(cells) ==
  /\ pc # "off"
  /\ cells > 0 => pc = "flush"
  /\ rc' = "crashed" /\ ProcessEnds
  /\ bbFile' = BbFile(bb.entries, cells)
  /\ file' \in IF pc = "write" THEN Remains(Image(meta.value[2])) ELSE {file}
  /\ UNCHANGED <<boots, net, received>>

AgentNext ==
  \/ \E serverGiven, hasMac, memory \in BOOLEAN : PowerOn(serverGiven, hasMac, memory)
  \/ \E answer \in BOOLEAN :
       \/ DiscoverServer(answer) \/ RegisterTerminal(answer) \/ DownloadHttp(answer)
       \/ ReportTelemetry(answer)
  \/ \E cells \in 0..MetaSize : SaveEnds(cells)
  \/ \E cells \in 0..(Len(bb.entries) + 2) : Flush(cells) \/ Crash(cells)
  \/ LoadFallbackConfig \/ (\E version \in Versions : DownloadRpc(version))
  \/ DownloadFails \/ SaveTruncates \/ VerifyIntegrity

-----------------------------------------------------------------------------
(* tools/blackbox_analyzer.                                                *)

Unreadable == [readable |-> FALSE]

MaxOf(S) == {i \in S : \A j \in S : j <= i}
MinOf(S) == {i \in S : \A j \in S : i <= j}

\* AnalyzeBlackBox: entries per phase, and the fault localization: the phase of
\* the last success and of the first failure.
AnalyzeBlackBox(f) ==
  LET Indices(status) == {i \in DOMAIN f.entries : f.entries[i].status = status}
      PhaseOf(i) == f.entries[i].phase
  IN  IF f.count = 0 \/ Len(f.entries) < f.count \/ ~f.footer THEN Unreadable
      ELSE [readable |-> TRUE,
            counts |-> [phase \in {"BOOTAGENT", "WINPE"} |->
                          Cardinality({i \in DOMAIN f.entries : PhaseOf(i) = phase})],
            lastSuccess |-> {PhaseOf(i) : i \in MaxOf(Indices("SUCCESS"))},
            firstFail |-> {PhaseOf(i) : i \in MinOf(Indices("FAIL"))}]

-----------------------------------------------------------------------------
(* Properties.                                                             *)

Returned == {"complete", "noServer", "noMeta"}

\* A boot.meta that passes for valid is, whole, one that a server has sent to
\* this terminal, in this boot or an earlier one, whatever power losses and
\* failed writes have left in the file in between.
ValidMetaIsGenuine == meta.valid => \E version \in received : meta.value = Image(version)

\* A terminal with a whole boot.meta on its disk boots, whatever the network
\* does: Run gives up only when the file is not one a server has sent.
CachedMetaBoots ==
  [][rc' # rc /\ rc' \in {"noServer", "noMeta"} =>
       \A version \in received : file # Image(version)]_agentVars

\* The analyzer tells how a boot ended, from any file that it reads to the end:
\* the terminal went on to WinPE just when Run returned 0, and the analyzer
\* shows a failure whenever Run gave up.
BlackBoxTellsOutcome ==
  LET analysis == AnalyzeBlackBox(bbFile)
  IN  pc = "off" /\ rc \in Returned /\ analysis.readable =>
        /\ rc = "complete" <=> analysis.lastSuccess = {"WINPE"}
        /\ analysis.counts["WINPE"] = IF rc = "complete" THEN 1 ELSE 0
        /\ rc # "complete" => analysis.firstFail # {}
=============================================================================
