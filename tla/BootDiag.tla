------------------------------ MODULE BootDiag ------------------------------
(***************************************************************************)
(* The boot diagnostic tool, tools/bootdiag: seven checks of the virtual   *)
(* disk, the boot files and the image server, run one after the other,     *)
(* each retried while it fails, and a gate that blocks BootMgr when one of *)
(* the three critical ones has failed.                                     *)
(*                                                                         *)
(* What the disk and the files hold is a record of the fields that the     *)
(* checks look at.  Disk and server are reached over the network: any of   *)
(* the reads of an attempt may fail.  A check is a list of tests; the      *)
(* first that fails gives the error code.                                  *)
(***************************************************************************)
EXTENDS Integers, Sequences, FiniteSets, FiniteSetsExt

CONSTANTS
  Images,       \* contents of disk and files
  Win32,        \* the build: checks 4 and 5 need the Win32 API
  MaxRetries    \* bound: --retry

VARIABLES
  image,    \* what disk and files hold
  skip,     \* skip_checks
  retries,  \* retry_count
  check,    \* the check that runs, or 8
  attempt,  \* attempts of it so far
  results,  \* results[].result
  errors,   \* results[].error_code, 0 at first
  totals,   \* total_pass, total_fail, total_skip
  flags,    \* the bits of the boot.meta flags that are shown
  exit,     \* exit code of main, or Running
  faults    \* history: a read has failed

vars == <<image, skip, retries, check, attempt, results, errors, totals, flags, exit, faults>>

Checks == 1..7
Critical == 1..3
Running == -1

-----------------------------------------------------------------------------
(* The checks.                                                             *)

Test(ok, code) == [ok |-> ok, code |-> code]

FirstError(tests) ==
  LET failed == {k \in DOMAIN tests : ~tests[k].ok}
  IN  IF failed = {} THEN 0 ELSE tests[Min(failed)].code

\* What the checks read; each read may fail.  A file is sought under several
\* drive letters: its read fails when it is found under none.
Hives == {"SYSTEM", "SOFTWARE", "SAM", "SECURITY"}
Reads(c) ==
  << {"lba0", "lba1", "malloc", "table"}, {"bcd"}, {"winload"},
     {"startup", "socket", "connect", "answer1", "answer2", "answer3"},
     {"open", "read"}, Hives, {"lba2048", "lba0", "mft"} >>[c]

\* bootdiag_v1_gpt.  mbr gives the bytes of LBA 0; crc tells the function the
\* stored checksums were computed with, CRC-32 on a disk written to the
\* standard.
GptError(failing) ==
  LET mbr == image.mbr
      gpt == image.gpt
  IN  FirstError(<<
        Test("lba0" \notin failing, 1001),
        Test(mbr[510] + 256 * mbr[511] = 21930, 1002),   \* 0x55AA
        Test(mbr[446] = 238, 1003),                      \* 0xEE
        Test("lba1" \notin failing, 1010),
        Test(gpt.signature = "EFI PART", 1011),
        Test(gpt.headerSize = 92, 1012),
        Test(gpt.myLba = 1, 1018),
        Test(gpt.alternateLba # 0, 1019),
        Test(gpt.headerCrc = "CRC-32C", 1013),
        Test(gpt.entrySize = 128, 1014),
        Test("malloc" \notin failing, 1015),
        Test("table" \notin failing, 1016),
        Test(gpt.tableCrc = "CRC-32C", 1020),
        Test({"EFI", "OS"} \subseteq gpt.partitions, 1017) >>)

\* bootdiag_v2_bcd.  Both objects are sought in the first 4096 bytes.
BcdError(failing) ==
  FirstError(<<
    Test("bcd" \notin failing, 2001),
    Test(image.bcd.signature = "regf", 2002),
    Test("bootmgr" \in image.bcd.objects, 2003),
    Test("osloader" \in image.bcd.objects, 2004) >>)

\* bootdiag_v3_winload.  lfanew is the offset of the PE header in the 4096
\* bytes that are read.
WinloadError(failing) ==
  LET pe == image.winload
      optional == pe.lfanew + 24
  IN  FirstError(<<
        Test("winload" \notin failing, 3001),
        Test(pe.dos = "MZ", 3002),
        Test(pe.lfanew # 0 /\ pe.lfanew < 4092, 3003),
        Test(pe.signature = "PE", 3004),
        Test(pe.machine = "AMD64", 3005),
        Test(optional + 2 <= 4096, 3006),
        Test(pe.magic = "PE32+", 3007),
        Test(optional + 70 > 4096 \/ pe.subsystem \in {10, 11}, 3008) >>)

\* bootdiag_v4_block_read: three requests, whose answers may hold anything.
\* A SOCKET of Win32 is unsigned, so that it is "< 0" is never found: without
\* a socket the connect fails.
BlockReadError(failing) ==
  FirstError(<<
    Test("startup" \notin failing, 4001),
    Test({"socket", "connect"} \cap failing = {}, 4003),
    Test({"answer1", "answer2", "answer3"} \cap failing = {}, 4004) >>)

\* bootdiag_v5_paging_io and bootdiag_v6_hive.
PagingIoError(failing) ==
  FirstError(<< Test("open" \notin failing, 5001), Test("read" \notin failing, 5002) >>)

HiveError(failing) ==
  IF \E h \in Hives : h \in failing \/ image.hives[h] # "regf" THEN 6001 ELSE 0

\* bootdiag_v7_ntfs.  The partition is taken to begin at LBA 2048, and LBA 0
\* is used when that cannot be read; the sectors of a cluster are taken for a
\* power of two.
NtfsError(failing) ==
  LET boot == IF "lba2048" \in failing THEN image.at0 ELSE image.at2048
      mftLba == 2048 + boot.mftLcn * 2 ^ boot.sectorsPerCluster
  IN  FirstError(<<
        Test(~({"lba2048", "lba0"} \subseteq failing), 7001),
        Test(boot.oem = "NTFS", 7002),
        Test(boot.bytesPerSector \in {512, 4096}, 7003),
        Test("mft" \notin failing, 7004),
        Test(mftLba \in image.fileRecords, 7005) >>)

Error(c, failing) ==
  CASE c = 1 -> GptError(failing)
    [] c = 2 -> BcdError(failing)
    [] c = 3 -> WinloadError(failing)
    [] c = 4 -> IF Win32 THEN BlockReadError(failing)
                ELSE IF "socket" \in failing THEN 4002 ELSE 4099
    [] c = 5 -> IF Win32 THEN PagingIoError(failing) ELSE 5099
    [] c = 6 -> HiveError(failing)
    [] c = 7 -> NtfsError(failing)

Result(code) ==
  CASE code = 0 -> "PASS" [] code \in {4099, 5099} -> "SKIP" [] OTHER -> "FAIL"

-----------------------------------------------------------------------------
(* main.                                                                   *)

Init ==
  /\ image \in Images
  /\ skip \in SUBSET Checks
  /\ retries \in 0..MaxRetries
  /\ check = 1 /\ attempt = 0
  /\ results = [c \in Checks |-> "PASS"] /\ errors = [c \in Checks |-> 0]
  /\ totals = [pass |-> 0, fail |-> 0, skip |-> 0]
  /\ flags = {} /\ exit = Running /\ faults = FALSE

Skip ==
  /\ check \in skip
  /\ results' = [results EXCEPT ![check] = "SKIP"]
  /\ totals' = [totals EXCEPT !.skip = @ + 1]
  /\ check' = check + 1
  /\ UNCHANGED <<image, skip, retries, attempt, errors, flags, exit, faults>>

\* One attempt.  A check that passes leaves the error code of an earlier
\* attempt; a result SKIP of the check itself counts as a failure.
Attempt(failing) ==
  LET code == Error(check, failing)
      result == Result(code)
      again == result # "PASS" /\ attempt + 1 <= retries
  IN  /\ results' = [results EXCEPT ![check] = result]
      /\ errors' = [errors EXCEPT ![check] = IF code = 0 THEN @ ELSE code]
      /\ faults' = (faults \/ failing # {})
      /\ attempt' = IF again THEN attempt + 1 ELSE 0
      /\ check' = IF again THEN check ELSE check + 1
      /\ totals' = IF again THEN totals
                   ELSE IF result = "PASS" THEN [totals EXCEPT !.pass = @ + 1]
                   ELSE [totals EXCEPT !.fail = @ + 1]
      /\ UNCHANGED <<image, skip, retries, flags, exit>>

RunCheck ==
  check \in Checks \ skip /\ \E failing \in SUBSET Reads(check) : Attempt(failing)

\* bootdiag_gate_check: the exit code of main.
Gate == IF \E c \in Critical : results[c] = "FAIL" THEN 1 ELSE 0

\* bootdiag_update_boot_meta_flags: executed, a bit per failure, all passed.
Flags ==
  {2} \cup {2 + c : c \in {d \in Checks : results[d] = "FAIL"}}
      \cup (IF totals.fail = 0 /\ totals.pass = Cardinality(Checks) THEN {10} ELSE {})

Finish ==
  /\ check = 8 /\ exit = Running
  /\ flags' = Flags
  /\ exit' = Gate
  /\ UNCHANGED <<image, skip, retries, check, attempt, results, errors, totals, faults>>

Next == Skip \/ RunCheck \/ Finish

Spec == Init /\ [][Next]_vars

-----------------------------------------------------------------------------
(* Properties.                                                             *)

\* A disk as the UEFI specification lays it out: the protective MBR ends in
\* the bytes 55 AA and has type EE at byte 450, the checksums are CRC-32.
ValidGpt ==
  /\ image.mbr[510] = 85 /\ image.mbr[511] = 170 /\ image.mbr[450] = 238
  /\ image.gpt.signature = "EFI PART" /\ image.gpt.headerSize = 92
  /\ image.gpt.myLba = 1 /\ image.gpt.alternateLba # 0 /\ image.gpt.entrySize = 128
  /\ image.gpt.headerCrc = "CRC-32" /\ image.gpt.tableCrc = "CRC-32"
  /\ {"EFI", "OS"} \subseteq image.gpt.partitions

\* A terminal with a valid partition table, which every read finds, passes
\* check 1 of bootdiag: it is not kept from booting because of its disk.
ValidDiskPasses ==
  exit # Running /\ ValidGpt /\ ~faults /\ 1 \notin skip => results[1] = "PASS"
=============================================================================
