----------------------------- MODULE MCBootDiag -----------------------------
(* An instance of BootDiag for TLC: a disk laid out as the UEFI and NTFS   *)
(* specifications say, 8 sectors to a cluster.                             *)
EXTENDS BootDiag, TLC

MCImages ==
  {[mbr |-> (446 :> 0) @@ (450 :> 238) @@ (510 :> 85) @@ (511 :> 170),
    gpt |-> [signature |-> "EFI PART", headerSize |-> 92, myLba |-> 1,
             alternateLba |-> 9999, headerCrc |-> "CRC-32", entrySize |-> 128,
             tableCrc |-> "CRC-32", partitions |-> {"EFI", "MSR", "OS"}],
    bcd |-> [signature |-> "regf", objects |-> {"bootmgr", "osloader"}],
    winload |-> [dos |-> "MZ", lfanew |-> 256, signature |-> "PE", machine |-> "AMD64",
                 magic |-> "PE32+", subsystem |-> 10],
    hives |-> [h \in Hives |-> "regf"],
    at0 |-> [oem |-> "none", mftLcn |-> 0, sectorsPerCluster |-> 0, bytesPerSector |-> 0],
    at2048 |-> [oem |-> "NTFS", mftLcn |-> 4, sectorsPerCluster |-> 8, bytesPerSector |-> 512],
    fileRecords |-> {2048 + 32}]}
=============================================================================
