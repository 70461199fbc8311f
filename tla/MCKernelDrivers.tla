-------------------------- MODULE MCKernelDrivers --------------------------
(***************************************************************************)
(* Instances of the parts of the kernel drivers for TLC: the minifilters,  *)
(* the virtual disk and the IRP tracker.  They share no state, so a        *)
(* behaviour exercises one of them.                                        *)
(***************************************************************************)
EXTENDS FilterDrivers, PnpDisk, IrpTracker

CONSTANTS t1, t2, t3, p1, p2, i1, i2, i3

MCThreads == {t1, t2, t3}
MCPdos == {p1, p2}
MCIrps == {i1, i2, i3}
MCSymmetry == Permutations(MCThreads) \cup Permutations(MCPdos) \cup Permutations(MCIrps)

VARIABLE part

MCInit ==
  /\ FiltersInit /\ DiskInit /\ HdIrpTrackerInit
  /\ part \in {"filters", "disk", "tracker"}
MCNext ==
  \/ part = "filters" /\ FiltersNext /\ UNCHANGED <<disk, tracker, part>>
  \/ part = "disk" /\ DiskNext /\ UNCHANGED <<filters, tracker, part>>
  \/ part = "tracker" /\ TrackerNext /\ UNCHANGED <<filters, disk, part>>
MCSpec == MCInit /\ [][MCNext]_<<filters, disk, tracker, part>>
=============================================================================
