------------------------- MODULE KernelDriversProofs -------------------------
(***************************************************************************)
(* Proofs about the minifilters and the virtual disk, for any number of    *)
(* threads, any limit of dirty pages and any devices.                      *)
(***************************************************************************)
EXTENDS FilterDrivers, PnpDisk, FiniteSetTheorems, TLAPS

-----------------------------------------------------------------------------
(* The dirty list.                                                         *)

\* Where a thread may be.
Places == {"idle"} \cup InOverlay \cup InCache

\* HD_OVERLAY_EXTENSION as far as it is modelled.
OverlayExt ==
  [phase : {"unloaded", "zeroed", "registered", "filtering", "running", "unregistered"},
   IsStarted : BOOLEAN, base : BOOLEAN, count : Nat]

\* The writers that have passed the test of the limit and may still insert.
Passed == At({"page", "data", "insert"})

\* Every writer that has passed counts as a page: a writer passes only below
\* the limit, or after it has emptied the list itself.
DirtyIInv ==
  /\ th \in [Threads -> Places] /\ overlay \in OverlayExt
  /\ dirty \in Seq(Offsets)
  /\ overlay.count = Len(dirty)
  /\ overlay.count + Cardinality(Passed) <= MaxDirtyPages + Cardinality(Threads) - 1

\* Passed is a finite set with at most all the threads.
LEMMA PassedIsFinite ==
  /\ Cardinality(Threads) \in Nat /\ MaxDirtyPages \in Nat \ {0}
  /\ IsFiniteSet(Passed) /\ Cardinality(Passed) \in Nat
  /\ Cardinality(Passed) <= Cardinality(Threads)
<1>1. IsFiniteSet(Threads) /\ MaxDirtyPages \in Nat \ {0}
  BY FilterAssumption DEF FilterAssumption
<1>2. Passed \subseteq Threads
  BY DEF Passed, At
<1> QED
  BY <1>1, <1>2, FS_Subset, FS_CardinalityType

\* With an empty list the bound holds whoever has passed.
LEMMA EmptyIsBounded ==
  ASSUME NEW S, S \subseteq Threads
  PROVE  0 + Cardinality(S) <= MaxDirtyPages + Cardinality(Threads) - 1
<1>1. IsFiniteSet(Threads) /\ MaxDirtyPages \in Nat \ {0}
  BY FilterAssumption DEF FilterAssumption
<1>2. Cardinality(S) \in Nat /\ Cardinality(Threads) \in Nat
      /\ Cardinality(S) <= Cardinality(Threads)
  BY <1>1, FS_Subset, FS_CardinalityType
<1> QED
  BY <1>1, <1>2

\* A step that lets nobody pass and adds no page keeps the bound.
LEMMA NobodyPasses ==
  ASSUME DirtyIInv, th' \in [Threads -> Places], overlay' \in OverlayExt, dirty' \in Seq(Offsets),
         overlay'.count = Len(dirty'), overlay'.count <= overlay.count,
         Passed' \subseteq Passed
  PROVE  DirtyIInv'
<1>1. Cardinality(Passed') \in Nat /\ Cardinality(Passed') <= Cardinality(Passed)
  BY PassedIsFinite, FS_Subset, FS_CardinalityType
<1>2. overlay.count \in Nat /\ overlay'.count \in Nat
  BY DEF DirtyIInv
<1> QED
  BY <1>1, <1>2, PassedIsFinite DEF DirtyIInv

\* A thread passes below the limit.
LEMMA CountOK == ASSUME DirtyIInv, NEW t \in Threads, RedirectCount(t) PROVE DirtyIInv'
<1>1. th' \in [Threads -> Places] /\ UNCHANGED <<dirty, overlay>>
  BY DEF RedirectCount, Goes, DirtyIInv, Places, InOverlay
<1>2. CASE overlay.count >= MaxDirtyPages
  <2>1. Passed' \subseteq Passed
    BY <1>2 DEF RedirectCount, Goes, Passed, At, DirtyIInv
  <2> QED
    BY <1>1, <2>1, NobodyPasses DEF DirtyIInv
<1>3. CASE ~(overlay.count >= MaxDirtyPages)
  <2>1. Passed' \subseteq Threads
    BY DEF Passed, At
  <2>2. IsFiniteSet(Threads)
    BY FilterAssumption DEF FilterAssumption
  <2>3. Cardinality(Passed') \in Nat /\ Cardinality(Passed') <= Cardinality(Threads)
    BY <2>1, <2>2, FS_Subset, FS_CardinalityType
  <2>4. overlay.count \in Nat /\ overlay.count <= MaxDirtyPages - 1
    BY <1>3, PassedIsFinite DEF DirtyIInv
  <2> QED
    BY <1>1, <2>3, <2>4, PassedIsFinite DEF DirtyIInv
<1> QED
  BY <1>2, <1>3

\* A page comes on the list in the place of the writer that had passed.
LEMMA InsertOK ==
  ASSUME DirtyIInv, NEW t \in Threads, NEW offset \in Offsets, RedirectInsert(t, offset)
  PROVE  DirtyIInv'
<1>1. /\ th' \in [Threads -> Places] /\ dirty' \in Seq(Offsets)
      /\ Len(dirty') = Len(dirty) + 1
  BY DEF RedirectInsert, Goes, DirtyIInv, Places
<1>2. t \in Passed /\ Passed' = Passed \ {t}
  BY DEF RedirectInsert, Goes, Passed, At, DirtyIInv
<1>3. Cardinality(Passed') = Cardinality(Passed) - 1
  BY <1>2, PassedIsFinite, FS_RemoveElement, Zenon
<1>4. overlay'.count = overlay.count + 1 /\ overlay' \in OverlayExt
  BY DEF RedirectInsert, OverlayExt, DirtyIInv
<1> QED
  BY <1>1, <1>3, <1>4, PassedIsFinite DEF DirtyIInv

\* Emptying the list gives every page back.
LEMMA SyncEndOK == ASSUME DirtyIInv, NEW t \in Threads, SyncEnd(t) PROVE DirtyIInv'
<1>1. /\ th' \in [Threads -> Places] /\ UNCHANGED <<dirty, overlay>> /\ dirty = <<>>
  BY DEF SyncEnd, Goes, DirtyIInv, Places, InOverlay
<1>2. Passed' \subseteq Threads
  BY DEF Passed, At
<1>3. overlay'.count = 0
  BY <1>1 DEF DirtyIInv
<1>4. 0 + Cardinality(Passed') <= MaxDirtyPages + Cardinality(Threads) - 1
  BY <1>2, EmptyIsBounded
<1> QED
  BY <1>1, <1>3, <1>4 DEF DirtyIInv

\* A new load of the driver starts with an empty list.
LEMMA SetupOK == ASSUME DirtyIInv, NEW ok \in BOOLEAN, OverlaySetup(ok) PROVE DirtyIInv'
<1>1. th' = th /\ dirty' = <<>> /\ overlay'.count = 0 /\ overlay' \in OverlayExt
  BY DEF OverlaySetup, OverlayExt
<1>2. Passed' \subseteq Threads
  BY DEF Passed, At
<1>3. 0 + Cardinality(Passed') <= MaxDirtyPages + Cardinality(Threads) - 1
  BY <1>2, EmptyIsBounded
<1> QED
  BY <1>1, <1>3 DEF DirtyIInv

\* A page leaves the list.
LEMMA SyncPageOK == ASSUME DirtyIInv, NEW t \in Threads, SyncPage(t) PROVE DirtyIInv'
<1>1. dirty # <<>> /\ dirty' = Tail(dirty) /\ th' = th /\ overlay'.count = overlay.count - 1
  BY DEF SyncPage, DirtyIInv, OverlayExt
<1>2. dirty' \in Seq(Offsets) /\ Len(dirty') = Len(dirty) - 1 /\ Len(dirty') \in Nat
  BY <1>1 DEF DirtyIInv
<1>3. Passed' = Passed
  BY <1>1 DEF Passed, At
<1>4. overlay' \in OverlayExt
  BY <1>1, <1>2 DEF SyncPage, DirtyIInv, OverlayExt
<1> QED
  BY <1>1, <1>2, <1>3, <1>4, NobodyPasses DEF DirtyIInv

\* Every other step leaves the list and the count alone, and the threads that
\* move either had passed before or do not pass.
LEMMA OtherOK ==
  ASSUME DirtyIInv, UNCHANGED <<dirty, overlay.count>>, overlay' \in OverlayExt,
         \/ th' = th
         \/ \E t \in Threads, from \in Places, to \in Places :
              Goes(t, from, to)
              /\ (to \in {"page", "data", "insert"} => from \in {"page", "data", "insert"})
  PROVE  DirtyIInv'
<1>1. th' \in [Threads -> Places]
  BY DEF DirtyIInv, Goes
<1>2. Passed' \subseteq Passed
  BY DEF DirtyIInv, Goes, Passed, At
<1>3. overlay'.count = overlay.count /\ overlay.count \in Nat
  BY DEF DirtyIInv
<1> QED
  BY <1>1, <1>2, <1>3, NobodyPasses DEF DirtyIInv

\* Every step of the filters preserves the invariant.
LEMMA FiltersStepOK == DirtyIInv /\ [FiltersNext]_filters => DirtyIInv'
<1> SUFFICES ASSUME DirtyIInv, [FiltersNext]_filters PROVE DirtyIInv'
  OBVIOUS
<1> USE DEF Places, InOverlay, InCache
<1>0. overlay \in OverlayExt
  BY DEF DirtyIInv
<1>1. CASE \E ok \in BOOLEAN : OverlaySetup(ok)
  BY <1>1, SetupOK
<1>2. CASE \E ok \in BOOLEAN : \/ OverlayStart("zeroed", "registered", ok)
                              \/ OverlayStart("registered", "filtering", ok)
  <2>1. UNCHANGED <<dirty, overlay.count, th>> /\ overlay' \in OverlayExt
    BY <1>2 DEF OverlayStart, OverlayExt, DirtyIInv
  <2> QED
    BY <2>1, OtherOK
<1>3. CASE \E ok \in BOOLEAN : \/ CacheStart("zeroed", "registered", ok)
                              \/ CacheStart("registered", "filtering", ok)
  BY <1>0, <1>3, OtherOK DEF CacheStart
<1>4. CASE OverlayStarted \/ OverlayUnregister \/ OverlayUnload
  <2>1. UNCHANGED <<dirty, overlay.count, th>> /\ overlay' \in OverlayExt
    BY <1>4, Zenon DEF OverlayStarted, OverlayUnregister, OverlayUnload, OverlayExt, DirtyIInv
  <2> QED
    BY <2>1, OtherOK
<1>5. CASE CacheSetup \/ CacheStarted \/ HdCacheFilterUnload
  BY <1>0, <1>5, OtherOK DEF CacheSetup, CacheStarted, HdCacheFilterUnload
<1>6. ASSUME NEW t \in Threads, HdOverlayPreWrite(t) \/ HdOverlayPostWrite(t) \/ RedirectBegin(t)
      PROVE  DirtyIInv'
  BY <1>0, <1>6, OtherOK DEF HdOverlayPreWrite, HdOverlayPostWrite, RedirectBegin
<1>7. ASSUME NEW t \in Threads, RedirectCount(t) PROVE DirtyIInv'
  BY <1>7, CountOK
<1>8. ASSUME NEW t \in Threads, NEW ok \in BOOLEAN, RedirectPage(t, ok) \/ RedirectData(t, ok)
      PROVE  DirtyIInv'
  BY <1>0, <1>8, OtherOK DEF RedirectPage, RedirectData
<1>9. ASSUME NEW t \in Threads, NEW offset \in Offsets, RedirectInsert(t, offset)
      PROVE  DirtyIInv'
  BY <1>9, InsertOK
<1>10. ASSUME NEW t \in Threads, SyncBegin(t) PROVE DirtyIInv'
  BY <1>0, <1>10, OtherOK DEF SyncBegin
<1>11. ASSUME NEW t \in Threads, SyncPage(t) PROVE DirtyIInv'
  BY <1>11, SyncPageOK
<1>12. ASSUME NEW t \in Threads, SyncEnd(t) PROVE DirtyIInv'
  BY <1>12, SyncEndOK
<1>13. ASSUME NEW t \in Threads,
              \/ HdCachePreRead(t) \/ HdCachePostRead(t) \/ InsertStatus(t)
              \/ HdCacheL1Invalidate(t) \/ \E ok \in BOOLEAN : HdCacheL1Insert(t, ok)
       PROVE  DirtyIInv'
  BY <1>0, <1>13, OtherOK
  DEF HdCachePreRead, HdCachePostRead, InsertStatus, HdCacheL1Invalidate, HdCacheL1Insert
<1>14. CASE UNCHANGED filters
  BY <1>0, <1>14, OtherOK DEF filters
<1> QED
  BY <1>1, <1>2, <1>3, <1>4, <1>5, <1>6, <1>7, <1>8, <1>9, <1>10, <1>11, <1>12, <1>13, <1>14
  DEF FiltersNext

\* For any number of threads and any limit, the dirty list exceeds the limit by
\* less than the number of threads, and DirtyPageCount is its length.
THEOREM DirtyListStaysBounded == FiltersSpec => []DirtyListIsBounded
<1>1. FiltersInit => DirtyIInv
  <2> SUFFICES ASSUME FiltersInit PROVE DirtyIInv
    OBVIOUS
  <2>1. Passed \subseteq Threads
    BY DEF Passed, At
  <2>2. 0 + Cardinality(Passed) <= MaxDirtyPages + Cardinality(Threads) - 1
    BY <2>1, EmptyIsBounded
  <2>3. /\ th \in [Threads -> Places] /\ dirty = <<>> /\ overlay.count = 0
        /\ overlay \in OverlayExt
    BY DEF FiltersInit, Places, OverlayExt
  <2> QED
    BY <2>2, <2>3 DEF DirtyIInv
<1>2. DirtyIInv => DirtyListIsBounded
  BY PassedIsFinite DEF DirtyIInv, DirtyListIsBounded
<1> QED
  BY <1>1, <1>2, FiltersStepOK, PTL DEF FiltersSpec

-----------------------------------------------------------------------------
(* The virtual disk.                                                       *)

NodeStates ==
  {"present", "added", "starting", "restarting", "started", "stopQueried", "stopped",
   "removeQueried", "failed", "restartFailed", "surprise"}

Fdos == [exists : BOOLEAN, Started : BOOLEAN, registered : BOOLEAN]
OsStates == [attached : BOOLEAN, name : BOOLEAN, enabled : BOOLEAN]

\* The plug-and-play manager has a device in use exactly while it exists, and
\* handles only of such a device; the system's side follows the extension's.
DeviceOK(f, o, n, h) ==
  /\ f.exists <=> n # "present"
  /\ ~f.exists => h = 0 /\ ~o.attached /\ ~o.name /\ ~o.enabled
  /\ f.exists => o.attached
  /\ f.exists => (o.name <=> f.registered)
  /\ f.exists => (o.enabled => f.registered /\ f.Started)

DiskIInv ==
  /\ fdo \in [Pdos -> Fdos] /\ os \in [Pdos -> OsStates]
  /\ node \in [Pdos -> NodeStates] /\ handles \in [Pdos -> Nat]
  /\ \A p \in Pdos : DeviceOK(fdo[p], os[p], node[p], handles[p])

\* A step about one device need only be checked there.
LEMMA OneDevice ==
  ASSUME DiskIInv, NEW p \in Pdos,
         NEW f \in Fdos, NEW o \in OsStates, NEW n \in NodeStates, NEW h \in Nat,
         fdo' = [fdo EXCEPT ![p] = f], os' = [os EXCEPT ![p] = o],
         node' = [node EXCEPT ![p] = n], handles' = [handles EXCEPT ![p] = h],
         DeviceOK(f, o, n, h)
  PROVE  DiskIInv'
<1>1. /\ fdo' \in [Pdos -> Fdos] /\ os' \in [Pdos -> OsStates]
      /\ node' \in [Pdos -> NodeStates] /\ handles' \in [Pdos -> Nat]
  BY DEF DiskIInv
<1>2. ASSUME NEW q \in Pdos PROVE DeviceOK(fdo'[q], os'[q], node'[q], handles'[q])
  <2>1. CASE q = p
    BY <2>1 DEF DiskIInv
  <2>2. CASE q # p
    BY <2>2 DEF DiskIInv
  <2> QED
    BY <2>1, <2>2
<1> QED
  BY <1>1, <1>2 DEF DiskIInv

\* NothingLeftBehind for one device.
NothingLeft(f, o, h) ==
  IF f.exists
  THEN /\ o.attached
       /\ o.name = f.registered
       /\ o.enabled => f.registered /\ f.Started
  ELSE o = Clean /\ h = 0

\* The record forms of what DeviceOK says field by field.
LEMMA RecordForms ==
  ASSUME NEW f \in Fdos, NEW o \in OsStates, NEW n, NEW h, DeviceOK(f, o, n, h)
  PROVE  NothingLeft(f, o, h)
  BY DEF NothingLeft, DeviceOK, Clean, Fdos, OsStates

\* What is known of one device.
LEMMA DeviceFacts ==
  ASSUME DiskIInv, NEW p \in Pdos
  PROVE  /\ fdo[p] \in Fdos /\ os[p] \in OsStates /\ node[p] \in NodeStates /\ handles[p] \in Nat
         /\ DeviceOK(fdo[p], os[p], node[p], handles[p])
         /\ fdo = [fdo EXCEPT ![p] = fdo[p]] /\ os = [os EXCEPT ![p] = os[p]]
         /\ node = [node EXCEPT ![p] = node[p]] /\ handles = [handles EXCEPT ![p] = handles[p]]
  BY DEF DiskIInv

\* A new device, or none.
LEMMA AddDeviceOK ==
  ASSUME DiskIInv, NEW p \in Pdos, NEW c \in BOOLEAN, NEW a \in BOOLEAN, NEW r \in BOOLEAN,
         HdBlkAddDevice(p, c, a, r)
  PROVE  DiskIInv'
<1>1. CASE c /\ ~NameTaken /\ a
  <2> DEFINE f == [exists |-> TRUE, Started |-> FALSE, registered |-> r]
             o == [attached |-> TRUE, name |-> r, enabled |-> FALSE]
  <2>1. /\ fdo' = [fdo EXCEPT ![p] = f] /\ os' = [os EXCEPT ![p] = o]
        /\ node' = [node EXCEPT ![p] = "added"] /\ handles' = handles
    BY <1>1 DEF HdBlkAddDevice
  <2>2. f \in Fdos /\ o \in OsStates /\ "added" \in NodeStates
    BY DEF Fdos, OsStates, NodeStates
  <2>3. DeviceOK(f, o, "added", handles[p])
    BY DEF DeviceOK
  <2> HIDE DEF f, o
  <2> QED
    BY <2>1, <2>2, <2>3, OneDevice, DeviceFacts, Zenon
<1>2. CASE ~(c /\ ~NameTaken /\ a)
  BY <1>2 DEF HdBlkAddDevice, DiskIInv
<1> QED
  BY <1>1, <1>2

\* A step that only the plug-and-play manager sees.
LEMMA ForwardedOK ==
  ASSUME DiskIInv, NEW p \in Pdos, NEW n \in NodeStates \ {"present"},
         node[p] # "present", node' = [node EXCEPT ![p] = n], Forwarded
  PROVE  DiskIInv'
<1>1. DeviceOK(fdo[p], os[p], n, handles[p])
  BY DeviceFacts DEF DeviceOK
<1>2. /\ fdo' = [fdo EXCEPT ![p] = fdo[p]] /\ os' = [os EXCEPT ![p] = os[p]]
      /\ handles' = [handles EXCEPT ![p] = handles[p]]
  BY DeviceFacts DEF Forwarded
<1>3. PICK f \in Fdos, o \in OsStates, h \in Nat : f = fdo[p] /\ o = os[p] /\ h = handles[p]
  BY DeviceFacts
<1> QED
  BY <1>1, <1>2, <1>3, OneDevice, Zenon

\* The interface is enabled only after Started is set, whatever becomes of the START.
LEMMA StartOK ==
  ASSUME DiskIInv, NEW p \in Pdos, NEW lower \in {"success", "pending", "failure"},
         NEW enabled \in BOOLEAN, StartDevice(p, lower, enabled)
  PROVE  DiskIInv'
<1>1. PICK n \in NodeStates \ {"present"} : node' = [node EXCEPT ![p] = n]
  BY DEF StartDevice, Moves, NodeStates
<1>2. node[p] # "present"
  BY DEF StartDevice, Moves
<1>3. CASE lower = "failure"
  BY <1>1, <1>2, <1>3, ForwardedOK, Zenon DEF StartDevice, Forwarded
<1>4. CASE lower # "failure"
  <2> DEFINE f == [fdo[p] EXCEPT !.Started = TRUE]
             o == [os[p] EXCEPT !.enabled = os[p].enabled \/ (fdo[p].registered /\ enabled)]
  <2>1. /\ fdo' = [fdo EXCEPT ![p] = f] /\ os' = [os EXCEPT ![p] = o] /\ handles' = handles
    BY <1>4, DeviceFacts DEF StartDevice, DiskIInv
  <2>2. f \in Fdos /\ o \in OsStates
    BY DeviceFacts, Zenon DEF Fdos, OsStates
  <2>3. /\ f.exists <=> fdo[p].exists
        /\ f.registered <=> fdo[p].registered
        /\ f.Started
        /\ o.attached <=> os[p].attached
        /\ o.name <=> os[p].name
        /\ o.enabled <=> os[p].enabled \/ (fdo[p].registered /\ enabled)
    BY DeviceFacts DEF Fdos, OsStates
  <2> HIDE DEF f, o
  <2>4. DeviceOK(f, o, n, handles[p])
    BY <2>3, <1>1, <1>2, DeviceFacts DEF DeviceOK
  <2> QED
    BY <1>1, <2>1, <2>2, <2>4, OneDevice, DeviceFacts, Zenon
<1> QED
  BY <1>3, <1>4

\* A device that is gone takes its interface with it.
LEMMA SurpriseOK == ASSUME DiskIInv, NEW p \in Pdos, SurpriseRemoval(p) PROVE DiskIInv'
<1> DEFINE f == [fdo[p] EXCEPT !.Started = FALSE]
           o == [os[p] EXCEPT !.enabled = IF fdo[p].registered THEN FALSE ELSE os[p].enabled]
<1>1. /\ fdo' = [fdo EXCEPT ![p] = f] /\ os' = [os EXCEPT ![p] = o] /\ handles' = handles
      /\ node' = [node EXCEPT ![p] = "surprise"] /\ node[p] # "present"
  BY DeviceFacts DEF SurpriseRemoval, DiskIInv, Moves
<1>2. f \in Fdos /\ o \in OsStates /\ "surprise" \in NodeStates
  BY DeviceFacts, Zenon DEF Fdos, OsStates, NodeStates
<1>3. /\ f.exists <=> fdo[p].exists
      /\ f.registered <=> fdo[p].registered
      /\ ~f.Started
      /\ o.attached <=> os[p].attached
      /\ o.name <=> os[p].name
      /\ o.enabled <=> os[p].enabled /\ ~fdo[p].registered
  BY DeviceFacts DEF Fdos, OsStates
<1> HIDE DEF f, o
<1>4. DeviceOK(f, o, "surprise", handles[p])
  BY <1>1, <1>3, DeviceFacts DEF DeviceOK
<1> QED
  BY <1>1, <1>2, <1>4, OneDevice, DeviceFacts, Zenon

\* A removed device leaves nothing, with or without an interface.
LEMMA RemoveOK == ASSUME DiskIInv, NEW p \in Pdos, RemoveDevice(p) PROVE DiskIInv'
<1> DEFINE o == IF fdo[p].registered THEN Clean ELSE [os[p] EXCEPT !.attached = FALSE]
<1>1. /\ fdo' = [fdo EXCEPT ![p] = NoFdo] /\ os' = [os EXCEPT ![p] = o] /\ handles' = handles
      /\ node' = [node EXCEPT ![p] = "present"] /\ node[p] # "present" /\ handles[p] = 0
  BY DeviceFacts DEF RemoveDevice, DiskIInv, Moves
<1>2. NoFdo \in Fdos /\ o \in OsStates /\ "present" \in NodeStates
  BY DeviceFacts, Zenon DEF Fdos, OsStates, NodeStates, NoFdo, Clean
<1>3. ~o.attached /\ ~o.name /\ ~o.enabled
  BY <1>1, DeviceFacts DEF OsStates, DeviceOK, Clean
<1> HIDE DEF o
<1>4. DeviceOK(NoFdo, o, "present", handles[p])
  BY <1>1, <1>3 DEF DeviceOK, NoFdo
<1> QED
  BY <1>1, <1>2, <1>4, OneDevice, DeviceFacts, Zenon

\* Files are opened on devices that exist.
LEMMA FilesOK ==
  ASSUME DiskIInv, NEW p \in Pdos, HdBlkDispatchCreate(p) \/ HdBlkDispatchClose(p)
  PROVE  DiskIInv'
<1>1. PICK h \in Nat : handles' = [handles EXCEPT ![p] = h] /\ (node[p] = "present" => h = 0)
  <2>1. node[p] = "present" => handles[p] = 0
    BY DeviceFacts DEF DeviceOK
  <2> QED
    BY <2>1, DeviceFacts DEF HdBlkDispatchCreate, HdBlkDispatchClose
<1>2. /\ fdo' = [fdo EXCEPT ![p] = fdo[p]] /\ os' = [os EXCEPT ![p] = os[p]]
      /\ node' = [node EXCEPT ![p] = node[p]]
  BY DeviceFacts DEF HdBlkDispatchCreate, HdBlkDispatchClose
<1>3. DeviceOK(fdo[p], os[p], node[p], h)
  BY <1>1, DeviceFacts DEF DeviceOK
<1>4. PICK f \in Fdos, o \in OsStates, n \in NodeStates : f = fdo[p] /\ o = os[p] /\ n = node[p]
  BY DeviceFacts
<1> QED
  BY <1>1, <1>2, <1>3, <1>4, OneDevice, Zenon

\* Every step of the disk preserves the invariant.
LEMMA DiskStepOK == DiskIInv /\ [DiskNext]_disk => DiskIInv'
<1> SUFFICES ASSUME DiskIInv, [DiskNext]_disk PROVE DiskIInv'
  OBVIOUS
<1>1. ASSUME NEW p \in Pdos, NEW ok \in BOOLEAN, StartCompleted(p, ok) PROVE DiskIInv'
  BY <1>1, ForwardedOK DEF StartCompleted, Moves, NodeStates
<1>2. ASSUME NEW p \in Pdos,
             QueryStop(p) \/ CancelStop(p) \/ StopDevice(p) \/ QueryRemove(p) \/ CancelRemove(p)
      PROVE  DiskIInv'
  BY <1>2, ForwardedOK
  DEF QueryStop, CancelStop, StopDevice, QueryRemove, CancelRemove, Moves, NodeStates
<1>3. CASE UNCHANGED disk
  BY <1>3 DEF disk, DiskIInv
<1> QED
  BY <1>1, <1>2, <1>3, AddDeviceOK, StartOK, SurpriseOK, RemoveOK, FilesOK DEF DiskNext

\* For any set of devices a device that is gone has left nothing with the
\* system, and the interface of one that is there follows Started.
THEOREM DiskLeavesNothingBehind == DiskSpec => []NothingLeftBehind
<1>1. DiskInit => DiskIInv
  <2> SUFFICES ASSUME DiskInit PROVE DiskIInv
    OBVIOUS
  <2>1. NoFdo \in Fdos /\ Clean \in OsStates /\ "present" \in NodeStates
    BY DEF NoFdo, Clean, Fdos, OsStates, NodeStates
  <2>2. DeviceOK(NoFdo, Clean, "present", 0)
    BY DEF DeviceOK, NoFdo, Clean
  <2> QED
    BY <2>1, <2>2 DEF DiskInit, DiskIInv
<1>2. DiskIInv => NothingLeftBehind
  <2>1. ASSUME DiskIInv, NEW p \in Pdos
        PROVE  NothingLeft(fdo[p], os[p], handles[p])
    BY <2>1, DeviceFacts, RecordForms
  <2> QED
    BY <2>1, Zenon DEF NothingLeft, NothingLeftBehind
<1> QED
  BY <1>1, <1>2, DiskStepOK, PTL DEF DiskSpec
=============================================================================
