---------------------------- MODULE FilterDrivers ----------------------------
(***************************************************************************)
(* The two minifilters, HyperOverlay (driver/overlay/overlay_driver.c) and *)
(* HyperCache (driver/cache/cache_driver.c): setup and unloading step by   *)
(* step, their callbacks, the dirty list and the buffer of the cache.      *)
(*                                                                         *)
(* Threads call them; a step is what a thread does between two reads or    *)
(* writes that others see.  The spin locks make a locked section one step, *)
(* except the loop of HdOverlaySyncDirtyPages, whose count the unlocked    *)
(* test in HdOverlayWriteRedirect sees go down page by page.  The counters *)
(* of hits and misses are never read and are left out.                     *)
(***************************************************************************)
EXTENDS Integers, Sequences, FiniteSets, SequencesExt

CONSTANTS
  Threads,
  MaxDirtyPages,  \* HD_OVERLAY_MAX_DIRTY_PAGES
  Offsets         \* block offsets of redirected writes

ASSUME FilterAssumption ==
  /\ IsFiniteSet(Threads) /\ Threads # {}
  /\ MaxDirtyPages \in Nat \ {0}

VARIABLES
  overlay,  \* g_OverlayExt: [phase, IsStarted, base, count]
  dirty,    \* DirtyListHead: the offsets of the pages
  lock,     \* the thread that holds DirtyListLock, or NoThread
  cache,    \* g_CacheExt: [phase, IsStarted, buffer]
  th,       \* where each thread is
  pool      \* blocks allocated and not freed since the drivers were loaded

filters == <<overlay, dirty, lock, cache, th, pool>>

NoThread == "none"

FiltersInit ==
  /\ overlay = [phase |-> "unloaded", IsStarted |-> FALSE, base |-> FALSE, count |-> 0]
  /\ cache = [phase |-> "unloaded", IsStarted |-> FALSE, buffer |-> FALSE]
  /\ dirty = <<>> /\ lock = NoThread
  /\ th = [t \in Threads |-> "idle"]
  /\ pool = [base |-> 0, page |-> 0, data |-> 0, buffer |-> 0]

Goes(t, from, to) == th[t] = from /\ th' = [th EXCEPT ![t] = to]
Allocated(tag) == [pool EXCEPT ![tag] = @ + 1]
Freed(tag) == [pool EXCEPT ![tag] = @ - 1]

\* The threads inside the functions of the overlay, and of the cache.
InOverlay == {"count", "full", "sync", "syncOnly", "page", "data", "insert", "postWrite"}
InCache == {"postRead", "insertStatus"}
Nobody(places) == \A t \in Threads : th[t] \notin places

-----------------------------------------------------------------------------
(* HyperOverlay: setup and unloading.                                      *)

\* The extension is cleared and the RAM overlay allocated; without memory the
\* setup goes on.
OverlaySetup(allocated) ==
  /\ overlay.phase = "unloaded"
  /\ overlay' = [phase |-> "zeroed", IsStarted |-> FALSE, base |-> allocated, count |-> 0]
  /\ dirty' = <<>>
  /\ pool' = [pool EXCEPT !.base = IF allocated THEN 1 ELSE 0, !.page = 0, !.data = 0]
  /\ UNCHANGED <<lock, cache, th>>

\* FltRegisterFilter and FltStartFiltering; a failure ends DriverEntry, and
\* the driver is unloaded without its unload routine.
OverlayStart(from, to, ok) ==
  /\ overlay.phase = from
  /\ overlay' = [overlay EXCEPT !.phase = IF ok THEN to ELSE "unloaded"]
  /\ UNCHANGED <<dirty, lock, cache, th, pool>>

OverlayStarted ==
  /\ overlay.phase = "filtering"
  /\ overlay' = [overlay EXCEPT !.phase = "running", !.IsStarted = TRUE]
  /\ UNCHANGED <<dirty, lock, cache, th, pool>>

\* FltUnregisterFilter returns when no callback runs; whoever calls the other
\* functions has stopped before the driver is unloaded.
OverlayUnregister ==
  /\ overlay.phase = "running" /\ Nobody(InOverlay)
  /\ overlay' = [overlay EXCEPT !.phase = "unregistered"]
  /\ UNCHANGED <<dirty, lock, cache, th, pool>>

\* The dirty pages stay allocated.
OverlayUnload ==
  /\ overlay.phase = "unregistered"
  /\ overlay' = [overlay EXCEPT !.phase = "unloaded", !.IsStarted = FALSE, !.base = FALSE]
  /\ pool' = IF overlay.base THEN Freed("base") ELSE pool
  /\ UNCHANGED <<dirty, lock, cache, th>>

OverlayFilters == overlay.phase \in {"filtering", "running"}

\* The write callbacks: nothing is redirected.
HdOverlayPreWrite(t) ==
  /\ OverlayFilters
  /\ Goes(t, "idle", IF overlay.IsStarted THEN "postWrite" ELSE "idle")
  /\ UNCHANGED <<overlay, dirty, lock, cache, pool>>

HdOverlayPostWrite(t) ==
  /\ Goes(t, "postWrite", "idle")
  /\ UNCHANGED <<overlay, dirty, lock, cache, pool>>

-----------------------------------------------------------------------------
(* HyperOverlay: redirected writes.                                        *)

\* Without the RAM overlay the write is refused.
RedirectBegin(t) ==
  /\ overlay.phase = "running"
  /\ Goes(t, "idle", IF overlay.base THEN "count" ELSE "idle")
  /\ UNCHANGED <<overlay, dirty, lock, cache, pool>>

\* Faulty test: off by one.
RedirectCountLate(t) ==
  /\ Goes(t, "count", IF overlay.count > MaxDirtyPages THEN "full" ELSE "page")
  /\ UNCHANGED <<overlay, dirty, lock, cache, pool>>

\* DirtyPageCount is tested without the lock.
RedirectCount(t) ==
  /\ Goes(t, "count", IF overlay.count >= MaxDirtyPages THEN "full" ELSE "page")
  /\ UNCHANGED <<overlay, dirty, lock, cache, pool>>

RedirectPage(t, allocated) ==
  /\ Goes(t, "page", IF allocated THEN "data" ELSE "idle")
  /\ pool' = IF allocated THEN Allocated("page") ELSE pool
  /\ UNCHANGED <<overlay, dirty, lock, cache>>

\* Faulty error path: the page is kept.
RedirectDataKeepsPage(t, allocated) ==
  /\ Goes(t, "data", IF allocated THEN "insert" ELSE "idle")
  /\ pool' = IF allocated THEN Allocated("data") ELSE pool
  /\ UNCHANGED <<overlay, dirty, lock, cache>>

RedirectData(t, allocated) ==
  /\ Goes(t, "data", IF allocated THEN "insert" ELSE "idle")
  /\ pool' = IF allocated THEN Allocated("data") ELSE Freed("page")
  /\ UNCHANGED <<overlay, dirty, lock, cache>>

RedirectInsert(t, offset) ==
  /\ lock = NoThread
  /\ Goes(t, "insert", "idle")
  /\ dirty' = Append(dirty, offset)
  /\ overlay' = [overlay EXCEPT !.count = @ + 1]
  /\ UNCHANGED <<lock, cache, pool>>

\* HdOverlaySyncDirtyPages, from a redirected write that finds the list full
\* or called directly (HdOverlayInvalidateAll): take the lock, free the pages
\* one by one, release the lock.
SyncBegin(t) ==
  /\ lock = NoThread /\ lock' = t
  /\ \/ Goes(t, "full", "sync")
     \/ overlay.phase = "running" /\ Goes(t, "idle", "syncOnly")
  /\ UNCHANGED <<overlay, dirty, cache, pool>>

SyncPage(t) ==
  /\ th[t] \in {"sync", "syncOnly"} /\ dirty # <<>>
  /\ dirty' = Tail(dirty)
  /\ overlay' = [overlay EXCEPT !.count = @ - 1]
  /\ pool' = [pool EXCEPT !.page = @ - 1, !.data = @ - 1]
  /\ UNCHANGED <<lock, cache, th>>

SyncEnd(t) ==
  /\ dirty = <<>> /\ lock' = NoThread
  /\ Goes(t, "sync", "page") \/ Goes(t, "syncOnly", "idle")
  /\ UNCHANGED <<overlay, dirty, cache, pool>>

-----------------------------------------------------------------------------
(* HyperCache.                                                             *)

CacheSetup ==
  /\ cache.phase = "unloaded"
  /\ cache' = [phase |-> "zeroed", IsStarted |-> FALSE, buffer |-> FALSE]
  /\ pool' = [pool EXCEPT !.buffer = 0]
  /\ UNCHANGED <<overlay, dirty, lock, th>>

CacheStart(from, to, ok) ==
  /\ cache.phase = from
  /\ cache' = [cache EXCEPT !.phase = IF ok THEN to ELSE "unloaded"]
  /\ UNCHANGED <<overlay, dirty, lock, th, pool>>

CacheStarted ==
  /\ cache.phase = "filtering"
  /\ cache' = [cache EXCEPT !.phase = "running", !.IsStarted = TRUE]
  /\ UNCHANGED <<overlay, dirty, lock, th, pool>>

\* The buffer stays allocated.
HdCacheFilterUnload ==
  /\ cache.phase = "running" /\ Nobody(InCache)
  /\ cache' = [cache EXCEPT !.phase = "unloaded", !.IsStarted = FALSE]
  /\ UNCHANGED <<overlay, dirty, lock, th, pool>>

\* A hit completes the read in the callback; otherwise it goes down, and comes
\* back to HdCachePostRead.  HdCachePreWrite lets every write pass.
HdCachePreRead(t) ==
  /\ cache.phase \in {"filtering", "running"}
  /\ Goes(t, "idle", IF cache.IsStarted /\ cache.buffer THEN "idle" ELSE "postRead")
  /\ UNCHANGED <<overlay, dirty, lock, cache, pool>>

HdCachePostRead(t) ==
  /\ Goes(t, "postRead", "idle")
  /\ UNCHANGED <<overlay, dirty, lock, cache, pool>>

\* Only the first buffer is kept; the status is read from the extension after
\* the lock is released.
HdCacheL1Insert(t, allocated) ==
  /\ cache.phase = "running" /\ Goes(t, "idle", "insertStatus")
  /\ IF ~cache.buffer /\ allocated
     THEN cache' = [cache EXCEPT !.buffer = TRUE] /\ pool' = Allocated("buffer")
     ELSE UNCHANGED <<cache, pool>>
  /\ UNCHANGED <<overlay, dirty, lock>>

InsertStatus(t) ==
  /\ Goes(t, "insertStatus", "idle")
  /\ UNCHANGED <<overlay, dirty, lock, cache, pool>>

HdCacheL1Invalidate(t) ==
  /\ cache.phase = "running" /\ th[t] = "idle" /\ cache.buffer
  /\ cache' = [cache EXCEPT !.buffer = FALSE] /\ pool' = Freed("buffer")
  /\ UNCHANGED <<overlay, dirty, lock, th>>

FiltersNext ==
  \/ \E ok \in BOOLEAN :
       \/ OverlaySetup(ok)
       \/ OverlayStart("zeroed", "registered", ok) \/ OverlayStart("registered", "filtering", ok)
       \/ CacheStart("zeroed", "registered", ok) \/ CacheStart("registered", "filtering", ok)
  \/ OverlayStarted \/ OverlayUnregister \/ OverlayUnload
  \/ CacheSetup \/ CacheStarted \/ HdCacheFilterUnload
  \/ \E t \in Threads :
       \/ HdOverlayPreWrite(t) \/ HdOverlayPostWrite(t)
       \/ RedirectBegin(t) \/ RedirectCount(t)
       \/ \E ok \in BOOLEAN : RedirectPage(t, ok) \/ RedirectData(t, ok)
       \/ \E offset \in Offsets : RedirectInsert(t, offset)
       \/ SyncBegin(t) \/ SyncPage(t) \/ SyncEnd(t)
       \/ HdCachePreRead(t) \/ HdCachePostRead(t)
       \/ \E ok \in BOOLEAN : HdCacheL1Insert(t, ok)
       \/ InsertStatus(t) \/ HdCacheL1Invalidate(t)

FiltersSpec == FiltersInit /\ [][FiltersNext]_filters

-----------------------------------------------------------------------------
(* Properties.                                                             *)

At(places) == {t \in Threads : th[t] \in places}

\* However many writers pass the unlocked test of the limit at once, the list
\* exceeds it by less than the number of threads, and DirtyPageCount, which
\* decides when the list is emptied, is the length of the list.
DirtyListIsBounded ==
  /\ overlay.count = Len(dirty)
  /\ overlay.count <= MaxDirtyPages + Cardinality(Threads) - 1

\* Every block allocated since the drivers were loaded is on the list, in the
\* extension or in the hands of one thread, through failed allocations and
\* syncs by other threads: none is lost and none freed twice.
PoolIsAccountedFor ==
  /\ overlay.phase # "unloaded" =>
       /\ pool.base = (IF overlay.base THEN 1 ELSE 0)
       /\ pool.page = Len(dirty) + Cardinality(At({"data", "insert"}))
       /\ pool.data = Len(dirty) + Cardinality(At({"insert"}))
  /\ cache.phase # "unloaded" => pool.buffer = (IF cache.buffer THEN 1 ELSE 0)
=============================================================================
