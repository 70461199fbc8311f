# Specifications of HTKIS HyperDisk X

TLA+ models of the parts of HyperDisk X that keep state, TLC runs that check
them on small instances, and TLAPS proofs of their main safety properties for
every value of the constants. Paths below are relative to the repository.

HyperDisk boots diskless Windows terminals from images on a server. A terminal
has a *boot agent* (WinPE: finds the server, fetches `boot.meta`, reports), a
*diagnostic tool* that decides whether Windows may start, *drivers* that show
the remote image as a disk, and a *client runtime* (cache, overlay with its
write-ahead log, connection supervision). The servers hand out images and
metadata and collect boot reports. Two recorders, the *black box* and the
*replay recorder*, keep what a failed boot leaves behind.

## 1. Inventory

### Parts with state, and what is hard about them

| Part (source) | State | Operations | Hard behaviour | Module |
|---|---|---|---|---|
| Connection state machine (`client/disk_runtime/network_state_machine`) | state, server list and index, five clock readings, backoff, retry and I/O counts | Start, Stop, SetServers, SetCallbacks, four reports, Tick | reports race with Ticks; the connect callback runs with the mutex held; failover | `NetworkStateMachine` |
| Write-ahead log (`client/overlay_mgr/wal_enhanced`) | segment files, checkpoint file, sequence fence, active and sealed segments | Open, Close, WriteEntry, WriteCheckpoint, TriggerSegmentRollover, CrashReplay | crashes inside a write and inside a checkpoint; short writes; a checkpoint that is not saved; replay without a lock; stale bytes of older sessions | `WalManager` |
| L1 cache (`client/smart_cache/w_tinylfu`) | map, three queues, total size, counters | Put, Get, Remove, Clear, ResetStats | five pieces of bookkeeping updated separately; eviction at the limit; unlocked ResetStats; failed malloc | `WTinyLFUCache` |
| Frequency sketch (same files) | count-min table, access count | Access, Estimate, Reset | collisions; `uint32_t` wrap of cells and of the threshold | `TinyLFU` |
| L3 cache of the server (`server/cache_engine/l3_ssd_cache`) | map, LRU list, bytes used, hit counts | Lookup, Insert, Invalidate | list, map and size updated separately; eviction down to a watermark, even of the block just inserted | `L3SsdCache` |
| Minifilters (`driver/overlay`, `driver/cache`) | overlay and cache extensions, dirty list, spin lock, pool blocks | DriverEntry, unload, write and read callbacks, WriteRedirect, SyncDirtyPages, L1Insert, L1Invalidate | the limit of the dirty list is tested without the lock; failed allocations and setup steps; load and unload cycles | `FilterDrivers` |
| Plug and play disk (`driver/blk/pnp_disk_driver`) | device extension, what is left with the system | AddDevice, plug and play requests, open, close | requests in any legal order, a START that stays pending, surprise removal | `PnpDisk` |
| IRP tracker (`driver/blk/blk_irp_tracker.c`) | list, count, TimerRunning, timer | Init, Submit, Complete, watchdog DPC | unlocked flag and count between submitters and the DPC; a clock read before the lock | `IrpTracker` |
| 0x7B recovery (`driver/blk/blk_7b_recovery.c`) | state, retry count, fallback step, four flags | EnterRecovery, Retry, Fallback, Recovery, Halt, Set...Available | mutual recursion on a kernel stack; flags set by others | `Recovery7B` |
| Cc/Mm locks (`driver/blk/blk_cc_mm_sync.c`) | three ERESOURCEs | acquire and release for flush, modified-page write, section | lock order, starvation | `BlkLocks` |
| Boot agent, black box and its analyzer (`client/boot_agent`, `client/blackbox`, `tools/blackbox_analyzer`) | configuration, boot.meta in memory and on disk, black box | DHCP, fallback configuration, registration, two downloads, save, report, flush | power cuts and failures between any two steps; boots follow each other | `BootAgent` |
| API gateway (`server/api_gateway`) | stored boot reports | report, clear, three summaries | handlers overtake each other between stamp and lock; trimming | `BootGateway` |
| Replay recorder (`tools/replay_recorder`) | ring, counters, flags, file | RecordIo, Start, Stop, FlushNormal, FlushEmergency, rename of incomplete files, ReadEntries | lock-free writes under a flush; wrap-around; full disk, power cut and rename during the flush | `ReplayRecorder` |
| Boot diagnostics (`tools/bootdiag`) | results, totals, flags | seven checks, retry, skip, gate | on-disk formats; gate and totals after retries and skips | `BootDiag` |

They meet in three places. The boot agent's reports travel to the gateway
(`BootTelemetry` composes the two with a network that loses and delays). The
client's cache owns a sketch and drives it from Put and Get (`WTinyLFUCache`
extends `TinyLFU`). Client's and server's cache keep the same promise to their
callers: `EvictingMap`, an abstract specification that both implement. The other
parts do not call each other in the present code: nothing calls the 0x7B
recovery, the Cc/Mm locks, the redirected writes of the overlay and the L3 cache,
and the IRP tracker is only initialised (`driver/blk/blk_driver.c:61`). They are
modelled with callers that may call them in any order.

## 2. Not modelled

`PROJECT.json` lists every remaining part with its reason. The ones with code:

* **Bus driver.** AddDevice is NULL (`driver/bus/bus_driver.c:48`), the function
  device passes every plug and play request on to itself (`bus_pnp.c:364-365`),
  and the control handler that adds and removes children (`bus_ioctl.c`) is not
  installed. No child device can come into being, so the handlers of the children
  never run.
* **Block driver: request path.** Read and write mark the request pending and
  nothing completes it; AddDevice is NULL, PendingIoCount is never raised, the pool
  quota (`blk_pool.c`) has no caller. A model would invent the missing half.
* **Alternative disks** (`wdm_disk`, `storport`). They answer from constants and
  hold no state that changes after setup.
* **Network driver.** A table of connection slots and frame headers that are
  filled and not sent. Nothing calls it, and any property of the table depends on
  who may disconnect which slot.
* **Image server, metadata center.** The main function of the first creates the
  service and sleeps; each method is one system call behind a table lookup under
  one mutex. The second is put and get of a RocksDB map; its other handlers
  answer with constants.
* **Maps under one lock that nothing uses** (`l1_ram_cache`, `ram_overlay`), the
  boot trace ring (no writer, no reader), the frame codec (byte layout without
  state, unit-tested), the statistics of the replay analyzer (sequential
  arithmetic on the entries that `ReadEntries`, which is modelled, returns).
* **No behaviour**: one-line stubs (QoS, update agent, driver manager, AI engine,
  DPDK gateway and others), canned answers (DNA and update services),
  configuration, protobuf and SQL declarations, deployment scripts, tests.

Of modelled parts, `HdIrpTrackerDestroy` and the black box's `Shutdown`, which
nothing calls, are left out, and so are getters and the latency statistics of the
black box analyzer.

## 3. Modules

For each component `X` there is `X.tla` (state, actions, properties), `MCX.tla`
with the sets a `.cfg` cannot write, and `XProofs.tla` where theorems are proved.
Components that one run checks side by side share an MC module: `MCBlockCaches`
(both caches), `MCKernelDrivers` (minifilters, disk and IRP tracker, one of them per
behaviour), `MCBootTelemetry`.
A definition whose comment begins with "Faulty" is not part of a specification: it is a
version of the definition that follows it with a plausible mistake, and shows that a
property notices it.

**NetworkStateMachine.** A variable per member; clock readings are ages since the
recorded instant that saturate at AgeCap, since the code only compares ages with
timeouts. Each method is one step because it holds `mutex_`. Tick calls the
connect callback with the mutex held, so it is two steps (TickConnectBegin,
TickConnectEnd) with `connecting` between them, during which no other method
runs and time passes. Elapse is time.

**WalManager.** Files are sequences of eight-byte cells; a cell knows its entry
and its part of it, which is what the two CRCs can tell. WriteEntry includes the
rollover it triggers. CrashReplay has three steps because it takes no lock and
shares the file offset with WriteEntry. It applies nothing: it reads the entries,
walks over their numbers, frees them and writes the last number as checkpoint;
LastSeen is all that is left of its loop. WriteCheckpoint may fail, be torn between
two digits, or stay unsynced (ckptCrash), and no caller looks at its result. Crash,
CrashInWrite (any prefix of an entry) and CrashInCheckpoint (file truncated, not yet
written) end the process. `unflushed` is history: the acknowledged entries that a
caller has not flushed itself; `session` is the entries acknowledged in each file
since it was last written from its beginning. A *setup*, chosen in Init, gives the
limits of the build, the caller's discipline (recoverFirst, quiescent) and the
environment (writesMayFail, powerLoss).

**EvictingMap.** What a block cache promises, whatever it does inside: an entry
appears with the data of one Put, changes only by a Put of its key, inside its
buffer, and may vanish at any time.

**TinyLFU, WTinyLFUCache.** The sketch is a table over an arbitrary hash; cells
and threshold are computed modulo UintRange. Put of a new key is several steps
(one per eviction, then the insertion) so that the unlocked ResetStats can fall
between them. Data is a sequence of cells that carry the version of the Put which
wrote them, so an overwrite with another size is visible.

**L3SsdCache.** Insert is a step for the insertion, one per victim, and one that
releases the lock. `recency` is history: the keys in the order of their last use,
with the evicted ones still in it. `origin` is history, too: for each key neither
evicted nor invalidated since, the block of the first Insert. `L3Map` maps the puts of
EvictingMap to `origin` and its contents to what the code holds, so a repeated
Insert that touched the data would not be a step of the map.

**FilterDrivers.** DriverEntry is a step per call that can fail; FltUnregisterFilter
waits for the callbacks. A redirected write is the unlocked test of the limit,
the sync it may start, two allocations and the locked insertion; the sync frees
page by page under the lock, because the unlocked test sees the count go down.
`pool` counts blocks allocated and not freed since a driver was loaded.

**PnpDisk.** One step per handler. The plug and play manager is external: `node`
keeps to the order of requests the system guarantees, `os` is what the driver has
left with it (attachment, interface name, interface state). Enabling the interface
may fail, and the driver does not look; disabling it is taken to succeed.

**IrpTracker.** Submit is insertion under the lock, test of the flag, arming the
timer, setting the flag: four steps. The DPC reads the clock, scans under the lock, then
acts on the count it has read. A request that is stamped between the reading and the
scan is `ahead` of the clock: the unsigned difference is huge and the scan times it
out. The timer is periodic and has the time left until it fires.

**Recovery7B.** A program counter and the number of frames on the stack; every
call pushes, every return pops. The four flags may change between any two steps.

**BlkLocks.** A thread is at a place in one of three requests; an ERESOURCE is
the set of its shared and exclusive owners and waiters (external: modelled from
how the driver uses it, with new shares refused while an exclusive waiter
waits).

**BootAgent, BootGateway, BootTelemetry.** Run is one action per step that waits
for network or disk, with the answer as parameter. boot.meta is three cells (magic,
body, CRC), and a download that the agent accepts passes the same three tests as the
file: size, magic, CRC. Save truncates, then writes a prefix; a power cut while it
writes leaves any of Remains: the cells before some place, then nothing or zeros. `received` is
history: the versions a server has sent. A crash loses memory, and cuts a flush of the
black box anywhere; AnalyzeBlackBox is what `tools/blackbox_analyzer` makes of the file that
is left. The gateway stamps a report and stores it in a second step; the summaries
are operators on what is stored.

**ReplayRecorder.** Each load, store and copied cell of a writer and of the
flush is a step. File writing may stop anywhere (full disk) or be
cut by a reboot; CheckAndRenameIncomplete tests the file and renames it in a second
step, with a flush possibly under way. record_start_ only enters timestamps, which no
property is about, and is left out.

**BootDiag.** A check is a list of tests over a record of the bytes and fields it
looks at; any read may fail. Skip, retry, totals, flags and gate follow main.c. The
tool is built for WinPE, where SOCKET is unsigned: the test `sock < 0` of check 4 never
holds, and a socket that could not be made shows as a failed connect (4003).

## 4. Runs

`tlc -config X.cfg M` for each row; every property has a faulty version of the
code that it rejects.

| Run | Module, cfg | Properties | States |
|---|---|---|---|
| network | MCNetworkStateMachine, NetworkConnection | ServerIndexInRange, BoundedBlindIo, StoppedIsOffline, BackoffDiscipline, RecoversUnlessOffline, FailoverReachesEveryServer | 158,632 |
| wal_recovery | MCWalManager, WalRecovery | SegmentsReadBack, NewWritesAreAhead, SessionReplay | 2,749,469 |
| block_caches | MCBlockCaches, BlockCaches | QueuesMatchEntries, SizeIsBounded, GetReturnsLastPut, NeverUnderestimates, CellsNeverWrap, IsEvictingMap; UsedIsBounded, KeepsMostRecent, L3IsEvictingMap | 375,437 |
| kernel_drivers | MCKernelDrivers, KernelDrivers | DirtyListIsBounded, PoolIsAccountedFor; NothingLeftBehind; WatchdogAlive, TimeoutBound | 63,795 |
| recovery_7b | Recovery7B, Recovery7B | StackIsBounded, PhaseOrder, SettlesWhenStable | 688 |
| locks | MCBlkLocks, Locks | SectionIsAlone, OneOfEach, EveryoneIsServed | 992 |
| boot | MCBootTelemetry, Boot | ValidMetaIsGenuine, BlackBoxTellsOutcome, NewestReportsKept, MachinesTellLatest, OneReportPerBoot, CachedMetaBoots | 3,058,381 |
| recorder | MCReplayRecorder, Recorder | WrapIsKnown, RingKeepsNewest, AnalyzerReadsPrefix, FlushedOnce, FlushEnds | 447,346 |
| wal_reopen (violated) | MCWalManager, WalReopen | LogKeepsUnflushed | |
| wal_replay (violated) | MCWalManager, WalReplay | UnflushedIsAhead | |
| recorder_wrap (violated) | MCReplayRecorder, RecorderWrap | RingKeepsNewest | |
| bootdiag_gpt (violated) | MCBootDiag, BootDiagGpt | ValidDiskPasses | |

What the passing runs show:

* **network** – I/O is admitted on a dead connection for at most two detection
  timeouts and two tick periods; Stop is final whatever is still reported; an
  index never outlives its list; the wait between attempts is the configured
  backoff. With a network that answers, the machine comes back to Connected or
  is Offline, and failover visits both servers of a pair.
* **wal_recovery** – what the log itself keeps, whatever is then done with it. For a
  caller that replays in one manager and writes through a new one, each segment file
  gives back the entries of its last session in their order, before whatever older
  sessions have left, after short writes, process crashes and power losses; and while
  it writes, no checkpoint that is torn, truncated, unsaved or put back to 0 covers
  an entry it has not flushed (power loss excepted, see 6). In the first process of a directory, across rollovers,
  checkpoints, replays and short writes, a replay reads increasing numbers and, while
  no write has failed, all acknowledged entries. No run says that an acknowledged
  write is carried out after a crash: wal_replay shows that it is not.
* **block_caches** – in the client's cache map, queues and size stay in step over
  every sequence of calls, Get returns what the last Puts left and the estimates
  are never too low; the server's cache keeps the most recently used blocks within
  its watermark; no eviction, reset, overwrite or repeated Insert makes either of them
  break the promise of `EvictingMap`.
* **kernel_drivers** – writers that pass the unlocked test together overrun the
  limit of the dirty list by less than their number; no block of pool is lost or
  freed twice while a driver is loaded, whichever allocation or setup step fails;
  a disk device that is gone has left nothing with the system, and an interface is
  enabled only while its device is there and Started; the races on TimerRunning leave
  no request unwatched, and none outlives the timeout by more than two scan
  intervals; and there is no deadlock.
* **recovery_7b** – the recursion is bounded, phases come in order, and a stable
  outage or a stable repair ends recovery.
* **locks** – a section is created alone, at most one flush and one write are
  under way, nobody waits for ever.
* **boot** – what an interrupted Save leaves never passes for valid, so a valid
  boot.meta is one a server has sent, and a whole one on the disk always boots;
  from any black box file it can read the analyzer names the outcome; the gateway keeps the newest reports, counts a boot once and names the latest.
* **recorder** – with a ring that is a multiple of an entry, a flush that begins
  in the middle of a write still gets the newest entries in order, and the overwrite
  count tells whether the ring has wrapped; a flushed file is kept; a file that was
  cut short is read as a prefix. For several writers WrapIsKnown is proved (5).

### Bounds

| Run | Bounds | Why they are enough |
|---|---|---|
| network | timeouts of 1, backoff 1 to 3 with factor 2, 3 retries, ages to 5, 4 configuration calls, lists of 0 to 2 servers | every timeout passes and does not pass before every event; the backoff reaches its cap; the index outlives a shorter list; a round of retries is exhausted |
| wal_recovery | two shapes of entry (with and without padding); recovery: 4 writes with failures or 3 with power losses, 6 opens; first process: segments of 5 cells or 2 entries, 3 segments, 3 writes | shorter and longer entries overwrite each other across three recoveries; both conditions of IsFull, two rollovers |
| block_caches | client: 3 keys in 2 x 2 colliding cells, sizes 0 to 2, capacity 2, reset after 4 accesses, 5 calls; server: 3 keys, blocks of 0, 1, 3 and 6 bytes, capacity 6, 5 calls; 2 interchangeable versions | eviction, overwrite, reset of the sketch and removal in one run; blocks that fit, that evict several others, and that do not fit at all |
| kernel_drivers | 3 threads, limit of 3 dirty pages, 2 offsets, 2 physical devices, 2 handles; 3 requests, interval 5, timeout 10 | two threads pass the limit while a third empties the list; the second device meets the name of the first; as in the code the timeout is twice the interval; ages saturate above the bound that is checked |
| recovery_7b | 3 retries, as in the code | |
| locks | 3 threads | one of each request, or two of a kind and a section |
| boot | 3 boots, 1 version, 2 stored reports, 1 clear | a report arrives during a later boot, the store is trimmed, a clear falls between stamp and lock; a boot loads what a Save of the one before has left. The server hands out one version, because the checks tell a torn file from a whole one, not two versions |
| recorder | ring of 3 entries of 2 cells, 5 writes, 2 boots, one writer | the ring wraps; entries can be mixed; the second boot finds the first one's file |

MaxCalls, MaxOps, MaxBoots, MaxClears, MaxPending, MaxHandles, AgeCap, MaxWrites of
the recorder and maxWrites, maxOpens, maxSegments of a setup of the log are bounds
of the models only. Runs with `CHECK_DEADLOCK FALSE` end when such a
bound is used up or, in BootDiag, when the tool exits.

### Fairness

* NetworkStateMachine: weak fairness of Tick, of the end of a connect attempt and
  of time: the owner calls Tick in a loop and connect has a timeout. Strong fairness
  of an answered heartbeat outside Disconnected: with the network up one is
  answered every second against a recovery timeout of thirty
  (docs/usage.md:687). The liveness properties are conditional on it; without an
  answering server nothing is claimed.
* Recovery7B: weak fairness of Processing: waits are timed and the
  caller calls again while recovery is not finished.
* BlkLocks: strong fairness of each thread's steps: ERESOURCE hands itself to its
  waiters in turn and holders release.
* ReplayRecorder: weak fairness of the flush, a function without waits.

## 5. Proofs

`tlapm XProofs.tla`. Each theorem holds for all constants that satisfy the named
ASSUME of the module, and for any number of steps.

| Theorem | Statement | Argument |
|---|---|---|
| TypeCorrect, ServerIndexSafe, BlindIoIsBounded, SessionSafe, BackoffIsDisciplined (NetworkStateMachineProofs) | the safety properties of the network run, and that recovery states are occupied only in an outage (RecoveryOnlyInOutage) | see below |
| EstimateIsSafe, SketchDoesNotWrap (WTinyLFUCacheProofs) | estimates are at least the true count; no cell wraps, even when the threshold product has wrapped | SketchIInv: every cell is at least the count of each key that hashes to it and at most total_access_, which stays below the threshold |
| CacheDrivesSketch, CacheEstimateIsSafe (WTinyLFUCacheProofs) | the cache implements SketchSpec, so the facts above hold inside it | every step of the cache is Access of one of the keys, or leaves the sketch alone |
| CacheIsEvictingMap, CacheReturnsLastPut (WTinyLFUCacheProofs) | the cache implements EvictingMap; a hit returns the last Put's data | EntriesOK: the shape of entries and of the Put under way; then one lemma per action: it is Store, Overwrite, Vanish or a stutter of the map |
| EvictsLeastRecent, EvictsDownToWatermark, L3CacheIsEvictingMap (L3SsdCacheProofs) | the cached keys are the most recently used ones; evictions end at the watermark; the cache implements EvictingMap: what it holds of a key is the block of the Insert that found the key absent | IInv: list and map hold the same keys and the list is a prefix of the history; OriginOK: the data is that of the history; see below |
| DirtyListStaysBounded (KernelDriversProofs) | the overrun of the unlocked limit, for any number of threads | DirtyIInv, see below |
| DiskLeavesNothingBehind (KernelDriversProofs) | NothingLeftBehind for any number of devices and handles, whether or not the interface could be enabled | DiskIInv adds what the manager's state of a device says of it: which states have a device object and which may have open handles |
| EveryRequestIsWatched (IrpTrackerProofs) | WatchdogAlive | TimerStays: the periodic timer, once set, is never cancelled, so whoever believes it runs is right |
| StackSafe, PhasesInOrder (Recovery7BProofs) | depth at most MaxRetries + 3; no phase is skipped, the halt is final | FramesFit: the depth of the stack, function by function |
| SectionsAreAlone, PagingIsSingle, LocksAreReturned (BlkLocksProofs) | exclusion for any number of threads | OwnersFit: the owners of a lock are the threads past its acquisition |
| WritesStayInBounds, FlushedFileKept, WrapIsAlwaysKnown (ReplayRecorderProofs) | no write leaves the ring; a flushed file is kept; overwrite_count_ is 0 exactly as long as the ring has not wrapped, between writes, and never too high, all for any number of writers | BoundsInv speaks of head_ and of the older copies the writers hold; FlagInv ties the flush that runs to flushed_; CountInv, see below |

The network invariant shows why strengthening is needed. BoundedBlindIo bounds
the age of the last sign of life while I/O is admitted. Alone it is not
inductive: entering Detecting restarts the detection time, and a Tick acts only
on what it sees. DetectionInv keeps, for Connected and Detecting, how old the
heartbeat can be in terms of the time since the last Tick, and the time
in Detecting in terms of the same; the step of time is allowed only while the
owner's next Tick is not overdue. BackoffDiscipline needs ConnectingInv, that an
attempt is under way only when the previous wait had passed.

The overrun of the dirty list is not inductive either: a state with the list at its
bound and a writer past the test satisfies it, and the next insertion breaks it.
DirtyIInv counts a writer that has passed the test as a page: pages and such
writers together are at most MaxDirtyPages + N - 1. A writer passes only below
the limit, when there are at most N - 1 others, or after it has emptied the list
under the lock.

In the L3 cache, "no key is evicted while one used less recently stays" becomes
inductive as a statement on two lists: `lru` is a prefix of `recency`, both without
repetition. The lemmas RemovedFromBoth, PutInFront and LosesBack show that moving to
the front, invalidating and evicting keep it, and the actions cite them. That a
repeated Insert leaves the data alone is not a fact about one step of the map: the
history `origin` takes its block only when the key is absent, and OriginOK says that
the data of the code is the history's, through evictions in the middle of an Insert.

WrapIsKnown relates the count the flush reads to entries that several writers are
still accounting for. CountInv bounds the count each writer holds between its load
and its store by the entries overwritten so far, and says that as long as some writer
is on its way the count may be behind, so that the last one home makes it positive.

Both refinements map the entries to the contents of `EvictingMap` and the rest to
nothing. Steps that only reorder queues, count or drive the sketch are stutters;
an eviction, a removal and a clear are Vanish.

Only model-checked: all liveness (RecoversUnlessOffline,
FailoverReachesEveryServer, SettlesWhenStable, EveryoneIsServed, FlushEnds), which
needs fairness and ENABLED; the log, whose reader is a fold over the cells of a
file, so that a proof needs induction over data; the sums in SizeIsBounded and
UsedIsBounded, which are folds, too, and with them the wrap of `used_bytes_`;
QueuesMatchEntries, PoolIsAccountedFor, TimeoutBound, the boot modules and
RingKeepsNewest.

## 6. Divergences

### Shown by a run

* **wal_reopen** – a manager opened on a directory with entries writes over them:
  the descriptor starts at offset 0 (`wal_enhanced.cpp:182`). docs/usage.md:678-679
  say that a WAL in memory records all writes and that none made offline is lost; the
  repository has no WAL in memory (`journal_wal.cpp` is a stub), this one is on disk.
  Replaying in one manager and writing through a second one avoids it; that is the
  discipline of wal_recovery.
* **wal_replay** – with that discipline, too, an acknowledged write does not survive
  as a write. CrashReplay applies the entries to nothing and returns only `true`, yet it
  marks the last one as flushed (`wal_enhanced.cpp:382`), and the next replay passes
  them over. docs/usage.md:679 promises that nothing is lost, line 672 that recovery
  synchronises the dirty blocks. CollectEntriesForReplay is public, so a caller could
  read the entries before it calls CrashReplay; none does.
* **recorder_wrap** – a ring of 64 MiB is not a multiple of 33 bytes. Write starts
  over when an entry does not fit (`replay_recorder.cpp:97`), GetAllEntries reads
  modulo the capacity (line 138): after the first wrap entries are read out of
  step. docs/usage.md:552 promises all operations in the order of time.
* **bootdiag_gpt** – check 1 compares the MBR signature with 0x55AA in the wrong
  byte order, looks for type EE at byte 446 instead of 450 and uses CRC-32C where
  GPT has CRC-32 (`bootdiag_checks.c:113, 120, 166, 206`): no valid disk passes
  (docs/usage.md:478, 501).

### Reproducible with other constants

* Log, with other fields of a setup in `MCWalManager`: NewWritesAreAhead without its
  condition on powerLoss fails for MCPowerLoss. CrashReplay writes 0 when nothing is
  new, which is not synced (308-316, 382), so a power loss may bring back the
  checkpoint from before, which covers later entries. SessionReplay fails for
  MCSession without quiescent: replay moves the shared offset to 0, and a write that
  falls behind this step overwrites the first entries of the segment (220, 362).
* Recorder, in `Recorder.cfg`: with two writers both may load the same `head_`
  (`replay_recorder.cpp:96`); with StartAlone = FALSE a Start during a flush mixes
  two recordings. RingKeepsNewest speaks of one writer and an undisturbed flush.

### Seen while modelling

* Network: a reconnection reported by OnHeartbeatSuccess goes to Connected without
  Recovering and without on_recovery_complete_ (`network_state_machine.cpp:68-71`;
  docs/usage.md:680 promises a synchronisation of dirty blocks). max_retry_count 0
  gives up at the first failure (line 177; docs/usage.md:691 says 0 is without
  limit). After an exhausted round on a single server the machine is Offline for good
  (line 179; docs/operations.md:871 says terminals recover by themselves).
  RecoversUnlessOffline states what holds.
* Log: CrashReplay, WriteCheckpoint and TriggerSegmentRollover take no lock. Neither
  segment numbers nor sealed segments are rebuilt on Open (`wal_enhanced.cpp:260, 276`),
  so a new process sees the first segment only. A replay leaves the offset behind all
  bytes of the file; in a later session those are leftovers, and what is written there
  is not found when a torn entry lies between. Gaps and repetitions of numbers are
  noticed and ignored (373-378), and CrashReplay ignores the result of WriteCheckpoint.
* 0x7B recovery: step 3 of the fallback does not wait for the device
  (`blk_7b_recovery.c:92-97`); with a network and no device Retry and Fallback
  alternate for ever (line 84), where README.md:38 names three phases.
  SettlesWhenStable therefore assumes an outage or a repair.
* Cache: nothing ever leaves the window queue but by eviction (`w_tinylfu.cpp:126`), so
  probation and protected stay empty and the cache is first-in first-out
  (docs/usage.md:591-592 describe three zones). Promote and the scan for a victim
  are modelled and, as in the code, not reached. When malloc fails the entry is kept
  without data (line 119): Get then reports a hit of the full size and copies nothing.
* L3 cache: Insert of a cached key keeps the old data and says so to nobody
  (`l3_ssd_cache.cpp:42`), so a hit may return what a newer Insert should have replaced; a block
  larger than the watermark evicts everything, itself last; the low watermark is
  never read.
* Minifilters: the overlay's unload routine frees the RAM overlay and not the dirty
  pages, a failed setup step keeps the RAM overlay, and the cache's unload keeps its
  buffer. PoolIsAccountedFor therefore speaks of a loaded driver. A sync frees dirty
  pages without writing them anywhere.
* Plug and play disk: a START that the lower device answers with STATUS_PENDING
  counts as started, its interface is enabled before the lower device has answered, and
  the driver is not told when it fails later (`pnp_disk_driver.c:106`). The results of
  IoSetDeviceInterfaceState are not looked at. The name of the device is fixed, so a
  second device is refused.
* Boot agent: LoadFallbackConfig wipes boot_id, so a boot over the fallback is never
  reported; the HTTP download does not keep the boot.meta it has fetched;
  VerifyIntegrity always returns 0. Save truncates the only copy of boot.meta
  (`boot_meta.cpp:77`): a failure or a power cut leaves the terminal without one.
* Recorder: CheckAndRenameIncomplete takes no lock, so it may rename a file that a flush
  has just begun to write, or has finished since the test (`replay_recorder.cpp:297, 322`).
  With
  several writers a late store puts overwrite_count_ back to an older value, which
  WrapIsKnown allows for. A flush that falls into the first wrapping write may put the newest
  entry first; write_count_ is not reset by a second Start; a torn file longer
  than header and footer passes for complete (`replay_recorder.cpp:289-325`), and
  the reader checks neither CRC nor footer; FlushToFile returns true after a failed
  write; the file format differs from docs/usage.md:556-580.
* Diagnostics: the gate looks only at FAIL of checks 1 to 3 (README.md:39 and
  docs/usage.md:474 ask for all to pass), so skipped critical checks pass it; a
  SKIP returned by a check counts as a failure; an earlier attempt's error code
  stays behind a PASS; check 7 takes the sectors of a cluster for an exponent;
  options of docs/usage.md (--config, --check, --serial, --status) do not exist.
* IRP tracker: the watchdog reads the clock before it takes the lock, and the difference
  of line 108 is unsigned, so a request submitted in between, with a later time stamp, is
  completed at once with STATUS_DEVICE_NOT_READY. A request whose allocation fails is not tracked and its submitter is
  not told; the watchdog completes a late request without the dereference that
  Complete makes, and its owner may still complete it. Pool and reference counts
  are outside the model. HdIrpTrackerDestroy is called from nowhere and not modelled;
  it would leave the timer set when the watchdog has cleared TimerRunning, because
  the flag is cleared without cancelling the periodic timer (lines 26, 128).
* Bus driver: FdoPnp passes the IRP to its own device (`bus_pnp.c:364-365`).

## 7. Limits of the models

Names, log texts, file paths and payloads are abstract. Checksums are taken to
recognise exactly what they cover. Clocks are monotonic. In the gateway, time stamps are
distinct. Memory is sequentially consistent; in the recorder, where the code
uses relaxed atomics and plain copies, this is an assumption. The models of ERESOURCE, of the
kernel timer and of the network between agent and gateway are external: they
follow from how the code uses them.
