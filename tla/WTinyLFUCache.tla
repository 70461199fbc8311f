---------------------------- MODULE WTinyLFUCache ----------------------------
(***************************************************************************)
(* The L1 RAM cache, WTinyLFUCache of client/smart_cache/w_tinylfu.{h,cpp},*)
(* with its frequency estimator TinyLFU.                                   *)
(*                                                                         *)
(* Every operation holds mutex_.  Put of a new key is several steps: its   *)
(* eviction loop, one victim at a time, and the insertion; "putting" is    *)
(* the Put that holds the lock.  Data is a sequence of cells, each with    *)
(* the version of the Put that wrote it.                                   *)
(***************************************************************************)
EXTENDS TinyLFU, SequencesExt

CONSTANTS
  ProtectedRatio,               \* percentage given to the constructor
  ScanLimit,                    \* candidates EvictOne looks at: 16
  Sizes, Versions,              \* sizes and contents of the data put
  MaxOps                        \* bound: calls of Put, Get, Remove, Clear, ResetStats

ASSUME CacheAssumption ==
  /\ ProtectedRatio \in Nat
  /\ ScanLimit \in Nat \ {0}
  /\ Sizes \subseteq Nat /\ MaxOps \in Nat

VARIABLES
  entries,    \* entries_: a function on the cached keys
  queues,     \* window_queue_, probation_queue_ and protected_queue_
  totalSize,  \* total_size_
  stats,      \* hit_count_, miss_count_, eviction_count_, insert_count_
  putting,    \* the Put of a new key that holds mutex_, or NoPut
  lastPut,    \* history: size and version of the last Put of each cached key
  ops

cache == <<entries, queues, totalSize, stats, putting, lastPut>>
vars == <<sketch, cache, ops>>

QueueType == {"Window", "Probation", "Protected"}
NoPut == [key |-> "none"]
NoData == <<>>
Cached == DOMAIN entries

\* The constructor's shares, uint32_t products; no queue has capacity 0.  Only
\* protected_capacity_ is read again, the others size the vectors.
Share(pct) == ((Capacity * pct) % UintRange) \div 100
AtLeastOne(n) == IF n = 0 THEN 1 ELSE n
ProtectedCapacity == AtLeastOne(Share(ProtectedRatio))

Init ==
  /\ SketchInit
  /\ entries = <<>>
  /\ queues = [q \in QueueType |-> <<>>]
  /\ totalSize = 0
  /\ stats = [hit |-> 0, miss |-> 0, eviction |-> 0, insert |-> 0]
  /\ putting = NoPut /\ lastPut = <<>> /\ ops = 0

Begin == putting = NoPut /\ ops < MaxOps /\ ops' = ops + 1

Counted(field) == [stats EXCEPT ![field] = @ + 1]
Without(f, key) == Restrict(f, DOMAIN f \ {key})
With(f, key, value) == [k \in DOMAIN f \cup {key} |-> IF k = key THEN value ELSE f[k]]

-----------------------------------------------------------------------------
(* Put.                                                                    *)

\* Faulty Put of a cached key: the copy is not limited to the entry's size.
PutExistingOverruns(key, size, version) ==
  /\ Begin /\ key \in Cached
  /\ Access(key)
  /\ entries' = IF entries[key].data = NoData \/ size = 0 THEN entries
                ELSE [entries EXCEPT ![key].data =
                        [i \in 1..Max({size, Len(@)}) |->
                           IF i <= size THEN version ELSE @[i]]]
  /\ lastPut' = [lastPut EXCEPT ![key] = [size |-> size, version |-> version]]
  /\ UNCHANGED <<queues, totalSize, stats, putting>>

\* Faulty Put of a cached key: only the access is recorded.
PutExistingKeepsData(key, size, version) ==
  /\ Begin /\ key \in Cached
  /\ Access(key)
  /\ lastPut' = [lastPut EXCEPT ![key] = [size |-> size, version |-> version]]
  /\ UNCHANGED <<entries, queues, totalSize, stats, putting>>

\* The key is cached: the data is copied over the old data, up to the size the
\* entry was created with, and the size stays.
PutExisting(key, size, version) ==
  /\ Begin /\ key \in Cached
  /\ Access(key)
  /\ entries' = IF entries[key].data = NoData \/ size = 0 THEN entries
                ELSE [entries EXCEPT ![key].data =
                        [i \in DOMAIN @ |-> IF i <= size THEN version ELSE @[i]]]
  /\ lastPut' = [lastPut EXCEPT ![key] = [size |-> size, version |-> version]]
  /\ UNCHANGED <<queues, totalSize, stats, putting>>

PutBegin(key, size, version) ==
  /\ Begin /\ key \notin Cached
  /\ putting' = [key |-> key, size |-> size, version |-> version]
  /\ UNCHANGED <<sketch, entries, queues, totalSize, stats, lastPut>>

\* Faulty loop condition: off by one.
OverCapacityLate == Cardinality(Cached) > Capacity
OverCapacity == Cardinality(Cached) >= Capacity

SomethingToEvict == \E q \in QueueType : queues[q] # <<>>

\* The queue EvictOne takes its victim from.
VictimQueue ==
  IF queues["Window"] # <<>> THEN "Window"
  ELSE IF queues["Probation"] # <<>> THEN "Probation" ELSE "Protected"

\* In probation the least frequent of the first ScanLimit keys, the earliest of
\* equals; in the other queues the first key.
VictimIndex ==
  IF VictimQueue # "Probation" THEN 1
  ELSE LET q == queues["Probation"]
           scanned == 1..Min({ScanLimit, Len(q)})
           least == {i \in scanned : \A j \in scanned : Estimate(q[i]) <= Estimate(q[j])}
       IN  Min(least)

\* One round of Put's eviction loop.
EvictOne ==
  LET q      == VictimQueue
      victim == queues[q][VictimIndex]
  IN  /\ putting # NoPut /\ OverCapacity /\ SomethingToEvict
      /\ queues' = [queues EXCEPT ![q] = RemoveAt(@, VictimIndex)]
      /\ IF victim \in Cached
         THEN /\ totalSize' = totalSize - entries[victim].size
              /\ entries' = Without(entries, victim)
              /\ lastPut' = Without(lastPut, victim)
              /\ stats' = Counted("eviction")
         ELSE UNCHANGED <<totalSize, entries, lastPut, stats>>
      /\ UNCHANGED <<sketch, putting, ops>>

\* The end of Put.  Without memory (or data) the entry is inserted all the same.
PutInsert(allocated) ==
  LET key  == putting.key
      data == IF allocated THEN [i \in 1..putting.size |-> putting.version] ELSE NoData
  IN  /\ putting # NoPut /\ ~(OverCapacity /\ SomethingToEvict)
      /\ entries' = With(entries, key,
                         [size |-> putting.size, data |-> data, queue |-> "Window"])
      /\ queues' = [queues EXCEPT !["Window"] = Append(@, key)]
      /\ stats' = Counted("insert")
      /\ totalSize' = totalSize + putting.size
      /\ Access(key)
      /\ lastPut' = With(lastPut, key, [size |-> putting.size, version |-> putting.version])
      /\ putting' = NoPut
      /\ UNCHANGED ops

-----------------------------------------------------------------------------
(* Get, Remove, Clear, ResetStats.                                         *)

GetMiss(key) ==
  /\ Begin /\ key \notin Cached
  /\ stats' = Counted("miss")
  /\ UNCHANGED <<sketch, entries, queues, totalSize, putting, lastPut>>

\* A hit in probation moves the key to the protected queue, which makes room
\* for it by demoting its oldest keys.
Promote(key) ==
  LET full     == queues["Protected"]
      excess   == Max({0, Len(full) + 1 - ProtectedCapacity})
      demoted  == SelectSeq(SubSeq(full, 1, excess), LAMBDA k : k \in Cached)
  IN  /\ queues' = [queues EXCEPT
                      !["Probation"] = RemoveFirst(@, key) \o demoted,
                      !["Protected"] = Append(SubSeq(@, excess + 1, Len(@)), key)]
      /\ entries' = [k \in Cached |->
                       IF k \in ToSet(demoted) THEN [entries[k] EXCEPT !.queue = "Probation"]
                       ELSE IF k = key THEN [entries[k] EXCEPT !.queue = "Protected"]
                       ELSE entries[k]]

GetHit(key) ==
  /\ Begin /\ key \in Cached
  /\ Access(key)
  /\ stats' = Counted("hit")
  /\ IF entries[key].queue = "Probation" THEN Promote(key)
     ELSE UNCHANGED <<entries, queues>>
  /\ UNCHANGED <<totalSize, putting, lastPut>>

\* Faulty Remove: the key stays in its queue.
RemoveKeyFromMapOnly(key) ==
  /\ Begin /\ key \in Cached
  /\ totalSize' = totalSize - entries[key].size
  /\ entries' = Without(entries, key)
  /\ lastPut' = Without(lastPut, key)
  /\ UNCHANGED <<sketch, queues, stats, putting>>

\* WTinyLFUCache::Remove.
RemoveKey(key) ==
  /\ Begin /\ key \in Cached
  /\ totalSize' = totalSize - entries[key].size
  /\ queues' = [queues EXCEPT ![entries[key].queue] = RemoveFirst(@, key)]
  /\ entries' = Without(entries, key)
  /\ lastPut' = Without(lastPut, key)
  /\ UNCHANGED <<sketch, stats, putting>>

Clear ==
  /\ Begin
  /\ entries' = <<>> /\ lastPut' = <<>>
  /\ queues' = [q \in QueueType |-> <<>>]
  /\ totalSize' = 0
  /\ UNCHANGED <<sketch, stats, putting>>

\* The counters are atomics: ResetStats does not wait for the lock.
ResetStats ==
  /\ ops < MaxOps /\ ops' = ops + 1
  /\ stats' = [hit |-> 0, miss |-> 0, eviction |-> 0, insert |-> 0]
  /\ UNCHANGED <<sketch, entries, queues, totalSize, putting, lastPut>>

Next ==
  \/ \E key \in Keys, size \in Sizes, version \in Versions :
       PutExisting(key, size, version) \/ PutBegin(key, size, version)
  \/ EvictOne
  \/ \E allocated \in BOOLEAN : PutInsert(allocated)
  \/ \E key \in Keys : GetHit(key) \/ GetMiss(key) \/ RemoveKey(key)
  \/ Clear \/ ResetStats

Spec == Init /\ [][Next]_vars

-----------------------------------------------------------------------------
(* Properties.                                                             *)

\* A caller sees the size and the cells of an entry.
Map == INSTANCE EvictingMap WITH
         contents <- [key \in Cached |->
                        [size |-> entries[key].size, data |-> entries[key].data]]

\* The cache implements the map its callers rely on: no eviction, promotion,
\* demotion or reset of the sketch ever changes the data of a key that stays,
\* and a key that comes back has the data of the Put that brought it back.
IsEvictingMap == Map!Spec

\* The map and the queues agree: each cached key is in the queue its entry
\* names, once, and the queues hold nothing else.  So EvictOne always frees an
\* entry and the loop in Put ends.
QueuesMatchEntries ==
  /\ \A q \in QueueType : \A i \in DOMAIN queues[q] :
       queues[q][i] \in Cached /\ entries[queues[q][i]].queue = q
  /\ \A key \in Cached : \E i \in DOMAIN queues[entries[key].queue] :
       queues[entries[key].queue][i] = key
  /\ \A q \in QueueType : IsInjective(queues[q])

\* Put evicts before it inserts: there are never more entries than the
\* capacity, or one where the capacity is 0, and TotalSize() is the sum of their
\* sizes through overwrites, evictions, removals and clears.
SizeIsBounded ==
  /\ Cardinality(Cached) <= Max({1, Capacity})
  /\ totalSize = MapThenSumSet(LAMBDA key : entries[key].size, Cached)

\* What Get copies out begins with what was last put under the key, up to the
\* smaller of the two sizes.
GetReturnsLastPut ==
  \A key \in Cached :
    entries[key].data # NoData =>
      \A i \in 1..entries[key].size :
        i <= lastPut[key].size => entries[key].data[i] = lastPut[key].version
=============================================================================
