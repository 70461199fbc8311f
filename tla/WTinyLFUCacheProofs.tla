------------------------- MODULE WTinyLFUCacheProofs -------------------------
(***************************************************************************)
(* Proofs about the L1 cache.  The frequency sketch never underestimates   *)
(* and never overflows, for every hash, width, depth and capacity; the     *)
(* cache drives it as TinyLFU allows, so this holds inside the cache; and  *)
(* the cache implements EvictingMap.                                       *)
(***************************************************************************)
EXTENDS WTinyLFUCache, WellFoundedInduction, TLAPS

-----------------------------------------------------------------------------
(* The sketch.                                                             *)

\* A set of naturals that is not empty has a least element.
LEMMA LeastElement ==
  ASSUME NEW S, S \subseteq Nat, S # {}
  PROVE  \E x \in S : \A y \in S : x <= y
<1>. DEFINE R == OpToRel(<, Nat)
<1>1. PICK x \in S : \A y \in S : ~(<<y, x>> \in R)
  <2>. HIDE DEF R
  <2>1. IsWellFoundedOn(R, Nat)
    BY NatLessThanWellFounded, Zenon DEF R
  <2>. QED
    BY <2>1, WFMin, Zenon
<1>2. \A y \in S : ~(y < x)
  BY <1>1, Zenon DEF OpToRel
<1>. QED
  BY <1>2

\* The running minimum of CountMinSketch::Estimate is one of the cells the key
\* hashes to.
LEMMA EstimateIsACell ==
  ASSUME SketchTypeOK, NEW key \in Keys
  PROVE  \E d \in Rows : Estimate(key) = table[d][Hash[d][key]]
<1>. DEFINE S == {table[d][Hash[d][key]] : d \in Rows}
<1>1. S \subseteq Nat /\ S # {}
  <2>1. \A d \in Rows : Hash[d][key] \in Columns
    BY SketchAssumption DEF Rows, Columns
  <2>2. \A d \in Rows : table[d][Hash[d][key]] \in Nat
    BY <2>1, SketchAssumption DEF SketchTypeOK
  <2>3. table[1][Hash[1][key]] \in S
    BY SketchAssumption DEF Rows
  <2>. QED
    BY <2>2, <2>3
<1>2. PICK x \in S : \A y \in S : x <= y
  BY <1>1, LeastElement, Zenon
<1>3. \A d \in Rows : x <= table[d][Hash[d][key]]
  BY <1>2
<1>4. Estimate(key) \in S
  BY <1>2, <1>3 DEF Estimate
<1>. QED
  BY <1>4

\* The counts of a key are in each of its cells.
CellsCoverCounts ==
  \A key \in Keys, d \in Rows : table[d][Hash[d][key]] >= count[key]

SketchIInv == SketchTypeOK /\ CellsNeverWrap /\ CellsCoverCounts

\* A number below the range of uint32_t is its own remainder.
LEMMA SmallMod ==
  ASSUME NEW m \in Nat \ {0}, NEW n \in 0..(m - 1)
  PROVE  n % m = n
<1>1. n = m * (n \div m) + (n % m) /\ n % m \in 0..(m - 1) /\ n \div m \in Int
  OBVIOUS
<1>2. n \div m = 0
  <2>. DEFINE q == n \div m
  <2>1. q \in Int
    BY <1>1
  <2>2. CASE q >= 1
    <3>1. m * q >= m
      BY <2>1, <2>2
    <3>. QED
      BY <1>1, <3>1
  <2>3. CASE q <= -1
    <3>1. m * q <= -m
      BY <2>1, <2>3
    <3>. QED
      BY <1>1, <3>1
  <2>. QED
    BY <2>1, <2>2, <2>3
<1>. QED
  BY <1>1, <1>2

\* reset_threshold_ is a uint32_t, whatever capacity * 10 is.
LEMMA ThresholdInRange == ResetThreshold \in 0..(UintRange - 1)
<1>. DEFINE n == Capacity * ResetFactor
<1>1. n \in Nat
  BY SketchAssumption
<1>. HIDE DEF n
<1>2. n % UintRange \in 0..(UintRange - 1)
  BY <1>1, SketchAssumption
<1>. QED
  BY <1>2 DEF ResetThreshold, n

\* The table of the constructor satisfies the invariant.
LEMMA EmptyIInv ==
  ASSUME table = EmptyTable, totalAccess = 0, count = NoCounts
  PROVE  SketchIInv
BY SketchAssumption DEF EmptyTable, NoCounts, SketchIInv, SketchTypeOK,
   CellsNeverWrap, CellsCoverCounts, Rows, Columns

\* So does the table Reset leaves.
LEMMA EmptyIInvNext ==
  ASSUME table' = EmptyTable, totalAccess' = 0, count' = NoCounts
  PROVE  SketchIInv'
BY SketchAssumption DEF EmptyTable, NoCounts, SketchIInv, SketchTypeOK,
   CellsNeverWrap, CellsCoverCounts, Rows, Columns, Estimate

\* Below the threshold an access adds one to a cell of each row, without
\* wrapping.
LEMMA AddIsExact ==
  ASSUME SketchIInv, NEW key \in Keys, totalAccess + 1 < ResetThreshold
  PROVE  /\ Add(key) \in [Rows -> [Columns -> 0..(UintRange - 1)]]
         /\ \A d \in Rows, i \in Columns :
              Add(key)[d][i] = IF i = Hash[d][key] THEN table[d][i] + 1 ELSE table[d][i]
<1>1. \A d \in Rows, i \in Columns :
        /\ table[d][i] + 1 \in 0..(UintRange - 1)
        /\ (table[d][i] + 1) % UintRange = table[d][i] + 1
  <2>. SUFFICES ASSUME NEW d \in Rows, NEW i \in Columns
                PROVE  /\ table[d][i] + 1 \in 0..(UintRange - 1)
                       /\ (table[d][i] + 1) % UintRange = table[d][i] + 1
    OBVIOUS
  <2>1. table[d][i] \in Nat /\ totalAccess \in Nat /\ table[d][i] <= totalAccess
    BY SketchAssumption DEF SketchIInv, SketchTypeOK, CellsNeverWrap
  <2>2. table[d][i] + 1 \in 0..(UintRange - 1)
    BY <2>1, ThresholdInRange, SketchAssumption
  <2>. QED
    BY <2>2, SmallMod, SketchAssumption
<1>2. \A d \in Rows : Hash[d][key] \in Columns
  BY SketchAssumption DEF Rows, Columns
<1>3. \A d \in Rows : table[d] \in [Columns -> 0..(UintRange - 1)]
  BY DEF SketchIInv, SketchTypeOK
<1>4. \A d \in Rows : [table[d] EXCEPT ![Hash[d][key]] = (@ + 1) % UintRange]
                       \in [Columns -> 0..(UintRange - 1)]
  BY <1>1, <1>2, <1>3
<1>. QED
  BY <1>1, <1>2, <1>3, <1>4 DEF Add

\* Access, with the reset it may end in, and Reset preserve the invariant.
LEMMA NextSketchIInv == SketchIInv /\ [SketchNext]_sketch => SketchIInv'
<1>. SUFFICES ASSUME SketchIInv, [SketchNext]_sketch
              PROVE  SketchIInv'
  OBVIOUS
<1>1. CASE Reset
  BY <1>1, EmptyIInvNext DEF Reset
<1>2. ASSUME NEW key \in Keys, Access(key)
      PROVE  SketchIInv'
  <2>1. CASE totalAccess + 1 >= ResetThreshold
    BY <1>2, <2>1, EmptyIInvNext DEF Access, Reset
  <2>2. CASE totalAccess + 1 < ResetThreshold
    <3>1. /\ table' = Add(key) /\ totalAccess' = totalAccess + 1
          /\ count' = [count EXCEPT ![key] = @ + 1]
      BY <1>2, <2>2, ThresholdInRange DEF Access, SketchIInv, SketchTypeOK
    <3>2. SketchTypeOK'
      BY <2>2, <3>1, AddIsExact DEF SketchIInv, SketchTypeOK
    <3>3. CellsNeverWrap'
      <4>1. totalAccess' < ResetThreshold
        BY <2>2, <3>1
      <4>2. ASSUME NEW d \in Rows, NEW i \in Columns
            PROVE  table'[d][i] <= totalAccess'
        <5>1. table[d][i] \in Nat /\ totalAccess \in Nat /\ table[d][i] <= totalAccess
          BY SketchAssumption DEF SketchIInv, SketchTypeOK, CellsNeverWrap
        <5>2. table'[d][i] = IF i = Hash[d][key] THEN table[d][i] + 1 ELSE table[d][i]
          BY <2>2, <3>1, AddIsExact
        <5>. QED
          BY <3>1, <5>1, <5>2
      <4>. QED
        BY <4>1, <4>2 DEF CellsNeverWrap
    <3>4. CellsCoverCounts'
      <4>. SUFFICES ASSUME NEW k \in Keys, NEW d \in Rows
                    PROVE  table'[d][Hash[d][k]] >= count'[k]
        BY DEF CellsCoverCounts
      <4>1. Hash[d][k] \in Columns
        BY SketchAssumption DEF Rows, Columns
      <4>2. table[d][Hash[d][k]] >= count[k] /\ table[d][Hash[d][k]] \in Nat /\ count[k] \in Nat
        BY <4>1, SketchAssumption DEF SketchIInv, SketchTypeOK, CellsCoverCounts
      <4>3. count'[k] = IF k = key THEN count[k] + 1 ELSE count[k]
        BY <3>1 DEF SketchIInv, SketchTypeOK
      <4>4. table'[d][Hash[d][k]] = IF Hash[d][k] = Hash[d][key] THEN table[d][Hash[d][k]] + 1
                                     ELSE table[d][Hash[d][k]]
        BY <2>2, <3>1, <4>1, AddIsExact
      <4>. QED
        BY <4>2, <4>3, <4>4
    <3>. QED
      BY <3>2, <3>3, <3>4 DEF SketchIInv
  <2>. QED
    BY <2>1, <2>2, ThresholdInRange DEF SketchIInv, SketchTypeOK
<1>3. CASE UNCHANGED sketch
  BY <1>3 DEF sketch, SketchIInv, SketchTypeOK, CellsNeverWrap, CellsCoverCounts
<1>. QED
  BY <1>1, <1>2, <1>3 DEF SketchNext

\* After any sequence of TinyLFU::Access and Reset each cell is at least the
\* count of every key that hashes to it, and at most the accesses since the reset.
THEOREM SketchInductive == SketchSpec => []SketchIInv
<1>1. SketchInit => SketchIInv
  BY EmptyIInv DEF SketchInit
<1>. QED
  BY <1>1, NextSketchIInv, PTL DEF SketchSpec

\* Estimate never reports fewer accesses than a key has had since the last
\* reset, however the hash makes keys collide.
THEOREM EstimateIsSafe == SketchSpec => []NeverUnderestimates
<1>1. SketchIInv => NeverUnderestimates
  BY EstimateIsACell DEF SketchIInv, CellsCoverCounts, NeverUnderestimates
<1>. QED
  BY <1>1, SketchInductive, PTL

\* No uint32_t cell of the sketch ever wraps around, not even when the product
\* capacity * 10 that gives the threshold has.
THEOREM SketchDoesNotWrap == SketchSpec => []CellsNeverWrap
<1>1. SketchIInv => CellsNeverWrap
  BY DEF SketchIInv
<1>. QED
  BY <1>1, SketchInductive, PTL

-----------------------------------------------------------------------------
(* The sketch inside the cache.                                            *)

\* The Put that holds the lock is a Put of one of the keys.
PuttingAKey == putting # NoPut => putting.key \in Keys

\* The key of a Put does not change while its eviction loop runs.
LEMMA PuttingAKeyAlways == Spec => []PuttingAKey
<1>1. Init => PuttingAKey
  BY DEF Init, PuttingAKey
<1>2. PuttingAKey /\ [Next]_vars => PuttingAKey'
  <2>. SUFFICES ASSUME PuttingAKey, [Next]_vars
                PROVE  PuttingAKey'
    OBVIOUS
  <2>1. ASSUME NEW key \in Keys, NEW size \in Sizes, NEW version \in Versions,
               PutBegin(key, size, version)
        PROVE  PuttingAKey'
    BY <2>1 DEF PutBegin, PuttingAKey
  <2>2. CASE putting' = putting
    BY <2>2 DEF PuttingAKey
  <2>3. CASE putting' = NoPut
    BY <2>3 DEF PuttingAKey
  <2>. QED
    BY <2>1, <2>2, <2>3, Zenon DEF Next, vars, cache, PutExisting, EvictOne, PutInsert,
       GetHit, GetMiss, RemoveKey, Clear, ResetStats
<1>. QED
  BY <1>1, <1>2, PTL DEF Spec

\* Every operation of the cache is one Access of the sketch or leaves it alone.
LEMMA CacheStepIsSketchStep == PuttingAKey /\ [Next]_vars => [SketchNext]_sketch
<1>. SUFFICES ASSUME PuttingAKey, [Next]_vars
              PROVE  [SketchNext]_sketch
  OBVIOUS
<1>1. ASSUME NEW key \in Keys, Access(key)
      PROVE  SketchNext
  BY <1>1 DEF SketchNext
<1>2. ASSUME NEW allocated \in BOOLEAN, PutInsert(allocated)
      PROVE  SketchNext
  BY <1>1, <1>2 DEF PutInsert, PuttingAKey
<1>3. ASSUME NEW key \in Keys, NEW size \in Sizes, NEW version \in Versions,
             PutExisting(key, size, version)
      PROVE  SketchNext
  BY <1>1, <1>3 DEF PutExisting
<1>4. ASSUME NEW key \in Keys, GetHit(key)
      PROVE  SketchNext
  BY <1>1, <1>4 DEF GetHit
<1>5. CASE UNCHANGED sketch
  BY <1>5
<1>. QED
  BY <1>2, <1>3, <1>4, <1>5 DEF Next, vars, PutBegin, EvictOne, GetMiss,
     RemoveKey, Clear, ResetStats

\* The cache implements the sketch's specification: TinyLFU is driven by Put and
\* Get exactly as the sketch's own theorems assume.
THEOREM CacheDrivesSketch == Spec => SketchSpec
<1>1. Init => SketchInit
  BY DEF Init
<1>. QED
  BY <1>1, PuttingAKeyAlways, CacheStepIsSketchStep, PTL DEF Spec, SketchSpec

\* Inside the cache a key EvictOne takes for unused has not been accessed since
\* the last reset.
THEOREM CacheEstimateIsSafe == Spec => []NeverUnderestimates
BY CacheDrivesSketch, EstimateIsSafe, PTL

\* Inside the cache no cell of the sketch wraps around.
THEOREM CacheSketchDoesNotWrap == Spec => []CellsNeverWrap
BY CacheDrivesSketch, SketchDoesNotWrap, PTL

-----------------------------------------------------------------------------
(* The cache implements the map its callers rely on.                       *)

\* What the caller sees of the entries.
Contents == [key \in Cached |-> [size |-> entries[key].size, data |-> entries[key].data]]

\* An entry is a record, with no buffer or one of the entry's size.
IsEntry(e) ==
  /\ e = [size |-> e.size, data |-> e.data, queue |-> e.queue]
  /\ e.data = NoData \/ e.data = [i \in 1..e.size |-> e.data[i]]

\* What the refinement needs to know of a state: the keys, the entries' shape,
\* and that the history speaks of the cached keys only.
EntriesOK ==
  /\ Cached \subseteq Keys /\ DOMAIN lastPut = Cached
  /\ entries = [key \in Cached |-> entries[key]]
  /\ \A key \in Cached : IsEntry(entries[key])
  /\ putting # NoPut =>
       /\ putting.key \in Keys \ Cached
       /\ putting.size \in Sizes /\ putting.version \in Versions

\* Initially both maps are empty.
LEMMA InitIsMapInit == Init => EntriesOK /\ Map!Init
BY DEF Init, EntriesOK, Map!Init, Cached, NoPut

\* A Put of a cached key writes over the old cells.
LEMMA PutExistingOverwrites ==
  ASSUME EntriesOK, NEW key \in Keys, NEW size \in Sizes, NEW version \in Versions,
         PutExisting(key, size, version)
  PROVE  EntriesOK' /\ Map!Overwrite(key, size, version)
<1>. USE CacheAssumption
<1>1. /\ key \in Cached /\ Cached' = Cached
      /\ lastPut' = [lastPut EXCEPT ![key] = [size |-> size, version |-> version]]
      /\ putting' = putting /\ putting = NoPut
  BY DEF PutExisting, Begin, Cached, EntriesOK
<1>2. entries' = [entries EXCEPT ![key].data =
                    [i \in DOMAIN @ |-> IF i <= size THEN version ELSE @[i]]]
  <2>1. CASE entries[key].data = NoData \/ size = 0
    <3>1. entries' = entries
      BY <2>1 DEF PutExisting
    <3>2. [i \in DOMAIN entries[key].data |->
             IF i <= size THEN version ELSE entries[key].data[i]] = entries[key].data
      <4>1. CASE entries[key].data = NoData
        BY <4>1 DEF NoData
      <4>2. CASE /\ size = 0
                 /\ entries[key].data = [i \in 1..entries[key].size |-> entries[key].data[i]]
        BY <4>2
      <4>. QED
        BY <1>1, <2>1, <4>1, <4>2 DEF EntriesOK, IsEntry
    <3>. QED
      BY <1>1, <3>1, <3>2, Zenon DEF EntriesOK, IsEntry, Cached
  <2>2. CASE ~(entries[key].data = NoData \/ size = 0)
    BY <2>2 DEF PutExisting
  <2>. QED
    BY <2>1, <2>2
<1>3. EntriesOK'
  <2>1. /\ Cached' \subseteq Keys /\ DOMAIN lastPut' = Cached'
        /\ entries' = [k \in Cached' |-> entries'[k]]
    BY <1>1, <1>2, Zenon DEF EntriesOK, Cached
  <2>2. ASSUME NEW k \in Cached, k # key
        PROVE  entries'[k] = entries[k]
    BY <1>2, <2>2 DEF Cached
  <2>3. IsEntry(entries'[key])
    <3>. DEFINE e == entries[key]
                cells == [i \in DOMAIN e.data |-> IF i <= size THEN version ELSE e.data[i]]
    <3>1. IsEntry(e)
      BY <1>1 DEF EntriesOK
    <3>2. entries'[key] = [e EXCEPT !.data = cells]
      BY <1>1, <1>2 DEF Cached
    <3>3. cells = NoData \/ cells = [i \in 1..e.size |-> cells[i]]
      BY <3>1 DEF IsEntry, NoData
    <3>4. [e EXCEPT !.data = cells] = [size |-> e.size, data |-> cells, queue |-> e.queue]
      <4>. HIDE DEF cells
      <4>. QED
        BY <3>1 DEF IsEntry
    <3>. HIDE DEF e, cells
    <3>. QED
      BY <3>2, <3>3, <3>4 DEF IsEntry
  <2>. QED
    BY <1>1, <2>1, <2>2, <2>3 DEF EntriesOK
<1>4. Map!Overwrite(key, size, version)
  BY <1>1, <1>2, Zenon DEF Map!Overwrite, EntriesOK, IsEntry, Cached
<1>. QED
  BY <1>3, <1>4

\* The end of a Put makes the entry, with or without cells.
LEMMA PutInsertStores ==
  ASSUME EntriesOK, NEW allocated \in BOOLEAN, PutInsert(allocated),
         NEW key, NEW size, NEW version,
         key = putting.key, size = putting.size, version = putting.version
  PROVE  EntriesOK' /\ Map!Store(key, size, version)
<1>. DEFINE data == IF allocated THEN [i \in 1..putting.size |-> putting.version] ELSE NoData
<1>1. /\ key \in Keys \ Cached
      /\ entries' = With(entries, key, [size |-> putting.size, data |-> data,
                                       queue |-> "Window"])
      /\ lastPut' = With(lastPut, key, [size |-> putting.size, version |-> putting.version])
      /\ putting' = NoPut
  BY DEF PutInsert, EntriesOK
<1>2. data \in {<<>>, Map!Fill(putting.size, putting.version)}
  BY DEF Map!Fill, NoData
<1>3. EntriesOK'
  <2>1. /\ Cached' = Cached \cup {key} /\ DOMAIN lastPut' = Cached'
        /\ \A k \in Cached : entries'[k] = entries[k]
        /\ entries'[key] = [size |-> putting.size, data |-> data, queue |-> "Window"]
        /\ entries' = [k \in Cached' |-> entries'[k]]
    BY <1>1 DEF With, Cached, EntriesOK
  <2>2. IsEntry(entries'[key])
    <3>1. data = NoData \/ data = [i \in 1..putting.size |-> data[i]]
      BY Zenon DEF NoData
    <3>. HIDE DEF data
    <3>. QED
      BY <2>1, <3>1 DEF IsEntry
  <2>. HIDE DEF data
  <2>. QED
    BY <1>1, <2>1, <2>2 DEF EntriesOK
<1>4. Map!Store(key, size, version)
  <2>. HIDE DEF data
  <2>. QED
    BY <1>1, <1>2 DEF Map!Store, With, EntriesOK, Cached
<1>. QED
  BY <1>3, <1>4

\* Evictions, Remove and Clear make entries vanish.
LEMMA DropsVanish ==
  ASSUME EntriesOK, NEW keys,
         entries' = Restrict(entries, Cached \ keys),
         lastPut' = Restrict(lastPut, Cached \ keys),
         putting' = putting
  PROVE  EntriesOK' /\ Map!Vanish(keys)
<1>1. /\ Cached' = Cached \ keys /\ DOMAIN lastPut' = Cached'
      /\ entries' = [k \in Cached' |-> entries'[k]]
      /\ \A k \in Cached' : entries'[k] = entries[k]
  BY DEF Cached, Restrict
<1>2. EntriesOK'
  BY <1>1 DEF EntriesOK
<1>3. Map!Vanish(keys)
  <2>1. Contents' = Restrict(Contents, DOMAIN Contents \ keys)
    BY <1>1 DEF Contents, Restrict
  <2>2. lastPut' = Restrict(lastPut, DOMAIN lastPut \ keys)
    BY DEF EntriesOK
  <2>. QED
    BY <2>1, <2>2 DEF Map!Vanish, Map!Restrict, Restrict, Contents
<1>. QED
  BY <1>2, <1>3

\* A hit may move keys between the queues; nothing else of an entry changes.
LEMMA HitKeepsContents ==
  ASSUME EntriesOK, NEW key \in Keys, GetHit(key)
  PROVE  EntriesOK' /\ UNCHANGED <<Contents, lastPut>>
<1>1. /\ entries' = [k \in Cached |-> entries'[k]]
      /\ \A k \in Cached : \/ entries'[k] = entries[k]
                           \/ entries'[k] = [entries[k] EXCEPT !.queue = "Probation"]
                           \/ entries'[k] = [entries[k] EXCEPT !.queue = "Protected"]
  <2>1. CASE entries[key].queue = "Probation"
    <3>1. PICK demoted : entries' = [k \in Cached |->
             IF k \in ToSet(demoted) THEN [entries[k] EXCEPT !.queue = "Probation"]
             ELSE IF k = key THEN [entries[k] EXCEPT !.queue = "Protected"]
             ELSE entries[k]]
      BY <2>1, Zenon DEF GetHit, Promote
    <3>. QED
      BY <3>1
  <2>2. CASE entries[key].queue # "Probation"
    BY <2>2 DEF GetHit, EntriesOK
  <2>. QED
    BY <2>1, <2>2
<1>3. \A k \in Cached : /\ IsEntry(entries'[k])
                        /\ entries'[k].size = entries[k].size
                        /\ entries'[k].data = entries[k].data
  <2>. TAKE k \in Cached
  <2>. DEFINE e == entries[k]
  <2>1. IsEntry(e)
    BY DEF EntriesOK
  <2>2. ASSUME NEW q
        PROVE  [e EXCEPT !.queue = q] = [size |-> e.size, data |-> e.data, queue |-> q]
    BY <2>1 DEF IsEntry
  <2>. HIDE DEF e
  <2>3. ASSUME NEW q, entries'[k] = [size |-> e.size, data |-> e.data, queue |-> q]
        PROVE  IsEntry(entries'[k]) /\ entries'[k].size = e.size /\ entries'[k].data = e.data
    BY <2>1, <2>3 DEF IsEntry
  <2>4. ASSUME entries'[k] = e
        PROVE  IsEntry(entries'[k]) /\ entries'[k].size = e.size /\ entries'[k].data = e.data
    BY <2>1, <2>4
  <2>5. ASSUME NEW q, entries'[k] = [e EXCEPT !.queue = q]
        PROVE  IsEntry(entries'[k]) /\ entries'[k].size = e.size /\ entries'[k].data = e.data
    BY <2>2, <2>3, <2>5, Zenon
  <2>6. \/ entries'[k] = e
        \/ entries'[k] = [e EXCEPT !.queue = "Probation"]
        \/ entries'[k] = [e EXCEPT !.queue = "Protected"]
    BY <1>1 DEF e
  <2>7. IsEntry(entries'[k]) /\ entries'[k].size = e.size /\ entries'[k].data = e.data
    BY <2>4, <2>5, <2>6
  <2>. QED
    BY <2>7 DEF e
<1>2. UNCHANGED <<lastPut, putting>> /\ Cached' = Cached
  BY <1>1 DEF GetHit, Cached
<1>. QED
  BY <1>1, <1>2, <1>3 DEF EntriesOK, Contents

\* Every step of the cache is a step of the map, or one it does not see.
LEMMA CacheStepIsMapStep ==
  EntriesOK /\ [Next]_vars => EntriesOK' /\ [Map!Next]_<<Contents, lastPut>>
<1>. SUFFICES ASSUME EntriesOK, [Next]_vars
              PROVE  EntriesOK' /\ [Map!Next]_<<Contents, lastPut>>
  OBVIOUS
<1>1. ASSUME NEW key \in Keys, NEW size \in Sizes, NEW version \in Versions,
             PutExisting(key, size, version)
      PROVE  EntriesOK' /\ Map!Next
  BY <1>1, PutExistingOverwrites DEF Map!Next
<1>2. ASSUME NEW key \in Keys, NEW size \in Sizes, NEW version \in Versions,
             PutBegin(key, size, version)
      PROVE  EntriesOK' /\ UNCHANGED <<Contents, lastPut>>
  BY <1>2 DEF PutBegin, EntriesOK, Contents, Cached
<1>3. CASE EvictOne
  <2>. DEFINE victim == queues[VictimQueue][VictimIndex]
  <2>1. CASE victim \in Cached
    <3>1. /\ entries' = Restrict(entries, Cached \ {victim})
          /\ lastPut' = Restrict(lastPut, Cached \ {victim})
          /\ putting' = putting
      BY <1>3, <2>1 DEF EvictOne, Without, EntriesOK, Cached
    <3>2. PICK keys \in SUBSET Keys : keys = {victim}
      BY <2>1, Zenon DEF EntriesOK
    <3>. HIDE DEF victim
    <3>3. EntriesOK' /\ Map!Vanish(keys)
      BY <3>1, <3>2, DropsVanish
    <3>. QED
      BY <3>3 DEF Map!Next
  <2>2. CASE victim \notin Cached
    <3>1. UNCHANGED <<entries, lastPut, putting>>
      BY <1>3, <2>2 DEF EvictOne
    <3>. QED
      BY <3>1 DEF EntriesOK, Contents, Cached
  <2>. QED
    BY <2>1, <2>2
<1>4. ASSUME NEW allocated \in BOOLEAN, PutInsert(allocated)
      PROVE  EntriesOK' /\ Map!Next
  <2>1. putting.key \in Keys /\ putting.size \in Sizes /\ putting.version \in Versions
    BY <1>4 DEF PutInsert, EntriesOK
  <2>2. PICK key \in Keys, size \in Sizes, version \in Versions :
          key = putting.key /\ size = putting.size /\ version = putting.version
    BY <2>1
  <2>3. EntriesOK' /\ Map!Store(key, size, version)
    BY <1>4, <2>2, PutInsertStores
  <2>. QED
    BY <2>3 DEF Map!Next
<1>5. ASSUME NEW key \in Keys, GetHit(key)
      PROVE  EntriesOK' /\ UNCHANGED <<Contents, lastPut>>
  BY <1>5, HitKeepsContents
<1>6. ASSUME NEW key \in Keys, RemoveKey(key)
      PROVE  EntriesOK' /\ Map!Next
  <2>1. /\ entries' = Restrict(entries, Cached \ {key})
        /\ lastPut' = Restrict(lastPut, Cached \ {key})
        /\ putting' = putting
    BY <1>6 DEF RemoveKey, Without, EntriesOK, Cached
  <2>2. EntriesOK' /\ Map!Vanish({key})
    BY <2>1, DropsVanish
  <2>. QED
    BY <2>2 DEF Map!Next
<1>7. CASE Clear
  <2>1. /\ entries' = Restrict(entries, Cached \ Keys)
        /\ lastPut' = Restrict(lastPut, Cached \ Keys)
        /\ putting' = putting
    BY <1>7 DEF Clear, EntriesOK, Restrict
  <2>2. EntriesOK' /\ Map!Vanish(Keys)
    BY <2>1, DropsVanish
  <2>. QED
    BY <2>2 DEF Map!Next
<1>8. CASE UNCHANGED <<entries, lastPut, putting>>
  BY <1>8 DEF EntriesOK, Contents, Cached
<1>. QED
  BY <1>1, <1>2, <1>3, <1>4, <1>5, <1>6, <1>7, <1>8
  DEF Next, vars, cache, GetMiss, ResetStats

\* The cache implements the map its callers rely on, for all capacities, sizes,
\* hashes and numbers of calls: evictions, promotions, demotions and resets of
\* the sketch never change the data of a key that stays.
THEOREM CacheIsEvictingMap == Spec => IsEvictingMap
<1>1. Init => EntriesOK /\ Map!Init
  BY InitIsMapInit
<1>2. EntriesOK /\ [Next]_vars => EntriesOK' /\ [Map!Next]_(Map!map)
  BY CacheStepIsMapStep DEF Map!map, Contents
<1>. QED
  BY <1>1, <1>2, PTL DEF Spec, IsEvictingMap, Map!Spec

\* The cells of key, if it has any, begin with what was last put under it.
Faithful(key) ==
  entries[key].data # NoData =>
    \A i \in 1..entries[key].size :
      i <= lastPut[key].size => entries[key].data[i] = lastPut[key].version

\* A step that leaves an entry and its history alone leaves it faithful.
LEMMA UntouchedStaysFaithful ==
  ASSUME NEW key, Faithful(key), entries'[key].data = entries[key].data,
         entries'[key].size = entries[key].size, lastPut'[key] = lastPut[key]
  PROVE  Faithful(key)'
BY DEF Faithful

\* The end of a Put: the entry has the cells of that Put or none.
LEMMA PutInsertIsFaithful ==
  ASSUME EntriesOK, GetReturnsLastPut, NEW allocated \in BOOLEAN, PutInsert(allocated)
  PROVE  GetReturnsLastPut'
<1>. PICK key, size, version :
       key = putting.key /\ size = putting.size /\ version = putting.version
  OBVIOUS
<1>. DEFINE data == IF allocated THEN [i \in 1..size |-> version] ELSE NoData
<1>1. /\ key \notin Cached /\ Cached' = Cached \cup {key}
      /\ entries'[key] = [size |-> size, data |-> data, queue |-> "Window"]
      /\ lastPut'[key] = [size |-> size, version |-> version]
      /\ \A k \in Cached : entries'[k] = entries[k] /\ lastPut'[k] = lastPut[k]
  BY DEF PutInsert, EntriesOK, With, Cached
<1>2. Faithful(key)'
  BY <1>1 DEF Faithful
<1>3. \A k \in Cached : Faithful(k)'
  BY <1>1, UntouchedStaysFaithful DEF GetReturnsLastPut, Faithful
<1>. QED
  BY <1>1, <1>2, <1>3, Zenon DEF GetReturnsLastPut, Faithful

\* A Put of a cached key: the cells it has room for are those of that Put.
LEMMA PutExistingIsFaithful ==
  ASSUME EntriesOK, GetReturnsLastPut,
         NEW key \in Keys, NEW size \in Sizes, NEW version \in Versions,
         PutExisting(key, size, version)
  PROVE  GetReturnsLastPut'
<1>. USE CacheAssumption
<1>1. /\ key \in Cached /\ Cached' = Cached
      /\ lastPut'[key] = [size |-> size, version |-> version]
      /\ \A k \in Cached \ {key} : entries'[k] = entries[k] /\ lastPut'[k] = lastPut[k]
  BY DEF PutExisting, Begin, Cached, EntriesOK
<1>2. Faithful(key)'
  <2>1. CASE entries[key].data = NoData \/ size = 0
    <3>1. entries' = entries
      BY <2>1 DEF PutExisting
    <3>. QED
      BY <1>1, <2>1, <3>1 DEF Faithful
  <2>2. CASE ~(entries[key].data = NoData \/ size = 0)
    <3>. DEFINE e == entries[key]
                cells == [i \in DOMAIN e.data |-> IF i <= size THEN version ELSE e.data[i]]
    <3>1. entries'[key] = [e EXCEPT !.data = cells]
      BY <1>1, <2>2 DEF PutExisting, Cached
    <3>2. IsEntry(e)
      BY <1>1 DEF EntriesOK
    <3>3. DOMAIN e.data = 1..e.size
      BY <2>2, <3>2 DEF IsEntry
    <3>4. entries'[key].size = e.size /\ entries'[key].data = cells
      <4>. HIDE DEF cells
      <4>. QED
        BY <3>1, <3>2 DEF IsEntry
    <3>5. \A i \in 1..e.size : i <= size => cells[i] = version
      BY <3>3
    <3>. HIDE DEF e, cells
    <3>. QED
      BY <1>1, <3>4, <3>5 DEF Faithful
  <2>. QED
    BY <2>1, <2>2
<1>3. \A k \in Cached \ {key} : Faithful(k)'
  BY <1>1, UntouchedStaysFaithful DEF GetReturnsLastPut, Faithful
<1>. QED
  BY <1>1, <1>2, <1>3 DEF GetReturnsLastPut, Faithful

\* No step makes an entry unfaithful.
LEMMA StepKeepsFaithful ==
  EntriesOK /\ GetReturnsLastPut /\ [Next]_vars => GetReturnsLastPut'
<1>. SUFFICES ASSUME EntriesOK, GetReturnsLastPut, [Next]_vars
              PROVE  GetReturnsLastPut'
  OBVIOUS
<1>1. ASSUME \A k \in Cached' : /\ k \in Cached /\ lastPut'[k] = lastPut[k]
                                /\ entries'[k].data = entries[k].data
                                /\ entries'[k].size = entries[k].size
      PROVE  GetReturnsLastPut'
  BY <1>1 DEF GetReturnsLastPut
<1>2. ASSUME NEW key, entries' = Without(entries, key), lastPut' = Without(lastPut, key)
      PROVE  GetReturnsLastPut'
  BY <1>1, <1>2 DEF Without, Restrict, Cached, EntriesOK
<1>3. CASE EvictOne
  <2>1. PICK victim : victim = queues[VictimQueue][VictimIndex]
    OBVIOUS
  <2>2. CASE victim \in Cached
    BY <1>2, <1>3, <2>1, <2>2 DEF EvictOne
  <2>3. CASE victim \notin Cached
    BY <1>1, <1>3, <2>1, <2>3 DEF EvictOne, Cached
  <2>. QED
    BY <2>2, <2>3
<1>4. ASSUME NEW key \in Keys, GetHit(key)
      PROVE  GetReturnsLastPut'
  <2>1. UNCHANGED <<Contents, lastPut>>
    BY <1>4, HitKeepsContents
  <2>2. Cached' = Cached
    BY <2>1 DEF Contents
  <2>3. \A k \in Cached : /\ Contents[k].size = entries[k].size
                          /\ Contents[k].data = entries[k].data
    BY DEF Contents
  <2>4. \A k \in Cached' : /\ Contents'[k].size = entries'[k].size
                           /\ Contents'[k].data = entries'[k].data
    BY DEF Contents
  <2>. QED
    BY <1>1, <2>1, <2>2, <2>3, <2>4
<1>5. CASE Clear
  BY <1>1, <1>5 DEF Clear, Cached
<1>6. CASE UNCHANGED <<entries, lastPut>>
  BY <1>1, <1>6 DEF Cached
<1>. QED
  BY <1>2, <1>3, <1>4, <1>5, <1>6, PutInsertIsFaithful, PutExistingIsFaithful
  DEF Next, vars, cache, PutBegin, GetMiss, RemoveKey, ResetStats

\* Whatever was evicted, promoted or overwritten in between, what Get copies out
\* begins with what was last put under the key.
THEOREM CacheReturnsLastPut == Spec => []GetReturnsLastPut
<1>1. Init => EntriesOK /\ GetReturnsLastPut
  BY InitIsMapInit DEF Init, GetReturnsLastPut, Cached
<1>. QED
  BY <1>1, CacheStepIsMapStep, StepKeepsFaithful, PTL DEF Spec
=============================================================================
