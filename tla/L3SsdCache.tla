----------------------------- MODULE L3SsdCache -----------------------------
(***************************************************************************)
(* The server's cache, L3SsdCache of server/cache_engine/l3_ssd_cache.     *)
(* {h,cpp}: blocks of any size, evicted in the order of their last use     *)
(* when the bytes used exceed the high watermark.                          *)
(*                                                                         *)
(* Every operation holds mutex_.  Insert is several steps, one per victim  *)
(* of EvictIfNeeded, and "evicting" is the Insert that holds the lock.     *)
(* The low watermark and the access counts and times are never read.       *)
(***************************************************************************)
EXTENDS Integers, Sequences, SequencesExt

CONSTANTS
  BlockKeys,     \* block_key
  Blocks,        \* the data inserted: [size, version]
  CapacityBytes, \* capacity_bytes_
  MaxCalls       \* bound: calls of Lookup, Insert and Invalidate

ASSUME L3Assumption ==
  /\ \A b \in Blocks : b.size \in Nat /\ b = [size |-> b.size, version |-> b.version]
  /\ CapacityBytes \in Nat /\ MaxCalls \in Nat

VARIABLES
  blocks,    \* entries_: the data of each cached key
  lru,       \* lru_list_, the most recently used key first
  used,      \* used_bytes_
  lookups,   \* hit_count_ and miss_count_
  evicting,  \* an Insert holds mutex_ and evicts
  recency,   \* history: the keys used and not invalidated, latest use first
  origin,    \* history: for each key inserted and neither evicted nor invalidated
             \* since, the block of the first Insert
  calls

l3vars == <<blocks, lru, used, lookups, evicting, recency, origin, calls>>

Resident == DOMAIN blocks

\* watermark_high_, 0.90 of the capacity.
Watermark == (CapacityBytes * 90) \div 100

L3Init ==
  /\ blocks = <<>> /\ lru = <<>> /\ used = 0
  /\ lookups = [hit |-> 0, miss |-> 0]
  /\ evicting = FALSE
  /\ recency = <<>> /\ origin = <<>> /\ calls = 0

Call == ~evicting /\ calls < MaxCalls /\ calls' = calls + 1

\* The list without key, and with key moved or added to the front.
Removed(list, key) ==
  IF \E i \in DOMAIN list : list[i] = key
  THEN RemoveAt(list, CHOOSE i \in DOMAIN list : list[i] = key) ELSE list
ToFront(list, key) == <<key>> \o Removed(list, key)

\* Faulty Lookup: a hit leaves the list as it is.
LookupKeepsOrder(key) ==
  /\ Call
  /\ lookups' = [lookups EXCEPT ![IF key \in Resident THEN "hit" ELSE "miss"] = @ + 1]
  /\ recency' = IF key \in Resident THEN ToFront(recency, key) ELSE recency
  /\ UNCHANGED <<blocks, lru, used, evicting, origin>>

Lookup(key) ==
  /\ Call
  /\ IF key \in Resident
     THEN /\ lookups' = [lookups EXCEPT !.hit = @ + 1]
          /\ lru' = ToFront(lru, key) /\ recency' = ToFront(recency, key)
     ELSE lookups' = [lookups EXCEPT !.miss = @ + 1] /\ UNCHANGED <<lru, recency>>
  /\ UNCHANGED <<blocks, used, evicting, origin>>

\* Adds an entry, and leaves one that is there alone.
Added(entries, key, block) ==
  IF key \in DOMAIN entries THEN entries
  ELSE [k \in DOMAIN entries \cup {key} |-> IF k = key THEN block ELSE entries[k]]
Dropped(entries, key) == Restrict(entries, DOMAIN entries \ {key})

\* Faulty Insert: new data of the same size takes the place of the old.
InsertReplaces(key, block) ==
  /\ Call
  /\ IF key \in Resident
     THEN /\ blocks' = IF block.size = blocks[key].size THEN [blocks EXCEPT ![key] = block]
                       ELSE blocks
          /\ UNCHANGED <<lru, used, evicting, recency>>
     ELSE /\ blocks' = Added(blocks, key, block)
          /\ lru' = <<key>> \o lru
          /\ used' = used + block.size
          /\ evicting' = TRUE
          /\ recency' = ToFront(recency, key)
  /\ origin' = Added(origin, key, block)
  /\ UNCHANGED lookups

\* Insert of a key that is not cached; one that is keeps its old data.
Insert(key, block) ==
  /\ Call
  /\ IF key \in Resident THEN UNCHANGED <<blocks, lru, used, evicting, recency>>
     ELSE /\ blocks' = Added(blocks, key, block)
          /\ lru' = <<key>> \o lru
          /\ used' = used + block.size
          /\ evicting' = TRUE
          /\ recency' = ToFront(recency, key)
  /\ origin' = Added(origin, key, block)
  /\ UNCHANGED lookups

\* Faulty loop condition: it stops at the capacity.
MustEvictAtCapacity == used > CapacityBytes /\ lru # <<>>
MustEvict == used > Watermark /\ lru # <<>>

\* One round of EvictIfNeeded: the key at the back goes, even when it is the
\* one just inserted.
EvictBack ==
  LET victim == lru[Len(lru)]
  IN  /\ evicting /\ MustEvict
      /\ lru' = SubSeq(lru, 1, Len(lru) - 1)
      /\ IF victim \in Resident
         THEN /\ used' = used - blocks[victim].size
              /\ blocks' = Dropped(blocks, victim)
         ELSE UNCHANGED <<used, blocks>>
      /\ origin' = Dropped(origin, victim)
      /\ UNCHANGED <<lookups, evicting, recency, calls>>

InsertEnd ==
  /\ evicting /\ ~MustEvict
  /\ evicting' = FALSE
  /\ UNCHANGED <<blocks, lru, used, lookups, recency, origin, calls>>

Invalidate(key) ==
  /\ Call /\ key \in Resident
  /\ used' = used - blocks[key].size
  /\ lru' = Removed(lru, key) /\ recency' = Removed(recency, key)
  /\ blocks' = Dropped(blocks, key) /\ origin' = Dropped(origin, key)
  /\ UNCHANGED <<lookups, evicting>>

L3Next ==
  \/ \E key \in BlockKeys : Lookup(key) \/ Invalidate(key)
  \/ \E key \in BlockKeys, block \in Blocks : Insert(key, block)
  \/ EvictBack \/ InsertEnd

L3Spec == L3Init /\ [][L3Next]_l3vars

-----------------------------------------------------------------------------
(* Properties.                                                             *)

\* used_bytes_ is the size of what is cached, through evictions and
\* invalidations, and outside Insert it is at most the watermark: the loop is
\* never left with something to evict, and the unsigned difference never wraps.
UsedIsBounded ==
  /\ used = MapThenSumSet(LAMBDA key : blocks[key].size, Resident)
  /\ ~evicting => used <= Watermark

\* What stays is what was used last: no key is evicted while one that was used
\* less recently stays.
KeepsMostRecent ==
  /\ Len(lru) <= Len(recency)
  /\ \A i \in DOMAIN lru : lru[i] = recency[i]

\* What entries_ holds is the contents of the map; what was put into it is told
\* by the history of the calls.
L3Map == INSTANCE EvictingMap WITH
         Keys <- BlockKeys,
         Sizes <- {b.size : b \in Blocks},
         Versions <- {b.version : b \in Blocks},
         contents <- [key \in Resident |->
                        [size |-> blocks[key].size,
                         data |-> [i \in 1..blocks[key].size |-> blocks[key].version]]],
         lastPut <- origin

\* The server's cache implements the same map as the client's, with the first
\* Insert of a key for the Put that counts: until the key is evicted or
\* invalidated a hit returns the data of that Insert, whatever further Inserts
\* of the key and evictions of others have happened since (line 42).
L3IsEvictingMap == L3Map!Spec
=============================================================================
