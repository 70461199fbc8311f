-------------------------- MODULE L3SsdCacheProofs --------------------------
(***************************************************************************)
(* Proofs about L3SsdCache for every set of keys, all block sizes and      *)
(* every capacity.                                                         *)
(***************************************************************************)
EXTENDS L3SsdCache, SequenceTheorems, TLAPS

Has(list, key) == \E i \in 1..Len(list) : list[i] = key

\* The list of the cache against the history of uses.
ListsOK(list, history) ==
  /\ list \in Seq(BlockKeys) /\ history \in Seq(BlockKeys)
  /\ \A i, j \in 1..Len(history) : history[i] = history[j] => i = j
  /\ Len(list) <= Len(history)
  /\ \A i \in 1..Len(list) : list[i] = history[i]

-----------------------------------------------------------------------------
(* Removal and insertion at the front, element by element.                 *)

\* Removal closes the gap at the position it removes.
LEMMA RemoveAtFacts ==
  ASSUME NEW S, NEW list \in Seq(S), NEW p \in 1..Len(list)
  PROVE  /\ RemoveAt(list, p) \in Seq(S)
         /\ Len(RemoveAt(list, p)) = Len(list) - 1
         /\ \A i \in 1..(Len(list) - 1) :
              RemoveAt(list, p)[i] = IF i < p THEN list[i] ELSE list[i + 1]
<1> DEFINE a == SubSeq(list, 1, p - 1)
           b == SubSeq(list, p + 1, Len(list))
<1>1. a \in Seq(S) /\ Len(a) = p - 1 /\ \A i \in 1..(p - 1) : a[i] = list[i]
  OBVIOUS
<1>2. /\ b \in Seq(S) /\ Len(b) = Len(list) - p
      /\ \A i \in 1..(Len(list) - p) : b[i] = list[p + i]
  OBVIOUS
<1>3. RemoveAt(list, p) = a \o b
  BY DEF RemoveAt
<1> HIDE DEF a, b
<1>4. /\ a \o b \in Seq(S) /\ Len(a \o b) = Len(a) + Len(b)
      /\ \A i \in 1..(Len(a) + Len(b)) :
           (a \o b)[i] = IF i <= Len(a) THEN a[i] ELSE b[i - Len(a)]
  BY <1>1, <1>2, ConcatProperties, Zenon
<1>5. ASSUME NEW i \in 1..(Len(list) - 1)
      PROVE  (a \o b)[i] = IF i < p THEN list[i] ELSE list[i + 1]
  <2>1. CASE i < p
    BY <2>1, <1>1, <1>2, <1>4
  <2>2. CASE i >= p
    <3>1. (a \o b)[i] = b[i - (p - 1)]
      BY <2>2, <1>1, <1>2, <1>4
    <3>2. i - (p - 1) \in 1..(Len(list) - p) /\ p + (i - (p - 1)) = i + 1
      BY <2>2
    <3> QED
      BY <3>1, <3>2, <2>2, <1>2
  <2>3. i < p \/ i >= p
    OBVIOUS
  <2> QED
    BY <2>1, <2>2, <2>3, Zenon
<1> QED
  BY <1>1, <1>2, <1>3, <1>4, <1>5

\* In a list without repetitions Removed removes the one place of the key.
LEMMA RemovedIsRemoveAt ==
  ASSUME NEW S, NEW list \in Seq(S), NEW p \in 1..Len(list),
         \A i, j \in 1..Len(list) : list[i] = list[j] => i = j
  PROVE  Removed(list, list[p]) = RemoveAt(list, p)
<1> DEFINE c == CHOOSE i \in DOMAIN list : list[i] = list[p]
<1>1. p \in DOMAIN list /\ list[p] = list[p]
  OBVIOUS
<1>2. c \in DOMAIN list /\ list[c] = list[p]
  BY <1>1
<1>3. c = p
  BY <1>2
<1> QED
  BY <1>1, <1>3 DEF Removed

\* A list without the key is left as it is.
LEMMA RemovedAbsent ==
  ASSUME NEW S, NEW list \in Seq(S), NEW key, ~Has(list, key)
  PROVE  Removed(list, key) = list
  BY DEF Removed, Has

\* Both lists lose a cached key at the same place.
LEMMA RemovedFromBoth ==
  ASSUME NEW list, NEW history, NEW key, ListsOK(list, history), Has(list, key)
  PROVE  /\ ListsOK(Removed(list, key), Removed(history, key))
         /\ ~Has(Removed(history, key), key)
         /\ \A k : Has(Removed(list, key), k) <=> Has(list, k) /\ k # key
<1>1. PICK p \in 1..Len(list) : list[p] = key
  BY DEF Has
<1>2. /\ list \in Seq(BlockKeys) /\ history \in Seq(BlockKeys)
      /\ p \in 1..Len(history) /\ history[p] = key
      /\ \A i, j \in 1..Len(list) : list[i] = list[j] => i = j
  <2>1. /\ list \in Seq(BlockKeys) /\ history \in Seq(BlockKeys)
        /\ 1..Len(list) \subseteq 1..Len(history)
    BY DEF ListsOK
  <2>2. p \in 1..Len(history) /\ history[p] = key
    BY <1>1, <2>1 DEF ListsOK
  <2>3. ASSUME NEW i \in 1..Len(list), NEW j \in 1..Len(list), list[i] = list[j]
        PROVE  i = j
    BY <2>1, <2>3 DEF ListsOK
  <2> QED
    BY <2>1, <2>2, <2>3, Zenon
<1>3. Removed(list, key) = RemoveAt(list, p) /\ Removed(history, key) = RemoveAt(history, p)
  BY <1>1, <1>2, RemovedIsRemoveAt DEF ListsOK
<1> DEFINE l == RemoveAt(list, p)
           h == RemoveAt(history, p)
<1>4. /\ l \in Seq(BlockKeys) /\ Len(l) = Len(list) - 1
      /\ \A i \in 1..(Len(list) - 1) : l[i] = IF i < p THEN list[i] ELSE list[i + 1]
  BY <1>2, RemoveAtFacts
<1>5. /\ h \in Seq(BlockKeys) /\ Len(h) = Len(history) - 1
      /\ \A i \in 1..(Len(history) - 1) : h[i] = IF i < p THEN history[i] ELSE history[i + 1]
  BY <1>2, RemoveAtFacts
<1> HIDE DEF l, h
<1>6. ListsOK(l, h)
  <2>1. \A i, j \in 1..Len(h) : h[i] = h[j] => i = j
    <3> DEFINE at(i) == IF i < p THEN i ELSE i + 1
    <3>1. \A i \in 1..Len(h) : at(i) \in 1..Len(history) /\ h[i] = history[at(i)]
      BY <1>2, <1>5
    <3>2. \A i, j \in 1..Len(h) : at(i) = at(j) => i = j
      BY <1>2, <1>5
    <3> HIDE DEF at
    <3> QED
      BY <3>1, <3>2 DEF ListsOK
  <2>2. \A i \in 1..Len(l) : l[i] = h[i]
    BY <1>2, <1>4, <1>5 DEF ListsOK
  <2> QED
    BY <2>1, <2>2, <1>2, <1>4, <1>5 DEF ListsOK
<1>7. ~Has(h, key)
  BY <1>2, <1>5 DEF Has, ListsOK
<1>8. ASSUME NEW k
      PROVE  Has(l, k) <=> Has(list, k) /\ k # key
  <2>1. ASSUME Has(l, k)
        PROVE  Has(list, k) /\ k # key
    <3> DEFINE at(i) == IF i < p THEN i ELSE i + 1
    <3>1. PICK i \in 1..Len(l) : l[i] = k
      BY <2>1 DEF Has
    <3>2. at(i) \in 1..Len(list) /\ at(i) # p /\ list[at(i)] = k
      BY <3>1, <1>2, <1>4
    <3> HIDE DEF at
    <3> QED
      BY <3>2, <1>1, <1>2 DEF Has
  <2>2. ASSUME Has(list, k), k # key
        PROVE  Has(l, k)
    <3>1. PICK i \in 1..Len(list) : list[i] = k
      BY <2>2 DEF Has
    <3>2. i # p
      BY <3>1, <2>2, <1>1
    <3>3. CASE i < p
      <4>1. i \in 1..(Len(list) - 1)
        BY <3>3, <1>2
      <4>2. i \in 1..Len(l) /\ l[i] = k
        BY <4>1, <3>1, <3>3, <1>4
      <4> QED
        BY <4>2, Zenon DEF Has
    <3>4. CASE i > p
      <4>1. i - 1 \in 1..(Len(list) - 1) /\ ~(i - 1 < p) /\ (i - 1) + 1 = i
        BY <3>4, <1>2
      <4>2. i - 1 \in 1..Len(l) /\ l[i - 1] = k
        BY <4>1, <3>1, <1>4
      <4> QED
        BY <4>2, Zenon DEF Has
    <3> QED
      BY <3>2, <3>3, <3>4, <1>2
  <2> QED
    BY <2>1, <2>2
<1> QED
  BY <1>3, <1>6, <1>7, <1>8 DEF l, h

\* A key that is in neither list is put in front of both.
LEMMA PutInFront ==
  ASSUME NEW list, NEW history, NEW key \in BlockKeys,
         ListsOK(list, history), ~Has(history, key)
  PROVE  /\ ListsOK(<<key>> \o list, <<key>> \o history)
         /\ \A k : Has(<<key>> \o list, k) <=> Has(list, k) \/ k = key
<1> DEFINE l == <<key>> \o list
           h == <<key>> \o history
<1>1. list \in Seq(BlockKeys) /\ history \in Seq(BlockKeys)
  BY DEF ListsOK
<1>2. /\ l \in Seq(BlockKeys) /\ Len(l) = Len(list) + 1
      /\ \A i \in 1..(Len(list) + 1) : l[i] = IF i = 1 THEN key ELSE list[i - 1]
  BY <1>1
<1>3. /\ h \in Seq(BlockKeys) /\ Len(h) = Len(history) + 1
      /\ \A i \in 1..(Len(history) + 1) : h[i] = IF i = 1 THEN key ELSE history[i - 1]
  BY <1>1
<1> HIDE DEF l, h
<1>4. ListsOK(l, h)
  <2>1. ASSUME NEW i \in 1..Len(h), NEW j \in 1..Len(h), h[i] = h[j]
        PROVE  i = j
    <3>1. CASE i = 1 \/ j = 1
      <4>1. ASSUME NEW m \in 1..Len(h), m # 1
            PROVE  h[m] # key
        <5>1. m - 1 \in 1..Len(history) /\ h[m] = history[m - 1]
          BY <4>1, <1>1, <1>3
        <5> QED
          BY <5>1 DEF Has
      <4>2. h[1] = key
        BY <1>1, <1>3
      <4> QED
        BY <2>1, <3>1, <4>1, <4>2
    <3>2. CASE i # 1 /\ j # 1
      <4>1. i - 1 \in 1..Len(history) /\ j - 1 \in 1..Len(history)
        BY <3>2, <1>1, <1>3
      <4>2. history[i - 1] = history[j - 1]
        BY <3>2, <2>1, <1>3
      <4>3. i - 1 = j - 1
        BY <4>1, <4>2 DEF ListsOK
      <4> QED
        BY <4>3
    <3> QED
      BY <3>1, <3>2
  <2>2. Len(l) <= Len(h)
    BY <1>1, <1>2, <1>3 DEF ListsOK
  <2>3. ASSUME NEW i \in 1..Len(l)
        PROVE  l[i] = h[i]
    <3>1. CASE i = 1
      BY <3>1, <2>2, <1>1, <1>2, <1>3
    <3>2. CASE i # 1
      <4>1. i - 1 \in 1..Len(list) /\ l[i] = list[i - 1] /\ h[i] = history[i - 1]
        BY <3>2, <2>2, <1>1, <1>2, <1>3
      <4> QED
        BY <4>1 DEF ListsOK
    <3> QED
      BY <3>1, <3>2
  <2> QED
    BY <2>1, <2>2, <2>3, <1>2, <1>3, Zenon DEF ListsOK
<1>5. ASSUME NEW k
      PROVE  Has(l, k) <=> Has(list, k) \/ k = key
  <2>1. ASSUME NEW i \in 1..Len(list), list[i] = k
        PROVE  Has(l, k)
    <3>1. i + 1 \in 1..Len(l) /\ l[i + 1] = k
      BY <2>1, <1>1, <1>2
    <3> QED
      BY <3>1 DEF Has
  <2>2. Has(l, key)
    BY <1>1, <1>2 DEF Has
  <2>3. ASSUME Has(l, k), k # key
        PROVE  Has(list, k)
    BY <2>3, <1>1, <1>2 DEF Has
  <2> QED
    BY <2>1, <2>2, <2>3 DEF Has
<1> QED
  BY <1>4, <1>5 DEF l, h

\* A key that is not cached leaves only the history, behind the cached ones.
LEMMA RemovedFromHistory ==
  ASSUME NEW list, NEW history, NEW key, ListsOK(list, history), ~Has(list, key)
  PROVE  ListsOK(list, Removed(history, key)) /\ ~Has(Removed(history, key), key)
<1>0. list \in Seq(BlockKeys) /\ history \in Seq(BlockKeys)
  BY DEF ListsOK
<1>1. CASE ~Has(history, key)
  BY <1>0, <1>1, RemovedAbsent
<1>2. CASE Has(history, key)
  <2>1. PICK p \in 1..Len(history) : history[p] = key
    BY <1>2 DEF Has
  <2> DEFINE h == RemoveAt(history, p)
  <2>2. Removed(history, key) = h
    BY <2>1, <1>0, RemovedIsRemoveAt DEF ListsOK
  <2>3. /\ h \in Seq(BlockKeys) /\ Len(h) = Len(history) - 1
        /\ \A i \in 1..(Len(history) - 1) : h[i] = IF i < p THEN history[i] ELSE history[i + 1]
    BY <1>0, RemoveAtFacts
  <2> HIDE DEF h
  <2>4. p > Len(list)
    BY <2>1, <1>0 DEF ListsOK, Has
  <2>5. \A i, j \in 1..Len(h) : h[i] = h[j] => i = j
    <3> DEFINE at(i) == IF i < p THEN i ELSE i + 1
    <3>1. \A i \in 1..Len(h) : at(i) \in 1..Len(history) /\ h[i] = history[at(i)]
      BY <1>0, <2>3
    <3>2. \A i, j \in 1..Len(h) : at(i) = at(j) => i = j
      BY <1>0, <2>3
    <3> HIDE DEF at
    <3> QED
      BY <3>1, <3>2 DEF ListsOK
  <2>6. ~Has(h, key)
    BY <2>1, <2>3, <1>0 DEF Has, ListsOK
  <2> QED
    BY <2>2, <2>3, <2>4, <2>5, <2>6, <1>0 DEF ListsOK
<1> QED
  BY <1>1, <1>2

\* Losing the back of the list leaves a prefix.
LEMMA LosesBack ==
  ASSUME NEW list, NEW history, ListsOK(list, history), list # <<>>
  PROVE  /\ ListsOK(SubSeq(list, 1, Len(list) - 1), history)
         /\ \A k : Has(SubSeq(list, 1, Len(list) - 1), k) <=> Has(list, k) /\ k # list[Len(list)]
         /\ Has(list, list[Len(list)])
<1> DEFINE l == SubSeq(list, 1, Len(list) - 1)
<1>1. /\ list \in Seq(BlockKeys) /\ history \in Seq(BlockKeys) /\ Len(list) \in Nat \ {0}
      /\ \A i, j \in 1..Len(list) : list[i] = list[j] => i = j
  BY DEF ListsOK
<1>2. /\ l \in Seq(BlockKeys) /\ Len(l) = Len(list) - 1
      /\ \A i \in 1..(Len(list) - 1) : l[i] = list[i]
  <2>1. Len(list) - 1 \in Int /\ \A i \in 1..(Len(list) - 1) : list[i] \in BlockKeys
    BY <1>1
  <2> QED
    <3>1. /\ l \in Seq(BlockKeys)
          /\ Len(l) = IF 1 <= Len(list) - 1 THEN Len(list) - 1 - 1 + 1 ELSE 0
          /\ \A i \in 1..(Len(list) - 1 - 1 + 1) : l[i] = list[1 + i - 1]
      BY <2>1, SubSeqProperties
    <3> HIDE DEF l
    <3>2. Len(l) = Len(list) - 1
      <4>1. \A n \in Nat \ {0} : (IF 1 <= n - 1 THEN n - 1 - 1 + 1 ELSE 0) = n - 1
        OBVIOUS
      <4> QED
        BY <4>1, <3>1, <1>1, Zenon
    <3>3. ASSUME NEW i \in 1..(Len(list) - 1)
          PROVE  l[i] = list[i]
      <4>1. i \in 1..(Len(list) - 1 - 1 + 1) /\ 1 + i - 1 = i
        BY <1>1
      <4> QED
        BY <4>1, <3>1
    <3> QED
      BY <3>1, <3>2, <3>3
<1> HIDE DEF l
<1>3. ListsOK(l, history)
  BY <1>1, <1>2 DEF ListsOK
<1>4. \A k : Has(l, k) <=> Has(list, k) /\ k # list[Len(list)]
  BY <1>1, <1>2 DEF Has
<1> QED
  BY <1>1, <1>3, <1>4 DEF l, Has

-----------------------------------------------------------------------------
(* The inductive invariant: the map and the list hold the same keys, and   *)
(* the list is the front of the history.                                   *)

IInv ==
  /\ Resident \subseteq BlockKeys /\ blocks \in [Resident -> Blocks]
  /\ ListsOK(lru, recency)
  /\ \A key : key \in Resident <=> Has(lru, key)
  /\ used \in Int /\ evicting \in BOOLEAN
  /\ ~evicting => used <= Watermark \/ lru = <<>>

\* The empty cache satisfies it.
LEMMA InitOK == L3Init => IInv
<1> SUFFICES ASSUME L3Init PROVE IInv
  OBVIOUS
<1>1. blocks = <<>> /\ lru = <<>> /\ recency = <<>>
  BY DEF L3Init
<1>2. Resident = {} /\ blocks \in [Resident -> Blocks]
  BY <1>1 DEF Resident
<1>3. ListsOK(lru, recency)
  BY <1>1 DEF ListsOK
<1>4. \A key : ~Has(lru, key)
  BY <1>1 DEF Has
<1> QED
  <2>0. used \in Int
    BY DEF L3Init
  <2>1. evicting \in BOOLEAN
    BY Zenon DEF L3Init
  <2>2. Resident \subseteq BlockKeys
    BY <1>2
  <2>3. \A key : key \in Resident <=> Has(lru, key)
    BY <1>2, <1>4
  <2> QED
    BY <1>1, <1>2, <1>3, <2>0, <2>1, <2>2, <2>3 DEF IInv

\* A hit reorders both lists alike.
LEMMA LookupOK == ASSUME IInv, NEW key \in BlockKeys, Lookup(key) PROVE IInv'
<1>1. CASE key \notin Resident
  BY <1>1 DEF Lookup, Call, IInv, Resident
<1>2. CASE key \in Resident
  <2>0. /\ lru' = <<key>> \o Removed(lru, key) /\ recency' = <<key>> \o Removed(recency, key)
        /\ UNCHANGED <<blocks, used, evicting>>
    BY <1>2 DEF Lookup, ToFront
  <2>1. Has(lru, key) /\ ListsOK(lru, recency)
    BY <1>2 DEF IInv
  <2> DEFINE l == Removed(lru, key)
             h == Removed(recency, key)
  <2>2. ListsOK(l, h) /\ ~Has(h, key) /\ \A k : Has(l, k) <=> Has(lru, k) /\ k # key
    BY <2>1, RemovedFromBoth
  <2>3. ListsOK(<<key>> \o l, <<key>> \o h)
        /\ \A k : Has(<<key>> \o l, k) <=> Has(l, k) \/ k = key
    <3> HIDE DEF l, h
    <3> QED
      BY <2>2, PutInFront
  <2>4. ListsOK(lru', recency') /\ \A k : Has(lru', k) <=> Has(lru, k)
    BY <2>0, <2>1, <2>2, <2>3
  <2>5. lru # <<>>
    BY <2>1 DEF Has
  <2> QED
    BY <2>0, <2>4, <2>5 DEF IInv, Resident, Watermark
<1> QED
  BY <1>1, <1>2

\* A new key comes to the front of both lists.
LEMMA InsertOK ==
  ASSUME IInv, NEW key \in BlockKeys, NEW block \in Blocks, Insert(key, block), L3Assumption
  PROVE  IInv'
<1>1. CASE key \in Resident
  BY <1>1 DEF Insert, Call, IInv, Resident, Watermark
<1>2. CASE key \notin Resident
  <2>0. /\ lru' = <<key>> \o lru /\ recency' = <<key>> \o Removed(recency, key)
        /\ blocks' = [k \in Resident \cup {key} |-> IF k = key THEN block ELSE blocks[k]]
        /\ used' = used + block.size /\ evicting' = TRUE
    BY <1>2 DEF Insert, Added, ToFront, Resident
  <2>1. ~Has(lru, key) /\ ListsOK(lru, recency)
    BY <1>2 DEF IInv
  <2> DEFINE h == Removed(recency, key)
  <2>2. ListsOK(lru, h) /\ ~Has(h, key)
    BY <2>1, RemovedFromHistory
  <2>3. ListsOK(<<key>> \o lru, <<key>> \o h)
        /\ \A k : Has(<<key>> \o lru, k) <=> Has(lru, k) \/ k = key
    <3> HIDE DEF h
    <3> QED
      BY <2>2, PutInFront
  <2>4. ListsOK(lru', recency') /\ \A k : Has(lru', k) <=> Has(lru, k) \/ k = key
    BY <2>0, <2>3
  <2>5. Resident' = Resident \cup {key} /\ blocks' \in [Resident' -> Blocks]
    BY <2>0 DEF IInv, Resident
  <2>6. used' \in Int
    BY <2>0 DEF IInv, L3Assumption
  <2> QED
    BY <2>0, <2>4, <2>5, <2>6 DEF IInv
<1> QED
  BY <1>1, <1>2

\* Eviction takes the back of the list from both the list and the map.
LEMMA EvictBackOK == ASSUME IInv, EvictBack, L3Assumption PROVE IInv'
<1>0. lru # <<>> /\ evicting /\ evicting' = evicting /\ recency' = recency
  BY DEF EvictBack, MustEvict
<1>1. PICK victim : victim = lru[Len(lru)]
  OBVIOUS
<1>2. Has(lru, victim) /\ ListsOK(SubSeq(lru, 1, Len(lru) - 1), recency)
      /\ \A k : Has(SubSeq(lru, 1, Len(lru) - 1), k) <=> Has(lru, k) /\ k # victim
  BY <1>0, <1>1, LosesBack DEF IInv
<1>3. victim \in Resident
  BY <1>2 DEF IInv
<1>4. /\ lru' = SubSeq(lru, 1, Len(lru) - 1)
      /\ used' = used - blocks[victim].size
      /\ blocks' = Restrict(blocks, Resident \ {victim})
  BY <1>1, <1>3 DEF EvictBack, Dropped, Resident
<1>5. Resident' = Resident \ {victim} /\ blocks' \in [Resident' -> Blocks]
  BY <1>4 DEF IInv, Resident, Restrict
<1>6. used' \in Int
  BY <1>3, <1>4 DEF IInv, L3Assumption
<1> QED
  BY <1>0, <1>2, <1>4, <1>5, <1>6, Zenon DEF IInv

\* Invalidate takes the key from the list, the map and the history.
LEMMA InvalidateOK ==
  ASSUME IInv, NEW key \in BlockKeys, Invalidate(key), L3Assumption PROVE IInv'
<1>0. /\ key \in Resident /\ ~evicting /\ evicting' = evicting
      /\ lru' = Removed(lru, key) /\ recency' = Removed(recency, key)
      /\ used' = used - blocks[key].size
      /\ blocks' = Restrict(blocks, Resident \ {key})
  BY DEF Invalidate, Call, Dropped, Resident
<1>1. Has(lru, key) /\ ListsOK(lru, recency)
  BY <1>0 DEF IInv
<1>2. ListsOK(lru', recency') /\ \A k : Has(lru', k) <=> Has(lru, k) /\ k # key
  BY <1>0, <1>1, RemovedFromBoth
<1>3. Resident' = Resident \ {key} /\ blocks' \in [Resident' -> Blocks]
  BY <1>0 DEF IInv, Resident, Restrict
<1>4. lru # <<>>
  BY <1>1 DEF Has
<1>5. Watermark \in Int /\ Watermark' = Watermark
  BY DEF Watermark, L3Assumption
<1>6. used' \in Int /\ used' <= Watermark
  BY <1>0, <1>4, <1>5 DEF IInv, L3Assumption
<1> QED
  BY <1>0, <1>2, <1>3, <1>5, <1>6, Zenon DEF IInv

\* Every step of the cache preserves the invariant.
LEMMA StepOK == IInv /\ [L3Next]_l3vars => IInv'
<1> SUFFICES ASSUME IInv, [L3Next]_l3vars PROVE IInv'
  OBVIOUS
<1>1. CASE \E key \in BlockKeys : Lookup(key)
  BY <1>1, LookupOK
<1>2. CASE \E key \in BlockKeys : Invalidate(key)
  BY <1>2, InvalidateOK, L3Assumption
<1>3. CASE \E key \in BlockKeys, block \in Blocks : Insert(key, block)
  BY <1>3, InsertOK, L3Assumption
<1>4. CASE EvictBack
  BY <1>4, EvictBackOK, L3Assumption
<1>5. CASE InsertEnd
  <2>1. used <= Watermark \/ lru = <<>>
    <3>1. Watermark \in Int /\ used \in Int
      BY L3Assumption DEF L3Assumption, Watermark, IInv
    <3> QED
      BY <1>5, <3>1 DEF InsertEnd, MustEvict
  <2> QED
    BY <1>5, <2>1, Zenon DEF InsertEnd, IInv, Resident, Watermark
<1>6. CASE UNCHANGED l3vars
  BY <1>6 DEF l3vars, IInv, Resident, Watermark
<1> QED
  BY <1>1, <1>2, <1>3, <1>4, <1>5, <1>6 DEF L3Next

\* The invariant holds in every state of the cache.
LEMMA Invariant == L3Spec => []IInv
  BY InitOK, StepOK, PTL DEF L3Spec

\* What the history of the calls says was put into the cache is what it holds.
OriginOK == origin = blocks

\* Every step changes both alike: an eviction takes a victim that is in both,
\* an Insert finds the key in both or in neither.
LEMMA OriginStep == IInv /\ OriginOK /\ [L3Next]_l3vars => OriginOK'
<1> SUFFICES ASSUME IInv, OriginOK, [L3Next]_l3vars PROVE OriginOK'
  OBVIOUS
<1>1. CASE \E key \in BlockKeys : Lookup(key)
  BY <1>1 DEF Lookup, OriginOK
<1>2. CASE \E key \in BlockKeys : Invalidate(key)
  BY <1>2, Zenon DEF Invalidate, OriginOK
<1>3. CASE \E key \in BlockKeys, block \in Blocks : Insert(key, block)
  <2>1. PICK key \in BlockKeys, block \in Blocks : Insert(key, block)
    BY <1>3
  <2>2. origin' = Added(origin, key, block)
    BY <2>1 DEF Insert
  <2>3. CASE key \in Resident
    BY <2>1, <2>2, <2>3, Zenon DEF Insert, OriginOK, Added, Resident
  <2>4. CASE key \notin Resident
    BY <2>1, <2>2, <2>4, Zenon DEF Insert, OriginOK
  <2> QED
    BY <2>3, <2>4
<1>4. CASE EvictBack
  <2>1. lru # <<>>
    BY <1>4 DEF EvictBack, MustEvict
  <2>2. lru[Len(lru)] \in Resident
    BY <2>1, LosesBack DEF IInv
  <2> QED
    BY <1>4, <2>2, Zenon DEF EvictBack, OriginOK
<1>5. CASE InsertEnd \/ UNCHANGED l3vars
  BY <1>5 DEF InsertEnd, l3vars, OriginOK
<1> QED
  BY <1>1, <1>2, <1>3, <1>4, <1>5 DEF L3Next

\* The two agree in every state of the cache.
LEMMA OriginInvariant == L3Spec => []OriginOK
<1>1. L3Init => OriginOK
  BY DEF L3Init, OriginOK
<1> QED
  BY <1>1, Invariant, OriginStep, PTL DEF L3Spec

-----------------------------------------------------------------------------
(* The theorems.                                                           *)

\* For every set of keys, every size of blocks and every capacity the cache
\* keeps the keys used last: eviction never passes over an older key.
THEOREM EvictsLeastRecent == L3Spec => []KeepsMostRecent
<1>1. IInv => KeepsMostRecent
  BY DEF IInv, ListsOK, KeepsMostRecent
<1> QED
  BY <1>1, Invariant, PTL

\* Outside Insert at most the watermark is used, or nothing is cached: for
\* every capacity, even below the size of a block, the loop does its work.
THEOREM EvictsDownToWatermark == L3Spec => [](~evicting => used <= Watermark \/ lru = <<>>)
<1>1. IInv => (~evicting => used <= Watermark \/ lru = <<>>)
  BY DEF IInv
<1> QED
  BY <1>1, Invariant, PTL

-----------------------------------------------------------------------------
(* Refinement of EvictingMap.                                              *)

\* What a caller sees of a block.
Shown(block) == [size |-> block.size, data |-> [i \in 1..block.size |-> block.version]]
Contents == [key \in Resident |-> Shown(blocks[key])]

\* The entries that stay are shown as before.
LEMMA DropVanishes ==
  ASSUME NEW key \in BlockKeys, blocks' = Restrict(blocks, Resident \ {key})
  PROVE  Contents' = Restrict(Contents, Resident \ {key})
<1>1. Resident' = Resident \ {key}
  BY DEF Resident, Restrict
<1>2. \A k \in Resident \ {key} : blocks'[k] = blocks[k]
  BY DEF Restrict
<1> QED
  BY <1>1, <1>2 DEF Contents, Restrict

\* Insert of a new key stores it with its data.
LEMMA InsertStores ==
  ASSUME NEW key \in BlockKeys, NEW block \in Blocks, L3Assumption,
         key \notin Resident,
         blocks' = [k \in Resident \cup {key} |-> IF k = key THEN block ELSE blocks[k]],
         origin = blocks, origin' = blocks'
  PROVE  L3Map!Store(key, block.size, block.version)
<1>1. Resident' = Resident \cup {key} /\ blocks'[key] = block
      /\ \A k \in Resident : blocks'[k] = blocks[k]
  BY DEF Resident
<1>2. Contents' = [k \in Resident \cup {key} |->
                     IF k = key THEN Shown(block) ELSE Contents[k]]
  BY <1>1 DEF Contents
<1>3. block = [size |-> block.size, version |-> block.version]
  BY DEF L3Assumption
<1>4. DOMAIN Contents = Resident /\ DOMAIN blocks = Resident
  BY DEF Contents, Resident
<1>5. Shown(block) = [size |-> block.size, data |-> L3Map!Fill(block.size, block.version)]
  BY DEF Shown, L3Map!Fill
<1>6. /\ key \notin DOMAIN Contents
      /\ \E cells \in {<<>>, L3Map!Fill(block.size, block.version)} :
           Contents' = [k \in DOMAIN Contents \cup {key} |->
             IF k = key THEN [size |-> block.size, data |-> cells] ELSE Contents[k]]
      /\ origin' = [k \in DOMAIN origin \cup {key} |->
             IF k = key THEN [size |-> block.size, version |-> block.version] ELSE origin[k]]
  BY <1>2, <1>3, <1>4, <1>5, Zenon
<1> QED
  BY <1>6, Zenon DEF L3Map!Store, Contents, Shown

\* Every step of the cache is a step of the map or leaves it alone.
LEMMA StepIsMapStep ==
  IInv /\ OriginOK /\ [L3Next]_l3vars => [L3Map!Next]_(L3Map!map)
<1> SUFFICES ASSUME IInv, OriginOK, [L3Next]_l3vars PROVE [L3Map!Next]_(L3Map!map)
  OBVIOUS
<1>0. origin = blocks /\ origin' = blocks'
  BY OriginStep DEF OriginOK
<1>1. ASSUME UNCHANGED blocks PROVE UNCHANGED L3Map!map
  BY <1>0, <1>1 DEF L3Map!map, Resident
<1>2. ASSUME NEW key \in BlockKeys, blocks' = Restrict(blocks, Resident \ {key})
      PROVE  L3Map!Next
  <2>1. Contents' = Restrict(Contents, DOMAIN Contents \ {key})
    BY <1>2, DropVanishes DEF Contents
  <2>2. L3Map!Vanish({key})
    BY <1>0, <1>2, <2>1 DEF L3Map!Vanish, Contents, Shown, Restrict, L3Map!Restrict, Resident
  <2>3. {key} \in SUBSET BlockKeys
    OBVIOUS
  <2> QED
    BY <2>2, <2>3 DEF L3Map!Next
<1>3. CASE \E key \in BlockKeys : Lookup(key)
  BY <1>1, <1>3 DEF Lookup
<1>4. CASE \E key \in BlockKeys : Invalidate(key)
  BY <1>2, <1>4 DEF Invalidate, Dropped, Resident
<1>5. ASSUME NEW key \in BlockKeys, NEW block \in Blocks, Insert(key, block)
      PROVE  [L3Map!Next]_(L3Map!map)
  <2>1. CASE key \in Resident
    BY <2>1, <1>1, <1>5 DEF Insert
  <2>2. CASE key \notin Resident
    <3>1. L3Map!Store(key, block.size, block.version)
      BY <1>0, <2>2, <1>5, InsertStores, L3Assumption DEF Insert, Added, Resident
    <3> QED
      BY <3>1 DEF L3Map!Next
  <2> QED
    BY <2>1, <2>2
<1>6. CASE EvictBack
  <2>1. CASE lru[Len(lru)] \in Resident
    <3>1. PICK victim \in BlockKeys : victim = lru[Len(lru)]
      BY <2>1 DEF IInv
    <3>2. blocks' = Restrict(blocks, Resident \ {victim})
      BY <1>6, <2>1, <3>1 DEF EvictBack, Dropped, Resident
    <3> QED
      BY <3>2, <1>2
  <2>2. CASE lru[Len(lru)] \notin Resident
    BY <2>2, <1>1, <1>6 DEF EvictBack
  <2> QED
    BY <2>1, <2>2
<1>7. CASE InsertEnd \/ UNCHANGED l3vars
  BY <1>1, <1>7 DEF InsertEnd, l3vars
<1> QED
  BY <1>3, <1>4, <1>5, <1>6, <1>7 DEF L3Next

\* For every set of keys, all blocks and every capacity the server's cache
\* implements the map its callers rely on: what entries_ holds of a key is the
\* block of the Insert that found it absent, through repeated Inserts and the
\* evictions of others.
THEOREM L3CacheIsEvictingMap == L3Spec => L3IsEvictingMap
<1>1. L3Init => L3Map!Init
  BY DEF L3Init, L3Map!Init, Resident
<1> QED
  BY <1>1, Invariant, OriginInvariant, StepIsMapStep, PTL DEF L3Spec, L3IsEvictingMap, L3Map!Spec
=============================================================================
