------------------------------- MODULE TinyLFU -------------------------------
(***************************************************************************)
(* The frequency estimator of the L1 cache: CountMinSketch and TinyLFU of  *)
(* client/smart_cache/w_tinylfu.{h,cpp}.                                   *)
(*                                                                         *)
(* A key is counted in one cell of every row; its estimate is the smallest *)
(* of them.  After reset_threshold_ accesses everything is forgotten.  The *)
(* hash is a parameter: whatever it is, the estimate is never too low.     *)
(***************************************************************************)
EXTENDS Integers, FiniteSets

CONSTANTS
  Keys,
  Depth, Width,  \* depth_ and width_ of the sketch
  Hash,          \* the cell of a key in a row
  Capacity,      \* capacity of the cache
  ResetFactor,   \* accesses per unit of capacity between resets: 10
  UintRange      \* uint32_t holds 0..UintRange-1

ASSUME SketchAssumption ==
  /\ Depth \in Nat \ {0} /\ Width \in Nat \ {0}
  /\ Hash \in [1..Depth -> [Keys -> 1..Width]]
  /\ Capacity \in Nat /\ ResetFactor \in Nat
  /\ UintRange \in Nat \ {0}

VARIABLES
  table,        \* table_
  totalAccess,  \* total_access_
  count         \* history: accesses of each key since the last reset

sketch == <<table, totalAccess, count>>

Rows == 1..Depth
Columns == 1..Width
EmptyTable == [d \in Rows |-> [i \in Columns |-> 0]]
NoCounts == [k \in Keys |-> 0]

\* reset_threshold_, a uint32_t product.
ResetThreshold == (Capacity * ResetFactor) % UintRange

SketchInit ==
  /\ table = EmptyTable
  /\ totalAccess = 0
  /\ count = NoCounts

\* Faulty Add: the cells of all rows are chosen by the first row's hash.
AddFirstHash(key) ==
  [d \in Rows |-> [table[d] EXCEPT ![Hash[1][key]] = (@ + 1) % UintRange]]

\* CountMinSketch::Add of one access.
Add(key) ==
  [d \in Rows |-> [table[d] EXCEPT ![Hash[d][key]] = (@ + 1) % UintRange]]

\* CountMinSketch::Estimate: the least of the key's cells.
Estimate(key) ==
  CHOOSE n \in {table[d][Hash[d][key]] : d \in Rows} :
    \A d \in Rows : n <= table[d][Hash[d][key]]

\* TinyLFU::Reset.
Reset == table' = EmptyTable /\ totalAccess' = 0 /\ count' = NoCounts

\* Faulty Access: the sketch is reset but the access counter is not.
AccessKeepsTotal(key) ==
  IF totalAccess + 1 >= ResetThreshold
  THEN table' = EmptyTable /\ totalAccess' = totalAccess + 1 /\ count' = NoCounts
  ELSE /\ table' = Add(key)
       /\ totalAccess' = totalAccess + 1
       /\ count' = [count EXCEPT ![key] = @ + 1]

\* TinyLFU::Access: the access that reaches the threshold resets the sketch and
\* is forgotten with the others.
Access(key) ==
  IF totalAccess + 1 >= ResetThreshold THEN Reset
  ELSE /\ table' = Add(key)
       /\ totalAccess' = totalAccess + 1
       /\ count' = [count EXCEPT ![key] = @ + 1]

SketchNext == (\E key \in Keys : Access(key)) \/ Reset

SketchSpec == SketchInit /\ [][SketchNext]_sketch

-----------------------------------------------------------------------------
(* Properties.                                                             *)

\* The cells hold uint32_t values.
SketchTypeOK ==
  /\ table \in [Rows -> [Columns -> 0..(UintRange - 1)]]
  /\ totalAccess \in Nat
  /\ count \in [Keys -> Nat]

\* Collisions make Estimate too high, never too low: a key EvictOne takes for
\* unused has not been accessed since the last reset.
NeverUnderestimates == \A key \in Keys : Estimate(key) >= count[key]

\* Overestimates are bounded: no cell exceeds the accesses since the last
\* reset, which stay below the threshold, so no uint32_t cell wraps around.
CellsNeverWrap ==
  /\ totalAccess < ResetThreshold \/ totalAccess = 0
  /\ \A d \in Rows, i \in Columns : table[d][i] <= totalAccess

=============================================================================
