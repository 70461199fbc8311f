------------------------ MODULE ReplayRecorderProofs ------------------------
(* Facts about the recorder for every capacity and size of an entry: that  *)
(* no write leaves the buffer and no flush overwrites a flushed file, with *)
(* any number of writers, and that the wrap is known whatever the order of *)
(* their stores.                                                           *)
EXTENDS ReplayRecorder, TLAPS

-----------------------------------------------------------------------------
(* Writes stay inside the buffer.  head_ alone says nothing while a writer *)
(* holds an older copy of it, so the invariant speaks of both.             *)

\* The positions a write can be at: those with room for an entry.
Positions == {p \in Nat : p + EntrySize <= Capacity}

Pcs == {"idle", "place", "copy", "head", "count", "load", "over"}
WriterRecord == [pc : Pcs, entry : Nat, pos : Positions, part : Nat, wc : Nat]

BoundsInv ==
  /\ head \in 0..Capacity - 1
  /\ writer \in [Writers -> WriterRecord]
  /\ issued \in Nat /\ writeCount \in Nat

\* The remainder of a natural number by a positive one.
LEMMA ModRange ==
  ASSUME NEW n \in Nat, NEW m \in Nat \ {0}
  PROVE  n % m \in 0..(m - 1)
OBVIOUS

\* Construction puts head_ and every idle writer at the start of the buffer.
LEMMA InitBounds == Init => BoundsInv
BY SizeAssumption DEF Init, BoundsInv, Positions, IdleWriter, WriterRecord, Pcs

\* Updating a writer's fields keeps its record well-formed.
LEMMA RecordUpdates ==
  ASSUME NEW r \in WriterRecord, NEW pc \in Pcs, NEW n \in Nat
  PROVE  /\ [r EXCEPT !.pc = pc, !.entry = n] \in WriterRecord
         /\ [r EXCEPT !.pc = pc, !.part = n] \in WriterRecord
         /\ [r EXCEPT !.pc = pc, !.wc = n] \in WriterRecord
<1>1. [r EXCEPT !.pc = pc, !.entry = n] \in WriterRecord
  BY Zenon DEF WriterRecord
<1>2. [r EXCEPT !.pc = pc, !.part = n] \in WriterRecord
  BY Zenon DEF WriterRecord
<1>3. [r EXCEPT !.pc = pc, !.wc = n] \in WriterRecord
  BY Zenon DEF WriterRecord
<1>. QED
  BY <1>1, <1>2, <1>3

\* Every step of a writer keeps positions with room behind them.
LEMMA WriterStepBounds ==
  ASSUME BoundsInv, NEW w \in Writers, RecordIo(w) \/ WriterStep(w)
  PROVE  BoundsInv'
<1>. USE SizeAssumption DEF Pcs
<1>0. writer[w] \in WriterRecord
  BY DEF BoundsInv
<1>8. IdleWriter \in WriterRecord
  BY DEF IdleWriter, WriterRecord, Positions
<1>1. CASE RecordIo(w)
  <2>1. [writer[w] EXCEPT !.pc = "place", !.entry = issued + 1] \in WriterRecord
    <3>1. issued + 1 \in Nat /\ "place" \in Pcs
      BY DEF BoundsInv
    <3>. QED
      BY <1>0, <3>1, RecordUpdates, Zenon
  <2>. QED
    BY <1>1, <2>1 DEF BoundsInv, RecordIo, ring, NotWriter
<1>2. CASE Place(w)
  <2>1. WritePosition \in Positions
    BY DEF BoundsInv, WritePosition, Positions
  <2>2. [writer[w] EXCEPT !.pc = "copy", !.pos = WritePosition, !.part = 1] \in WriterRecord
    BY <1>0, <2>1, Zenon DEF WriterRecord
  <2>. QED
    BY <1>2, <2>2 DEF BoundsInv, Place, ring, NotWriter
<1>3. CASE CopyIn(w)
  <2>1. \A pc \in Pcs : [writer[w] EXCEPT !.pc = pc, !.part = writer[w].part + 1] \in WriterRecord
    <3>1. writer[w].part + 1 \in Nat
      BY <1>0 DEF WriterRecord
    <3>. QED
      BY <1>0, <3>1, RecordUpdates, Zenon
  <2>. QED
    BY <1>3, <2>1, Zenon DEF BoundsInv, CopyIn, NotWriter
<1>4. CASE StoreHead(w)
  <2>1. head' \in 0..Capacity - 1
    <3>1. writer[w].pos + EntrySize \in Nat /\ Capacity \in Nat \ {0}
      BY <1>0 DEF WriterRecord, Positions
    <3>. QED
      BY <1>4, <3>1, ModRange, Zenon DEF StoreHead
  <2>. QED
    BY <1>4, <2>1 DEF BoundsInv, StoreHead, NotWriter, Goto, WriterRecord
<1>5. CASE Count(w)
  BY <1>5 DEF BoundsInv, Count, NotWriter, Goto, WriterRecord
<1>6. CASE LoadCount(w)
  <2>1. CASE writeCount > MaxEntries
    <3>1. [writer[w] EXCEPT !.pc = "over", !.wc = writeCount] \in WriterRecord
      BY <1>0, Zenon DEF WriterRecord, BoundsInv
    <3>. QED
      BY <1>6, <2>1, <3>1 DEF BoundsInv, LoadCount, ring, NotWriter
  <2>2. CASE ~(writeCount > MaxEntries)
    BY <1>6, <1>8, <2>2 DEF BoundsInv, LoadCount, ring, NotWriter, EndWrite
  <2>. QED
    BY <2>1, <2>2
<1>7. CASE StoreOverwritten(w)
  BY <1>7, <1>8 DEF BoundsInv, StoreOverwritten, NotWriter, EndWrite
<1>. QED
  BY <1>1, <1>2, <1>3, <1>4, <1>5, <1>6, <1>7 DEF WriterStep

\* The invariant is inductive: besides the writers only a reboot touches
\* what it speaks of.
LEMMA NextBounds == BoundsInv /\ [Next]_vars => BoundsInv'
<1>. SUFFICES ASSUME BoundsInv, [Next]_vars
              PROVE  BoundsInv'
  OBVIOUS
<1>1. CASE \E w \in Writers : RecordIo(w) \/ WriterStep(w)
  BY <1>1, WriterStepBounds
<1>2. CASE UNCHANGED NotFlush
  BY <1>2 DEF BoundsInv, NotFlush, ring
<1>3. CASE Reboot
  BY <1>3, SizeAssumption DEF BoundsInv, Reboot, IdleWriter, Positions, WriterRecord, Pcs
<1>4. CASE UNCHANGED vars
  BY <1>4 DEF BoundsInv, vars, ring
<1>5. Start \/ Stop \/ (\E e \in BOOLEAN : BeginFlush(e)) \/ FlusherStep
        \/ CheckIncomplete \/ RenameIncomplete => UNCHANGED NotFlush
  BY Zenon DEF Start, Stop, BeginFlush, FlusherStep, CheckIncomplete, RenameIncomplete, FlushLoads,
         LoadWriteCount, LoadOverwritten, LoadHead, CopyOut, OpenFails, OpenFile,
         DumpCom1, WriteFile
<1>. QED
  BY <1>1, <1>2, <1>3, <1>4, <1>5 DEF Next

\* ReplayRingBuffer::Write never writes outside the buffer, for every
\* capacity and any number of threads inside it at once.
THEOREM WritesStayInBounds == Spec => []WritesInBounds
<1>1. BoundsInv => WritesInBounds
  BY DEF BoundsInv, WritesInBounds, Positions, WriterRecord
<1>. QED
  BY <1>1, InitBounds, NextBounds, PTL DEF Spec

-----------------------------------------------------------------------------
(* A flushed recording is kept.                                            *)

\* flushed_ is set by the last step of a flush and tested by its first one.
FlagInv == flushed => flush.pc = "idle"

\* The flag and the mutex together: no flush is under way once one is noted.
LEMMA FlagInductive == FlagInv /\ [Next]_vars => FlagInv'
<1>. SUFFICES ASSUME FlagInv, [Next]_vars
              PROVE  FlagInv'
  OBVIOUS
<1>. USE DEF FlagInv, Flushing, IdleFlush
<1>1. CASE \E w \in Writers : RecordIo(w) \/ WriterStep(w)
  BY <1>1, Zenon DEF RecordIo, WriterStep, Place, CopyIn, StoreHead, Count, LoadCount,
              StoreOverwritten, NotWriter
<1>2. CASE Start \/ Stop \/ \E e \in BOOLEAN : BeginFlush(e)
  BY <1>2, Zenon DEF Start, Stop, BeginFlush
<1>3. CASE LoadWriteCount \/ LoadOverwritten \/ LoadHead \/ CopyOut
  BY <1>3, Zenon DEF LoadWriteCount, LoadOverwritten, LoadHead, CopyOut, FlushLoads
<1>4. CASE OpenFails
  BY <1>4 DEF OpenFails
<1>5. CASE OpenFile
  BY <1>5 DEF OpenFile
<1>7. CASE DumpCom1 \/ WriteFile
  <2>1. flush' = IdleFlush
    BY <1>7 DEF DumpCom1, WriteFile
  <2>. QED
    BY <2>1
<1>6. CASE CheckIncomplete \/ RenameIncomplete \/ Reboot \/ UNCHANGED vars
  BY <1>6, Zenon DEF CheckIncomplete, RenameIncomplete, Reboot, vars
<1>. QED
  BY <1>1, <1>2, <1>3, <1>4, <1>5, <1>6, <1>7 DEF Next, FlusherStep

\* Whatever mixture of FlushNormal and FlushEmergency calls threads make, the
\* file of a recording that was flushed is not written again before Start.
THEOREM FlushedFileKept == Spec => FlushedOnce
<1>1. Init => FlagInv
  BY DEF Init, FlagInv
<1>2. FlagInv /\ [Next]_vars => [flushed /\ flushed' /\ file'.exists => file' = file]_vars
  <2>. SUFFICES ASSUME FlagInv, Next, flushed, flushed', file'.exists
                PROVE  file' = file
    BY DEF vars
  <2>. USE DEF FlagInv, Flushing
  <2>1. CASE \E w \in Writers : RecordIo(w) \/ WriterStep(w)
    BY <2>1 DEF RecordIo, WriterStep, Place, CopyIn, StoreHead, Count, LoadCount,
                StoreOverwritten, NotWriter
  <2>2. CASE Start \/ Stop \/ \E e \in BOOLEAN : BeginFlush(e)
    BY <2>2 DEF Start, Stop, BeginFlush
  <2>3. CASE FlusherStep
    BY <2>3 DEF FlusherStep, LoadWriteCount, LoadOverwritten, LoadHead, CopyOut, FlushLoads,
                OpenFails, OpenFile, DumpCom1, WriteFile
  <2>4. CASE CheckIncomplete \/ RenameIncomplete \/ Reboot
    BY <2>4 DEF CheckIncomplete, RenameIncomplete, Reboot, NoFile
  <2>. QED
    BY <2>1, <2>2, <2>3, <2>4 DEF Next
<1>. QED
  BY <1>1, <1>2, FlagInductive, PTL DEF Spec, FlushedOnce

-----------------------------------------------------------------------------
(* The wrap of the ring.  A store of overwrite_count_ may come long after  *)
(* the load it rests on, so the invariant speaks of what the writers hold: *)
(* each such value is past the limit and not above write_count_, and a     *)
(* wrap that is not noted yet is about to be noted by some writer.         *)

CountInv ==
  /\ overwriteCount \in Nat /\ overwriteCount <= Excess(writeCount)
  /\ \A w \in Writers : writer[w].pc = "over" =>
       MaxEntries < writer[w].wc /\ writer[w].wc <= writeCount
  /\ writeCount > MaxEntries /\ overwriteCount = 0 =>
       \E w \in Writers : writer[w].pc \in {"load", "over"}

\* The number of entries that fit is a natural number.
LEMMA MaxEntriesNat == MaxEntries \in Nat
BY SizeAssumption DEF MaxEntries

\* Construction and a reboot reset both counters and every writer.
LEMMA ResetCounts ==
  ASSUME writeCount = 0, overwriteCount = 0, writer = [w \in Writers |-> IdleWriter]
  PROVE  CountInv
BY MaxEntriesNat DEF CountInv, Excess, IdleWriter

\* What a writer does before it counts, or while it copies, leaves all counters
\* and every pending store alone.
LEMMA OtherStepCounts ==
  ASSUME CountInv, NEW w \in Writers, NEW r,
         writer[w].pc \notin {"load", "over"}, r.pc \notin {"load", "over"},
         BoundsInv, writer' = [writer EXCEPT ![w] = r],
         UNCHANGED <<writeCount, overwriteCount>>
  PROVE  CountInv'
<1>1. \A v \in Writers : v # w => writer'[v] = writer[v]
  BY DEF BoundsInv
<1>2. writer'[w] = r
  BY DEF BoundsInv
<1>. QED
  BY <1>1, <1>2 DEF CountInv, Excess

\* Each step of any writer keeps the invariant: Count may make the wrap, and
\* its writer is then the one that will note it.
LEMMA WriterStepCounts ==
  ASSUME BoundsInv, CountInv, NEW w \in Writers, RecordIo(w) \/ WriterStep(w)
  PROVE  CountInv'
<1>. USE MaxEntriesNat
<1>0. writer[w] \in WriterRecord /\ writeCount \in Nat
  BY DEF BoundsInv
<1>1. CASE RecordIo(w)
  <2>. DEFINE r == [writer[w] EXCEPT !.pc = "place", !.entry = issued + 1]
  <2>1. writer' = [writer EXCEPT ![w] = r] /\ r.pc = "place" /\ writer[w].pc = "idle"
    BY <1>0, <1>1 DEF RecordIo, At, WriterRecord
  <2>2. UNCHANGED <<writeCount, overwriteCount>>
    BY <1>1 DEF RecordIo, ring
  <2>. HIDE DEF r
  <2>. QED
    BY <2>1, <2>2, OtherStepCounts, Zenon
<1>2. CASE Place(w)
  <2>. DEFINE r == [writer[w] EXCEPT !.pc = "copy", !.pos = WritePosition, !.part = 1]
  <2>1. writer' = [writer EXCEPT ![w] = r] /\ r.pc = "copy" /\ writer[w].pc = "place"
    BY <1>0, <1>2 DEF Place, At, WriterRecord
  <2>2. UNCHANGED <<writeCount, overwriteCount>>
    BY <1>2 DEF Place, ring
  <2>. HIDE DEF r
  <2>. QED
    BY <2>1, <2>2, OtherStepCounts, Zenon
<1>3. CASE CopyIn(w)
  <2>. DEFINE pc == IF writer[w].part = EntrySize THEN "head" ELSE "copy"
              r == [writer[w] EXCEPT !.pc = pc, !.part = writer[w].part + 1]
  <2>1. writer' = [writer EXCEPT ![w] = r] /\ r.pc = pc /\ writer[w].pc = "copy"
    BY <1>0, <1>3 DEF CopyIn, At, WriterRecord
  <2>2. UNCHANGED <<writeCount, overwriteCount>>
    BY <1>3 DEF CopyIn
  <2>3. pc \notin {"load", "over"}
    OBVIOUS
  <2>. HIDE DEF r, pc
  <2>. QED
    BY <2>1, <2>2, <2>3, OtherStepCounts, Zenon
<1>4. CASE StoreHead(w)
  <2>. DEFINE r == [writer[w] EXCEPT !.pc = "count"]
  <2>1. writer' = [writer EXCEPT ![w] = r] /\ r.pc = "count" /\ writer[w].pc = "head"
    BY <1>0, <1>4 DEF StoreHead, At, Goto, WriterRecord, BoundsInv
  <2>2. UNCHANGED <<writeCount, overwriteCount>>
    BY <1>4 DEF StoreHead
  <2>. HIDE DEF r
  <2>. QED
    BY <2>1, <2>2, OtherStepCounts, Zenon
<1>5. CASE Count(w)
  <2>1. writer'[w].pc = "load" /\ \A v \in Writers : v # w => writer'[v] = writer[v]
    BY <1>0, <1>5 DEF Count, Goto, WriterRecord, BoundsInv
  <2>2. writeCount' = writeCount + 1 /\ overwriteCount' = overwriteCount
    BY <1>5 DEF Count
  <2>3. overwriteCount' <= Excess(writeCount)'
    BY <1>0, <2>2 DEF CountInv, Excess
  <2>4. \A v \in Writers : writer'[v].pc = "over" =>
          MaxEntries < writer'[v].wc /\ writer'[v].wc <= writeCount'
    BY <1>0, <2>1, <2>2 DEF CountInv, BoundsInv, WriterRecord
  <2>. QED
    BY <2>1, <2>2, <2>3, <2>4 DEF CountInv
<1>6. CASE LoadCount(w)
  <2>0. UNCHANGED <<writeCount, overwriteCount>>
    BY <1>6 DEF LoadCount, ring
  <2>1. CASE writeCount > MaxEntries
    <3>1. writer' = [writer EXCEPT ![w] = [@ EXCEPT !.pc = "over", !.wc = writeCount]]
      BY <1>6, <2>1 DEF LoadCount
    <3>2. /\ writer'[w].pc = "over" /\ writer'[w].wc = writeCount
          /\ \A v \in Writers : v # w => writer'[v] = writer[v]
      BY <1>0, <3>1 DEF BoundsInv, WriterRecord
    <3>3. \A v \in Writers : writer'[v].pc = "over" =>
            MaxEntries < writer'[v].wc /\ writer'[v].wc <= writeCount'
      BY <1>0, <2>0, <2>1, <3>2 DEF CountInv
    <3>4. overwriteCount' \in Nat /\ overwriteCount' <= Excess(writeCount)'
      BY <2>0 DEF CountInv, Excess
    <3>. QED
      BY <3>2, <3>3, <3>4 DEF CountInv
  <2>2. CASE ~(writeCount > MaxEntries)
    <3>1. /\ writer'[w].pc = "idle"
          /\ \A v \in Writers : v # w => writer'[v] = writer[v]
      BY <1>6, <2>2 DEF LoadCount, EndWrite, IdleWriter, BoundsInv
    <3>2. \A v \in Writers : writer'[v].pc = "over" =>
            MaxEntries < writer'[v].wc /\ writer'[v].wc <= writeCount'
      BY <2>0, <3>1 DEF CountInv
    <3>3. overwriteCount' \in Nat /\ overwriteCount' <= Excess(writeCount)'
      BY <2>0 DEF CountInv, Excess
    <3>. QED
      BY <2>0, <2>2, <3>2, <3>3 DEF CountInv
  <2>. QED
    BY <2>1, <2>2
<1>7. CASE StoreOverwritten(w)
  <2>1. /\ writer'[w].pc = "idle"
        /\ \A v \in Writers : v # w => writer'[v] = writer[v]
    BY <1>7 DEF StoreOverwritten, EndWrite, IdleWriter, BoundsInv
  <2>2. writeCount' = writeCount /\ overwriteCount' = writer[w].wc - MaxEntries
    BY <1>7 DEF StoreOverwritten
  <2>3. MaxEntries < writer[w].wc /\ writer[w].wc <= writeCount /\ writer[w].wc \in Nat
    BY <1>0, <1>7 DEF StoreOverwritten, At, CountInv, WriterRecord
  <2>4. overwriteCount' \in Nat /\ overwriteCount' # 0 /\ overwriteCount' <= Excess(writeCount)'
    BY <1>0, <2>2, <2>3 DEF Excess
  <2>5. \A v \in Writers : writer'[v].pc = "over" =>
          MaxEntries < writer'[v].wc /\ writer'[v].wc <= writeCount'
    BY <2>1, <2>2 DEF CountInv
  <2>. QED
    BY <2>4, <2>5 DEF CountInv
<1>. QED
  BY <1>1, <1>2, <1>3, <1>4, <1>5, <1>6, <1>7 DEF WriterStep

\* For every capacity and any number of threads in Write at once, in any order
\* of their loads and stores, overwrite_count_ tells whether the ring has wrapped.
THEOREM WrapIsAlwaysKnown == Spec => []WrapIsKnown
<1>1. Init => CountInv
  BY ResetCounts DEF Init
<1>2. BoundsInv /\ CountInv /\ [Next]_vars => CountInv'
  <2>. SUFFICES ASSUME BoundsInv, CountInv, [Next]_vars
                PROVE  CountInv'
    OBVIOUS
  <2>1. CASE \E v \in Writers : RecordIo(v) \/ WriterStep(v)
    BY <2>1, WriterStepCounts
  <2>2. CASE UNCHANGED NotFlush
    BY <2>2 DEF CountInv, NotFlush, ring, Excess
  <2>3. CASE Reboot
    BY <2>3, MaxEntriesNat DEF Reboot, CountInv, Excess, IdleWriter
  <2>4. CASE UNCHANGED vars
    BY <2>4 DEF CountInv, vars, ring, Excess
  <2>5. Start \/ Stop \/ (\E e \in BOOLEAN : BeginFlush(e)) \/ FlusherStep
          \/ CheckIncomplete \/ RenameIncomplete => UNCHANGED NotFlush
    BY Zenon DEF Start, Stop, BeginFlush, FlusherStep, CheckIncomplete, RenameIncomplete, FlushLoads,
           LoadWriteCount, LoadOverwritten, LoadHead, CopyOut, OpenFails, OpenFile,
           DumpCom1, WriteFile
  <2>. QED
    BY <2>1, <2>2, <2>3, <2>4, <2>5 DEF Next
<1>3. BoundsInv /\ CountInv => WrapIsKnown
  <2>. SUFFICES ASSUME BoundsInv, CountInv
                PROVE  WrapIsKnown
    OBVIOUS
  <2>1. writeCount \in Nat /\ overwriteCount \in Nat /\ overwriteCount <= Excess(writeCount)
    BY DEF BoundsInv, CountInv
  <2>2. overwriteCount > 0 => writeCount > MaxEntries
    BY <2>1, MaxEntriesNat DEF Excess
  <2>3. ASSUME \A w \in Writers : writer[w].pc \notin {"load", "over"}, writeCount > MaxEntries
        PROVE  overwriteCount > 0
    <3>1. overwriteCount # 0
      BY <2>3 DEF CountInv
    <3>. QED
      BY <2>1, <3>1
  <2>. QED
    BY <2>1, <2>2, <2>3 DEF WrapIsKnown
<1>. QED
  BY <1>1, <1>2, <1>3, InitBounds, NextBounds, PTL DEF Spec
=============================================================================
