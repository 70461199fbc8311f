--------------------------- MODULE ReplayRecorder ---------------------------
(* The boot replay recorder, tools/replay_recorder/replay_recorder.cpp: a  *)
(* ring buffer that I/O threads write entries into without a lock, the     *)
(* flush of the ring to a file or to COM1, and the analyzer's reader of    *)
(* that file.                                                              *)
(*                                                                         *)
(* Memory and file are sequences of cells, an entry being EntrySize cells  *)
(* <<number, part>>; entries are numbered in the order in which RecordIo   *)
(* makes them, which stands for their contents: nothing here reads a time  *)
(* stamp, so record_start_, which Start resets, is left out.  Every load,  *)
(* store and copied cell is a step, so a flush sees the ring in any state  *)
(* a writer leaves it in.                                                  *)
EXTENDS Integers, Sequences, SequencesExt, FiniteSetsExt

CONSTANTS
  Writers,        \* threads that call RecordIo
  Capacity,       \* capacity_, in cells
  EntrySize,      \* REPLAY_ENTRY_SIZE, in cells
  StartAlone,     \* callers do not call Start during a flush
  MaxWrites,      \* bound on the entries recorded in one boot
  MaxBoots        \* bound on the boots

ASSUME SizeAssumption == /\ EntrySize \in Nat \ {0}
                         /\ Capacity \in Nat /\ Capacity >= EntrySize
                         /\ MaxWrites \in Nat /\ MaxBoots \in Nat

VARIABLES
  buffer, head, writeCount, overwriteCount, active,   \* ReplayRingBuffer
  flushed,        \* flushed_ of BootReplayRecorder
  writer,         \* a RecordIo call per thread: where it is and its locals
  flush,          \* the flush that holds flush_mutex_, and its locals
  issued,         \* entries made in this boot
  renaming,       \* CheckAndRenameIncomplete has found the file too short
  file,           \* boot_replay.bin
  saved,          \* the entries the last flush meant to put there
  boots

ring == <<buffer, head, writeCount, overwriteCount>>
vars == <<ring, active, flushed, writer, flush, issued, renaming, file, saved, boots>>

MaxEntries == Capacity \div EntrySize

Blank == <<0, 0>>                   \* a cell memset by Initialize
Beyond == <<0, -1>>                 \* memory that is not the ring's
Header(count) == <<-1, count>>      \* magic, version, entry_count
Footer == <<-2, 0>>                 \* total_crc32c, footer_magic
HeaderSize == 1
FooterSize == 1

EntryOf(n) == [p \in 1..EntrySize |-> <<n, p>>]
\* The i-th entry of a sequence of cells.
EntryAt(cells, i) == SubSeq(cells, (i - 1) * EntrySize + 1, i * EntrySize)
EntriesOf(cells) == [i \in 1..(Len(cells) \div EntrySize) |-> EntryAt(cells, i)]

NoFile == [exists |-> FALSE, cells |-> <<>>]
IdleWriter == [pc |-> "idle", entry |-> 0, pos |-> 0, part |-> 0, wc |-> 0]
IdleFlush == [pc |-> "idle", emergency |-> FALSE, com1 |-> FALSE,
              wc |-> 0, start |-> 0, got |-> <<>>]

BlankBuffer == [c \in 0..Capacity - 1 |-> Blank]

\* The constructors, and Initialize by the first Start.
Init ==
  /\ buffer = BlankBuffer /\ head = 0 /\ writeCount = 0 /\ overwriteCount = 0
  /\ active = FALSE /\ flushed = FALSE /\ issued = 0
  /\ renaming = FALSE
  /\ writer = [w \in Writers |-> IdleWriter]
  /\ flush = IdleFlush
  /\ file = NoFile /\ saved = <<>> /\ boots = 1

-----------------------------------------------------------------------------
(* RecordIo: ReplayRingBuffer::Write in its separate memory accesses.      *)

At(w, pc) == writer[w].pc = pc
Goto(w, pc) == writer' = [writer EXCEPT ![w].pc = pc]
EndWrite(w) == writer' = [writer EXCEPT ![w] = IdleWriter]
NotWriter == <<active, flushed, flush, renaming, file, saved, boots>>

\* An entry is made if the ring is recording.
RecordIo(w) ==
  /\ At(w, "idle") /\ active /\ issued < MaxWrites
  /\ issued' = issued + 1
  /\ writer' = [writer EXCEPT ![w] = [@ EXCEPT !.pc = "place", !.entry = issued + 1]]
  /\ UNCHANGED <<ring, NotWriter>>

WritePosition == IF head + EntrySize > Capacity THEN 0 ELSE head

Place(w) ==
  /\ At(w, "place")
  /\ writer' = [writer EXCEPT ![w] = [@ EXCEPT !.pc = "copy", !.pos = WritePosition, !.part = 1]]
  /\ UNCHANGED <<ring, issued, NotWriter>>

CopyIn(w) ==
  LET v == writer[w] IN
  /\ At(w, "copy")
  /\ buffer' = [buffer EXCEPT ![v.pos + v.part - 1] = <<v.entry, v.part>>]
  /\ writer' = [writer EXCEPT ![w] =
       [@ EXCEPT !.pc = IF v.part = EntrySize THEN "head" ELSE "copy", !.part = v.part + 1]]
  /\ UNCHANGED <<head, writeCount, overwriteCount, issued, NotWriter>>

StoreHead(w) ==
  /\ At(w, "head")
  /\ head' = (writer[w].pos + EntrySize) % Capacity
  /\ Goto(w, "count")
  /\ UNCHANGED <<buffer, writeCount, overwriteCount, issued, NotWriter>>

Count(w) ==
  /\ At(w, "count")
  /\ writeCount' = writeCount + 1
  /\ Goto(w, "load")
  /\ UNCHANGED <<buffer, head, overwriteCount, issued, NotWriter>>

\* Faulty LoadCount: takes the value that fetch_add has returned.
LoadCountOld(w) ==
  /\ At(w, "load")
  /\ IF writeCount - 1 > MaxEntries
       THEN writer' = [writer EXCEPT ![w] = [@ EXCEPT !.pc = "over", !.wc = writeCount - 1]]
       ELSE EndWrite(w)
  /\ UNCHANGED <<ring, issued, NotWriter>>

LoadCount(w) ==
  /\ At(w, "load")
  /\ IF writeCount > MaxEntries
       THEN writer' = [writer EXCEPT ![w] = [@ EXCEPT !.pc = "over", !.wc = writeCount]]
       ELSE EndWrite(w)
  /\ UNCHANGED <<ring, issued, NotWriter>>

StoreOverwritten(w) ==
  /\ At(w, "over")
  /\ overwriteCount' = writer[w].wc - MaxEntries
  /\ EndWrite(w)
  /\ UNCHANGED <<buffer, head, writeCount, issued, NotWriter>>

WriterStep(w) == \/ Place(w) \/ CopyIn(w) \/ StoreHead(w)
                 \/ Count(w) \/ LoadCount(w) \/ StoreOverwritten(w)

-----------------------------------------------------------------------------
(* The recorder: Start, Stop, the two flushes under flush_mutex_, and      *)
(* CheckAndRenameIncomplete.                                               *)

Flushing(pc) == flush.pc = pc
NotFlush == <<ring, writer, issued, boots>>

Start ==
  /\ StartAlone => Flushing("idle")
  /\ active' = TRUE /\ flushed' = FALSE
  /\ UNCHANGED <<flush, renaming, file, saved, NotFlush>>

Stop ==
  /\ active' = FALSE
  /\ UNCHANGED <<flushed, flush, renaming, file, saved, NotFlush>>

\* Faulty BeginFlush: the flag of an earlier flush is not looked at.
BeginFlushAgain(emergency) ==
  /\ Flushing("idle")
  /\ active' = FALSE
  /\ flush' = [IdleFlush EXCEPT !.pc = "count", !.emergency = emergency]
  /\ UNCHANGED <<flushed, renaming, file, saved, NotFlush>>

\* FlushNormal or FlushEmergency with the ring not flushed yet (else they
\* return at once), up to StopRecording.
BeginFlush(emergency) ==
  /\ Flushing("idle") /\ ~flushed
  /\ active' = FALSE
  /\ flush' = [IdleFlush EXCEPT !.pc = "count", !.emergency = emergency]
  /\ UNCHANGED <<flushed, renaming, file, saved, NotFlush>>

\* GetAllEntries: the loads, then the cells of min(wc, max_entries) entries.
FlushLoads(pc, f) ==
  /\ Flushing(pc) /\ flush' = f
  /\ UNCHANGED <<active, flushed, renaming, file, saved, NotFlush>>

LoadWriteCount ==
  FlushLoads("count", [flush EXCEPT !.pc = "oldest", !.wc = writeCount])

\* Faulty LoadOverwritten: always starts at the first slot.
LoadOverwrittenNever ==
  FlushLoads("oldest", [flush EXCEPT !.pc = "copy", !.start = 0])

LoadOverwritten ==
  FlushLoads("oldest", [flush EXCEPT !.pc = IF overwriteCount > 0 THEN "start" ELSE "copy",
                                     !.start = 0])

LoadHead ==
  FlushLoads("start", [flush EXCEPT !.pc = "copy", !.start = head])

FlushCount == IF flush.wc < MaxEntries THEN flush.wc ELSE MaxEntries
Copied == Len(flush.got) = FlushCount * EntrySize

\* Where in the buffer the next cell is read; memcpy does not wrap within an
\* entry.
ReadPosition ==
  LET k == Len(flush.got)
  IN ((flush.start + (k \div EntrySize) * EntrySize) % Capacity) + (k % EntrySize)

CopyOut ==
  /\ ~Copied
  /\ FlushLoads("copy", [flush EXCEPT !.got =
       Append(@, IF ReadPosition < Capacity THEN buffer[ReadPosition] ELSE Beyond)])

Com1Flush == [IdleFlush EXCEPT !.pc = "count", !.emergency = TRUE, !.com1 = TRUE]

\* Faulty FlushFails: every failed attempt is followed by another.
FlushFailsAgain ==
  IF flush.emergency THEN active' = FALSE /\ flush' = Com1Flush
                     ELSE flush' = IdleFlush /\ UNCHANGED active

\* FlushToFile or FlushToCom1 returns false: FlushEmergency goes on to COM1.
FlushFails ==
  IF flush.emergency /\ ~flush.com1 THEN active' = FALSE /\ flush' = Com1Flush
                                    ELSE flush' = IdleFlush /\ UNCHANGED active

\* There are no entries, the file or COM1 cannot be opened.
OpenFails ==
  /\ Flushing("copy") /\ Copied
  /\ FlushFails
  /\ UNCHANGED <<flushed, renaming, file, saved, NotFlush>>

\* FlushToFile truncates the file.
OpenFile ==
  /\ Flushing("copy") /\ Copied /\ ~flush.com1 /\ FlushCount > 0
  /\ file' = [exists |-> TRUE, cells |-> <<>>]
  /\ saved' = EntriesOf(flush.got)
  /\ flush' = [flush EXCEPT !.pc = "write"]
  /\ UNCHANGED <<active, flushed, renaming, NotFlush>>

\* FlushToCom1 prints the entries; the flush is not noted in flushed_.
DumpCom1 ==
  /\ Flushing("copy") /\ Copied /\ flush.com1
  /\ flush' = IdleFlush
  /\ UNCHANGED <<active, flushed, renaming, file, saved, NotFlush>>

FileImage == <<Header(FlushCount)>> \o flush.got \o <<Footer>>

\* The whole image or, on a full disk, a part of it goes to the file that was
\* opened, boot_replay.bin unless that has been renamed since.
Written == \E n \in 0..Len(FileImage) :
  file' = IF file.exists THEN [file EXCEPT !.cells = SubSeq(FileImage, 1, n)] ELSE file

\* The flush returns true in all cases.
WriteFile ==
  /\ Flushing("write")
  /\ Written
  /\ flush' = IdleFlush /\ flushed' = TRUE
  /\ UNCHANGED <<active, renaming, saved, NotFlush>>

\* CheckAndRenameIncomplete, which takes no lock: what is shorter than header
\* and footer, and whatever has taken its place since, is given another name.
CheckIncomplete ==
  /\ ~renaming
  /\ file.exists /\ Len(file.cells) < HeaderSize + FooterSize
  /\ renaming' = TRUE
  /\ UNCHANGED <<active, flushed, flush, file, saved, NotFlush>>

RenameIncomplete ==
  /\ renaming
  /\ file' = NoFile /\ renaming' = FALSE
  /\ UNCHANGED <<active, flushed, flush, saved, NotFlush>>

\* The terminal goes down, perhaps within the write, and boots again.
Reboot ==
  /\ boots < MaxBoots /\ boots' = boots + 1
  /\ IF Flushing("write") THEN Written ELSE UNCHANGED file
  /\ buffer' = BlankBuffer /\ head' = 0 /\ writeCount' = 0 /\ overwriteCount' = 0
  /\ active' = FALSE /\ flushed' = FALSE /\ issued' = 0
  /\ renaming' = FALSE
  /\ writer' = [w \in Writers |-> IdleWriter]
  /\ flush' = IdleFlush
  /\ UNCHANGED saved

FlusherStep == \/ LoadWriteCount \/ LoadOverwritten \/ LoadHead \/ CopyOut
               \/ OpenFails \/ OpenFile \/ DumpCom1 \/ WriteFile

Next == \/ \E w \in Writers : RecordIo(w) \/ WriterStep(w)
        \/ Start \/ Stop \/ \E e \in BOOLEAN : BeginFlush(e)
        \/ FlusherStep \/ CheckIncomplete \/ RenameIncomplete \/ Reboot

\* A flush that has begun goes on: its thread is scheduled and waits for
\* nothing.
Spec == Init /\ [][Next]_vars /\ WF_vars(FlusherStep)

-----------------------------------------------------------------------------
(* BootReplayAnalyzer::ReadEntries.                                        *)

\* Faulty ReadEntries: the entries the file lacks are counted as read.
ReadEntriesPadded(f) ==
  IF ~f.exists \/ Len(f.cells) < HeaderSize THEN <<>>
  ELSE [i \in 1..f.cells[1][2] |->
          IF HeaderSize + i * EntrySize <= Len(f.cells)
            THEN EntryAt(Tail(f.cells), i) ELSE [p \in 1..EntrySize |-> Blank]]

\* As many of the entry_count entries as are whole in the file.
ReadEntries(f) ==
  IF ~f.exists \/ Len(f.cells) < HeaderSize THEN <<>>
  ELSE [i \in 1..Min({f.cells[1][2], (Len(f.cells) - HeaderSize) \div EntrySize}) |->
          EntryAt(Tail(f.cells), i)]

-----------------------------------------------------------------------------
(* Properties.                                                             *)

Cells == ((0..MaxWrites) \X (-1..EntrySize))

TypeOK ==
  /\ buffer \in [0..Capacity - 1 -> Cells]
  /\ head \in 0..Capacity - 1
  /\ writeCount \in 0..MaxWrites /\ overwriteCount \in 0..MaxWrites
  /\ active \in BOOLEAN /\ flushed \in BOOLEAN
  /\ renaming \in BOOLEAN
  /\ writer \in [Writers -> [pc : {"idle", "place", "copy", "head", "count", "load", "over"},
                             entry : 0..MaxWrites, pos : 0..Capacity - EntrySize,
                             part : 0..EntrySize + 1, wc : 0..MaxWrites]]
  /\ flush.pc \in {"idle", "count", "oldest", "start", "copy", "write"}
  /\ flush.got \in Seq(Cells)
  /\ issued \in 0..MaxWrites /\ boots \in 1..MaxBoots

\* A write never reaches past the end of the buffer, whatever the capacity
\* and however many threads write at once without a lock (Write wraps to 0
\* when the entry would not fit behind head_).
WritesInBounds ==
  \A w \in Writers : writer[w].pc \in {"copy", "head"} =>
                       writer[w].pos + EntrySize <= Capacity

Excess(n) == IF n > MaxEntries THEN n - MaxEntries ELSE 0

\* However many threads are in Write at once, overwrite_count_ tells GetAllEntries
\* whether the ring has wrapped, the one thing it is read for (line 129): once
\* every thread that has counted its entry has also made its store, it is 0
\* exactly as long as all entries fit.  It may lag behind, since a late store
\* puts an older value back, but it never counts too many.
WrapIsKnown ==
  /\ overwriteCount <= Excess(writeCount)
  /\ (\A w \in Writers : writer[w].pc \notin {"load", "over"}) =>
       (overwriteCount > 0 <=> writeCount > MaxEntries)

Whole(e) == e = EntryOf(e[1][1])
NumberedUpTo(lo, hi) == [i \in 1..(hi - lo + 1) |-> EntryOf(lo + i - 1)]

\* With one thread that records: what a flush copies out of the ring while a
\* last write may still be going on.  All entries before the newest counted
\* one, in the order in which they were made and without a gap, back to the
\* oldest the ring can hold (or to the one after it, whose slot the last write
\* may be taking); the newest is there too, and at most one entry is a mixture.
RingKeepsNewest ==
  flush.pc = "write" =>
    LET got == EntriesOf(flush.got)
        newest == flush.wc
        oldest == Max({1, newest - MaxEntries + 1})
    IN /\ \E lo \in {oldest, oldest + 1} :
            SelectSeq(got, LAMBDA e : Whole(e) /\ e[1][1] < newest)
              = NumberedUpTo(lo, newest - 1)
       /\ EntryOf(newest) \in Range(got)
       /\ Quantify(1..Len(got), LAMBDA i : ~Whole(got[i])) <= 1

\* A flushed recording is not written over by the other flush: FlushNormal
\* and FlushEmergency may both be called, by threads that know nothing of
\* each other.
FlushedOnce == [][flushed /\ flushed' /\ file'.exists => file' = file]_vars

\* The analyzer reads entries of the last flush, from the first one on,
\* whatever the crash or the full disk left of the file.
AnalyzerReadsPrefix == IsPrefix(ReadEntries(file), saved)

\* A flush that has begun ends, if only by giving up after COM1.
FlushEnds == ~Flushing("idle") ~> Flushing("idle")
=============================================================================
