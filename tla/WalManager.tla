----------------------------- MODULE WalManager -----------------------------
(***************************************************************************)
(* The write-ahead log of the overlay manager,                             *)
(* client/overlay_mgr/wal_enhanced.{h,cpp}: entries with sequence numbers  *)
(* appended to segment files, a checkpoint file, replay after a crash.     *)
(*                                                                         *)
(* A file is a sequence of cells (eight bytes each).  An entry fills "len" *)
(* cells; the first "content" of them are covered by the two CRCs and the  *)
(* rest is the padding Build adds.  A cell knows its entry and its part of *)
(* it, which is what the CRCs tell: cells of two entries never validate as *)
(* one.                                                                    *)
(*                                                                         *)
(* WriteEntry, Open and Close hold manager_mutex_ and are one step.        *)
(* CrashReplay takes no lock: it moves the file offset it shares with      *)
(* WriteEntry, so it is three steps.                                       *)
(***************************************************************************)
EXTENDS Integers, Sequences, FiniteSets, SequencesExt

CONSTANTS
  Shapes,  \* [content, len] of the entries written
  Setups   \* the ways the log is built and used, see Setup

\* The limits of the build, what the caller keeps to, what the environment may
\* do, and the bounds of the model.
Setup ==
  [segmentSize   : Nat \ {0},  \* WAL_SEGMENT_SIZE, in cells
   maxEntries    : Nat \ {0},  \* WAL_MAX_ENTRIES
   recoverFirst  : BOOLEAN,    \* caller: writes only after another manager has replayed
   quiescent     : BOOLEAN,    \* caller: no WriteEntry while CrashReplay runs
   writesMayFail : BOOLEAN,    \* environment: write(2) may be short, wal.ckpt not open
   powerLoss     : BOOLEAN,    \* environment: a crash loses what was not fsynced
   maxSegments   : Nat,        \* bound: segment numbers
   maxWrites     : Nat,        \* bound: calls of WriteEntry
   maxOpens      : Nat]        \* bound: calls of Open

ASSUME WalAssumption ==
  /\ \A s \in Shapes : s.content \in Nat \ {0} /\ s.len \in Nat /\ s.content <= s.len
  /\ Setups \subseteq Setup

VARIABLES
  setup,      \* one of the Setups; it never changes
  files,      \* disk: the cells of each segment file
  ckpt,       \* disk: flushed_seq_id of wal.ckpt as a reader sees it
  ckptCrash,  \* disk: what wal.ckpt may say after a crash
  isOpen,     \* is_open_
  active,     \* active_segment_ or NoSegment
  sealed,     \* sealed_segments_
  fence,      \* seq_fence_.next_seq_id_
  segNo,      \* next_segment_number_
  replay,     \* the CrashReplay under way, or Idle
  recovery,   \* caller: "needed", "replayed" or "done"
  failed,     \* history: segments in which a write has failed since Open
  acked,      \* history: entries acknowledged since Open
  session,    \* history: for each segment file, the entries acknowledged since
              \* it was last written at offset 0, up to the first failed write
  unflushed,  \* history: acknowledged entries that the caller has not flushed
  writes, opens

disk == <<files, ckpt, ckptCrash>>
manager == <<isOpen, active, sealed, fence, segNo>>
history == <<failed, acked, session, unflushed>>
vars == <<setup, disk, manager, replay, recovery, history, writes, opens>>

Segments == 1..setup.maxSegments
NoSegment == [no |-> 0]
Idle == [step |-> "idle"]

-----------------------------------------------------------------------------
(* Entries and files.                                                      *)

\* WalEntryBuilder::Build.
Build(id, seq, shape) == [id |-> id, seq |-> seq, content |-> shape.content, len |-> shape.len]
Cells(e) == [p \in 1..e.len |-> [entry |-> e, part |-> p]]

\* WalEntryBuilder::Validate at the o-th cell of what was read.
Validate(cells, o) ==
  /\ o \in DOMAIN cells
  /\ LET e == cells[o].entry
     IN  \A p \in 1..e.content :
           /\ o + p - 1 \in DOMAIN cells
           /\ cells[o + p - 1] = [entry |-> e, part |-> p]

\* Faulty loop of ReadAllEntries: entry_size is not rounded up.
EntriesUnpadded(cells) ==
  LET scan[o \in Nat] ==
        IF Validate(cells, o)
        THEN <<cells[o].entry>> \o scan[o + cells[o].entry.content]
        ELSE <<>>
  IN  scan[1]

\* The loop of ReadAllEntries: it stops at the first cell that does not start
\* a valid entry.
Entries(cells) ==
  LET scan[o \in Nat] ==
        IF Validate(cells, o)
        THEN <<cells[o].entry>> \o scan[o + cells[o].entry.len]
        ELSE <<>>
  IN  scan[1]

\* write(2) at offset off of a file.
Overwrite(cells, off, data) ==
  SubSeq(cells, 1, off) \o data
    \o SubSeq(cells, off + Len(data) + 1, Len(cells))

\* WalSegment's constructor: the file keeps its cells, the offset is 0.
NewSegment(fs, no) ==
  [no |-> no, size |-> Len(fs[no]), off |-> 0, count |-> 0]

IsFull(seg) == seg.size >= setup.segmentSize \/ seg.count >= setup.maxEntries

\* What read(2) of file_size_ bytes at the current offset returns.
ReadFrom(seg, off) ==
  SubSeq(files[seg.no], off + 1, Min({off + seg.size, Len(files[seg.no])}))

NextSeq == fence + 1

\* Faulty Open: the fence starts at the number of the checkpoint itself.
FirstSeqLow == ckpt
FirstSeq == ckpt + 1

\* CrashReplay's loop: prev_seq_id after the entries read.  Entries at or below
\* the checkpoint are passed over; nothing is done with the others.
LastSeen(entries, flushed) ==
  FoldLeft(LAMBDA prev, e : IF e.seq <= flushed THEN prev ELSE e.seq, 0, entries)

\* The numbers a reader may find in wal.ckpt when only some of the decimal
\* digits of n have reached the disk; nothing at all reads as 0.
Torn(n) == {n \div (10 ^ k) : k \in 0..n}

-----------------------------------------------------------------------------
(* The manager.                                                            *)

Init ==
  /\ setup \in Setups
  /\ files = [no \in Segments |-> <<>>]
  /\ ckpt = 0 /\ ckptCrash = {0}
  /\ isOpen = FALSE /\ active = NoSegment /\ sealed = <<>>
  /\ fence = 1 /\ segNo = 1
  /\ replay = Idle /\ recovery = "needed"
  /\ failed = {} /\ acked = {} /\ unflushed = {}
  /\ session = [no \in Segments |-> <<>>]
  /\ writes = 0 /\ opens = 0

\* The callers open a closed manager, and never while CrashReplay runs.
Open ==
  /\ ~isOpen /\ replay = Idle /\ opens < setup.maxOpens
  /\ fence' = FirstSeq
  /\ active' = NewSegment(files, segNo)
  /\ isOpen' = TRUE
  /\ opens' = opens + 1
  /\ failed' = {} /\ acked' = {}
  /\ UNCHANGED <<disk, sealed, segNo, replay, recovery, session, unflushed, writes, setup>>

Close ==
  /\ isOpen /\ replay = Idle
  /\ active' = NoSegment /\ sealed' = <<>> /\ isOpen' = FALSE
  /\ recovery' = IF recovery = "replayed" THEN "done" ELSE "needed"
  /\ UNCHANGED <<disk, fence, segNo, replay, history, writes, opens, setup>>

\* TriggerSegmentRollover, when seg is the active segment and fs the disk.
RollOver(seg, fs) ==
  /\ segNo < setup.maxSegments
  /\ sealed' = IF seg = NoSegment THEN sealed ELSE Append(sealed, seg)
  /\ segNo' = segNo + 1
  /\ active' = NewSegment(fs, segNo + 1)

TriggerSegmentRollover ==
  /\ replay = Idle
  /\ RollOver(active, files)
  /\ UNCHANGED <<disk, isOpen, fence, replay, recovery, history, writes, opens, setup>>

MayWrite ==
  /\ isOpen /\ active # NoSegment
  /\ writes < setup.maxWrites
  /\ setup.quiescent => replay = Idle
  /\ setup.recoverFirst => recovery = "done"

\* The history of the active segment when write(2) is called on it.
Session == IF active.off = 0 THEN <<>> ELSE session[active.no]

\* WriteEntry when write(2) takes the whole buffer: the entry is on the disk,
\* it is acknowledged, and a full segment is rolled over.
WriteEntry(shape) ==
  LET e   == Build(writes + 1, fence, shape)
      fs  == [files EXCEPT ![active.no] = Overwrite(@, active.off, Cells(e))]
      seg == [active EXCEPT !.off = @ + e.len, !.size = @ + e.len, !.count = @ + 1]
  IN  /\ MayWrite
      /\ files' = fs
      /\ fence' = NextSeq
      /\ IF IsFull(seg) THEN RollOver(seg, fs)
         ELSE active' = seg /\ UNCHANGED <<sealed, segNo>>
      /\ acked' = acked \cup {e} /\ unflushed' = unflushed \cup {e}
      /\ session' = [session EXCEPT ![active.no] =
                       IF active.no \in failed THEN Session ELSE Append(Session, e)]
      /\ writes' = writes + 1
      /\ UNCHANGED <<ckpt, ckptCrash, isOpen, replay, recovery, failed, opens, setup>>

\* WriteEntry when write(2) takes n cells only: 0 is returned, the sequence
\* number is used up, the cells stay and file_size_ does not count them.
WriteEntryFails(shape, n) ==
  LET e == Build(writes + 1, fence, shape)
  IN  /\ MayWrite /\ setup.writesMayFail /\ n < e.len
      /\ files' = [files EXCEPT ![active.no] =
                     Overwrite(@, active.off, SubSeq(Cells(e), 1, n))]
      /\ active' = [active EXCEPT !.off = @ + n]
      /\ fence' = NextSeq
      /\ failed' = failed \cup {active.no}
      /\ session' = [session EXCEPT ![active.no] = Session]
      /\ writes' = writes + 1
      /\ UNCHANGED <<ckpt, ckptCrash, isOpen, sealed, segNo, replay, recovery,
                     acked, unflushed, opens, setup>>

\* WriteCheckpoint's file operations.  O_TRUNC may be followed by a write that
\* fails or is short, and the open itself may fail; nobody acts on the result.
\* Nothing is fsynced, so a power loss may bring back any earlier content, or
\* what O_TRUNC and half a write leave.
SaveCheckpoint(n) ==
  \/ \E c \in IF setup.writesMayFail THEN Torn(n) ELSE {n} :
       /\ ckpt' = c
       /\ ckptCrash' = IF setup.powerLoss THEN ckptCrash \cup Torn(n) ELSE {c}
  \/ setup.writesMayFail /\ UNCHANGED <<ckpt, ckptCrash>>

\* The caller has flushed everything up to an entry and says so.
WriteCheckpoint(e) ==
  /\ e \in acked \cap unflushed
  /\ SaveCheckpoint(e.seq)
  /\ unflushed' = {f \in unflushed : f.seq > e.seq}
  /\ UNCHANGED <<files, manager, replay, recovery, failed, acked, session, writes, opens, setup>>

-----------------------------------------------------------------------------
(* CrashReplay, which takes no lock.                                       *)

\* The checkpoint and the sealed segments are read, and the offset of the
\* active segment is moved to 0.
ReplayBegin ==
  /\ replay = Idle
  /\ setup.recoverFirst => recovery = "needed"
  /\ replay' = [step |-> "read", flushed |-> ckpt,
                entries |-> FlattenSeq([i \in DOMAIN sealed |->
                                          Entries(ReadFrom(sealed[i], 0))])]
  /\ active' = IF active = NoSegment THEN active ELSE [active EXCEPT !.off = 0]
  /\ UNCHANGED <<disk, isOpen, sealed, fence, segNo, recovery, history, writes, opens, setup>>

\* Faulty read: the offset goes back to where the read began.
ReplayReadSeeksBack ==
  /\ replay # Idle /\ replay.step = "read"
  /\ replay' = [replay EXCEPT !.step = "save",
                  !.entries = IF active = NoSegment THEN @
                              ELSE @ \o Entries(ReadFrom(active, active.off))]
  /\ UNCHANGED <<disk, manager, recovery, history, writes, opens, setup>>

\* The active segment is read from wherever the offset is now, and the offset
\* is left behind the last byte read.
ReplayRead ==
  /\ replay # Idle /\ replay.step = "read"
  /\ LET cells == IF active = NoSegment THEN <<>> ELSE ReadFrom(active, active.off)
     IN  /\ replay' = [replay EXCEPT !.step = "save", !.entries = @ \o Entries(cells)]
         /\ active' = IF active = NoSegment THEN active
                      ELSE [active EXCEPT !.off = @ + Len(cells)]
  /\ UNCHANGED <<disk, isOpen, sealed, fence, segNo, recovery, history, writes, opens, setup>>

\* The last number seen becomes the checkpoint, 0 when there is none above the
\* old one.  The entries are freed: they have been applied nowhere.
ReplayEnd ==
  /\ replay # Idle /\ replay.step = "save"
  /\ SaveCheckpoint(LastSeen(replay.entries, replay.flushed))
  /\ replay' = Idle
  /\ recovery' = IF isOpen /\ recovery = "needed" THEN "replayed" ELSE recovery
  /\ UNCHANGED <<files, manager, history, writes, opens, setup>>

-----------------------------------------------------------------------------
(* Crashes.                                                                *)

\* The process or the machine stops and the manager is gone.
Restart ==
  /\ isOpen' = FALSE /\ active' = NoSegment /\ sealed' = <<>>
  /\ fence' = 1 /\ segNo' = 1
  /\ replay' = Idle /\ recovery' = "needed"
  /\ failed' = {} /\ acked' = {}
  /\ UNCHANGED <<unflushed, opens, setup>>

Crash ==
  /\ opens > 0
  /\ \E n \in ckptCrash : ckpt' = n /\ ckptCrash' = {n}
  /\ Restart
  /\ UNCHANGED <<files, session, writes>>

\* A crash inside WriteCheckpoint, the caller's or that of CrashReplay, after
\* O_TRUNC has emptied the file.
CrashInCheckpoint ==
  /\ acked \cap unflushed # {} \/ (replay # Idle /\ replay.step = "save")
  /\ ckpt' = 0 /\ ckptCrash' = {0}
  /\ Restart
  /\ UNCHANGED <<files, session, writes>>

\* A crash inside WriteEntry with n cells of the entry on the disk.
CrashInWrite(shape, n) ==
  /\ MayWrite
  /\ LET e == Build(writes + 1, fence, shape)
     IN  /\ n <= e.len
         /\ files' = [files EXCEPT ![active.no] =
                        Overwrite(@, active.off, SubSeq(Cells(e), 1, n))]
  /\ session' = [session EXCEPT ![active.no] = Session]
  /\ writes' = writes + 1
  /\ \E c \in ckptCrash : ckpt' = c /\ ckptCrash' = {c}
  /\ Restart

MaxLen == Max({s.len : s \in Shapes})

Next ==
  \/ Open \/ Close \/ TriggerSegmentRollover
  \/ \E shape \in Shapes : WriteEntry(shape)
  \/ \E shape \in Shapes, n \in 0..MaxLen : WriteEntryFails(shape, n)
  \/ \E e \in unflushed : WriteCheckpoint(e)
  \/ ReplayBegin \/ ReplayRead \/ ReplayEnd
  \/ Crash \/ CrashInCheckpoint
  \/ \E shape \in Shapes, n \in 0..MaxLen : CrashInWrite(shape, n)

Spec == Init /\ [][Next]_vars

-----------------------------------------------------------------------------
(* Properties.                                                             *)

\* docs/usage.md:678, the log records all writes.  An acknowledged write stays
\* in the log until the caller has flushed it: some segment file gives it back.
LogKeepsUnflushed ==
  unflushed \subseteq UNION {Range(Entries(files[no])) : no \in Segments}

\* docs/usage.md:679, writes are not lost.  An acknowledged write that the caller
\* has not flushed is not marked as flushed: its number is beyond wal.ckpt, below
\* which CrashReplay passes entries over.
UnflushedIsAhead == \A e \in unflushed : e.seq > ckpt

\* What ReadAllEntries gives back of a segment file begins with the entries the
\* last session acknowledged in it, in their order: whatever older sessions have
\* left behind them, wherever a write has failed or the machine has stopped.  For
\* a caller that writes after another manager has replayed, and in the first
\* session.  (A replay in the middle of a later one moves the offset to the end
\* of the leftovers.)
SegmentsReadBack ==
  setup.recoverFirst \/ opens <= 1 =>
    \A no \in Segments : IsPrefix(session[no], Entries(files[no]))

\* For a caller that recovers first: while it writes, no checkpoint that a crash
\* may leave, torn, truncated, unsaved or put back to 0 by CrashReplay, covers an
\* entry that has been acknowledged and not flushed.  (A power loss may bring
\* back a checkpoint from before CrashReplay put it back to 0.)
NewWritesAreAhead ==
  setup.recoverFirst /\ ~setup.powerLoss /\ recovery = "done" =>
    \A n \in ckptCrash, e \in acked \cap unflushed : e.seq > n

\* Replay inside the first process to use a directory, across rollovers,
\* checkpoints, earlier replays and failed writes: the numbers increase, and
\* as long as no write has failed every acknowledged entry is there.
SessionReplay ==
  ~setup.recoverFirst /\ opens = 1 /\ isOpen /\ replay = Idle =>
    LET entries == FlattenSeq([i \in DOMAIN sealed |-> Entries(ReadFrom(sealed[i], 0))])
                     \o Entries(ReadFrom(active, 0))
    IN  /\ \A i, j \in DOMAIN entries : i < j => entries[i].seq < entries[j].seq
        /\ failed = {} => acked \subseteq Range(entries)
=============================================================================
