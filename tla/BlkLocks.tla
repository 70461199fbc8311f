------------------------------ MODULE BlkLocks ------------------------------
(***************************************************************************)
(* The locks the block driver takes for the cache manager and the memory   *)
(* manager, driver/blk/blk_cc_mm_sync.c.  A flush and a modified-page      *)
(* write share FsRtlHeaderLock and each have a lock of their own inside    *)
(* it; the creation of a section takes FsRtlHeaderLock alone.              *)
(*                                                                         *)
(* The locks are executive resources: shared or exclusive, and a thread    *)
(* that waits for exclusive access stops new shared ones, which are served *)
(* when it has had its turn.  A thread makes one request at a time.        *)
(***************************************************************************)
EXTENDS FiniteSets

CONSTANT Threads

VARIABLES
  header,   \* FsRtlHeaderLock: the threads that hold it shared, or exclusively
  ccFlush,  \* CcFlushLock: its owner
  modWrite, \* MmModWriteLock: its owner
  pc        \* what each thread is doing

vars == <<header, ccFlush, modWrite, pc>>

Init ==
  /\ header = [shared |-> {}, exclusive |-> {}]
  /\ ccFlush = {} /\ modWrite = {}
  /\ pc = [t \in Threads |-> "idle"]

Goto(t, place) == pc' = [pc EXCEPT ![t] = place]

-----------------------------------------------------------------------------
(* Executive resources.                                                    *)

ExclusiveWaiters == {t \in Threads : pc[t] = "wantSection"}

AcquireShared(t) ==
  /\ header.exclusive = {} /\ ExclusiveWaiters = {}
  /\ header' = [header EXCEPT !.shared = @ \cup {t}]

AcquireExclusive(t) ==
  /\ header.exclusive = {} /\ header.shared = {}
  /\ header' = [header EXCEPT !.exclusive = {t}]

ReleaseShared(t) == header' = [header EXCEPT !.shared = @ \ {t}]

\* An exclusive owner hands the resource to the threads that wait to share it.
SharedWaiters == {t \in Threads : pc[t] \in {"wantFlush", "wantWrite"}}

Granted(place) ==
  CASE place = "wantFlush" -> "wantCcFlush"
    [] place = "wantWrite" -> "wantModWrite"
    [] OTHER               -> place

ReleaseExclusive(t) ==
  /\ header' = [shared |-> SharedWaiters, exclusive |-> {}]
  /\ pc' = [u \in Threads |-> IF u = t THEN "idle" ELSE Granted(pc[u])]

-----------------------------------------------------------------------------
(* HdBlkAcquireForCcFlush and HdBlkReleaseForCcFlush.                      *)

FlushStart(t) ==
  /\ pc[t] = "idle"
  /\ Goto(t, "wantFlush")
  /\ UNCHANGED <<header, ccFlush, modWrite>>

\* Faulty acquisition, by ExAcquireSharedStarveExclusive: it overtakes the
\* threads that wait for exclusive access.
FlushHeaderStarves(t) ==
  /\ pc[t] = "wantFlush" /\ header.exclusive = {}
  /\ header' = [header EXCEPT !.shared = @ \cup {t}]
  /\ Goto(t, "wantCcFlush")
  /\ UNCHANGED <<ccFlush, modWrite>>

FlushHeader(t) ==
  /\ pc[t] = "wantFlush"
  /\ AcquireShared(t)
  /\ Goto(t, "wantCcFlush")
  /\ UNCHANGED <<ccFlush, modWrite>>

\* Faulty acquisition: the lock of its own is taken shared.
FlushOwnShared(t) ==
  /\ pc[t] = "wantCcFlush"
  /\ ccFlush' = ccFlush \cup {t}
  /\ Goto(t, "flush")
  /\ UNCHANGED <<header, modWrite>>

FlushOwn(t) ==
  /\ pc[t] = "wantCcFlush" /\ ccFlush = {}
  /\ ccFlush' = {t}
  /\ Goto(t, "flush")
  /\ UNCHANGED <<header, modWrite>>

FlushReleaseOwn(t) ==
  /\ pc[t] = "flush"
  /\ ccFlush' = ccFlush \ {t}
  /\ Goto(t, "releaseFlush")
  /\ UNCHANGED <<header, modWrite>>

FlushReleaseHeader(t) ==
  /\ pc[t] = "releaseFlush"
  /\ ReleaseShared(t)
  /\ Goto(t, "idle")
  /\ UNCHANGED <<ccFlush, modWrite>>

-----------------------------------------------------------------------------
(* HdBlkAcquireForModWrite and HdBlkReleaseForModWrite.                    *)

WriteStart(t) ==
  /\ pc[t] = "idle"
  /\ Goto(t, "wantWrite")
  /\ UNCHANGED <<header, ccFlush, modWrite>>

WriteHeader(t) ==
  /\ pc[t] = "wantWrite"
  /\ AcquireShared(t)
  /\ Goto(t, "wantModWrite")
  /\ UNCHANGED <<ccFlush, modWrite>>

WriteOwn(t) ==
  /\ pc[t] = "wantModWrite" /\ modWrite = {}
  /\ modWrite' = {t}
  /\ Goto(t, "write")
  /\ UNCHANGED <<header, ccFlush>>

WriteReleaseOwn(t) ==
  /\ pc[t] = "write"
  /\ modWrite' = modWrite \ {t}
  /\ Goto(t, "releaseWrite")
  /\ UNCHANGED <<header, ccFlush>>

WriteReleaseHeader(t) ==
  /\ pc[t] = "releaseWrite"
  /\ ReleaseShared(t)
  /\ Goto(t, "idle")
  /\ UNCHANGED <<ccFlush, modWrite>>

-----------------------------------------------------------------------------
(* HdBlkAcquireFileForNtCreateSection and its release.                     *)

SectionStart(t) ==
  /\ pc[t] = "idle"
  /\ Goto(t, "wantSection")
  /\ UNCHANGED <<header, ccFlush, modWrite>>

\* Faulty acquisition: the header lock is only shared.
SectionHeaderShared(t) ==
  /\ pc[t] = "wantSection" /\ header.exclusive = {}
  /\ header' = [header EXCEPT !.shared = @ \cup {t}]
  /\ Goto(t, "section")
  /\ UNCHANGED <<ccFlush, modWrite>>

SectionHeader(t) ==
  /\ pc[t] = "wantSection"
  /\ AcquireExclusive(t)
  /\ Goto(t, "section")
  /\ UNCHANGED <<ccFlush, modWrite>>

SectionRelease(t) ==
  /\ pc[t] = "section"
  /\ ReleaseExclusive(t)
  /\ UNCHANGED <<ccFlush, modWrite>>

-----------------------------------------------------------------------------
Start(t) == FlushStart(t) \/ WriteStart(t) \/ SectionStart(t)

Proceed(t) ==
  \/ FlushHeader(t) \/ FlushOwn(t) \/ FlushReleaseOwn(t) \/ FlushReleaseHeader(t)
  \/ WriteHeader(t) \/ WriteOwn(t) \/ WriteReleaseOwn(t) \/ WriteReleaseHeader(t)
  \/ SectionHeader(t) \/ SectionRelease(t)

Next == \E t \in Threads : Start(t) \/ Proceed(t)

Spec == Init /\ [][Next]_vars
\* Holders go on and let go; a resource hands itself to its waiters in turn, so
\* a waiter that could be served again and again is served.
FairSpec == Spec /\ \A t \in Threads : SF_vars(Proceed(t))

-----------------------------------------------------------------------------
(* Properties.                                                             *)

Places == {"idle", "wantFlush", "wantCcFlush", "flush", "releaseFlush",
           "wantWrite", "wantModWrite", "write", "releaseWrite", "wantSection", "section"}

\* Every thread is somewhere in the three requests, and a resource is shared or
\* owned, not both.
TypeOK ==
  /\ header \in [shared : SUBSET Threads, exclusive : SUBSET Threads]
  /\ header.shared = {} \/ header.exclusive = {}
  /\ ccFlush \in SUBSET Threads /\ modWrite \in SUBSET Threads
  /\ pc \in [Threads -> Places]

Paging == {"wantCcFlush", "flush", "releaseFlush", "wantModWrite", "write", "releaseWrite"}

\* No section is created while pages are flushed or written, and no two
\* sections are created at once.
SectionIsAlone ==
  \A t, u \in Threads : pc[t] = "section" /\ t # u => pc[u] \notin Paging \cup {"section"}

\* There is one flush at a time and one modified-page write at a time.
OneOfEach ==
  \A t, u \in Threads : pc[t] \in {"flush", "write"} /\ pc[t] = pc[u] => t = u

\* Every lock is let go: a thread outside the driver holds none.
NothingKept ==
  \A t \in Threads : pc[t] \in {"idle", "wantFlush", "wantWrite", "wantSection"} =>
    t \notin header.shared \cup header.exclusive \cup ccFlush \cup modWrite

\* Nobody waits for ever: the order in which the locks are taken has no circle,
\* and every request is granted and released in the end.
EveryoneIsServed == \A t \in Threads : pc[t] # "idle" ~> pc[t] = "idle"
=============================================================================
