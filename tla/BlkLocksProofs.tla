--------------------------- MODULE BlkLocksProofs ---------------------------
(***************************************************************************)
(* The locks of the block driver exclude what they should, for any number  *)
(* of threads.                                                             *)
(***************************************************************************)
EXTENDS BlkLocks, TLAPS

\* The owners of each lock are the threads that are past its acquisition, and
\* each exclusive lock has at most one.
OwnersFit ==
  /\ header.shared = {t \in Threads : pc[t] \in Paging}
  /\ header.exclusive = {t \in Threads : pc[t] = "section"}
  /\ ccFlush = {t \in Threads : pc[t] = "flush"}
  /\ modWrite = {t \in Threads : pc[t] = "write"}

Exclusion ==
  /\ header.exclusive = {} \/ header.shared = {}
  /\ \A t, u \in header.exclusive : t = u
  /\ \A t, u \in ccFlush : t = u
  /\ \A t, u \in modWrite : t = u

IInv == TypeOK /\ OwnersFit /\ Exclusion

\* The locks are initialised free, so every conjunct of the invariant holds.
LEMMA InitIInv == Init => IInv
BY DEF Init, IInv, TypeOK, OwnersFit, Exclusion, Places, Paging

\* No acquire or release function of blk_cc_mm_sync.c breaks the invariant: one
\* case per place a thread can be at.
LEMMA NextIInv == IInv /\ [Next]_vars => IInv'
<1> SUFFICES ASSUME IInv, [Next]_vars PROVE IInv'
  OBVIOUS
<1> USE DEF IInv, TypeOK, OwnersFit, Exclusion, Places, Paging, Goto
<1>1. ASSUME NEW t \in Threads, Start(t) PROVE IInv'
  BY <1>1 DEF Start, FlushStart, WriteStart, SectionStart
<1>2. ASSUME NEW t \in Threads, FlushHeader(t) PROVE IInv'
  BY <1>2 DEF FlushHeader, AcquireShared
<1>3. ASSUME NEW t \in Threads, FlushOwn(t) PROVE IInv'
  BY <1>3 DEF FlushOwn
<1>4. ASSUME NEW t \in Threads, FlushReleaseOwn(t) PROVE IInv'
  BY <1>4 DEF FlushReleaseOwn
<1>5. ASSUME NEW t \in Threads, FlushReleaseHeader(t) PROVE IInv'
  BY <1>5 DEF FlushReleaseHeader, ReleaseShared
<1>6. ASSUME NEW t \in Threads, WriteHeader(t) PROVE IInv'
  BY <1>6 DEF WriteHeader, AcquireShared
<1>7. ASSUME NEW t \in Threads, WriteOwn(t) PROVE IInv'
  BY <1>7 DEF WriteOwn
<1>8. ASSUME NEW t \in Threads, WriteReleaseOwn(t) PROVE IInv'
  BY <1>8 DEF WriteReleaseOwn
<1>9. ASSUME NEW t \in Threads, WriteReleaseHeader(t) PROVE IInv'
  BY <1>9 DEF WriteReleaseHeader, ReleaseShared
<1>10. ASSUME NEW t \in Threads, SectionHeader(t) PROVE IInv'
  BY <1>10 DEF SectionHeader, AcquireExclusive
<1>11. ASSUME NEW t \in Threads, SectionRelease(t) PROVE IInv'
  BY <1>11 DEF SectionRelease, ReleaseExclusive, SharedWaiters, Granted
<1>12. CASE UNCHANGED vars
  BY <1>12 DEF vars
<1> QED
  BY <1>1, <1>2, <1>3, <1>4, <1>5, <1>6, <1>7, <1>8, <1>9, <1>10, <1>11, <1>12
  DEF Next, Proceed

\* What the ownership of the three resources says about the code between the
\* acquire and the release functions.
LEMMA LocksExclude == IInv => SectionIsAlone /\ OneOfEach /\ NothingKept
BY DEF IInv, TypeOK, OwnersFit, Exclusion, Places, Paging, SectionIsAlone, OneOfEach, NothingKept

\* However many threads there are, no section is created while pages are flushed
\* or written (FsRtlHeaderLock taken exclusively against shared).
THEOREM SectionsAreAlone == Spec => []SectionIsAlone
BY InitIInv, NextIInv, LocksExclude, PTL DEF Spec

\* However many threads there are, at most one flushes and at most one writes
\* modified pages (CcFlushLock and MmModWriteLock).
THEOREM PagingIsSingle == Spec => []OneOfEach
BY InitIInv, NextIInv, LocksExclude, PTL DEF Spec

\* The release functions give back everything the acquire functions took.
THEOREM LocksAreReturned == Spec => []NothingKept
BY InitIInv, NextIInv, LocksExclude, PTL DEF Spec
=============================================================================
