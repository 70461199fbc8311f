----------------------------- MODULE IrpTracker -----------------------------
(***************************************************************************)
(* The IRP tracker of the block driver, driver/blk/blk_irp_tracker.c: a    *)
(* list of requests in flight and a watchdog, run by a periodic timer,     *)
(* that completes the requests that have taken too long.                   *)
(*                                                                         *)
(* The list and its count are changed under the spin lock.  The decisions  *)
(* about the timer are not: Submit tests and sets TimerRunning after it    *)
(* has released the lock, and so does the watchdog.  Each of those is a    *)
(* step here.  The steps between two locks take no time, or less than the  *)
(* clock is modelled to: it (and with it the timer) advances only when     *)
(* nobody is between two steps.                                            *)
(***************************************************************************)
EXTENDS Integers, Sequences, SequencesExt

CONSTANTS
  Irps,          \* the requests; a pointer may be submitted again
  ScanInterval,  \* HD_IRP_SCAN_INTERVAL_SEC
  IrpTimeout,    \* HD_IRP_TIMEOUT_SEC
  AgeCap         \* bound: ages saturate here

ASSUME TrackerAssumption ==
  /\ ScanInterval \in Nat \ {0} /\ IrpTimeout \in Nat
  /\ AgeCap \in Nat /\ AgeCap > IrpTimeout + 2 * ScanInterval

VARIABLES
  list,          \* ActiveListHead: the request, its age, and whether its stamp is
                 \* ahead of the time the watchdog has read
  activeCount,   \* ActiveCount
  timerRunning,  \* TimerRunning
  due,           \* WatchdogTimer: time until it fires, or Unset
  dpcQueued,     \* WatchdogDpc is queued
  submit,        \* where each request's HdIrpTrackerSubmit is
  watchdog       \* where the watchdog is

tracker == <<list, activeCount, timerRunning, due, dpcQueued, submit, watchdog>>

Unset == -1
Tracked == {list[i].irp : i \in DOMAIN list}

HdIrpTrackerInit ==
  /\ list = <<>> /\ activeCount = 0
  /\ timerRunning = FALSE
  /\ due = Unset /\ dpcQueued = FALSE
  /\ submit = [irp \in Irps |-> "idle"]
  /\ watchdog = "idle"

\* KeSetTimerEx: a timer that is set already starts again.
SetTimer == due' = ScanInterval

-----------------------------------------------------------------------------
(* HdIrpTrackerSubmit.  When the allocation fails it does nothing.         *)

\* The entry goes to the tail of the list, under the lock.  The watchdog may
\* have read the clock, a tick ago, and wait for the same lock.
SubmitInsert(irp, ahead) ==
  /\ submit[irp] = "idle" /\ irp \notin Tracked
  /\ ahead => watchdog = "scan"
  /\ list' = Append(list, [irp |-> irp, age |-> 0, ahead |-> ahead])
  /\ activeCount' = activeCount + 1
  /\ submit' = [submit EXCEPT ![irp] = "check"]
  /\ UNCHANGED <<timerRunning, due, dpcQueued, watchdog>>

\* Is the timer running?
SubmitCheck(irp) ==
  /\ submit[irp] = "check"
  /\ submit' = [submit EXCEPT ![irp] = IF timerRunning THEN "idle" ELSE "arm"]
  /\ UNCHANGED <<list, activeCount, timerRunning, due, dpcQueued, watchdog>>

SubmitArm(irp) ==
  /\ submit[irp] = "arm"
  /\ SetTimer
  /\ submit' = [submit EXCEPT ![irp] = "mark"]
  /\ UNCHANGED <<list, activeCount, timerRunning, dpcQueued, watchdog>>

SubmitMark(irp) ==
  /\ submit[irp] = "mark"
  /\ timerRunning' = TRUE
  /\ submit' = [submit EXCEPT ![irp] = "idle"]
  /\ UNCHANGED <<list, activeCount, due, dpcQueued, watchdog>>

\* HdIrpTrackerComplete, under the lock; an unknown request is ignored.
HdIrpTrackerComplete(irp) ==
  /\ irp \in Tracked
  /\ list' = RemoveFirstMatch(list, LAMBDA e : e.irp = irp)
  /\ activeCount' = activeCount - 1
  /\ UNCHANGED <<timerRunning, due, dpcQueued, submit, watchdog>>

-----------------------------------------------------------------------------
(* HdIrpTrackerWatchdog.                                                   *)

\* Faulty test: only the oldest request is looked at.
OverdueHeadOnly(e) == e = list[1] /\ (e.ahead \/ e.age > IrpTimeout)

\* The difference is unsigned: a stamp ahead of "now" makes it huge.
Overdue(e) == e.ahead \/ e.age > IrpTimeout

\* The clock is read before the lock is taken.
WatchdogNow ==
  /\ dpcQueued /\ watchdog = "idle"
  /\ dpcQueued' = FALSE
  /\ watchdog' = "scan"
  /\ UNCHANGED <<list, activeCount, timerRunning, due, submit>>

\* The overdue requests are completed and dropped, under the lock.
WatchdogScan ==
  /\ watchdog = "scan"
  /\ list' = SelectSeq(list, LAMBDA e : ~Overdue(e))
  /\ activeCount' = activeCount - Len(SelectSeq(list, LAMBDA e : Overdue(e)))
  /\ watchdog' = "read"
  /\ UNCHANGED <<timerRunning, due, dpcQueued, submit>>

\* The count is read after the lock is released.
WatchdogRead ==
  /\ watchdog = "read"
  /\ watchdog' = IF activeCount > 0 THEN "arm" ELSE "clear"
  /\ UNCHANGED <<list, activeCount, timerRunning, due, dpcQueued, submit>>

WatchdogArm ==
  /\ watchdog = "arm"
  /\ SetTimer
  /\ watchdog' = "idle"
  /\ UNCHANGED <<list, activeCount, timerRunning, dpcQueued, submit>>

\* Faulty end: the timer is cancelled as well.
WatchdogClearCancels ==
  /\ watchdog = "clear"
  /\ timerRunning' = FALSE
  /\ due' = Unset
  /\ watchdog' = "idle"
  /\ UNCHANGED <<list, activeCount, dpcQueued, submit>>

\* Nothing was left when the count was read.  The flag is cleared; the timer is
\* periodic and goes on.
WatchdogClear ==
  /\ watchdog = "clear"
  /\ timerRunning' = FALSE
  /\ watchdog' = "idle"
  /\ UNCHANGED <<list, activeCount, due, dpcQueued, submit>>

-----------------------------------------------------------------------------
(* The clock and the periodic timer.                                       *)

Quiet == ~dpcQueued /\ watchdog = "idle" /\ \A irp \in Irps : submit[irp] = "idle"

Elapse ==
  /\ Quiet
  /\ list' = [i \in DOMAIN list |-> [list[i] EXCEPT !.age = IF @ < AgeCap THEN @ + 1 ELSE @]]
  /\ dpcQueued' = (due = 1)
  /\ due' = IF due = Unset THEN Unset ELSE IF due = 1 THEN ScanInterval ELSE due - 1
  /\ UNCHANGED <<activeCount, timerRunning, submit, watchdog>>

TrackerNext ==
  \/ \E irp \in Irps :
       \/ \E ahead \in BOOLEAN : SubmitInsert(irp, ahead)
       \/ SubmitCheck(irp) \/ SubmitArm(irp) \/ SubmitMark(irp)
       \/ HdIrpTrackerComplete(irp)
  \/ WatchdogNow \/ WatchdogScan \/ WatchdogRead \/ WatchdogArm \/ WatchdogClear
  \/ Elapse

TrackerSpec == HdIrpTrackerInit /\ [][TrackerNext]_tracker

-----------------------------------------------------------------------------
(* Properties.                                                             *)

\* A tracked request is always watched: either the timer is set or some Submit
\* is on its way to set it.  The flag may be cleared by the watchdog just after
\* a Submit has seen it set; the periodic timer is what keeps that harmless.
WatchdogAlive ==
  list # <<>> => due # Unset \/ \E irp \in Irps : submit[irp] \in {"check", "arm"}

\* The watchdog gets to every request: none stays in the list for longer than
\* the timeout and two scan intervals, however Submits restart the timer.  (One
\* interval is not enough: a Submit that finds the flag cleared under a pending
\* request puts the scan off once.)
TimeoutBound ==
  \A i \in DOMAIN list : list[i].age < IrpTimeout + 2 * ScanInterval
=============================================================================
