-------------------------- MODULE IrpTrackerProofs --------------------------
(***************************************************************************)
(* A tracked request is always watched, for any set of requests and any    *)
(* interval: the unlocked tests of TimerRunning lose no request.           *)
(***************************************************************************)
EXTENDS IrpTracker, TLAPS

\* The timer, once set, stays set, because it is periodic and nobody cancels it.
\* Whoever believes that it runs is right.
TimerStays ==
  /\ due \in {Unset} \cup 1..ScanInterval
  /\ submit \in [Irps -> {"idle", "check", "arm", "mark"}]
  /\ watchdog \in {"idle", "scan", "read", "arm", "clear"}
  /\ timerRunning \in BOOLEAN
  /\ timerRunning => due # Unset
  /\ dpcQueued => due # Unset
  /\ watchdog # "idle" => due # Unset
  /\ \A irp \in Irps : submit[irp] = "mark" => due # Unset

IInv == TimerStays /\ WatchdogAlive

\* HdIrpTrackerInit leaves an empty list and a stopped timer.
LEMMA InitIInv == HdIrpTrackerInit => IInv
BY Zenon DEF HdIrpTrackerInit, IInv, TimerStays, WatchdogAlive, Unset

\* Submit, Complete, the timer and the watchdog routine keep the invariant, in
\* every interleaving of their steps.
LEMMA NextIInv == IInv /\ [TrackerNext]_tracker => IInv'
<1> SUFFICES ASSUME IInv, [TrackerNext]_tracker PROVE IInv'
  OBVIOUS
<1> USE TrackerAssumption DEF IInv, TimerStays, WatchdogAlive, Unset
<1>1. ASSUME NEW irp \in Irps, NEW ahead \in BOOLEAN, SubmitInsert(irp, ahead) PROVE IInv'
  BY <1>1 DEF SubmitInsert
<1>2. ASSUME NEW irp \in Irps, SubmitCheck(irp) PROVE IInv'
  BY <1>2 DEF SubmitCheck
<1>3. ASSUME NEW irp \in Irps, SubmitArm(irp) PROVE IInv'
  BY <1>3 DEF SubmitArm, SetTimer
<1>4. ASSUME NEW irp \in Irps, SubmitMark(irp) PROVE IInv'
  BY <1>4 DEF SubmitMark
<1>5. ASSUME NEW irp \in Irps, HdIrpTrackerComplete(irp) PROVE IInv'
  <2>1. list # <<>>
    BY <1>5 DEF HdIrpTrackerComplete, Tracked
  <2> QED
    BY <1>5, <2>1 DEF HdIrpTrackerComplete
<1>6. CASE WatchdogNow \/ WatchdogScan
  BY <1>6 DEF WatchdogNow, WatchdogScan
<1>7. CASE WatchdogRead
  BY <1>7 DEF WatchdogRead
<1>8. CASE WatchdogArm
  BY <1>8 DEF WatchdogArm, SetTimer
<1>9. CASE WatchdogClear
  BY <1>9, Zenon DEF WatchdogClear
<1>10. CASE Elapse
  <2>1. due = Unset => list' = <<>>
    BY <1>10 DEF Elapse, Quiet
  <2>2. due # Unset => due' # Unset
    BY <1>10 DEF Elapse
  <2>3. TimerStays'
    BY <1>10, <2>2 DEF Elapse
  <2> QED
    BY <2>1, <2>2, <2>3
<1>11. CASE UNCHANGED tracker
  BY <1>11 DEF tracker
<1> QED
  BY <1>1, <1>2, <1>3, <1>4, <1>5, <1>6, <1>7, <1>8, <1>9, <1>10, <1>11 DEF TrackerNext

\* HdIrpTrackerSubmit and the watchdog race on TimerRunning, and still no
\* request is left in the list without a timer that will look at it.
THEOREM EveryRequestIsWatched == TrackerSpec => []WatchdogAlive
<1>1. IInv => WatchdogAlive
  BY DEF IInv
<1> QED
  BY <1>1, InitIInv, NextIInv, PTL DEF TrackerSpec
=============================================================================
