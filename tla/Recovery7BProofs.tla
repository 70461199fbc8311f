-------------------------- MODULE Recovery7BProofs --------------------------
(***************************************************************************)
(* The recovery never nests its calls deeper than one round of retries and *)
(* takes its phases in order, whatever HD_7B_MAX_RETRIES is.               *)
(***************************************************************************)
EXTENDS Recovery7B, TLAPS

\* The depth of the stack, function by function.  A retry adds a frame for each
\* attempt made; a later step of the fallback is always called by the caller, so
\* that a new round of retries starts on an almost empty stack.
FramesFit ==
  /\ pc = "caller" => frames = 0
  /\ pc = "retry" => frames <= retryCount + 2
  /\ pc = "retryWait" => frames <= retryCount + 1
  /\ pc = "fallback" => \/ fallbackStep = 0 /\ frames <= MaxRetries + 3
                        \/ frames = 1
  /\ pc = "networkWait" => frames = 1 /\ fallbackStep = 2
  /\ pc \in {"recovery", "halt"} => frames <= 2

IInv == TypeOK /\ FramesFit

\* Hd7bInitialize leaves no frame on the stack.
LEMMA InitIInv == Hd7bInitialize => IInv
BY RetriesAssumption DEF Hd7bInitialize, IInv, TypeOK, FramesFit

\* Each function of blk_7b_recovery.c pushes its frame only on a stack that
\* leaves room for it: one case per function.
LEMMA NextIInv == IInv /\ [Next]_vars => IInv'
<1> SUFFICES ASSUME IInv, [Next]_vars PROVE IInv'
  OBVIOUS
<1> USE RetriesAssumption DEF IInv, TypeOK, FramesFit
<1>1. CASE Hd7bEnterRecovery
  BY <1>1 DEF Hd7bEnterRecovery
<1>2. CASE Retry
  BY <1>2 DEF Retry, Stay
<1>3. CASE RetrySucceeds
  BY <1>3 DEF RetrySucceeds, Return
<1>4. CASE RetryFails
  BY <1>4 DEF RetryFails, Call
<1>5. CASE RetryExhausted
  BY <1>5 DEF RetryExhausted, Call
<1>6. CASE CallFallback
  BY <1>6 DEF CallFallback, Call
<1>7. CASE FallbackSkips
  BY <1>7 DEF FallbackSkips, NextStep, Return
<1>8. CASE FallbackLocalMeta
  BY <1>8 DEF FallbackLocalMeta, NextStep, Return
<1>9. CASE FallbackWaits
  BY <1>9 DEF FallbackWaits, Stay
<1>10. CASE FallbackNetwork
  BY <1>10 DEF FallbackNetwork, NextStep, Return, Call
<1>11. CASE FallbackExhausted
  BY <1>11 DEF FallbackExhausted, Call
<1>12. CASE Hd7bProcessRecovery
  BY <1>12 DEF Hd7bProcessRecovery, Stay
<1>13. CASE \E f \in Flags : FlagChanges(f)
  BY <1>13 DEF FlagChanges, Flags
<1>14. CASE UNCHANGED vars
  BY <1>14 DEF vars
<1> QED
  BY <1>1, <1>2, <1>3, <1>4, <1>5, <1>6, <1>7, <1>8, <1>9, <1>10, <1>11, <1>12, <1>13, <1>14
  DEF Next, Processing

\* What each function knows of the stack bounds its depth.
LEMMA FramesBounded == IInv => StackIsBounded
BY RetriesAssumption DEF IInv, TypeOK, FramesFit, StackIsBounded

\* Hd7bProcessRetry and Hd7bProcessFallback call each other, but never more than
\* MaxRetries + 3 deep: the kernel stack is safe in an outage of any length.
THEOREM StackSafe == Spec => []StackIsBounded
BY InitIInv, NextIInv, FramesBounded, PTL DEF Spec

\* A step takes the phases in order: no halt without the whole fallback, no
\* fallback without a full round of retries, no way back from the halt.
THEOREM PhasesInOrder == Spec => PhaseOrder
<1> DEFINE Order ==
      /\ (state' = "Recovery" /\ state # "Recovery") => (state = "Fallback" /\ fallbackStep = 4)
      /\ (state' = "Fallback" /\ state # "Fallback") =>
            (state = "Retrying" /\ retryCount = MaxRetries)
      /\ state' = "Halted" => state \in {"Recovery", "Halted"}
      /\ state = "Halted" => state' = "Halted"
<1>1. IInv /\ [Next]_vars => [Order]_vars
  <2> SUFFICES ASSUME IInv, Next PROVE Order
    OBVIOUS
  <2> USE RetriesAssumption DEF IInv, TypeOK
  <2>1. CASE Hd7bEnterRecovery
    BY <2>1 DEF Hd7bEnterRecovery
  <2>2. CASE RetrySucceeds \/ RetryFails \/ Retry
    BY <2>2 DEF RetrySucceeds, RetryFails, Retry
  <2>3. CASE RetryExhausted
    BY <2>3 DEF RetryExhausted
  <2>4. CASE CallFallback \/ FallbackSkips \/ FallbackLocalMeta \/ FallbackWaits
    BY <2>4 DEF CallFallback, FallbackSkips, FallbackLocalMeta, FallbackWaits, NextStep
  <2>5. CASE FallbackNetwork
    BY <2>5 DEF FallbackNetwork, NextStep
  <2>6. CASE FallbackExhausted
    BY <2>6 DEF FallbackExhausted
  <2>7. CASE Hd7bProcessRecovery
    BY <2>7 DEF Hd7bProcessRecovery
  <2>8. CASE \E f \in Flags : FlagChanges(f)
    BY <2>8 DEF FlagChanges
  <2> QED
    BY <2>1, <2>2, <2>3, <2>4, <2>5, <2>6, <2>7, <2>8 DEF Next, Processing
<1> QED
  BY <1>1, InitIInv, NextIInv, PTL DEF Spec, PhaseOrder
=============================================================================
