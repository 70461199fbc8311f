----------------------------- MODULE Recovery7B -----------------------------
(***************************************************************************)
(* The recovery of the block driver from an inaccessible boot device (bug  *)
(* check 0x7B), driver/blk/blk_7b_recovery.c: retry, fall back step by     *)
(* step, halt.  The functions call each other, so a call made while        *)
(* another is still active is a step here and the frames on the kernel     *)
(* stack are counted; the waits between two tests are steps, too, because  *)
(* the four flags are set by other parts of the boot at any time.          *)
(*                                                                         *)
(* Nothing in the repository calls this component yet.  The caller modelled *)
(* here does what the return values ask for: it enters recovery once, and  *)
(* calls Hd7bProcessFallback again while the answer is "not ready".        *)
(***************************************************************************)
EXTENDS Naturals

CONSTANT MaxRetries   \* HD_7B_MAX_RETRIES

ASSUME RetriesAssumption == MaxRetries \in Nat

VARIABLES
  state,          \* State
  retryCount,     \* RetryCount
  fallbackStep,   \* FallbackStep
  flag,           \* LocalMetaAvailable, NetworkAvailable, ...
  pc,             \* the function that runs, or the wait it is in
  frames          \* functions of this component on the stack

vars == <<state, retryCount, fallbackStep, flag, pc, frames>>

Flags == {"LocalMeta", "Network", "MetaServer", "BlockDevice"}

Hd7bInitialize ==
  /\ state = "Normal"
  /\ retryCount = 0 /\ fallbackStep = 0
  /\ flag = [f \in Flags |-> FALSE]
  /\ pc = "caller" /\ frames = 0

Ready == flag["BlockDevice"] /\ flag["MetaServer"]

Call(function) == pc' = function /\ frames' = frames + 1
Return == pc' = "caller" /\ frames' = 0
Stay(where) == pc' = where /\ UNCHANGED frames

-----------------------------------------------------------------------------
Hd7bEnterRecovery ==
  /\ pc = "caller" /\ state = "Normal"
  /\ state' = "Retrying" /\ retryCount' = 0
  /\ pc' = "retry" /\ frames' = 2
  /\ UNCHANGED <<fallbackStep, flag>>

\* Faulty Hd7bProcessRetry: the attempt is not counted.
RetryUncounted ==
  /\ pc = "retry" /\ retryCount < MaxRetries
  /\ Stay("retryWait")
  /\ UNCHANGED <<state, retryCount, fallbackStep, flag>>

\* Hd7bProcessRetry: another attempt, which starts with a wait ...
Retry ==
  /\ pc = "retry" /\ retryCount < MaxRetries
  /\ retryCount' = retryCount + 1
  /\ Stay("retryWait")
  /\ UNCHANGED <<state, fallbackStep, flag>>

\* ... and ends with a test, or with the next call.
RetrySucceeds ==
  /\ pc = "retryWait" /\ Ready
  /\ state' = "Normal"
  /\ Return
  /\ UNCHANGED <<retryCount, fallbackStep, flag>>

RetryFails ==
  /\ pc = "retryWait" /\ ~Ready
  /\ Call("retry")
  /\ UNCHANGED <<state, retryCount, fallbackStep, flag>>

\* Faulty Hd7bProcessRetry: the fallback is skipped.
RetryExhaustedGivesUp ==
  /\ pc = "retry" /\ retryCount >= MaxRetries
  /\ state' = "Recovery"
  /\ Call("recovery")
  /\ UNCHANGED <<retryCount, fallbackStep, flag>>

\* Hd7bProcessRetry: the attempts are used up.
RetryExhausted ==
  /\ pc = "retry" /\ retryCount >= MaxRetries
  /\ state' = "Fallback" /\ fallbackStep' = 0
  /\ Call("fallback")
  /\ UNCHANGED <<retryCount, flag>>

-----------------------------------------------------------------------------
(* Hd7bProcessFallback.                                                    *)

CallFallback ==
  /\ pc = "caller" /\ state = "Fallback"
  /\ Call("fallback")
  /\ UNCHANGED <<state, retryCount, fallbackStep, flag>>

NextStep ==
  /\ fallbackStep' = fallbackStep + 1
  /\ Return
  /\ UNCHANGED <<state, retryCount, flag>>

\* Step 0, the secondary server, and step 3, the block device, are not
\* implemented: they only count.
FallbackSkips == pc = "fallback" /\ fallbackStep \in {0, 3} /\ NextStep

FallbackLocalMeta ==
  /\ pc = "fallback" /\ fallbackStep = 1
  /\ IF flag["LocalMeta"]
       THEN /\ state' = "Normal"
            /\ Return
            /\ UNCHANGED <<retryCount, fallbackStep, flag>>
       ELSE NextStep

FallbackWaits ==
  /\ pc = "fallback" /\ fallbackStep = 2
  /\ Stay("networkWait")
  /\ UNCHANGED <<state, retryCount, fallbackStep, flag>>

\* Faulty step 2: without a network it waits again.
FallbackWaitsForever ==
  /\ pc = "networkWait" /\ flag["Network"]
  /\ state' = "Retrying" /\ retryCount' = 0
  /\ Call("retry")
  /\ UNCHANGED <<fallbackStep, flag>>

FallbackNetwork ==
  /\ pc = "networkWait"
  /\ IF flag["Network"]
       THEN /\ state' = "Retrying" /\ retryCount' = 0
            /\ Call("retry")
            /\ UNCHANGED <<fallbackStep, flag>>
       ELSE NextStep

FallbackExhausted ==
  /\ pc = "fallback" /\ fallbackStep >= 4
  /\ state' = "Recovery"
  /\ Call("recovery")
  /\ UNCHANGED <<retryCount, fallbackStep, flag>>

\* Hd7bProcessRecovery never returns.
Hd7bProcessRecovery ==
  /\ pc = "recovery"
  /\ state' = "Halted"
  /\ Stay("halt")
  /\ UNCHANGED <<retryCount, fallbackStep, flag>>

-----------------------------------------------------------------------------
\* The rest of the boot reports what it has found.
FlagChanges(f) ==
  /\ flag' = [flag EXCEPT ![f] = ~@]
  /\ UNCHANGED <<state, retryCount, fallbackStep, pc, frames>>

Processing ==
  \/ Retry \/ RetrySucceeds \/ RetryFails \/ RetryExhausted
  \/ CallFallback \/ FallbackSkips \/ FallbackLocalMeta
  \/ FallbackWaits \/ FallbackNetwork \/ FallbackExhausted
  \/ Hd7bProcessRecovery

Next == Hd7bEnterRecovery \/ Processing \/ \E f \in Flags : FlagChanges(f)

Spec == Hd7bInitialize /\ [][Next]_vars
\* The waits end, and the caller calls again.
FairSpec == Spec /\ WF_vars(Processing)

-----------------------------------------------------------------------------
(* Properties.                                                             *)

\* Every field has its type, and the function that runs fits the state.
TypeOK ==
  /\ state \in {"Normal", "Retrying", "Fallback", "Recovery", "Halted"}
  /\ retryCount \in 0..MaxRetries /\ fallbackStep \in 0..4
  /\ flag \in [Flags -> BOOLEAN]
  /\ frames \in Nat
  /\ state = "Normal"   => pc = "caller"
  /\ state = "Retrying" => pc \in {"retry", "retryWait"}
  /\ state = "Fallback" => pc \in {"caller", "fallback", "networkWait"}
  /\ state = "Recovery" => pc = "recovery"
  /\ state = "Halted"   => pc = "halt"

\* The functions call each other in a circle (retry, fallback, retry) on a
\* kernel stack, but the circle is cut by a return to the caller: the stack
\* stays within one round of retries, however long the outage lasts.
StackIsBounded == frames <= MaxRetries + 3

\* The phases are taken in order: the halt comes after all the steps of the
\* fallback, the fallback after a full round of retries, and there is no way
\* back from the halt.
PhaseOrder ==
  [][ /\ (state' = "Recovery" /\ state # "Recovery") => (state = "Fallback" /\ fallbackStep = 4)
      /\ (state' = "Fallback" /\ state # "Fallback") =>
            (state = "Retrying" /\ retryCount = MaxRetries)
      /\ state' = "Halted" => state \in {"Recovery", "Halted"}
      /\ state = "Halted" => state' = "Halted"
    ]_vars

Settled == state \in {"Normal", "Halted"}

\* Recovery comes to an end once the outage is a stable one: with no network, or
\* with everything back, the driver again and again is running or has halted.
SettlesWhenStable ==
  (<>[](~flag["Network"]) \/ <>[]Ready) => []<>Settled
=============================================================================
