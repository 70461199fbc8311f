------------------------- MODULE NetworkStateMachine -------------------------
(***************************************************************************)
(* The client's connection state machine,                                  *)
(* client/disk_runtime/network_state_machine.{h,cpp}.                      *)
(*                                                                         *)
(* Every public method but the lock-free readers runs under mutex_, so a   *)
(* method is one step.  The exception is Tick, which calls the connect     *)
(* callback with the mutex held: the attempt takes time during which every *)
(* other method waits, so it is two steps with "connecting" in between.    *)
(*                                                                         *)
(* Clock readings are kept as ages: the time since the recorded instant,   *)
(* in units of the caller's choice, saturating at AgeCap.  The code only   *)
(* ever compares an age with a configured timeout.                         *)
(***************************************************************************)
EXTENDS Integers, Sequences

CONSTANTS
  DetectTimeout,      \* ReconnectConfig::detect_timeout_ms
  MinBackoff,         \* ReconnectConfig::min_backoff_ms
  MaxBackoff,         \* ReconnectConfig::max_backoff_ms
  BackoffMultiplier,  \* ReconnectConfig::backoff_multiplier
  MaxRetryCount,      \* ReconnectConfig::max_retry_count
  RecoveryTimeout,    \* ReconnectConfig::recovery_timeout_ms
  ServerLists,        \* lists SetServers may be given: is_primary per server
  CallbackSets,       \* callback combinations SetCallbacks may be given
  TickPeriod,         \* longest time the owner lets pass between two Ticks
  ConnectTime,        \* longest time a connect attempt takes
  AgeCap,             \* bound: ages saturate here
  MaxPending,         \* bound: pending_io_count_
  MaxCalls            \* bound: calls of SetServers, SetCallbacks, Start, Stop

ASSUME ConfigAssumption ==
  /\ DetectTimeout \in Nat /\ MinBackoff \in Nat /\ MaxBackoff \in Nat
  /\ BackoffMultiplier \in Nat \ {0}
  /\ MaxRetryCount \in Nat /\ RecoveryTimeout \in Nat
  /\ ServerLists \subseteq Seq(BOOLEAN)
  /\ CallbackSets \subseteq SUBSET {"on_connect_attempt", "on_recovery_complete"}
  /\ TickPeriod \in Nat \ {0} /\ ConnectTime \in Nat
  /\ MaxPending \in Nat /\ MaxCalls \in Nat

\* ComputeBackoff: min_backoff_ms times the multiplier once per retry, clamped
\* to the maximum as soon as a product reaches it.
BackoffAfter[n \in Nat] ==
  IF n = 0 THEN MinBackoff
  ELSE LET grown == BackoffAfter[n - 1] * BackoffMultiplier
       IN  IF grown >= MaxBackoff THEN MaxBackoff ELSE grown

BackoffValues == {MinBackoff} \cup {BackoffAfter[n] : n \in 0..MaxRetryCount}

\* An age that saturates has passed every timeout it is compared with.
ASSUME AgeCapAssumption ==
  /\ AgeCap \in Nat
  /\ AgeCap > 2 * (DetectTimeout + TickPeriod)
  /\ AgeCap > RecoveryTimeout /\ AgeCap > ConnectTime
  /\ BackoffValues \subseteq 0..AgeCap

VARIABLES
  servers,       \* servers_: a sequence of is_primary flags
  callbacks,     \* which of the std::functions are set
  idx,           \* current_server_idx_, counted from 0
  state,         \* state_
  retry,         \* retry_count_
  backoff,       \* current_backoff_ms_
  pending,       \* pending_io_count_
  running,       \* running_
  hbAge,         \* now - last_heartbeat_
  enterAge,      \* now - state_enter_time_
  attemptAge,    \* now - last_reconnect_attempt_
  connecting,    \* Tick is inside on_connect_attempt_, holding mutex_
  callAge,       \* time since that Tick read the clock
  tickAge,       \* time since the last Tick
  netUp,         \* environment: the servers can be reached
  outageOpen,    \* history: Disconnected was entered since the last Start and
                 \* on_recovery_complete_ has not been called since
  calls          \* history: number of configuration and control calls

members == <<servers, callbacks, idx, retry, backoff, pending, running>>
vars == <<servers, callbacks, idx, state, retry, backoff, pending, running,
          hbAge, enterAge, attemptAge, connecting, callAge, tickAge, netUp,
          outageOpen, calls>>

ConnectionState ==
  {"Connected", "Detecting", "Disconnected", "Reconnecting", "Recovering", "Offline"}

-----------------------------------------------------------------------------
(* Helpers.                                                                *)

Older(age) == IF age < AgeCap THEN age + 1 ELSE AgeCap

IsFirstPrimary(list, i) ==
  /\ i \in DOMAIN list
  /\ list[i]
  /\ \A j \in DOMAIN list : j < i => ~list[j]

\* The server SetServers selects: the first primary, or the first server.
InitialServer(list) ==
  IF \E i \in DOMAIN list : IsFirstPrimary(list, i)
  THEN (CHOOSE i \in DOMAIN list : IsFirstPrimary(list, i)) - 1
  ELSE 0

\* Faulty TransitionTo: the early return for an unchanged state is missing.
TransitionToRestamps(new) ==
  /\ state' = new
  /\ enterAge' = 0
  /\ attemptAge' = IF new = "Reconnecting" THEN 0 ELSE attemptAge

\* TransitionTo.  A transition to the current state does nothing.
TransitionTo(new) ==
  /\ state' = new
  /\ enterAge' = IF new = state THEN enterAge ELSE 0
  /\ attemptAge' = IF new # state /\ new = "Reconnecting" THEN 0 ELSE attemptAge

\* The methods that take mutex_ wait while Tick holds it.
LockFree == ~connecting

Init ==
  /\ servers = <<>> /\ callbacks = {}
  /\ idx = 0
  /\ state = "Offline"
  /\ retry = 0 /\ backoff = MinBackoff /\ pending = 0
  /\ running = FALSE
  /\ hbAge = AgeCap /\ enterAge = AgeCap /\ attemptAge = AgeCap
  /\ connecting = FALSE /\ callAge = 0 /\ tickAge = 0
  /\ netUp = TRUE
  /\ outageOpen = FALSE
  /\ calls = 0

-----------------------------------------------------------------------------
(* Configuration and control.                                              *)

\* Faulty SetServers: the old index is kept.
SetServersKeepsIndex(list) ==
  /\ LockFree /\ calls < MaxCalls
  /\ servers' = list
  /\ calls' = calls + 1
  /\ UNCHANGED <<callbacks, idx, state, retry, backoff, pending, running, hbAge,
                 enterAge, attemptAge, connecting, callAge, tickAge, netUp,
                 outageOpen>>

SetServers(list) ==
  /\ LockFree /\ calls < MaxCalls
  /\ servers' = list
  /\ idx' = IF list = <<>> THEN idx ELSE InitialServer(list)
  /\ calls' = calls + 1
  /\ UNCHANGED <<callbacks, state, retry, backoff, pending, running, hbAge,
                 enterAge, attemptAge, connecting, callAge, tickAge, netUp,
                 outageOpen>>

SetCallbacks(set) ==
  /\ LockFree /\ calls < MaxCalls
  /\ callbacks' = set
  /\ calls' = calls + 1
  /\ UNCHANGED <<servers, idx, state, retry, backoff, pending, running, hbAge,
                 enterAge, attemptAge, connecting, callAge, tickAge, netUp,
                 outageOpen>>

Start ==
  /\ LockFree /\ calls < MaxCalls
  /\ running' = TRUE
  /\ retry' = 0 /\ backoff' = MinBackoff
  /\ hbAge' = 0 /\ enterAge' = 0
  /\ state' = IF servers # <<>> THEN "Connected" ELSE "Offline"
  /\ outageOpen' = FALSE
  /\ calls' = calls + 1
  /\ UNCHANGED <<servers, callbacks, idx, pending, attemptAge, connecting,
                 callAge, tickAge, netUp>>

Stop ==
  /\ LockFree /\ calls < MaxCalls
  /\ running' = FALSE
  /\ TransitionTo("Offline")
  /\ calls' = calls + 1
  /\ UNCHANGED <<servers, callbacks, idx, retry, backoff, pending, hbAge,
                 connecting, callAge, tickAge, netUp, outageOpen>>

-----------------------------------------------------------------------------
(* Events reported by the heartbeat and I/O threads.                       *)

\* Faulty OnHeartbeatSuccess: any answered heartbeat means Connected.
OnHeartbeatSuccessAlways ==
  /\ LockFree /\ netUp
  /\ hbAge' = 0
  /\ retry' = 0 /\ backoff' = MinBackoff
  /\ TransitionTo("Connected")
  /\ outageOpen' = (outageOpen /\ state # "Recovering")
  /\ UNCHANGED <<servers, callbacks, idx, pending, running, connecting,
                 callAge, tickAge, netUp, calls>>

\* A heartbeat is answered.  Detecting, Reconnecting and Recovering go to
\* Connected; only from Recovering is on_recovery_complete_ called.
OnHeartbeatSuccess ==
  /\ LockFree /\ netUp
  /\ hbAge' = 0
  /\ IF state \in {"Detecting", "Reconnecting", "Recovering"}
     THEN /\ retry' = 0 /\ backoff' = MinBackoff
          /\ TransitionTo("Connected")
          /\ outageOpen' =
               (outageOpen /\ ~(/\ state = "Recovering"
                                /\ "on_recovery_complete" \in callbacks))
     ELSE UNCHANGED <<retry, backoff, state, enterAge, attemptAge, outageOpen>>
  /\ UNCHANGED <<servers, callbacks, idx, pending, running, connecting,
                 callAge, tickAge, netUp, calls>>

OnHeartbeatTimeout ==
  /\ LockFree
  /\ \/ /\ state = "Connected"
        /\ TransitionTo("Detecting")
        /\ UNCHANGED outageOpen
     \/ /\ state = "Detecting"
        /\ TransitionTo("Disconnected")
        /\ outageOpen' = TRUE
  /\ UNCHANGED <<members, hbAge, connecting, callAge, tickAge, netUp, calls>>

OnIoSuccess ==
  /\ LockFree /\ netUp
  /\ pending' = IF pending > 0 THEN pending - 1 ELSE pending
  /\ hbAge' = 0
  /\ UNCHANGED <<servers, callbacks, idx, state, retry, backoff, running,
                 enterAge, attemptAge, connecting, callAge, tickAge, netUp,
                 outageOpen, calls>>

OnIoError ==
  /\ LockFree /\ pending < MaxPending
  /\ pending' = pending + 1
  /\ TransitionTo(IF state = "Connected" THEN "Detecting" ELSE state)
  /\ UNCHANGED <<servers, callbacks, idx, retry, backoff, running, hbAge,
                 connecting, callAge, tickAge, netUp, outageOpen, calls>>

-----------------------------------------------------------------------------
(* Tick, called periodically by the owner.                                 *)

TickConnected ==
  /\ state = "Connected"
  /\ TransitionTo(IF hbAge > DetectTimeout THEN "Detecting" ELSE state)
  /\ UNCHANGED <<members, connecting, callAge, outageOpen>>

TickDetecting ==
  /\ state = "Detecting"
  /\ TransitionTo(IF enterAge > DetectTimeout THEN "Disconnected" ELSE state)
  /\ outageOpen' = (outageOpen \/ enterAge > DetectTimeout)
  /\ UNCHANGED <<members, connecting, callAge>>

\* Faulty TryReconnect: it waits for a connect callback to be set.
TickDisconnectedNeedsCallback ==
  /\ state = "Disconnected"
  /\ "on_connect_attempt" \in callbacks
  /\ retry' = 0 /\ backoff' = MinBackoff
  /\ TransitionTo("Reconnecting")
  /\ UNCHANGED <<servers, callbacks, idx, pending, running, connecting,
                 callAge, outageOpen>>

\* TryReconnect.
TickDisconnected ==
  /\ state = "Disconnected"
  /\ retry' = 0 /\ backoff' = MinBackoff
  /\ TransitionTo("Reconnecting")
  /\ UNCHANGED <<servers, callbacks, idx, pending, running, connecting,
                 callAge, outageOpen>>

MayAttempt ==
  /\ attemptAge >= backoff
  /\ "on_connect_attempt" \in callbacks
  /\ servers # <<>>

\* The backoff has passed: on_connect_attempt_ is called with mutex_ held.
TickConnectBegin ==
  /\ state = "Reconnecting" /\ MayAttempt
  /\ connecting' = TRUE /\ callAge' = 0
  /\ UNCHANGED <<members, state, enterAge, attemptAge, outageOpen>>

TickReconnectWait ==
  /\ state = "Reconnecting" /\ ~MayAttempt
  /\ UNCHANGED <<members, state, enterAge, attemptAge, connecting, callAge,
                 outageOpen>>

TickRecovering ==
  /\ state = "Recovering"
  /\ TransitionTo(IF enterAge > RecoveryTimeout THEN "Disconnected" ELSE state)
  /\ outageOpen' = (outageOpen \/ enterAge > RecoveryTimeout)
  /\ UNCHANGED <<members, connecting, callAge>>

TickNothing ==
  /\ ~running \/ state = "Offline"
  /\ UNCHANGED <<members, state, enterAge, attemptAge, connecting, callAge,
                 outageOpen>>

Tick ==
  /\ LockFree
  /\ \/ /\ running
        /\ \/ TickConnected \/ TickDetecting \/ TickDisconnected
           \/ TickConnectBegin \/ TickReconnectWait \/ TickRecovering
     \/ TickNothing
  /\ tickAge' = 0
  /\ UNCHANGED <<hbAge, netUp, calls>>

\* TryNextServer: the next server of the list, if there is another one.
HasNextServer == Len(servers) > 1
\* Faulty TryNextServer: the index is not advanced.
SameServer == idx
NextServer == (idx + 1) % Len(servers)

ConnectSucceeds ==
  /\ netUp
  /\ retry' = 0 /\ backoff' = MinBackoff
  /\ TransitionTo("Recovering")
  /\ UNCHANGED idx

\* The attempt failed and retries are left: back off, counting from the time
\* this Tick began.
ConnectFailsAndRetries ==
  /\ ~netUp
  /\ retry + 1 < MaxRetryCount
  /\ retry' = retry + 1
  /\ backoff' = BackoffAfter[retry + 1]
  /\ attemptAge' = callAge
  /\ UNCHANGED <<idx, state, enterAge>>

\* Faulty failover: the attempt time is renewed but the backoff is not reset.
ConnectFailsOverAndWaits ==
  /\ ~netUp
  /\ retry + 1 >= MaxRetryCount /\ HasNextServer
  /\ retry' = 0
  /\ idx' = NextServer
  /\ attemptAge' = callAge
  /\ UNCHANGED <<backoff, state, enterAge>>

\* The retries are used up: the next server, without a new backoff and
\* without a new last_reconnect_attempt_.
ConnectFailsOver ==
  /\ ~netUp
  /\ retry + 1 >= MaxRetryCount /\ HasNextServer
  /\ retry' = 0
  /\ idx' = NextServer
  /\ TransitionTo("Reconnecting")
  /\ UNCHANGED backoff

ConnectGivesUp ==
  /\ ~netUp
  /\ retry + 1 >= MaxRetryCount /\ ~HasNextServer
  /\ retry' = retry + 1
  /\ TransitionTo("Offline")
  /\ UNCHANGED <<idx, backoff>>

\* on_connect_attempt_ returns and Tick goes on to its end.
TickConnectEnd ==
  /\ connecting
  /\ \/ ConnectSucceeds \/ ConnectFailsAndRetries
     \/ ConnectFailsOver \/ ConnectGivesUp
  /\ connecting' = FALSE /\ callAge' = 0
  /\ UNCHANGED <<servers, callbacks, pending, running, hbAge, tickAge, netUp,
                 outageOpen, calls>>

-----------------------------------------------------------------------------
(* The environment.                                                        *)

\* One unit of time passes.  Ticks come at least every TickPeriod and a
\* connect attempt ends within ConnectTime.
Elapse ==
  /\ IF connecting THEN callAge < ConnectTime ELSE tickAge < TickPeriod
  /\ hbAge' = Older(hbAge) /\ enterAge' = Older(enterAge)
  /\ attemptAge' = Older(attemptAge)
  /\ callAge' = IF connecting THEN callAge + 1 ELSE callAge
  /\ tickAge' = IF connecting THEN tickAge ELSE tickAge + 1
  /\ UNCHANGED <<members, state, connecting, netUp, outageOpen, calls>>

NetworkChange ==
  /\ netUp' = ~netUp
  /\ UNCHANGED <<members, state, hbAge, enterAge, attemptAge, connecting,
                 callAge, tickAge, outageOpen, calls>>

Next ==
  \/ \E list \in ServerLists : SetServers(list)
  \/ \E set \in CallbackSets : SetCallbacks(set)
  \/ Start \/ Stop
  \/ OnHeartbeatSuccess \/ OnHeartbeatTimeout
  \/ OnIoSuccess \/ OnIoError
  \/ Tick \/ TickConnectEnd
  \/ Elapse \/ NetworkChange

Spec == Init /\ [][Next]_vars

\* The owner keeps calling Tick, connect attempts return and time passes.  While
\* the network is up a heartbeat is answered every second (docs/usage.md:687)
\* against a recovery timeout of thirty: the answers cannot for ever fall into
\* the moments when the machine is Disconnected and ignores them.
Fairness ==
  /\ WF_vars(Tick) /\ WF_vars(TickConnectEnd) /\ WF_vars(Elapse)
  /\ SF_vars(state # "Disconnected" /\ OnHeartbeatSuccess)

FairSpec == Spec /\ Fairness

-----------------------------------------------------------------------------
(* Properties.                                                             *)

CanPerformIo == state \in {"Connected", "Detecting"}

\* Every member has its type; a Tick waits in the connect callback only while
\* Reconnecting with a server to connect to.
TypeOK ==
  /\ servers \in Seq(BOOLEAN)
  /\ callbacks \in SUBSET {"on_connect_attempt", "on_recovery_complete"}
  /\ idx \in Nat /\ retry \in Nat /\ pending \in Nat
  /\ state \in ConnectionState
  /\ backoff \in BackoffValues
  /\ running \in BOOLEAN /\ netUp \in BOOLEAN /\ outageOpen \in BOOLEAN
  /\ connecting \in BOOLEAN
  /\ hbAge \in 0..AgeCap /\ enterAge \in 0..AgeCap /\ attemptAge \in 0..AgeCap
  /\ callAge \in 0..ConnectTime /\ tickAge \in 0..TickPeriod
  /\ calls \in Nat

\* Tick and GetStateInfo index servers_ with current_server_idx_: the index is
\* inside the list whenever the list is not empty, across calls of SetServers
\* with lists of other lengths and across failover.
ServerIndexInRange == servers # <<>> => idx < Len(servers)

\* CanPerformIo() stops admitting I/O at the latest two detection timeouts (and
\* the two Ticks that notice them) after the last answered heartbeat or
\* finished I/O, whatever errors and timeouts are reported in between.
BoundedBlindIo ==
  CanPerformIo => hbAge <= 2 * (DetectTimeout + TickPeriod)

\* After Stop, late heartbeats, I/O results and Ticks of other threads leave the
\* machine Offline.
StoppedIsOffline == ~running => state = "Offline"

\* Disconnected, Reconnecting and Recovering are only ever occupied during an
\* outage of the current session, so on_recovery_complete_, which is called on
\* leaving Recovering, never reports a recovery without an outage.
RecoveryOnlyInOutage ==
  state \in {"Disconnected", "Reconnecting", "Recovering"} => outageOpen

\* While Reconnecting, the wait is the one ComputeBackoff gives for the number
\* of failures; the stale wait a failover leaves behind has already passed, so
\* the new server is tried at the next Tick.
BackoffDiscipline ==
  state = "Reconnecting" =>
    \/ retry > 0 /\ backoff = BackoffAfter[retry]
    \/ retry = 0 /\ (backoff = MinBackoff \/ attemptAge >= backoff)

\* Once the servers stay reachable, a machine that is not Offline always gets
\* back to Connected.
RecoversUnlessOffline ==
  <>[](netUp /\ state # "Offline") => []<>(state = "Connected")

\* With several servers, Reconnecting goes round: each of them is selected
\* unless the machine leaves Reconnecting first.
FailoverReachesEveryServer ==
  \A i \in 0..1 :
    (state = "Reconnecting" /\ Len(servers) = 2 /\ "on_connect_attempt" \in callbacks)
      ~> (\/ idx = i \/ state # "Reconnecting"
          \/ Len(servers) # 2 \/ "on_connect_attempt" \notin callbacks)

=============================================================================
