---------------------- MODULE NetworkStateMachineProofs ----------------------
(***************************************************************************)
(* Safety of the connection state machine for every configuration, every   *)
(* server list and any number of calls.                                    *)
(***************************************************************************)
EXTENDS NetworkStateMachine, TLAPS

\* Tick is inside the connect callback only while it is Reconnecting to a
\* server of the list, and its backoff had passed.
ConnectingInv ==
  connecting => /\ state = "Reconnecting"
                /\ running
                /\ servers # <<>>
                /\ attemptAge >= backoff

\* How old the last sign of life can be in each state that admits I/O.  The
\* time since the last Tick bounds what that Tick has not seen yet.
DetectionInv ==
  /\ state = "Connected" => hbAge <= DetectTimeout + tickAge
  /\ state = "Detecting" => /\ enterAge <= DetectTimeout + tickAge
                            /\ hbAge <= enterAge + DetectTimeout + TickPeriod

IInv ==
  /\ TypeOK
  /\ ConnectingInv
  /\ ServerIndexInRange
  /\ StoppedIsOffline
  /\ RecoveryOnlyInOutage
  /\ DetectionInv
  /\ BackoffDiscipline

\* The age of a recorded instant grows with time, up to the saturation point.
LEMMA OlderFact ==
  ASSUME NEW a \in 0..AgeCap
  PROVE  Older(a) \in 0..AgeCap /\ Older(a) >= a /\ Older(a) <= a + 1
BY AgeCapAssumption DEF Older

\* SetServers selects a server of the list it is given.
LEMMA InitialServerInRange ==
  ASSUME NEW list \in Seq(BOOLEAN), list # <<>>
  PROVE  InitialServer(list) \in Nat /\ InitialServer(list) < Len(list)
<1>1. CASE \E i \in DOMAIN list : IsFirstPrimary(list, i)
  <2>. DEFINE c == CHOOSE i \in DOMAIN list : IsFirstPrimary(list, i)
  <2>1. c \in DOMAIN list
    BY <1>1
  <2>2. InitialServer(list) = c - 1
    BY <1>1 DEF InitialServer
  <2>. QED
    BY <2>1, <2>2
<1>2. CASE ~\E i \in DOMAIN list : IsFirstPrimary(list, i)
  BY <1>2 DEF InitialServer
<1>. QED
  BY <1>1, <1>2

\* Failover selects a server of the list.
LEMMA NextServerInRange ==
  ASSUME servers \in Seq(BOOLEAN), idx \in Nat, HasNextServer
  PROVE  NextServer \in Nat /\ NextServer < Len(servers)
<1>1. Len(servers) \in Nat /\ Len(servers) > 1
  BY DEF HasNextServer
<1>. QED
  BY <1>1 DEF NextServer

\* What the proofs use of the backoff schedule.
LEMMA BackoffFacts ==
  /\ MinBackoff \in BackoffValues
  /\ \A n \in Nat : n < MaxRetryCount => BackoffAfter[n] \in BackoffValues
  /\ BackoffValues \subseteq 0..AgeCap
BY ConfigAssumption, AgeCapAssumption DEF BackoffValues

\* The numeric constants.
LEMMA ConstantFacts ==
  /\ DetectTimeout \in Nat /\ TickPeriod \in Nat /\ TickPeriod > 0
  /\ ConnectTime \in Nat /\ MaxRetryCount \in Nat /\ RecoveryTimeout \in Nat
  /\ AgeCap \in Nat /\ AgeCap > 2 * (DetectTimeout + TickPeriod)
  /\ ConnectTime < AgeCap
BY ConfigAssumption, AgeCapAssumption

-----------------------------------------------------------------------------
(* Types.                                                                  *)

\* The constructor's values, and the servers and configuration it is given, are
\* well typed.
LEMMA InitTypeOK == Init => TypeOK
<1>. SUFFICES ASSUME Init PROVE TypeOK
  OBVIOUS
<1>. USE ConfigAssumption, AgeCapAssumption, BackoffFacts DEF Init
<1>1. servers \in Seq(BOOLEAN)
  OBVIOUS
<1>2. callbacks \in SUBSET {"on_connect_attempt", "on_recovery_complete"}
  OBVIOUS
<1>3. /\ hbAge \in 0..AgeCap /\ enterAge \in 0..AgeCap /\ attemptAge \in 0..AgeCap
      /\ callAge \in 0..ConnectTime /\ tickAge \in 0..TickPeriod
  OBVIOUS
<1>. QED
  BY <1>1, <1>2, <1>3, Zenon DEF TypeOK, ConnectionState

\* Every branch of Tick leaves the members well typed.
LEMMA TickTypeOK == TypeOK /\ Tick => TypeOK'
<1>. SUFFICES ASSUME TypeOK, Tick PROVE TypeOK'
  OBVIOUS
<1>. USE ConfigAssumption, AgeCapAssumption, BackoffFacts
<1>. USE DEF TypeOK, ConnectionState, TransitionTo, members
<1>1. UNCHANGED <<hbAge, netUp, calls>> /\ tickAge' \in 0..TickPeriod
  BY DEF Tick
<1>2. CASE TickConnected
  BY <1>1, <1>2 DEF TickConnected
<1>3. CASE TickDetecting
  BY <1>1, <1>3 DEF TickDetecting
<1>4. CASE TickDisconnected
  BY <1>1, <1>4 DEF TickDisconnected
<1>5. CASE TickConnectBegin
  BY <1>1, <1>5 DEF TickConnectBegin
<1>6. CASE TickReconnectWait
  BY <1>1, <1>6 DEF TickReconnectWait
<1>7. CASE TickRecovering
  BY <1>1, <1>7 DEF TickRecovering
<1>8. CASE TickNothing
  BY <1>1, <1>8 DEF TickNothing
<1>. QED
  BY <1>2, <1>3, <1>4, <1>5, <1>6, <1>7, <1>8 DEF Tick

\* Every operation of the state machine leaves the members well typed.
LEMMA NextTypeOK == TypeOK /\ [Next]_vars => TypeOK'
<1>. SUFFICES ASSUME TypeOK, [Next]_vars PROVE TypeOK'
  OBVIOUS
<1>. USE ConstantFacts
<1>. USE DEF TypeOK, ConnectionState, TransitionTo, members
<1>1. ASSUME NEW list \in ServerLists, SetServers(list) PROVE TypeOK'
  BY <1>1, InitialServerInRange, ConfigAssumption DEF SetServers
<1>2. ASSUME NEW set \in CallbackSets, SetCallbacks(set) PROVE TypeOK'
  BY <1>2, ConfigAssumption DEF SetCallbacks
<1>3. CASE Start
  <2>1. running' \in BOOLEAN /\ outageOpen' \in BOOLEAN
    BY <1>3, Zenon DEF Start
  <2>2. state' \in ConnectionState
    BY <1>3 DEF Start
  <2>3. hbAge' \in 0..AgeCap /\ enterAge' \in 0..AgeCap
    BY <1>3 DEF Start
  <2>. QED
    BY <1>3, <2>1, <2>2, <2>3, BackoffFacts DEF Start
<1>4. CASE Stop
  <2>1. running' \in BOOLEAN /\ state' \in ConnectionState
    BY <1>4, Zenon DEF Stop
  <2>2. enterAge' \in 0..AgeCap /\ attemptAge' \in 0..AgeCap
    BY <1>4 DEF Stop
  <2>. QED
    BY <1>4, <2>1, <2>2 DEF Stop
<1>5. CASE OnHeartbeatSuccess
  <2>1. outageOpen' \in BOOLEAN
    BY <1>5, Zenon DEF OnHeartbeatSuccess
  <2>2. state' \in ConnectionState /\ retry' \in Nat /\ backoff' \in BackoffValues
    BY <1>5, BackoffFacts DEF OnHeartbeatSuccess
  <2>3. /\ hbAge' \in 0..AgeCap /\ enterAge' \in 0..AgeCap
        /\ attemptAge' \in 0..AgeCap
    BY <1>5 DEF OnHeartbeatSuccess
  <2>. QED
    BY <1>5, <2>1, <2>2, <2>3 DEF OnHeartbeatSuccess
<1>6. CASE OnHeartbeatTimeout
  <2>1. outageOpen' \in BOOLEAN
    BY <1>6, Zenon DEF OnHeartbeatTimeout
  <2>2. state' \in ConnectionState
    BY <1>6 DEF OnHeartbeatTimeout
  <2>3. enterAge' \in 0..AgeCap /\ attemptAge' \in 0..AgeCap
    BY <1>6 DEF OnHeartbeatTimeout
  <2>. QED
    BY <1>6, <2>1, <2>2, <2>3 DEF OnHeartbeatTimeout
<1>7. CASE OnIoSuccess
  BY <1>7 DEF OnIoSuccess
<1>8. CASE OnIoError
  BY <1>8 DEF OnIoError
<1>9. CASE Tick
  BY <1>9, TickTypeOK
<1>10. CASE TickConnectEnd
  <2>. USE DEF ConnectSucceeds, ConnectFailsAndRetries, ConnectFailsOver,
       ConnectGivesUp
  <2>1. connecting' \in BOOLEAN
    BY <1>10, Zenon DEF TickConnectEnd
  <2>7. callAge' \in 0..ConnectTime
    BY <1>10 DEF TickConnectEnd
  <2>2. state' \in ConnectionState
    BY <1>10 DEF TickConnectEnd
  <2>6. retry' \in Nat
    BY <1>10 DEF TickConnectEnd
  <2>3. idx' \in Nat
    BY <1>10, NextServerInRange DEF TickConnectEnd
  <2>4. backoff' \in BackoffValues
    BY <1>10, BackoffFacts DEF TickConnectEnd
  <2>5. enterAge' \in 0..AgeCap /\ attemptAge' \in 0..AgeCap
    BY <1>10 DEF TickConnectEnd
  <2>. QED
    BY <1>10, <2>1, <2>2, <2>3, <2>4, <2>5, <2>6, <2>7
    DEF TickConnectEnd
<1>11. CASE Elapse
  <2>1. /\ hbAge' \in 0..AgeCap /\ enterAge' \in 0..AgeCap
        /\ attemptAge' \in 0..AgeCap
    BY <1>11, OlderFact DEF Elapse
  <2>2. callAge' \in 0..ConnectTime /\ tickAge' \in 0..TickPeriod
    BY <1>11 DEF Elapse
  <2>. QED
    BY <1>11, <2>1, <2>2 DEF Elapse
<1>12. CASE NetworkChange
  BY <1>12 DEF NetworkChange
<1>13. CASE UNCHANGED vars
  BY <1>13 DEF vars
<1>. QED
  BY <1>1, <1>2, <1>3, <1>4, <1>5, <1>6, <1>7, <1>8, <1>9, <1>10, <1>11,
     <1>12, <1>13 DEF Next

\* Every reachable state is well typed, for every configuration.
THEOREM TypeCorrect == Spec => []TypeOK
BY InitTypeOK, NextTypeOK, PTL DEF Spec

-----------------------------------------------------------------------------
(* Safety.                                                                 *)

\* The constructor establishes the invariant: the machine is Offline and stopped.
LEMMA InitIInv == Init => IInv
BY InitTypeOK, ConstantFacts
   DEF Init, IInv, ConnectingInv, ServerIndexInRange, StoppedIsOffline,
       RecoveryOnlyInOutage, DetectionInv, BackoffDiscipline

\* SetServers and TryNextServer, the two that move current_server_idx_, keep it
\* a position of servers_.
LEMMA NextServerIndexInRange ==
  IInv /\ [Next]_vars => ServerIndexInRange'
<1>. SUFFICES ASSUME IInv, [Next]_vars PROVE ServerIndexInRange'
  OBVIOUS
<1>. USE DEF IInv, TypeOK, ServerIndexInRange
<1>1. ASSUME NEW list \in ServerLists, SetServers(list)
      PROVE  ServerIndexInRange'
  BY <1>1, InitialServerInRange, ConfigAssumption DEF SetServers
<1>2. CASE TickConnectEnd
  <2>1. servers' = servers
    BY <1>2 DEF TickConnectEnd
  <2>2. CASE idx' = idx
    BY <2>1, <2>2
  <2>3. CASE ConnectFailsOver
    BY <2>1, <2>3, NextServerInRange DEF ConnectFailsOver
  <2>. QED
    BY <1>2, <2>2, <2>3 DEF TickConnectEnd, ConnectSucceeds,
       ConnectFailsAndRetries, ConnectGivesUp
<1>3. CASE UNCHANGED <<servers, idx>>
  BY <1>3
<1>. QED
  BY <1>1, <1>2, <1>3 DEF Next, SetCallbacks, Start, Stop, OnHeartbeatSuccess,
     OnHeartbeatTimeout, OnIoSuccess, OnIoError, Tick, TickConnected,
     TickDetecting, TickDisconnected, TickConnectBegin, TickReconnectWait,
     TickRecovering, TickNothing, Elapse, NetworkChange, members, vars

\* Offline until Start, and back to Offline with Stop; and an outage is open
\* from the moment Disconnected is entered.
LEMMA NextSession ==
  IInv /\ [Next]_vars => (StoppedIsOffline /\ RecoveryOnlyInOutage)'
<1>. SUFFICES ASSUME IInv, [Next]_vars
              PROVE  StoppedIsOffline' /\ RecoveryOnlyInOutage'
  OBVIOUS
<1>. USE DEF IInv, TypeOK, ConnectionState, StoppedIsOffline, RecoveryOnlyInOutage
<1>1. CASE Start
  BY <1>1 DEF Start
<1>2. CASE Stop
  BY <1>2 DEF Stop, TransitionTo
<1>3. CASE OnHeartbeatSuccess
  BY <1>3 DEF OnHeartbeatSuccess, TransitionTo
<1>4. CASE OnHeartbeatTimeout
  BY <1>4 DEF OnHeartbeatTimeout, TransitionTo, members
<1>5. CASE OnIoError
  BY <1>5 DEF OnIoError, TransitionTo
<1>6. CASE Tick
  BY <1>6 DEF Tick, TickConnected, TickDetecting, TickDisconnected,
     TickConnectBegin, TickReconnectWait, TickRecovering, TickNothing,
     TransitionTo, members
<1>7. CASE TickConnectEnd
  BY <1>7 DEF TickConnectEnd, ConnectSucceeds, ConnectFailsAndRetries,
     ConnectFailsOver, ConnectGivesUp, TransitionTo, ConnectingInv
<1>8. CASE UNCHANGED <<state, running, outageOpen>>
  BY <1>8
<1>. QED
  BY <1>1, <1>2, <1>3, <1>4, <1>5, <1>6, <1>7, <1>8 DEF Next, SetServers,
     SetCallbacks, OnIoSuccess, Elapse, NetworkChange, members, vars

\* An on_connect_attempt_ call is made only by a running machine that is
\* Reconnecting, has a server and has waited out its backoff.
LEMMA NextConnectingInv == IInv /\ [Next]_vars => ConnectingInv'
<1>. SUFFICES ASSUME IInv, [Next]_vars PROVE ConnectingInv'
  OBVIOUS
<1>. USE DEF IInv, TypeOK, ConnectingInv
<1>1. CASE ~connecting'
  BY <1>1
<1>2. CASE Tick
  BY <1>2, Zenon DEF Tick, TickConnected, TickDetecting, TickDisconnected,
     TickConnectBegin, TickReconnectWait, TickRecovering, TickNothing,
     MayAttempt, LockFree, members
<1>3. CASE Elapse
  <2>1. /\ UNCHANGED <<connecting, state, running, servers, backoff>>
        /\ attemptAge' \in 0..AgeCap /\ attemptAge' >= attemptAge
    BY <1>3, OlderFact DEF Elapse, members
  <2>. QED
    BY <2>1, BackoffFacts, ConstantFacts
<1>4. CASE UNCHANGED <<connecting, state, running, servers, backoff, attemptAge>>
  BY <1>4
<1>. QED
  BY <1>1, <1>2, <1>3, <1>4, Zenon DEF Next, SetServers, SetCallbacks, Start, Stop,
     OnHeartbeatSuccess, OnHeartbeatTimeout, OnIoSuccess, OnIoError,
     TickConnectEnd, NetworkChange, LockFree, members, vars

\* Each Tick that leaves the machine in Connected or Detecting has found its
\* timeout not yet passed, and at most TickPeriod later the next one looks.
LEMMA NextDetectionInv == IInv /\ [Next]_vars => DetectionInv'
<1>. SUFFICES ASSUME IInv, [Next]_vars PROVE DetectionInv'
  OBVIOUS
<1>. USE ConstantFacts DEF IInv, TypeOK, DetectionInv
<1>1. CASE Start
  BY <1>1 DEF Start
<1>2. CASE Stop
  BY <1>2 DEF Stop, TransitionTo
<1>3. CASE OnHeartbeatSuccess
  BY <1>3 DEF OnHeartbeatSuccess, TransitionTo
<1>4. CASE OnHeartbeatTimeout
  BY <1>4 DEF OnHeartbeatTimeout, TransitionTo
<1>5. CASE OnIoSuccess
  BY <1>5 DEF OnIoSuccess
<1>6. CASE OnIoError
  BY <1>6 DEF OnIoError, TransitionTo
<1>7. CASE Tick
  BY <1>7 DEF Tick, TickConnected, TickDetecting, TickDisconnected,
     TickConnectBegin, TickReconnectWait, TickRecovering, TickNothing,
     TransitionTo, StoppedIsOffline
<1>8. CASE TickConnectEnd
  BY <1>8 DEF TickConnectEnd, ConnectSucceeds, ConnectFailsAndRetries,
     ConnectFailsOver, ConnectGivesUp, TransitionTo, ConnectingInv
<1>9. CASE Elapse
  <2>1. CASE connecting
    BY <1>9, <2>1 DEF Elapse, ConnectingInv
  <2>2. CASE ~connecting
    <3>1. /\ hbAge' <= hbAge + 1 /\ enterAge' <= enterAge + 1
          /\ hbAge' \in 0..AgeCap /\ enterAge' \in 0..AgeCap
      BY <1>9, OlderFact DEF Elapse
    <3>2. enterAge' = enterAge + 1 \/ enterAge' = AgeCap
      BY <1>9 DEF Elapse, Older
    <3>. QED
      BY <1>9, <2>2, <3>1, <3>2 DEF Elapse
  <2>. QED
    BY <2>1, <2>2
<1>10. CASE UNCHANGED <<state, hbAge, enterAge, tickAge>>
  BY <1>10
<1>. QED
  BY <1>1, <1>2, <1>3, <1>4, <1>5, <1>6, <1>7, <1>8, <1>9, <1>10 DEF Next,
     SetServers, SetCallbacks, NetworkChange, vars

\* Only TryReconnect, a failed attempt of Tick and a reset touch
\* current_backoff_ms_, and each leaves a wait of the schedule.
LEMMA NextBackoffDiscipline == IInv /\ [Next]_vars => BackoffDiscipline'
<1>. SUFFICES ASSUME IInv, [Next]_vars PROVE BackoffDiscipline'
  OBVIOUS
<1>. USE DEF IInv, TypeOK, BackoffDiscipline
<1>1. CASE state' # "Reconnecting"
  BY <1>1
<1>2. CASE OnIoError
  BY <1>2 DEF OnIoError, TransitionTo
<1>3. CASE Tick
  BY <1>3 DEF Tick, TickConnected, TickDetecting, TickDisconnected,
     TickConnectBegin, TickReconnectWait, TickRecovering, TickNothing,
     TransitionTo, members
<1>4. CASE TickConnectEnd
  BY <1>4 DEF TickConnectEnd, ConnectSucceeds, ConnectFailsAndRetries,
     ConnectFailsOver, ConnectGivesUp, TransitionTo, ConnectingInv
<1>5. CASE Elapse
  <2>1. /\ UNCHANGED <<state, retry, backoff>>
        /\ attemptAge' \in 0..AgeCap /\ attemptAge' >= attemptAge
    BY <1>5, OlderFact DEF Elapse, members
  <2>. QED
    BY <2>1, BackoffFacts, ConstantFacts
<1>6. CASE UNCHANGED <<state, retry, backoff, attemptAge>>
  BY <1>6
<1>. QED
  BY <1>1, <1>2, <1>3, <1>4, <1>5, <1>6 DEF Next, SetServers, SetCallbacks,
     Start, Stop, OnHeartbeatSuccess, OnHeartbeatTimeout, OnIoSuccess,
     NetworkChange, TransitionTo, members, vars

\* The conjuncts of the invariant, put together: each operation preserves it.
LEMMA NextIInv == IInv /\ [Next]_vars => IInv'
<1>. SUFFICES ASSUME IInv, [Next]_vars PROVE IInv'
  OBVIOUS
<1>1. TypeOK'
  BY NextTypeOK DEF IInv
<1>. QED
  BY <1>1, NextConnectingInv, NextServerIndexInRange, NextSession,
     NextDetectionInv, NextBackoffDiscipline DEF IInv

\* The invariant behind the theorems below holds in every state of the state
\* machine, for every configuration and server list.
THEOREM InductiveInvariant == Spec => []IInv
BY InitIInv, NextIInv, PTL DEF Spec

\* CanPerformIo() stops admitting I/O within two detection timeouts and two Tick
\* periods of the last sign of life, for every configuration.
THEOREM BlindIoIsBounded == Spec => []BoundedBlindIo
<1>1. IInv => BoundedBlindIo
  BY ConstantFacts DEF IInv, TypeOK, DetectionInv, BoundedBlindIo, CanPerformIo
<1>. QED
  BY <1>1, InductiveInvariant, PTL

\* servers_[current_server_idx_] is never out of range on a nonempty list.
THEOREM ServerIndexSafe == Spec => []ServerIndexInRange
<1>1. IInv => ServerIndexInRange
  BY DEF IInv
<1>. QED
  BY <1>1, InductiveInvariant, PTL

\* A stopped machine stays Offline, and the outage states belong to an outage.
THEOREM SessionSafe == Spec => [](StoppedIsOffline /\ RecoveryOnlyInOutage)
<1>1. IInv => StoppedIsOffline /\ RecoveryOnlyInOutage
  BY DEF IInv
<1>. QED
  BY <1>1, InductiveInvariant, PTL

\* The wait between two attempts follows the schedule, and the wait left over
\* from the previous server never delays the next one.
THEOREM BackoffIsDisciplined == Spec => []BackoffDiscipline
<1>1. IInv => BackoffDiscipline
  BY DEF IInv
<1>. QED
  BY <1>1, InductiveInvariant, PTL
=============================================================================
