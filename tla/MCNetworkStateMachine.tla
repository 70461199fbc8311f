----------------------- MODULE MCNetworkStateMachine -----------------------
(* Instances of NetworkStateMachine for TLC.                               *)
EXTENDS NetworkStateMachine

\* A pair with either server primary, a single server, and no server.
MCServerLists == {<<TRUE, FALSE>>, <<FALSE, TRUE>>, <<TRUE>>, <<>>}
MCCallbacks ==
  {{}, {"on_connect_attempt"}, {"on_connect_attempt", "on_recovery_complete"}}
=============================================================================
