----------------------------- MODULE MCNetworkLobby -----------------------------
(* An instance of NetworkLobby for TLC. *)
EXTENDS NetworkLobby
=============================================================================
