----------------------------- MODULE MCGameSession -----------------------------
(* Instances of GameSession for TLC. *)
EXTENDS GameSession, TLC

ClientSymmetry == Permutations(Clients)
================================================================================
