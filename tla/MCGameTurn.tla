------------------------------ MODULE MCGameTurn ------------------------------
(* A table of GameTurn for TLC. *)
EXTENDS GameTurn
=============================================================================
