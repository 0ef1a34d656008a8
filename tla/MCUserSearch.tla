---------------------------- MODULE MCUserSearch ----------------------------
(* An instance of UserSearch for TLC. *)
EXTENDS UserSearch

CONSTANTS b1, b2
=============================================================================
