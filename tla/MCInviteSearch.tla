--------------------------- MODULE MCInviteSearch ---------------------------
(* An instance of InviteSearch for TLC. *)
EXTENDS InviteSearch

CONSTANTS bo, boa, bob
=============================================================================
