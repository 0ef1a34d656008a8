------------------------------- MODULE MCClient -------------------------------
(* Instances of Client for TLC. *)
EXTENDS Client, TLC

CONSTANTS b1, b2, s1, s2, s3, k1, k2

Symmetry == Permutations(Sockets) \cup Permutations(Calls)
=============================================================================
