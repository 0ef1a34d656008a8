------------------------------ MODULE MCMembers ------------------------------
(* Instances of Members for TLC. *)
EXTENDS Members, TLC

CONSTANTS w1, w2, u1, u2, u3, b1

Symmetry == Permutations(Workers) \cup Permutations(Users)
=============================================================================
