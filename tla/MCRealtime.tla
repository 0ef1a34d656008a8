----------------------------- MODULE MCRealtime -----------------------------
(* Instances of Realtime for TLC. *)
EXTENDS Realtime, TLC

CONSTANTS i1, i2, u1, u2, c1, c2, c3

\* c1 and c2 are sockets of u1 (two tabs, or one that came back), c3 is u2's.
OneInstance == [c \in Conns |-> i1]

TwoInstances == [c \in Conns |-> IF c = c2 THEN i2 ELSE i1]

Owners == [c \in Conns |-> IF c = c3 THEN u2 ELSE u1]

Symmetry == Permutations({c1, c2})
=============================================================================
