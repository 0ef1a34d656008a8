------------------------------- MODULE MCPools -------------------------------
(* An instance of Pools for TLC. *)
EXTENDS Pools

CONSTANTS r1, r2, r3, r4
=============================================================================
