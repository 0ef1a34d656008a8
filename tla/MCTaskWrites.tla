---------------------------- MODULE MCTaskWrites ----------------------------
(* Instances of TaskWrites for TLC. *)
EXTENDS TaskWrites, TLC

CONSTANTS w1, w2, u1, u2, b1, b2, l1, l2, l3, t

\* Each user owns a board; u2 starts as an editor of u1's.
MCRole == [b \in Boards |-> [u \in Users |->
    IF <<b, u>> \in {<<b1, u1>>, <<b2, u2>>} THEN "owner"
    ELSE IF <<b, u>> = <<b1, u2>> THEN "editor"
    ELSE NoRole]]

\* The ids l2 and t are for requests to create.
MCBoardOf == [l \in Lists |-> CASE l = l1 -> b1 [] l = l3 -> b2 [] OTHER -> NoBoard]

MCListOf == [x \in Tasks |-> NoList]

Symmetry == Permutations(Workers)
=============================================================================
