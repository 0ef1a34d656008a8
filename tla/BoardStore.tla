----------------------------- MODULE BoardStore -----------------------------
(***************************************************************************)
(* What the task and list endpoints promise about the table tasks, every  *)
(* committed change being one step.  A task is created with version 1 on  *)
(* some board, each accepted update takes it to the next version on the   *)
(* same board, and a deleted task never comes back.                       *)
(***************************************************************************)
EXTENDS Naturals

CONSTANTS Tasks, Boards, NoBoard   \* NoBoard \notin Boards

VARIABLE task   \* task[t]: Unborn, Deleted, or the board and version of t

Unborn  == [board |-> NoBoard, version |-> 0]
Deleted == [board |-> NoBoard, version |-> 1]

Row == [board : Boards, version : Nat \ {0}] \cup {Unborn, Deleted}

Init == task \in [Tasks -> {r \in Row : r.version < 2} \ {Deleted}]

Create(t, b) ==
    /\ task[t] = Unborn
    /\ task' = [task EXCEPT ![t] = [board |-> b, version |-> 1]]

Update(t) ==
    /\ task[t].board # NoBoard
    /\ task' = [task EXCEPT ![t].version = @ + 1]

\* Deleting a list removes its tasks in the same commit: any tasks of one board.
Remove(b) ==
    \E S \in SUBSET {t \in Tasks : task[t].board = b} :
        task' = [t \in Tasks |-> IF t \in S THEN Deleted ELSE task[t]]

Next ==
    \/ \E t \in Tasks, b \in Boards : Create(t, b)
    \/ \E t \in Tasks : Update(t)
    \/ \E b \in Boards : Remove(b)

Spec == Init /\ [][Next]_task
=============================================================================
