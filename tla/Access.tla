------------------------------- MODULE Access -------------------------------
(***************************************************************************)
(* Roles on a board and the rank that orders them (app/core/deps.py).     *)
(* Every REST handler and the WebSocket handshake decide with these.      *)
(***************************************************************************)
EXTENDS Naturals

CONSTANT NoRole   \* no board_members row: the user is not on the board

Roles == {"viewer", "editor", "owner"}

ASSUME NoRoleAssumption == NoRole \notin Roles

\* ROLE_RANK: a higher rank implies every permission of the lower ranks.
RoleRank == [viewer |-> 0, editor |-> 1, owner |-> 2]

\* The test of authorize_board.  A missing row answers 404 and a low rank 403;
\* both end the request, so one Boolean stands for the two.
AtLeast(held, minRole) ==
    /\ held # NoRole
    /\ RoleRank[held] >= RoleRank[minRole]
=============================================================================
