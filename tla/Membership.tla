----------------------------- MODULE Membership -----------------------------
(***************************************************************************)
(* What the member endpoints promise about the table board_members, with  *)
(* every request a single step: a board is created together with its one  *)
(* owner, the other users come, change role and go, and no step touches   *)
(* the owner.  Members shows that the handlers keep this promise;         *)
(* TaskWrites takes it as its environment.                                *)
(***************************************************************************)
EXTENDS Access

CONSTANTS Users, Boards

VARIABLE role   \* role[b][u]: board_members.role, or NoRole without a row

MembershipType == role \in [Boards -> [Users -> Roles \cup {NoRole}]]

Unused(b) == \A u \in Users : role[b][u] = NoRole

SetRole(b, u, r) == role' = [role EXCEPT ![b][u] = r]

CreateBoard(b, u) == Unused(b) /\ SetRole(b, u, "owner")

Grant(b, u, r) ==
    ~Unused(b) /\ role[b][u] = NoRole /\ SetRole(b, u, r)

ChangeRole(b, u, r) ==
    role[b][u] \notin {NoRole, "owner"} /\ SetRole(b, u, r)

Revoke(b, u) ==
    role[b][u] \notin {NoRole, "owner"} /\ SetRole(b, u, NoRole)

\* What requests may do to the board once it exists.
MemberStep(b, u) ==
    \/ \E r \in {"viewer", "editor"} : Grant(b, u, r) \/ ChangeRole(b, u, r)
    \/ Revoke(b, u)

Init == role = [b \in Boards |-> [u \in Users |-> NoRole]]

Next == \E b \in Boards, u \in Users : CreateBoard(b, u) \/ MemberStep(b, u)

Spec == Init /\ [][Next]_role

\* Every board that has members has exactly one owner ("a board always keeps
\* its owner", README.md:93; boards.py:136).
OneOwner ==
    \A b \in Boards :
        ~Unused(b) => \E u \in Users : \A v \in Users :
                          (role[b][v] = "owner") <=> (v = u)
=============================================================================
