----------------------------- MODULE UserSearch -----------------------------
(***************************************************************************)
(* The suggestions for an invitation (app/routers/users.py): whom           *)
(* GET /users/search shows to a searcher, in which order and annotated     *)
(* with which boards, as the table board_members changes.                  *)
(*                                                                         *)
(* A query is the set of users its prefix matches.  Users are numbers in   *)
(* the order of their names; no two have the same (user.py).  Boards are   *)
(* annotated by id.                                                        *)
(***************************************************************************)
EXTENDS Naturals, FiniteSets, Access

CONSTANTS Users, Boards, NoBoard,
          SearchResultLimit     \* SEARCH_RESULT_LIMIT

ASSUME SearchAssumption ==
    /\ Users \subseteq Nat /\ IsFiniteSet(Users)
    /\ IsFiniteSet(Boards) /\ NoBoard \notin Boards
    /\ SearchResultLimit \in Nat \ {0}

VARIABLE role    \* board_members, as in Membership

Table == INSTANCE Membership

Member(table, b, u) == table[b][u] # NoRole

\* Mutant: the boards of the other user, joined with no membership of the searcher.
SharedWithAnyone(table, u, v) == {b \in Boards : Member(table, b, v)}

\* _shared_boards_subquery: the self-join of memberships, for u and another user v.
Shared(table, u, v) == {b \in Boards : Member(table, b, u) /\ Member(table, b, v)}

\* Mutant: no coalesce.  A user who shares nothing has a null count, and DESC puts
\* nulls first.
RankNullsFirst(table, u, v) ==
    IF Shared(table, u, v) = {} THEN Cardinality(Boards) + 1
    ELSE Cardinality(Shared(table, u, v))

\* shared_count
Rank(table, u, v) == Cardinality(Shared(table, u, v))

\* ORDER BY shared_count DESC, username
Before(table, u, v, w) ==
    \/ Rank(table, u, v) > Rank(table, u, w)
    \/ Rank(table, u, v) = Rank(table, u, w) /\ v < w

\* The WHERE clause.  With a board_id, its members are left out.
Found(table, u, query, b) ==
    {v \in query \ {u} : b = NoBoard \/ ~Member(table, b, v)}

\* 404 or 403: only the owner of the board that is named gets suggestions for it.
Refused(table, u, b) == b # NoBoard /\ ~AtLeast(table[b][u], "owner")

\* LIMIT.  What is shown of a user: place in the list, and boards.
Search(table, u, query, b) ==
    LET found == IF Refused(table, u, b) THEN {} ELSE Found(table, u, query, b)
        ahead(v) == Cardinality({w \in found : Before(table, u, w, v)})
    IN  [v \in {w \in found : ahead(w) < SearchResultLimit} |->
            [place |-> ahead(v), boards |-> Shared(table, u, v)]]

-----------------------------------------------------------------------------
Init == Table!Init

\* A search reads and changes nothing.
Next == Table!Next

Spec == Init /\ [][Next]_role
-----------------------------------------------------------------------------
(* Properties *)

\* The table without the boards that u is not on.
VisibleTo(table, u) ==
    [b \in Boards |-> IF Member(table, b, u) THEN table[b] ELSE [v \in Users |-> NoRole]]

\* A search "never reveals anything about boards the searcher can't already see"
\* (users.py:30-31), neither by what it shows nor by its order nor by whom it cuts
\* off: it would answer the same if those boards did not exist.
NothingForeignShows ==
    \A u \in Users, query \in SUBSET Users, b \in Boards \cup {NoBoard} :
        Search(role, u, query, b) = Search(VisibleTo(role, u), u, query, b)

\* "People you already collaborate with rank first" (users.py:63): somebody who
\* matches, is not on the board named and shares a board with the searcher is not
\* cut off or preceded by somebody who shares none.
CollaboratorsFirst ==
    \A u \in Users, query \in SUBSET Users, b \in Boards \cup {NoBoard} :
        LET shown == Search(role, u, query, b) IN
        \A v \in DOMAIN shown : shown[v].boards = {} =>
            \A w \in Found(role, u, query, b) : Shared(role, u, w) # {} =>
                w \in DOMAIN shown /\ shown[w].place < shown[v].place
=============================================================================
