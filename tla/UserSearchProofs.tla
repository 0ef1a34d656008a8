--------------------------- MODULE UserSearchProofs ---------------------------
(***************************************************************************)
(* What UserSearch promises, for any numbers of users and boards, any      *)
(* limit, and whatever the table of memberships holds.                     *)
(***************************************************************************)
EXTENDS UserSearch, FiniteSetTheorems, TLAPS

-----------------------------------------------------------------------------
(* What the searcher may see is all that a search uses *)

\* Of boards that the searcher is on, the visible table has every row, and of the
\* others none.
LEMMA SameRows ==
    ASSUME NEW table, NEW u \in Users, NEW b \in Boards
    PROVE  /\ Member(table, b, u) => VisibleTo(table, u)[b] = table[b]
           /\ ~Member(table, b, u) => \A v \in Users : ~Member(VisibleTo(table, u), b, v)
BY DEF VisibleTo, Member

LEMMA SameShared ==
    ASSUME NEW table, NEW u \in Users, NEW v \in Users
    PROVE  Shared(VisibleTo(table, u), u, v) = Shared(table, u, v)
BY SameRows DEF Shared, Member

LEMMA SameRefusal ==
    ASSUME NEW table, NEW u \in Users, NEW b \in Boards \cup {NoBoard}
    PROVE  Refused(VisibleTo(table, u), u, b) = Refused(table, u, b)
<1>1. CASE b = NoBoard
  BY <1>1 DEF Refused
<1>2. CASE b \in Boards /\ Member(table, b, u)
  BY <1>2, SameRows DEF Refused
<1>3. CASE b \in Boards /\ ~Member(table, b, u)
  BY <1>3, SameRows DEF Refused, Member, AtLeast
<1> QED
  BY <1>1, <1>2, <1>3

\* The members of a board are left out for its owner only, who sees them.
LEMMA SameFound ==
    ASSUME NEW table, NEW u \in Users, NEW query \in SUBSET Users,
           NEW b \in Boards \cup {NoBoard}, ~Refused(table, u, b)
    PROVE  Found(VisibleTo(table, u), u, query, b) = Found(table, u, query, b)
<1>1. CASE b = NoBoard
  BY <1>1 DEF Found
<1>2. CASE b # NoBoard
  <2>1. b \in Boards /\ Member(table, b, u)
    BY <1>2 DEF Refused, AtLeast, Member
  <2> QED
    BY <2>1, SameRows DEF Found, Member
<1> QED
  BY <1>1, <1>2

\* Neither what a search shows nor its order nor whom it cuts off depends on a board
\* the searcher is not on (users.py:30-31), whatever the table holds.
THEOREM NothingForeign == Spec => []NothingForeignShows
<1>1. ASSUME NEW u \in Users, NEW query \in SUBSET Users, NEW b \in Boards \cup {NoBoard}
      PROVE  Search(role, u, query, b) = Search(VisibleTo(role, u), u, query, b)
  <2> DEFINE seen == VisibleTo(role, u)
             found(table) == IF Refused(table, u, b) THEN {} ELSE Found(table, u, query, b)
             ahead(table, v) == Cardinality({w \in found(table) : Before(table, u, w, v)})
  <2>1. found(seen) = found(role)
    BY SameRefusal, SameFound
  <2>2. found(role) \subseteq Users
    BY DEF Found
  <2>3. \A v \in Users : Shared(seen, u, v) = Shared(role, u, v)
    BY SameShared
  <2>4. \A v, w \in Users : Before(seen, u, v, w) = Before(role, u, v, w)
    BY <2>3 DEF Before, Rank
  <2> HIDE DEF seen, found
  <2>5. ASSUME NEW v \in found(role) PROVE ahead(seen, v) = ahead(role, v)
    <3>1. {w \in found(seen) : Before(seen, u, w, v)} = {w \in found(role) : Before(role, u, w, v)}
      BY <2>1, <2>2, <2>4
    <3> QED
      BY <3>1
  <2> HIDE DEF ahead
  <2>6. {w \in found(seen) : ahead(seen, w) < SearchResultLimit}
          = {w \in found(role) : ahead(role, w) < SearchResultLimit}
    BY <2>1, <2>5
  <2>7. [v \in {w \in found(seen) : ahead(seen, w) < SearchResultLimit} |->
            [place |-> ahead(seen, v), boards |-> Shared(seen, u, v)]]
          = [v \in {w \in found(role) : ahead(role, w) < SearchResultLimit} |->
                [place |-> ahead(role, v), boards |-> Shared(role, u, v)]]
    BY <2>2, <2>3, <2>5, <2>6
  <2> QED
    BY <2>7 DEF Search, seen, found, ahead
<1>2. NothingForeignShows
  BY <1>1 DEF NothingForeignShows
<1> QED
  BY <1>2, PTL

-----------------------------------------------------------------------------
(* Collaborators *)

LEMMA RankIsANumber ==
    ASSUME NEW table, NEW u, NEW v
    PROVE  /\ Rank(table, u, v) \in Nat
           /\ Rank(table, u, v) = 0 <=> Shared(table, u, v) = {}
<1>1. IsFiniteSet(Shared(table, u, v))
  BY SearchAssumption, FS_Subset DEF Shared
<1> QED
  BY <1>1, FS_CardinalityType, FS_EmptySet DEF Rank

\* Whoever shares a board comes before whoever shares none, and everybody who comes
\* before the former comes before the latter.
LEMMA CollaboratorsAhead ==
    ASSUME NEW table, NEW u, NEW v, NEW w,
           Shared(table, u, v) = {}, Shared(table, u, w) # {}
    PROVE  /\ Before(table, u, w, v)
           /\ \A x : Before(table, u, x, w) => Before(table, u, x, v)
BY RankIsANumber DEF Before

\* A user who matches and shares a board is not cut off or preceded by one who shares
\* none (users.py:63).
THEOREM CollaboratorsComeFirst == Spec => []CollaboratorsFirst
<1>1. ASSUME NEW u \in Users, NEW query \in SUBSET Users, NEW b \in Boards \cup {NoBoard},
             NEW v \in DOMAIN Search(role, u, query, b),
             Search(role, u, query, b)[v].boards = {},
             NEW w \in Found(role, u, query, b), Shared(role, u, w) # {}
      PROVE  /\ w \in DOMAIN Search(role, u, query, b)
             /\ Search(role, u, query, b)[w].place < Search(role, u, query, b)[v].place
  <2> DEFINE found == Found(role, u, query, b)
             ahead(x) == {y \in found : Before(role, u, y, x)}
             shown == {x \in found : Cardinality(ahead(x)) < SearchResultLimit}
  <2>1. Search(role, u, query, b) =
            [x \in shown |-> [place |-> Cardinality(ahead(x)), boards |-> Shared(role, u, x)]]
    <3>1. ~Refused(role, u, b)
      BY <1>1 DEF Search
    <3> QED
      BY <3>1 DEF Search
  <2>2. v \in shown /\ Shared(role, u, v) = {}
    BY <1>1, <2>1
  <2>3. ahead(w) \subseteq ahead(v) /\ w \in ahead(v)
    BY <1>1, <2>2, CollaboratorsAhead
  <2>4. w \notin ahead(w)
    BY <1>1, SearchAssumption, RankIsANumber DEF Before, Found
  <2>5. IsFiniteSet(ahead(v))
    <3>1. ahead(v) \subseteq Users
      BY DEF Found
    <3> QED
      BY <3>1, SearchAssumption, FS_Subset
  <2>6. /\ Cardinality(ahead(w)) \in Nat /\ Cardinality(ahead(v)) \in Nat
        /\ Cardinality(ahead(w)) < Cardinality(ahead(v))
    BY <2>3, <2>4, <2>5, FS_Subset, FS_CardinalityType
  <2>7. w \in shown
    BY <2>2, <2>6, SearchAssumption
  <2> HIDE DEF shown, ahead
  <2>8. DOMAIN Search(role, u, query, b) = shown
    BY <2>1
  <2>9. \A x \in shown : Search(role, u, query, b)[x].place = Cardinality(ahead(x))
    BY <2>1
  <2> QED
    BY <2>2, <2>6, <2>7, <2>8, <2>9
<1>2. CollaboratorsFirst
  BY <1>1 DEF CollaboratorsFirst
<1> QED
  BY <1>2, PTL
=============================================================================
