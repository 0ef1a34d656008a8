---------------------------- MODULE MembersProofs ----------------------------
(***************************************************************************)
(* Proofs about Members.                                                   *)
(***************************************************************************)
EXTENDS Members, FiniteSetTheorems, TLAPS

USE MembersAssumption

\* The shape of a request, by its operation.
LEMMA RequestShape ==
    ASSUME NEW r \in Requests
    PROVE  /\ r.op \in {"create_board", "add", "patch", "remove", "get"}
           /\ r.caller \in Users /\ r.board \in Boards
           /\ r.op \in {"add", "patch", "remove"} => r.user \in Users
           /\ r.op \in {"add", "patch"} => r.role \in {"viewer", "editor"}
           /\ r # NoRequest
BY DEF Requests

\* Which operation a handler is at, by its stage.
AtStage(w) ==
    /\ pc[w] = "create" => req[w].op = "create_board"
    /\ pc[w] = "authorize" => req[w].op # "create_board"
    /\ pc[w] \in {"check", "insert"} => req[w].op = "add"
    /\ pc[w] = "target" => req[w].op \in {"patch", "remove"}
    /\ pc[w] = "update" => req[w].op = "patch"
    /\ pc[w] = "delete" => req[w].op = "remove"
    /\ pc[w] = "reload" => req[w].op \in {"add", "patch"}
    /\ pc[w] = "publish" => req[w].op \in {"add", "patch", "remove"}
    /\ pc[w] \in {"cached", "load", "fill"} => req[w].op = "get"

\* Requests that may still insert a row for u.
Inserting(b, u) ==
    {w \in Adding(b, u) : pc[w] \in {"authorize", "check", "insert"}}

\* A board that is about to be created has never had a row, and no other request
\* knows its id.
Fresh(w) ==
    pc[w] = "create" =>
        /\ \A u \in Users : ids[req[w].board][u] = 0
        /\ \A v \in Workers \ {w} : req[v] # NoRequest => req[v].board # req[w].board

TypeInv ==
    /\ TypeOK
    /\ \A w \in Workers : AtStage(w) /\ Fresh(w)
    /\ \A b \in boards : \E u \in Users : ids[b][u] > 0
    /\ \A b \in Boards, u \in Users : ids[b][u] + Cardinality(Inserting(b, u)) <= MaxRows

LEMMA TypeInit == Init => TypeInv
<1> SUFFICES ASSUME Init PROVE TypeInv
  OBVIOUS
<1>1. TypeOK
  BY DEF Init, TypeOK, Stages
<1>2. \A b \in Boards, u \in Users : Inserting(b, u) = {}
  BY DEF Init, Inserting, Adding
<1>3. ASSUME NEW b \in Boards, NEW u \in Users
      PROVE  ids[b][u] + Cardinality(Inserting(b, u)) <= MaxRows
  <2>1. ids[b][u] = 0 /\ Cardinality(Inserting(b, u)) = 0
    BY <1>2, FS_EmptySet DEF Init
  <2> QED
    BY <2>1
<1> QED
  BY <1>1, <1>3 DEF Init, TypeInv, AtStage, Fresh

-----------------------------------------------------------------------------
(* The types, action by action *)

\* The part of TypeOK about the handlers, and the rest.
HandlersOK ==
    /\ pc \in [Workers -> Stages]
    /\ req \in [Workers -> Requests \cup {NoRequest}]
    /\ seen \in [Workers -> MemberRows \cup {NoRow}]
    /\ \A w \in Workers :
        /\ pc[w] = "idle" <=> req[w] = NoRequest
        /\ seen[w] # NoRow => pc[w] \in {"update", "reload", "delete", "publish"}

TablesOK ==
    /\ users \subseteq Users /\ boards \subseteq Boards
    /\ ids \in [Boards -> [Users -> 0..MaxRows]]
    /\ row \in [Boards -> [Users -> MemberRows \cup {NoRow}]]
    /\ cached \subseteq Boards
    /\ owned \in [Users -> (SUBSET Boards) \cup {NoRow}]
    /\ unannounced \subseteq Boards
    /\ welcome \subseteq Workers

LEMMA TwoParts ==
    /\ TypeOK <=> HandlersOK /\ TablesOK
    /\ TypeOK' <=> HandlersOK' /\ TablesOK'
BY DEF TypeOK, HandlersOK, TablesOK

\* The request of a handler that is under way.
LEMMA UnderWay ==
    ASSUME HandlersOK, NEW w \in Workers, pc[w] # "idle"
    PROVE  /\ req[w] \in Requests
           /\ req[w].op \in {"create_board", "add", "patch", "remove", "get"}
           /\ req[w].caller \in Users /\ req[w].board \in Boards
           /\ req[w].op \in {"add", "patch", "remove"} => req[w].user \in Users
           /\ req[w].op \in {"add", "patch"} => req[w].role \in {"viewer", "editor"}
<1>1. req[w] \in Requests
  BY DEF HandlersOK
<1> QED
  BY <1>1, RequestShape

LEMMA GoOn ==
    ASSUME HandlersOK, NEW w \in Workers, pc[w] # "idle", NEW stage \in Stages \ {"idle"},
           GoTo(w, stage),
           seen[w] # NoRow => stage \in {"update", "reload", "delete", "publish"}
    PROVE  HandlersOK'
BY DEF HandlersOK, GoTo

LEMMA End ==
    ASSUME HandlersOK, NEW w \in Workers, Finish(w)
    PROVE  HandlersOK'
BY DEF HandlersOK, Finish, Stages

LEMMA InsertingFinite ==
    ASSUME NEW b, NEW u
    PROVE  IsFiniteSet(Inserting(b, u)) /\ Cardinality(Inserting(b, u)) \in Nat
<1>1. Inserting(b, u) \subseteq Workers
  BY DEF Inserting, Adding
<1> QED
  BY <1>1, FS_Subset, FS_CardinalityType

LEMMA OneMore ==
    ASSUME NEW S, IsFiniteSet(S), NEW x
    PROVE  /\ IsFiniteSet(S \cup {x}) /\ Cardinality(S \cup {x}) \in Nat
           /\ Cardinality(S \cup {x}) <= Cardinality(S) + 1
<1>1. Cardinality(S) \in Nat /\ Cardinality(S \cup {x}) \in {Cardinality(S), Cardinality(S) + 1}
  BY FS_AddElement, FS_CardinalityType
<1> QED
  BY <1>1, FS_AddElement

\* What becomes of the bound when fewer requests may insert.
LEMMA FewerInserting ==
    ASSUME NEW b, NEW u, Inserting(b, u)' \subseteq Inserting(b, u)
    PROVE  /\ Cardinality(Inserting(b, u)') \in Nat
           /\ Cardinality(Inserting(b, u)') <= Cardinality(Inserting(b, u))
BY InsertingFinite, FS_Subset, FS_CardinalityType

\* A step of one handler that inserts no row and starts nothing.
LEMMA Routine ==
    ASSUME TypeInv, TypeOK', ids' = ids, boards' \subseteq boards,
           NEW w \in Workers, pc[w] # "idle", AtStage(w)',
           \A v \in Workers \ {w} : pc'[v] = pc[v] /\ req'[v] = req[v],
           req'[w] \in {req[w], NoRequest},
           pc'[w] # "create",
           pc'[w] \in {"authorize", "check", "insert"}
               => pc[w] \in {"authorize", "check", "insert"}
    PROVE  TypeInv'
<1>1. ASSUME NEW v \in Workers PROVE AtStage(v)'
  BY DEF TypeInv, AtStage
<1>2. ASSUME NEW v \in Workers PROVE Fresh(v)'
  <2>1. CASE v = w
    BY <2>1 DEF Fresh
  <2>2. CASE v # w
    <3>1. Fresh(v) /\ pc'[v] = pc[v] /\ req'[v] = req[v]
      BY <2>2 DEF TypeInv
    <3>2. req[w] # NoRequest
      BY DEF TypeInv, TypeOK
    <3> QED
      BY <2>2, <3>1, <3>2 DEF Fresh
  <2> QED
    BY <2>1, <2>2
<1>3. ASSUME NEW b \in Boards, NEW u \in Users
      PROVE  ids'[b][u] + Cardinality(Inserting(b, u)') <= MaxRows
  <2>1. Inserting(b, u)' \subseteq Inserting(b, u)
    BY DEF Inserting, Adding
  <2>2. ids[b][u] + Cardinality(Inserting(b, u)) <= MaxRows /\ ids[b][u] \in Nat
    BY DEF TypeInv, TypeOK
  <2> QED
    BY <2>1, <2>2, FewerInserting, InsertingFinite
<1>4. \A b \in boards' : \E u \in Users : ids'[b][u] > 0
  BY DEF TypeInv
<1> QED
  BY <1>1, <1>2, <1>3, <1>4 DEF TypeInv

\* A handler goes on to another stage, or ends; a step that starts nothing.
LEMMA GoToTyped ==
    ASSUME TypeInv, NEW w \in Workers, pc[w] # "idle",
           NEW stage \in Stages \ {"idle", "create"}, GoTo(w, stage),
           seen[w] # NoRow => stage \in {"update", "reload", "delete", "publish"},
           stage \in {"authorize", "check", "insert"}
               => pc[w] \in {"authorize", "check", "insert"},
           AtStage(w)', TablesOK', ids' = ids, boards' \subseteq boards
    PROVE  TypeInv'
<1>1. HandlersOK /\ pc \in [Workers -> Stages]
  BY TwoParts DEF TypeInv, HandlersOK
<1>2. TypeOK'
  BY <1>1, GoOn, TwoParts
<1> QED
  BY <1>1, <1>2, Routine DEF GoTo

LEMMA FinishTyped ==
    ASSUME TypeInv, NEW w \in Workers, pc[w] # "idle", Finish(w),
           TablesOK', ids' = ids, boards' \subseteq boards
    PROVE  TypeInv'
<1>1. HandlersOK /\ pc \in [Workers -> Stages] /\ req \in [Workers -> Requests \cup {NoRequest}]
  BY TwoParts DEF TypeInv, HandlersOK
<1>2. TypeOK'
  BY <1>1, End, TwoParts
<1>3. pc'[w] = "idle" /\ req'[w] = NoRequest /\ AtStage(w)'
  BY <1>1 DEF Finish, AtStage
<1> QED
  BY <1>1, <1>2, <1>3, Routine DEF Finish

\* What a step finds at the handler that takes it.
LEMMA AtWork ==
    ASSUME TypeInv, NEW w \in Workers, pc[w] # "idle"
    PROVE  /\ HandlersOK /\ TablesOK /\ AtStage(w)
           /\ req[w] \in Requests
           /\ req[w].op \in {"create_board", "add", "patch", "remove", "get"}
           /\ req[w].caller \in Users /\ req[w].board \in Boards
           /\ req[w].op \in {"add", "patch", "remove"} => req[w].user \in Users
           /\ req[w].op \in {"add", "patch"} => req[w].role \in {"viewer", "editor"}
           /\ pc[w] \notin {"update", "reload", "delete", "publish"} => seen[w] = NoRow
<1>1. HandlersOK /\ TablesOK /\ AtStage(w)
  BY TwoParts DEF TypeInv
<1> QED
  BY <1>1, UnderWay DEF HandlersOK

\* The part of the state that the observer and the cache may change in any step.
Observed == cached' \subseteq Boards /\ welcome' \subseteq Workers

\* The statements that read, and the event.
LEMMA ReadTyped ==
    ASSUME TypeInv, NEW w \in Workers, Observed,
           Authorize(w) \/ Check(w) \/ Reload(w) \/ View(w) \/ Publish(w)
    PROVE  TypeInv'
<1>1. pc[w] # "idle" /\ UNCHANGED tables /\ UNCHANGED owned /\ unannounced' \subseteq unannounced
  BY DEF Authorize, Check, Reload, View, AskCache, LoadBoard, FillCache, RedisFails, Publish
<1>2. TablesOK' /\ ids' = ids /\ boards' \subseteq boards
  BY <1>1, AtWork DEF TablesOK, Observed, tables
<1>3. CASE Finish(w)
  BY <1>1, <1>2, <1>3, FinishTyped
<1>4. ASSUME NEW stage, GoTo(w, stage) PROVE pc'[w] = stage /\ req'[w] = req[w]
  BY <1>1, <1>4, AtWork DEF GoTo, HandlersOK
<1>5. CASE Authorize(w) /\ ~Finish(w)
  <2>1. pc[w] = "authorize" /\ GoTo(w, Admitted(req[w]))
    BY <1>5 DEF Authorize
  <2>2. /\ Admitted(req[w]) \in {"check", "cached", "target"}
        /\ AtStage(w)'
    BY <1>1, <1>4, <2>1, AtWork DEF Admitted, AtStage
  <2> QED
    BY <1>1, <1>2, <2>1, <2>2, AtWork, GoToTyped DEF Stages
<1>6. CASE Check(w) /\ ~Finish(w)
  <2>1. pc[w] = "check" /\ GoTo(w, "insert")
    BY <1>6 DEF Check
  <2>2. AtStage(w)'
    BY <1>1, <1>4, <2>1, AtWork DEF AtStage
  <2> QED
    BY <1>1, <1>2, <2>1, <2>2, AtWork, GoToTyped DEF Stages
<1>7. CASE Reload(w) /\ ~Finish(w)
  <2>1. pc[w] = "reload" /\ GoTo(w, "publish")
    BY <1>7 DEF Reload
  <2>2. AtStage(w)'
    BY <1>1, <1>4, <2>1, AtWork DEF AtStage
  <2> QED
    BY <1>1, <1>2, <2>1, <2>2, AtWork, GoToTyped DEF Stages
<1>8. CASE View(w) /\ ~Finish(w)
  <2>1. PICK stage \in {"load", "fill"} : pc[w] \in {"cached", "load"} /\ GoTo(w, stage)
    BY <1>8 DEF View, AskCache, LoadBoard, FillCache, RedisFails
  <2>2. AtStage(w)'
    BY <1>1, <1>4, <2>1, AtWork DEF AtStage
  <2> QED
    BY <1>1, <1>2, <2>1, <2>2, AtWork, GoToTyped DEF Stages
<1> QED
  BY <1>3, <1>5, <1>6, <1>7, <1>8 DEF Publish

LEMMA TargetTyped ==
    ASSUME TypeInv, NEW w \in Workers, Observed, Target(w)
    PROVE  TypeInv'
<1> DEFINE r == req[w]
<1>1. pc[w] = "target" /\ UNCHANGED <<tables, owned, unannounced>>
  BY DEF Target
<1>2. TablesOK' /\ ids' = ids /\ boards' \subseteq boards
  BY <1>1, AtWork DEF TablesOK, Observed, tables
<1>3. CASE Finish(w)
  BY <1>1, <1>2, <1>3, FinishTyped
<1>4. CASE ~Finish(w)
  <2>1. /\ seen' = [seen EXCEPT ![w] = row[r.board][r.user]]
        /\ pc' = [pc EXCEPT ![w] = IF r.op = "patch" THEN "update" ELSE "delete"]
        /\ req' = req
    BY <1>4 DEF Target
  <2>2. row[r.board][r.user] \in MemberRows \cup {NoRow}
    BY <1>1, AtWork DEF TablesOK, AtStage
  <2>3. r.op \in {"patch", "remove"}
    BY <1>1, AtWork DEF AtStage
  <2>4. pc \in [Workers -> Stages] /\ seen \in [Workers -> MemberRows \cup {NoRow}]
    BY <1>1, AtWork DEF HandlersOK
  <2>5. pc'[w] \in {"update", "delete"} /\ AtStage(w)'
    BY <2>1, <2>3, <2>4 DEF AtStage
  <2>6. HandlersOK'
    <3>1. pc' \in [Workers -> Stages] /\ seen' \in [Workers -> MemberRows \cup {NoRow}]
      BY <2>1, <2>2, <2>4 DEF Stages
    <3>2. ASSUME NEW v \in Workers
          PROVE  /\ pc'[v] = "idle" <=> req'[v] = NoRequest
                 /\ seen'[v] # NoRow => pc'[v] \in {"update", "reload", "delete", "publish"}
      <4>1. CASE v = w
        BY <1>1, <2>1, <2>5, <4>1, AtWork DEF HandlersOK
      <4>2. CASE v # w
        BY <1>1, <2>1, <2>4, <4>2, AtWork DEF HandlersOK
      <4> QED
        BY <4>1, <4>2
    <3> QED
      BY <1>1, <2>1, <3>1, <3>2, AtWork DEF HandlersOK
  <2> HIDE DEF r
  <2>7. \A v \in Workers \ {w} : pc'[v] = pc[v] /\ req'[v] = req[v]
    BY <2>1, <2>4
  <2> QED
    BY <1>1, <1>2, <2>1, <2>5, <2>6, <2>7, TwoParts, Routine
<1> QED
  BY <1>3, <1>4

\* The writes that add no row.
LEMMA WriteTyped ==
    ASSUME TypeInv, NEW w \in Workers, Observed, UpdateRole(w) \/ DeleteMember(w)
    PROVE  TypeInv'
<1> DEFINE r == req[w]
<1>1. /\ pc[w] \in {"update", "delete"} /\ UNCHANGED <<users, boards, ids, owned>>
      /\ unannounced' \in {unannounced, unannounced \cup {r.board}}
  BY DEF UpdateRole, DeleteMember
<1>2. AtStage(w) /\ TablesOK /\ HandlersOK /\ r.board \in Boards /\ r.user \in Users
      /\ (r.op = "patch" => r.role \in Roles)
  BY <1>1, AtWork DEF AtStage, Roles
<1>3. row' \in [Boards -> [Users -> MemberRows \cup {NoRow}]]
  <2>1. CASE row' = row
    BY <1>2, <2>1 DEF TablesOK
  <2>2. CASE row' = [row EXCEPT ![r.board][r.user] = NoRow]
    BY <1>2, <2>2 DEF TablesOK
  <2>3. CASE UpdateRole(w) /\ Stands(w) /\ row' = [row EXCEPT ![r.board][r.user].role = r.role]
    <3>1. r.role \in Roles
      BY <1>2, <2>3 DEF UpdateRole, AtStage
    <3>2. row[r.board][r.user] \in MemberRows
      BY <1>2, <2>3 DEF Stands, TablesOK
    <3>3. [row[r.board][r.user] EXCEPT !.role = r.role] \in MemberRows
      BY <3>1, <3>2 DEF MemberRows
    <3> HIDE DEF r
    <3> QED
      BY <1>2, <2>3, <3>3 DEF TablesOK
  <2> QED
    BY <2>1, <2>2, <2>3 DEF UpdateRole, DeleteMember
<1>4. TablesOK' /\ ids' = ids /\ boards' \subseteq boards
  BY <1>1, <1>2, <1>3 DEF TablesOK, Observed
<1>5. CASE Finish(w)
  BY <1>1, <1>4, <1>5, FinishTyped
<1>6. CASE ~Finish(w)
  <2>1. PICK stage \in {"reload", "publish"} :
            GoTo(w, stage) /\ (stage = "reload" => UpdateRole(w)) /\ (stage = "publish" => DeleteMember(w))
    BY <1>6 DEF UpdateRole, DeleteMember
  <2>2. pc'[w] = stage /\ req'[w] = req[w]
    BY <1>2, <2>1 DEF GoTo, HandlersOK
  <2>3. AtStage(w)'
    BY <1>2, <2>1, <2>2 DEF AtStage, UpdateRole, DeleteMember
  <2> QED
    BY <1>1, <1>4, <2>1, <2>3, GoToTyped DEF Stages
<1> QED
  BY <1>5, <1>6

\* Inserting a row for u on b, where there is room for one more.
LEMMA RowInserted ==
    ASSUME TablesOK, NEW b \in Boards, NEW u \in Users, NEW r \in Roles, NewRow(b, u, r),
           ids[b][u] < MaxRows
    PROVE  /\ ids' \in [Boards -> [Users -> 0..MaxRows]]
           /\ row' \in [Boards -> [Users -> MemberRows \cup {NoRow}]]
           /\ \A c \in Boards, v \in Users :
                 ids'[c][v] = IF c = b /\ v = u THEN ids[b][u] + 1 ELSE ids[c][v]
<1>1. ids[b][u] \in 0..MaxRows
  BY DEF TablesOK
<1>2. ids[b][u] + 1 \in 0..MaxRows /\ [id |-> ids[b][u] + 1, role |-> r] \in MemberRows
  BY <1>1 DEF MemberRows
<1> QED
  BY <1>2 DEF TablesOK, NewRow

LEMMA CreateTyped ==
    ASSUME TypeInv, NEW w \in Workers, Observed, CreateBoard(w)
    PROVE  TypeInv'
<1> DEFINE r == req[w]
<1>1. /\ pc[w] = "create" /\ Finish(w) /\ UNCHANGED <<users, owned, unannounced>>
  BY DEF CreateBoard
<1>2. CASE UNCHANGED <<boards, ids, row>>
  <2>1. TablesOK'
    BY <1>1, <1>2, AtWork DEF TablesOK, Observed
  <2> QED
    BY <1>1, <1>2, <2>1, FinishTyped
<1>3. CASE boards' = boards \cup {r.board} /\ NewRow(r.board, r.caller, "owner")
  <2>1. /\ r.caller \in Users /\ r.board \in Boards /\ TablesOK /\ HandlersOK
        /\ req[w] # NoRequest
    BY <1>1, AtWork, RequestShape
  <2>2. /\ \A u \in Users : ids[r.board][u] = 0
        /\ \A v \in Workers \ {w} : req[v] # NoRequest => req[v].board # r.board
    BY <1>1 DEF TypeInv, Fresh
  <2>3. /\ ids' \in [Boards -> [Users -> 0..MaxRows]]
        /\ row' \in [Boards -> [Users -> MemberRows \cup {NoRow}]]
        /\ \A c \in Boards, v \in Users :
              ids'[c][v] = IF c = r.board /\ v = r.caller THEN 1 ELSE ids[c][v]
    BY <1>3, <2>1, <2>2, RowInserted DEF Roles
  <2>4. TypeOK'
    BY <1>1, <1>3, <2>1, <2>3, End, TwoParts DEF TablesOK, Observed
  <2>5. /\ pc'[w] = "idle" /\ req'[w] = NoRequest
        /\ \A v \in Workers \ {w} : pc'[v] = pc[v] /\ req'[v] = req[v]
    BY <1>1, <2>1 DEF Finish, HandlersOK
  <2>6. ASSUME NEW v \in Workers PROVE AtStage(v)'
    BY <2>5 DEF TypeInv, AtStage
  <2>7. ASSUME NEW v \in Workers PROVE Fresh(v)'
    <3>1. CASE v = w
      BY <2>5, <3>1 DEF Fresh
    <3>2. CASE v # w
      <4>1. Fresh(v) /\ (pc[v] = "create" => req[v] # NoRequest)
        BY DEF TypeInv, TypeOK
      <4> SUFFICES ASSUME pc[v] = "create"
                   PROVE  /\ \A u \in Users : ids'[req[v].board][u] = 0
                          /\ \A x \in Workers \ {v} :
                                req'[x] # NoRequest => req'[x].board # req[v].board
        BY <2>5, <3>2 DEF Fresh
      <4>2. req[v].board # r.board /\ req[v].board \in Boards
        BY <2>2, <3>2, <4>1, AtWork
      <4>3. \A u \in Users : ids'[req[v].board][u] = 0
        BY <2>3, <4>1, <4>2 DEF Fresh
      <4>4. ASSUME NEW x \in Workers \ {v}, req'[x] # NoRequest
            PROVE  req'[x].board # req[v].board
        <5>1. x # w /\ req'[x] = req[x]
          BY <2>5, <4>4
        <5> QED
          BY <4>1, <4>4, <5>1 DEF Fresh
      <4> QED
        BY <4>3, <4>4
    <3> QED
      BY <3>1, <3>2
  <2>8. ASSUME NEW b \in boards' PROVE \E u \in Users : ids'[b][u] > 0
    <3>1. CASE b = r.board
      BY <2>1, <2>3, <3>1
    <3>2. CASE b # r.board
      <4>1. PICK u \in Users : ids[b][u] > 0
        BY <1>3, <3>2 DEF TypeInv
      <4> QED
        BY <1>3, <2>1, <2>3, <3>2, <4>1 DEF TablesOK
    <3> QED
      BY <3>1, <3>2
  <2>9. ASSUME NEW b \in Boards, NEW u \in Users
        PROVE  ids'[b][u] + Cardinality(Inserting(b, u)') <= MaxRows
    <3>1. Inserting(b, u)' \subseteq Inserting(b, u)
      BY <2>5 DEF Inserting, Adding
    <3>2. ids[b][u] + Cardinality(Inserting(b, u)) <= MaxRows /\ ids[b][u] \in Nat
      BY DEF TypeInv, TypeOK
    <3>3. CASE b = r.board
      <4>1. Inserting(b, u)' = {}
        BY <2>2, <2>5, <3>3 DEF Inserting, Adding
      <4>2. Cardinality(Inserting(b, u)') = 0
        BY <4>1, FS_EmptySet
      <4>3. ids'[b][u] \in {0, 1}
        BY <2>2, <2>3, <3>3
      <4> QED
        BY <4>2, <4>3
    <3>4. CASE b # r.board
      <4>1. ids'[b][u] = ids[b][u]
        BY <2>3, <3>4
      <4> QED
        BY <3>1, <3>2, <4>1, FewerInserting, InsertingFinite
    <3> QED
      BY <3>3, <3>4
  <2> QED
    BY <2>4, <2>6, <2>7, <2>8, <2>9 DEF TypeInv
<1> QED
  BY <1>2, <1>3 DEF CreateBoard

LEMMA InsertTyped ==
    ASSUME TypeInv, NEW w \in Workers, Observed, InsertMember(w)
    PROVE  TypeInv'
<1> DEFINE r == req[w]
<1>1. /\ pc[w] = "insert" /\ UNCHANGED <<users, boards, owned>>
      /\ r.op = "add" /\ r.board \in Boards /\ r.user \in Users /\ r.role \in Roles
      /\ req[w] # NoRequest
      /\ HandlersOK /\ TablesOK
  BY AtWork, RequestShape DEF InsertMember, AtStage, Roles
<1>2. CASE Finish(w) /\ UNCHANGED <<ids, row, unannounced>>
  <2>1. TablesOK'
    BY <1>1, <1>2 DEF TablesOK, Observed
  <2> QED
    BY <1>1, <1>2, <2>1, FinishTyped
<1>3. CASE /\ NewRow(r.board, r.user, r.role)
           /\ unannounced' = unannounced \cup {r.board}
           /\ GoTo(w, "reload")
  <2>1. w \in Inserting(r.board, r.user)
    BY <1>1 DEF Inserting, Adding
  <2>2. /\ pc'[w] = "reload" /\ req'[w] = req[w]
        /\ \A v \in Workers \ {w} : pc'[v] = pc[v] /\ req'[v] = req[v]
    BY <1>1, <1>3 DEF GoTo, HandlersOK
  <2>3. ASSUME NEW b \in Boards, NEW u \in Users, b = r.board, u = r.user
        PROVE  /\ Cardinality(Inserting(b, u)) \in Nat
               /\ Cardinality(Inserting(b, u)') \in Nat
               /\ Cardinality(Inserting(b, u)') < Cardinality(Inserting(b, u))
    <3>1. w \in Inserting(b, u) /\ Inserting(b, u)' \subseteq Inserting(b, u) \ {w}
      BY <2>1, <2>2, <2>3 DEF Inserting, Adding
    <3>2. IsFiniteSet(Inserting(b, u)) /\ Cardinality(Inserting(b, u)) \in Nat
      BY InsertingFinite
    <3>3. /\ IsFiniteSet(Inserting(b, u) \ {w})
          /\ Cardinality(Inserting(b, u) \ {w}) = Cardinality(Inserting(b, u)) - 1
      BY <3>1, <3>2, FS_RemoveElement
    <3> QED
      BY <3>1, <3>2, <3>3, FS_Subset, FS_CardinalityType
  <2>4. ASSUME NEW b \in Boards, NEW u \in Users, b = r.board, u = r.user
        PROVE  /\ ids[b][u] \in Nat /\ ids[b][u] < MaxRows
               /\ ids[b][u] + 1 + Cardinality(Inserting(b, u)') <= MaxRows
    <3>1. ids[b][u] \in Nat /\ ids[b][u] + Cardinality(Inserting(b, u)) <= MaxRows
      BY DEF TypeInv, TypeOK
    <3> QED
      BY <2>3, <2>4, <3>1
  <2> HIDE DEF r
  <2>5. ids[r.board][r.user] \in Nat
    BY <1>1, <2>4
  <2>6. ids[r.board][r.user] < MaxRows
    BY <1>1, <2>4
  <2>7. /\ ids' \in [Boards -> [Users -> 0..MaxRows]]
        /\ row' \in [Boards -> [Users -> MemberRows \cup {NoRow}]]
        /\ \A c \in Boards, v \in Users :
              ids'[c][v] = IF c = r.board /\ v = r.user THEN ids[r.board][r.user] + 1 ELSE ids[c][v]
    BY <1>1, <1>3, <2>6, RowInserted
  <2>8. TypeOK'
    <3>1. HandlersOK'
      BY <1>1, <1>3, GoOn DEF Stages
    <3>2. TablesOK'
      BY <1>1, <1>3, <2>7 DEF TablesOK, Observed
    <3> QED
      BY <3>1, <3>2, TwoParts
  <2>9. ASSUME NEW v \in Workers PROVE AtStage(v)'
    BY <1>1, <2>2 DEF TypeInv, AtStage, r
  <2>10. ASSUME NEW v \in Workers PROVE Fresh(v)'
    <3>1. CASE v = w
      BY <2>2, <3>1 DEF Fresh
    <3>2. CASE v # w
      <4>1. Fresh(v)
        BY DEF TypeInv
      <4>2. pc[v] = "create" => req[v].board # r.board /\ req[v].board \in Boards
        BY <1>1, <3>2, <4>1, AtWork DEF Fresh, r
      <4> SUFFICES ASSUME pc[v] = "create" PROVE Fresh(v)'
        BY <2>2, <3>2 DEF Fresh
      <4>3. \A u \in Users : ids'[req[v].board][u] = 0
        BY <2>7, <4>1, <4>2 DEF Fresh
      <4>4. req' = req
        BY <1>3 DEF GoTo
      <4> QED
        BY <2>2, <4>1, <4>3, <4>4 DEF Fresh
    <3> QED
      BY <3>1, <3>2
  <2>11. ASSUME NEW b \in boards' PROVE \E u \in Users : ids'[b][u] > 0
    <3>1. b \in boards /\ b \in Boards
      BY <1>1 DEF TablesOK
    <3>2. PICK u \in Users : ids[b][u] > 0
      BY <3>1 DEF TypeInv
    <3> QED
      BY <2>5, <2>7, <3>1, <3>2
  <2>12. ASSUME NEW b \in Boards, NEW u \in Users
         PROVE  ids'[b][u] + Cardinality(Inserting(b, u)') <= MaxRows
    <3>1. CASE b = r.board /\ u = r.user
      BY <2>4, <2>7, <3>1
    <3>2. CASE ~(b = r.board /\ u = r.user)
      <4>1. ids'[b][u] = ids[b][u]
        BY <2>7, <3>2
      <4>2. ids[b][u] + Cardinality(Inserting(b, u)) <= MaxRows /\ ids[b][u] \in Nat
        BY DEF TypeInv, TypeOK
      <4>3. Inserting(b, u)' \subseteq Inserting(b, u)
        BY <2>2 DEF Inserting, Adding
      <4> QED
        BY <4>1, <4>2, <4>3, FewerInserting, InsertingFinite
    <3> QED
      BY <3>1, <3>2
  <2> QED
    BY <2>8, <2>9, <2>10, <2>11, <2>12 DEF TypeInv
<1> QED
  BY <1>2, <1>3 DEF InsertMember

LEMMA BeginTyped ==
    ASSUME TypeInv, NEW w \in Workers, Observed, Begin(w)
    PROVE  TypeInv'
<1>1. PICK r \in Requests :
        /\ Sensible(r)
        /\ req' = [req EXCEPT ![w] = r]
        /\ pc' = [pc EXCEPT ![w] = FirstStage(r)]
  BY DEF Begin
<1>2. pc[w] = "idle" /\ UNCHANGED <<tables, seen, owned, unannounced>>
  BY DEF Begin
<1>3. HandlersOK /\ TablesOK
  BY TwoParts DEF TypeInv
<1>4. /\ r.op \in {"create_board", "add", "patch", "remove", "get"}
      /\ r.board \in Boards /\ r # NoRequest
      /\ r.op = "add" => r.user \in Users
  BY RequestShape
<1>5. /\ req'[w] = r /\ pc'[w] = FirstStage(r)
      /\ \A v \in Workers \ {w} : pc'[v] = pc[v] /\ req'[v] = req[v]
      /\ FirstStage(r) = IF r.op = "create_board" THEN "create" ELSE "authorize"
      /\ FirstStage(r) \in Stages
      /\ req[w] = NoRequest
  BY <1>1, <1>2, <1>3 DEF HandlersOK, FirstStage, Stages
<1>6. TypeOK'
  <2>1. TablesOK'
    BY <1>2, <1>3 DEF TablesOK, Observed, tables
  <2>2. HandlersOK'
    BY <1>1, <1>2, <1>3, <1>4, <1>5 DEF HandlersOK
  <2> QED
    BY <2>1, <2>2, TwoParts
<1>7. ASSUME NEW v \in Workers PROVE AtStage(v)'
  <2>1. CASE v = w
    BY <1>4, <1>5, <2>1 DEF AtStage
  <2>2. CASE v # w
    BY <1>5, <2>2 DEF TypeInv, AtStage
  <2> QED
    BY <2>1, <2>2
<1>8. ASSUME NEW v \in Workers PROVE Fresh(v)'
  <2>1. CASE v = w
    <3> SUFFICES ASSUME r.op = "create_board" PROVE Fresh(v)'
      BY <1>5, <2>1 DEF Fresh
    <3>1. /\ \A u \in Users : ids[r.board][u] = 0
          /\ \A x \in Workers : req[x] # NoRequest => req[x].board # r.board
      BY <1>1 DEF Sensible
    <3> QED
      BY <1>2, <1>5, <2>1, <3>1 DEF Fresh, tables
  <2>2. CASE v # w
    <3> SUFFICES ASSUME pc[v] = "create" PROVE Fresh(v)'
      BY <1>5, <2>2 DEF Fresh
    <3>1. Fresh(v) /\ req[v] # NoRequest /\ req[v].board \in Boards
      BY AtWork, RequestShape DEF TypeInv
    <3>2. r.board # req[v].board
      <4>1. CASE r.op = "create_board"
        BY <1>1, <3>1, <4>1 DEF Sensible
      <4>2. CASE r.op # "create_board"
        <5>1. r.board \in boards \/ \E u \in Users : ids[r.board][u] > 0
          BY <1>1, <4>2 DEF Sensible
        <5>2. PICK u \in Users : ids[r.board][u] > 0
          BY <5>1 DEF TypeInv
        <5> QED
          BY <3>1, <5>2 DEF Fresh
      <4> QED
        BY <4>1, <4>2
    <3> QED
      BY <1>2, <1>5, <2>2, <3>1, <3>2 DEF Fresh, tables
  <2> QED
    BY <2>1, <2>2
<1>9. ASSUME NEW b \in Boards, NEW u \in Users
      PROVE  ids'[b][u] + Cardinality(Inserting(b, u)') <= MaxRows
  <2>1. ids'[b][u] = ids[b][u] /\ ids[b][u] \in Nat
        /\ ids[b][u] + Cardinality(Inserting(b, u)) <= MaxRows
    BY <1>2 DEF TypeInv, TypeOK, tables
  <2>2. CASE r.op = "add" /\ r.board = b /\ r.user = u
    <3>1. ids[b][u] + Cardinality(Adding(b, u)) < MaxRows
      BY <1>1, <2>2 DEF Sensible
    <3>2. Inserting(b, u)' \subseteq Adding(b, u) \cup {w}
      BY <1>5 DEF Inserting, Adding
    <3>3. IsFiniteSet(Adding(b, u)) /\ Cardinality(Adding(b, u)) \in Nat
      <4>1. Adding(b, u) \subseteq Workers
        BY DEF Adding
      <4> QED
        BY <4>1, FS_Subset, FS_CardinalityType
    <3>4. /\ IsFiniteSet(Adding(b, u) \cup {w})
          /\ Cardinality(Adding(b, u) \cup {w}) \in Nat
          /\ Cardinality(Adding(b, u) \cup {w}) <= Cardinality(Adding(b, u)) + 1
      BY <3>3, OneMore
    <3>5. /\ Cardinality(Inserting(b, u)') \in Nat
          /\ Cardinality(Inserting(b, u)') <= Cardinality(Adding(b, u) \cup {w})
      BY <3>2, <3>4, FS_Subset, FS_CardinalityType
    <3> QED
      BY <2>1, <3>1, <3>3, <3>4, <3>5
  <2>3. CASE ~(r.op = "add" /\ r.board = b /\ r.user = u)
    <3>1. Inserting(b, u)' \subseteq Inserting(b, u)
      BY <1>5, <2>3 DEF Inserting, Adding
    <3> QED
      BY <2>1, <3>1, FewerInserting, InsertingFinite
  <2> QED
    BY <2>2, <2>3
<1>10. \A b \in boards' : \E u \in Users : ids'[b][u] > 0
  BY <1>2 DEF TypeInv, tables
<1> QED
  BY <1>6, <1>7, <1>8, <1>9, <1>10 DEF TypeInv

\* What runs beside the handlers.
LEMMA BesideTyped ==
    ASSUME TypeInv, TablesOK', ids' = ids, boards' \subseteq boards, UNCHANGED <<pc, req, seen>>
    PROVE  TypeInv'
<1>1. TypeOK'
  BY TwoParts DEF TypeInv, HandlersOK
<1>2. \A b \in Boards, u \in Users : Inserting(b, u)' = Inserting(b, u)
  BY DEF Inserting, Adding
<1> QED
  BY <1>1, <1>2 DEF TypeInv, AtStage, Fresh

LEMMA WipeTyped ==
    ASSUME TypeInv, Observed, NEW u \in Users, FindOwned(u) \/ Wipe(u)
    PROVE  TypeInv'
<1>1. TablesOK
  BY TwoParts DEF TypeInv
<1>2. CASE FindOwned(u)
  BY <1>1, <1>2, BesideTyped DEF FindOwned, TablesOK, Observed, tables
<1>3. CASE Wipe(u)
  <2>1. TablesOK'
    BY <1>1, <1>3 DEF Wipe, TablesOK, Observed
  <2> QED
    BY <1>3, <2>1, BesideTyped DEF Wipe
<1> QED
  BY <1>2, <1>3

LEMMA TypeStep == TypeInv /\ [Next]_vars => TypeInv'
<1> SUFFICES ASSUME TypeInv, [Next]_vars PROVE TypeInv'
  OBVIOUS
<1>1. TablesOK
  BY TwoParts DEF TypeInv
<1>2. Next => Observed
  BY <1>1, AtWork DEF Next, Observed, Observe, View, AskCache, LoadBoard, FillCache, RedisFails,
                       Expire, TablesOK
<1>3. CASE UNCHANGED vars
  <2>1. TablesOK'
    BY <1>1, <1>3 DEF TablesOK, vars, tables
  <2> QED
    BY <1>3, <2>1, BesideTyped DEF vars, tables
<1>4. CASE Next
  <2>1. ASSUME NEW b \in Boards, Expire(b) PROVE TypeInv'
    <3>1. TablesOK'
      BY <1>1, <1>2, <1>4, <2>1 DEF Expire, TablesOK, Observed, tables
    <3> QED
      BY <2>1, <3>1, BesideTyped DEF Expire, tables
  <2>2. ASSUME NEW w \in Workers, Begin(w) \/ Step(w) \/ View(w) PROVE TypeInv'
    BY <1>2, <1>4, <2>2, BeginTyped, CreateTyped, ReadTyped, InsertTyped, TargetTyped, WriteTyped
       DEF Step
  <2>3. ASSUME NEW u \in Users, FindOwned(u) \/ Wipe(u) PROVE TypeInv'
    BY <1>2, <1>4, <2>3, WipeTyped
  <2> QED
    BY <1>4, <2>1, <2>2, <2>3 DEF Next
<1> QED
  BY <1>3, <1>4

LEMMA TypeInvariance == Spec => []TypeInv
BY TypeInit, TypeStep, PTL DEF Spec

\* Every state is well typed, and nobody ever has more rows on a board than MaxRows.
THEOREM TypeCorrect == Spec => []TypeOK
<1>1. TypeInv => TypeOK
  BY DEF TypeInv
<1> QED
  BY <1>1, TypeInvariance, PTL

-----------------------------------------------------------------------------
(* No dangling rows, and what the cache shows: also when users are wiped *)

\* What a step does to the table of members.
LEMMA RowStep ==
    ASSUME TypeInv, Next
    PROVE  \/ row' = row /\ boards' = boards /\ users' = users
           \/ \E w \in Workers : CreateBoard(w) \/ InsertMember(w) \/ UpdateRole(w) \/ DeleteMember(w)
           \/ \E u \in Users : Wipe(u)
BY DEF Next, Begin, Step, Authorize, Check, Target, Reload, Publish, View, Expire, FindOwned, tables

LEMMA DanglingStep == TypeInv /\ NoDanglingRows /\ [Next]_vars => NoDanglingRows'
<1> SUFFICES ASSUME TypeInv, NoDanglingRows, [Next]_vars PROVE NoDanglingRows'
  OBVIOUS
<1>1. TablesOK
  BY TwoParts DEF TypeInv
<1>2. CASE row' = row /\ boards' = boards /\ users' = users
  BY <1>2 DEF NoDanglingRows
<1>3. ASSUME NEW w \in Workers, CreateBoard(w) PROVE NoDanglingRows'
  <2>1. req[w].caller \in Users /\ req[w].board \in Boards
    BY <1>3, AtWork DEF CreateBoard
  <2>2. CASE NewRow(req[w].board, req[w].caller, "owner") /\ ~UNCHANGED row
    <3>1. /\ req[w].caller \in users' /\ req[w].board \in boards' /\ boards \subseteq boards'
          /\ users' = users
      BY <1>3, <2>2 DEF CreateBoard
    <3>2. \A c \in Boards, v \in Users :
            row'[c][v] # NoRow => row[c][v] # NoRow \/ (c = req[w].board /\ v = req[w].caller)
      BY <1>1, <2>1, <2>2 DEF NewRow, TablesOK
    <3> QED
      BY <3>1, <3>2 DEF NoDanglingRows
  <2> QED
    BY <1>3, <2>2 DEF CreateBoard, NoDanglingRows
<1>4. ASSUME NEW w \in Workers, InsertMember(w) PROVE NoDanglingRows'
  <2>1. req[w].user \in Users /\ req[w].board \in Boards /\ req[w].role \in Roles
    BY <1>4, AtWork DEF InsertMember, AtStage, Roles
  <2>2. users' = users /\ boards' = boards
    BY <1>4 DEF InsertMember
  <2>3. CASE Accepts(req[w]) /\ NewRow(req[w].board, req[w].user, req[w].role)
    <3>1. \A c \in Boards, v \in Users :
            row'[c][v] # NoRow => row[c][v] # NoRow \/ (c = req[w].board /\ v = req[w].user)
      BY <1>1, <2>1, <2>3 DEF NewRow, TablesOK
    <3> QED
      BY <2>2, <2>3, <3>1 DEF Accepts, NoDanglingRows
  <2> QED
    BY <1>2, <1>4, <2>2, <2>3 DEF InsertMember
<1>5. ASSUME NEW w \in Workers, UpdateRole(w) \/ DeleteMember(w) PROVE NoDanglingRows'
  <2>1. \A b \in Boards, u \in Users : row'[b][u] # NoRow => row[b][u] # NoRow
    <3> DEFINE b == req[w].board
               u == req[w].user
    <3>1. CASE row' = row
      BY <3>1
    <3>2. CASE row[b][u] # NoRow /\ \E x : row' = [row EXCEPT ![b][u] = x]
      BY <1>1, <3>2 DEF TablesOK
    <3>3. CASE row[b][u] # NoRow /\ \E x : row' = [row EXCEPT ![b][u].role = x]
      BY <1>1, <3>3 DEF TablesOK
    <3> QED
      BY <1>5, <3>1, <3>2, <3>3 DEF UpdateRole, DeleteMember, Stands
  <2> QED
    BY <1>5, <2>1 DEF UpdateRole, DeleteMember, NoDanglingRows
<1>6. ASSUME NEW u \in Users, Wipe(u) PROVE NoDanglingRows'
  BY <1>6 DEF Wipe, NoDanglingRows
<1> QED
  BY <1>2, <1>3, <1>4, <1>5, <1>6, RowStep DEF vars, tables

\* A membership has its board and its user, however wipes, insertions and removals
\* interleave (board_member.py:12-13).
THEOREM NothingDangles == Spec => []NoDanglingRows
<1>1. Init => NoDanglingRows
  BY DEF Init, NoDanglingRows
<1> QED
  BY <1>1, DanglingStep, TypeInvariance, PTL DEF Spec

\* Whoever is at the cache or past it has been a member during the request.
Welcomed == \A w \in Workers : pc[w] \in {"cached", "load", "fill"} => w \in welcome

LEMMA RoleOfType ==
    ASSUME TablesOK, NEW b \in Boards, NEW u \in Users
    PROVE  /\ RoleOf(b, u) \in Roles \cup {NoRole}
           /\ RoleOf(b, u) = NoRole <=> row[b][u] = NoRow
           /\ row[b][u] # NoRow => RoleOf(b, u) = row[b][u].role
BY NoRoleAssumption DEF TablesOK, MemberRows, RoleOf

LEMMA Ranks ==
    ASSUME NEW held \in Roles \cup {NoRole}
    PROVE  /\ AtLeast(held, "owner") <=> held = "owner"
           /\ AtLeast(held, "viewer") <=> held # NoRole
BY NoRoleAssumption DEF AtLeast, RoleRank, Roles

\* How a handler comes to the cache.
LEMMA ToTheCache ==
    ASSUME TypeInv, Next, NEW w \in Workers, pc'[w] \in {"cached", "load", "fill"}
    PROVE  \/ pc[w] \in {"cached", "load", "fill"} /\ req'[w] = req[w]
           \/ Authorize(w) /\ MayProceed(req[w]) /\ req' = req /\ row' = row
<1>1. HandlersOK
  BY TwoParts DEF TypeInv
<1> USE <1>1 DEF HandlersOK
<1>2. CASE UNCHANGED <<pc, req>>
  BY <1>2
<1>3. ASSUME NEW v \in Workers, v # w, Begin(v) \/ Step(v) \/ View(v)
      PROVE  pc'[w] = pc[w] /\ req'[w] = req[w]
  BY <1>3 DEF Begin, Step, View, AskCache, LoadBoard, FillCache, RedisFails, CreateBoard, Authorize,
              Check, InsertMember, Target, UpdateRole, Reload, DeleteMember, Publish, GoTo, Finish
<1>4. CASE Begin(w)
  BY <1>4 DEF Begin, FirstStage
<1>5. CASE Step(w) /\ ~Authorize(w)
  BY <1>5 DEF Step, CreateBoard, Check, InsertMember, Target, UpdateRole, Reload, DeleteMember,
              Publish, GoTo, Finish
<1>6. CASE Authorize(w)
  BY <1>6 DEF Authorize, GoTo, Finish, tables
<1>7. CASE View(w)
  BY <1>7 DEF View, AskCache, LoadBoard, FillCache, RedisFails, GoTo, Finish
<1> QED
  BY <1>2, <1>3, <1>4, <1>5, <1>6, <1>7 DEF Next, Expire, FindOwned, Wipe, Step

LEMMA WelcomedStep == TypeInv /\ TypeInv' /\ Welcomed /\ [Next]_vars => Welcomed'
<1> SUFFICES ASSUME TypeInv, TypeInv', Welcomed, Next,
                    NEW w \in Workers, pc'[w] \in {"cached", "load", "fill"}
             PROVE  w \in welcome'
  BY DEF Welcomed, vars
<1> DEFINE r == req'[w]
<1>1. r.op = "get" /\ r # NoRequest
  BY DEF TypeInv, AtStage, TypeOK
<1>2. w \in welcome \/ row'[r.board][r.caller] # NoRow
  <2>1. CASE pc[w] \in {"cached", "load", "fill"}
    BY <2>1 DEF Welcomed
  <2>2. CASE Authorize(w) /\ MayProceed(req[w]) /\ req' = req /\ row' = row
    <3>1. TablesOK /\ req[w].board \in Boards /\ req[w].caller \in Users
      BY <2>2, AtWork DEF Authorize
    <3>2. RoleOf(req[w].board, req[w].caller) # NoRole
      BY <2>2, <3>1, RoleOfType, Ranks, NoRoleAssumption DEF MayProceed, Roles
    <3> QED
      BY <2>2, <3>1, <3>2, RoleOfType
  <2> QED
    BY <2>1, <2>2, ToTheCache
<1>3. Observe
  BY DEF Next
<1> QED
  BY <1>1, <1>2, <1>3 DEF Observe

\* The cache shows a board only to somebody who was a member while the request ran,
\* whatever is wiped or removed meanwhile (boards.py:69-78).
THEOREM ShownOnlyToMembers == Spec => ShownToMembers
<1>1. Init => Welcomed
  BY DEF Init, Welcomed
<1>2. Welcomed /\ [Next]_vars
        => [\A w \in Workers :
              pc[w] = "fill" \/ (pc[w] = "cached" /\ req[w].board \in cached)
                => w \in welcome \/ pc'[w] # "idle"]_vars
  BY DEF Welcomed
<1> QED
  BY <1>1, <1>2, WelcomedStep, TypeInvariance, PTL DEF Spec, ShownToMembers

-----------------------------------------------------------------------------
(* Owners and permissions *)

\* What a handler checked and still relies on: who asks is the owner, or has been
\* wiped since, or removes themselves, and whom it changes or removes is not the owner.
Permitted(w) ==
    pc[w] \in {"check", "insert", "target", "update", "delete"} =>
        LET r == req[w] IN
        \/ RoleOf(r.board, r.caller) = "owner" \/ r.caller \notin users
        \/ r.op = "remove" /\ r.caller = r.user

Targeted(w) ==
    pc[w] \in {"update", "delete"} => RoleOf(req[w].board, req[w].user) # "owner"

\* A new row gives its user the role.
LEMMA RoleGiven ==
    ASSUME TablesOK, NEW b \in Boards, NEW u \in Users, NEW r \in Roles, NewRow(b, u, r),
           ids[b][u] < MaxRows
    PROVE  \A c \in Boards, v \in Users :
              RoleOf(c, v)' = IF c = b /\ v = u THEN r ELSE RoleOf(c, v)
<1> DEFINE new == [id |-> ids[b][u] + 1, role |-> r]
<1>1. ids[b][u] \in 0..MaxRows
  BY DEF TablesOK
<1>2. new \in MemberRows /\ new.role = r
  BY <1>1 DEF MemberRows
<1>3. \A c \in Boards, v \in Users : row'[c][v] = IF c = b /\ v = u THEN new ELSE row[c][v]
  BY DEF TablesOK, NewRow
<1> HIDE DEF new
<1> QED
  BY <1>2, <1>3 DEF RoleOf

\* A request that inserts a row finds room for it.
LEMMA Room ==
    ASSUME TypeInv, NEW w \in Workers, pc[w] = "insert"
    PROVE  ids[req[w].board][req[w].user] < MaxRows
<1>1. ASSUME NEW b \in Boards, NEW u \in Users, b = req[w].board, u = req[w].user
      PROVE  ids[b][u] < MaxRows
  <2>1. w \in Inserting(b, u)
    BY <1>1, AtWork, RequestShape DEF Inserting, Adding, AtStage
  <2>2. Cardinality(Inserting(b, u)) \in Nat /\ Cardinality(Inserting(b, u)) # 0
    BY <2>1, InsertingFinite, FS_EmptySet
  <2>3. ids[b][u] \in Nat /\ ids[b][u] + Cardinality(Inserting(b, u)) <= MaxRows
    BY DEF TypeInv, TypeOK
  <2> QED
    BY <2>2, <2>3
<1> QED
  BY <1>1, AtWork DEF AtStage

FewOwners ==
    \A b \in Boards, u, v \in Users : RoleOf(b, u) = "owner" /\ RoleOf(b, v) = "owner" => u = v

\* A board that a wipe of u has found was u's, and nobody else's since.
Found(u) ==
    owned[u] # NoRow => \A b \in owned[u] :
        (\E x \in Users : ids[b][x] > 0) /\ \A v \in Users \ {u} : RoleOf(b, v) # "owner"

OwnerInv ==
    /\ TypeInv /\ NoDanglingRows /\ FewOwners
    /\ \A w \in Workers : Permitted(w) /\ Targeted(w)
    /\ \A u \in Users : Found(u)

\* The owners of all boards are who they were.
OwnersStay ==
    /\ boards' = boards /\ users' = users
    /\ \A b \in Boards, u \in Users : (RoleOf(b, u)' = "owner") <=> (RoleOf(b, u) = "owner")

\* The handler on w has created its board for its caller.
BoardAppears(w) ==
    LET r == req[w] IN
    /\ r.board \in Boards /\ r.caller \in Users
    /\ boards' = boards \cup {r.board} /\ users' = users
    /\ pc'[w] = "idle"
    /\ \A u \in Users : ids[r.board][u] = 0 /\ RoleOf(r.board, u) = NoRole
    /\ \A b \in Boards, u \in Users :
          RoleOf(b, u)' = IF b = r.board /\ u = r.caller THEN "owner" ELSE RoleOf(b, u)
    /\ \A v \in Workers \ {w} : req[v] # NoRequest => req[v].board # r.board

\* The wipe of u takes u off all boards, and nobody else off a board that has an owner.
OwnerLeaves(u) ==
    /\ users' = users \ {u}
    /\ \A b \in Boards, v \in Users :
          (RoleOf(b, v)' = "owner") <=> (RoleOf(b, v) = "owner" /\ v # u)

LEMMA CreateEffect ==
    ASSUME OwnerInv, NEW w \in Workers, CreateBoard(w)
    PROVE  (row' = row /\ boards' = boards /\ users' = users) \/ BoardAppears(w)
<1> DEFINE r == req[w]
<1>1. TypeInv /\ TablesOK /\ HandlersOK /\ r.board \in Boards /\ r.caller \in Users /\ pc[w] = "create"
  BY AtWork DEF OwnerInv, CreateBoard
<1>2. CASE UNCHANGED <<boards, ids, row>>
  BY <1>2 DEF CreateBoard
<1>3. CASE boards' = boards \cup {r.board} /\ NewRow(r.board, r.caller, "owner")
  <2>1. /\ \A u \in Users : ids[r.board][u] = 0
        /\ \A v \in Workers \ {w} : req[v] # NoRequest => req[v].board # r.board
    BY <1>1 DEF TypeInv, Fresh
  <2>2. r.board \notin boards
    BY <2>1 DEF OwnerInv, TypeInv
  <2>3. \A u \in Users : RoleOf(r.board, u) = NoRole
    BY <1>1, <2>2 DEF OwnerInv, NoDanglingRows, RoleOf
  <2>4. \A b \in Boards, u \in Users :
          RoleOf(b, u)' = IF b = r.board /\ u = r.caller THEN "owner" ELSE RoleOf(b, u)
    <3>1. ids[r.board][r.caller] < MaxRows
      BY <1>1, <2>1
    <3> HIDE DEF r
    <3> QED
      BY <1>1, <1>3, <3>1, RoleGiven DEF Roles
  <2>5. pc'[w] = "idle" /\ users' = users
    BY <1>1 DEF CreateBoard, Finish, HandlersOK
  <2> QED
    BY <1>1, <1>3, <2>1, <2>3, <2>4, <2>5 DEF BoardAppears
<1> QED
  BY <1>2, <1>3 DEF CreateBoard

\* The statements that write a row of somebody who is not the owner.
LEMMA WriteEffect ==
    ASSUME OwnerInv, NEW w \in Workers, InsertMember(w) \/ UpdateRole(w) \/ DeleteMember(w),
           row' # row
    PROVE  LET r == req[w] IN
           /\ r.board \in Boards /\ r.user \in Users /\ boards' = boards
           /\ \E new \in {"viewer", "editor", NoRole} :
                 /\ \A b \in Boards, u \in Users :
                       RoleOf(b, u)' = IF b = r.board /\ u = r.user THEN new ELSE RoleOf(b, u)
                 /\ InsertMember(w) =>
                       /\ RoleOf(r.board, r.user) = NoRole /\ new \in {"viewer", "editor"}
                       /\ r.board \in boards
                 /\ UpdateRole(w) =>
                       RoleOf(r.board, r.user) \notin {NoRole, "owner"} /\ new \in {"viewer", "editor"}
                 /\ DeleteMember(w) =>
                       RoleOf(r.board, r.user) \notin {NoRole, "owner"} /\ new = NoRole
<1> DEFINE r == req[w]
<1>1. /\ pc[w] \in {"insert", "update", "delete"} /\ boards' = boards
      /\ TypeInv /\ TablesOK /\ HandlersOK /\ AtStage(w) /\ Targeted(w)
      /\ r.board \in Boards /\ r.user \in Users
      /\ pc[w] # "delete" => r.role \in {"viewer", "editor"}
  BY AtWork DEF OwnerInv, InsertMember, UpdateRole, DeleteMember, AtStage
<1>2. CASE InsertMember(w)
  <2>1. Accepts(r) /\ NewRow(r.board, r.user, r.role) /\ pc[w] = "insert"
    BY <1>2 DEF InsertMember
  <2>2. ids[r.board][r.user] < MaxRows
    BY <1>1, <2>1, Room
  <2>3. RoleOf(r.board, r.user) = NoRole /\ r.board \in boards
    BY <2>1 DEF Accepts, RoleOf
  <2>4. r.role \in {"viewer", "editor"} /\ r.role \in Roles
    BY <1>1, <2>1 DEF Roles
  <2> HIDE DEF r
  <2>5. \A b \in Boards, u \in Users :
          RoleOf(b, u)' = IF b = r.board /\ u = r.user THEN r.role ELSE RoleOf(b, u)
    BY <1>1, <2>1, <2>2, <2>4, RoleGiven
  <2>6. ~UpdateRole(w) /\ ~DeleteMember(w)
    BY <2>1 DEF UpdateRole, DeleteMember
  <2> QED
    BY <1>1, <2>3, <2>4, <2>5, <2>6 DEF r
<1>3. CASE UpdateRole(w)
  <2>1. /\ Stands(w) /\ pc[w] = "update"
        /\ row' = [row EXCEPT ![r.board][r.user].role = r.role]
    BY <1>3 DEF UpdateRole
  <2>2. row[r.board][r.user] \in MemberRows /\ row[r.board][r.user] # NoRow
    BY <1>1, <2>1 DEF Stands, TablesOK
  <2>3. RoleOf(r.board, r.user) \notin {NoRole, "owner"}
    BY <1>1, <2>1, <2>2, RoleOfType DEF Targeted
  <2>4. r.role \in {"viewer", "editor"} /\ r.role \in Roles
    BY <1>1, <2>1 DEF Roles
  <2>5. [row[r.board][r.user] EXCEPT !.role = r.role] \in MemberRows
        /\ [row[r.board][r.user] EXCEPT !.role = r.role].role = r.role
    BY <2>2, <2>4 DEF MemberRows
  <2> HIDE DEF r
  <2>6. \A b \in Boards, u \in Users :
          row'[b][u] = IF b = r.board /\ u = r.user
                         THEN [row[r.board][r.user] EXCEPT !.role = r.role] ELSE row[b][u]
    BY <1>1, <2>1 DEF TablesOK
  <2>7. \A b \in Boards, u \in Users :
          RoleOf(b, u)' = IF b = r.board /\ u = r.user THEN r.role ELSE RoleOf(b, u)
    BY <2>5, <2>6 DEF RoleOf
  <2>8. ~InsertMember(w) /\ ~DeleteMember(w)
    BY <2>1 DEF InsertMember, DeleteMember
  <2> QED
    BY <1>1, <2>3, <2>4, <2>7, <2>8 DEF r
<1>4. CASE DeleteMember(w)
  <2>1. /\ Stands(w) /\ pc[w] = "delete"
        /\ row' = [row EXCEPT ![r.board][r.user] = NoRow]
    BY <1>4 DEF DeleteMember
  <2>2. row[r.board][r.user] # NoRow
    BY <2>1 DEF Stands
  <2>3. RoleOf(r.board, r.user) \notin {NoRole, "owner"}
    BY <1>1, <2>1, <2>2, RoleOfType DEF Targeted
  <2> HIDE DEF r
  <2>4. \A b \in Boards, u \in Users :
          RoleOf(b, u)' = IF b = r.board /\ u = r.user THEN NoRole ELSE RoleOf(b, u)
    BY <1>1, <2>1 DEF TablesOK, RoleOf
  <2>5. ~InsertMember(w) /\ ~UpdateRole(w)
    BY <2>1 DEF InsertMember, UpdateRole
  <2> QED
    BY <1>1, <2>3, <2>4, <2>5 DEF r
<1> QED
  BY <1>2, <1>3, <1>4

LEMMA WipeEffect ==
    ASSUME OwnerInv, NEW u \in Users, Wipe(u)
    PROVE  OwnerLeaves(u)
<1>1. /\ owned[u] # NoRow /\ users' = users \ {u}
      /\ row' = [b \in Boards |-> [v \in Users |->
                    IF b \in owned[u] \/ v = u THEN NoRow ELSE row[b][v]]]
  BY DEF Wipe
<1> SUFFICES ASSUME NEW b \in Boards, NEW v \in Users
             PROVE  (RoleOf(b, v)' = "owner") <=> (RoleOf(b, v) = "owner" /\ v # u)
  BY <1>1 DEF OwnerLeaves
<1>2. row'[b][v] = IF b \in owned[u] \/ v = u THEN NoRow ELSE row[b][v]
  BY <1>1
<1>3. b \in owned[u] /\ v # u => RoleOf(b, v) # "owner"
  BY <1>1 DEF OwnerInv, Found
<1>4. NoRole # "owner"
  BY NoRoleAssumption DEF Roles
<1> QED
  BY <1>2, <1>3, <1>4 DEF RoleOf

\* A step keeps all owners, creates a board with its owner, or wipes one.
LEMMA OwnersStep ==
    ASSUME OwnerInv, Next
    PROVE  \/ OwnersStay
           \/ \E w \in Workers : CreateBoard(w) /\ BoardAppears(w)
           \/ \E u \in Users : Wipe(u) /\ OwnerLeaves(u)
<1>1. CASE row' = row /\ boards' = boards /\ users' = users
  BY <1>1 DEF OwnersStay, RoleOf
<1>2. ASSUME NEW w \in Workers, CreateBoard(w)
      PROVE  (row' = row /\ boards' = boards /\ users' = users) \/ BoardAppears(w)
  BY <1>2, CreateEffect
<1>3. ASSUME NEW w \in Workers, InsertMember(w) \/ UpdateRole(w) \/ DeleteMember(w), row' # row
      PROVE  OwnersStay
  BY <1>3, WriteEffect, NoRoleAssumption
     DEF OwnersStay, Roles, InsertMember, UpdateRole, DeleteMember
<1>4. ASSUME NEW w \in Workers, InsertMember(w) \/ UpdateRole(w) \/ DeleteMember(w)
      PROVE  boards' = boards /\ users' = users
  BY <1>4 DEF InsertMember, UpdateRole, DeleteMember
<1>5. ASSUME NEW u \in Users, Wipe(u) PROVE OwnerLeaves(u)
  BY <1>5, WipeEffect
<1> QED
  BY <1>1, <1>2, <1>3, <1>4, <1>5, RowStep DEF OwnerInv

\* How a handler comes to a stage behind its check.
LEMMA ToTheWrite ==
    ASSUME TypeInv, Next, NEW w \in Workers,
           pc'[w] \in {"check", "insert", "target", "update", "delete"}
    PROVE  /\ req'[w] = req[w]
           /\ \/ pc[w] \in {"check", "insert", "target", "update", "delete"}
              \/ MayProceed(req[w]) /\ req[w].op # "get"
           /\ pc'[w] \in {"update", "delete"} =>
                 pc[w] = pc'[w] \/ (Eligible(req[w]) /\ row' = row)
<1>1. HandlersOK
  BY TwoParts DEF TypeInv
<1> USE <1>1 DEF HandlersOK
<1>2. CASE UNCHANGED <<pc, req>>
  BY <1>2
<1>3. ASSUME NEW v \in Workers, v # w, Begin(v) \/ Step(v) \/ View(v)
      PROVE  pc'[w] = pc[w] /\ req'[w] = req[w]
  BY <1>3 DEF Begin, Step, View, AskCache, LoadBoard, FillCache, RedisFails, CreateBoard, Authorize,
              Check, InsertMember, Target, UpdateRole, Reload, DeleteMember, Publish, GoTo, Finish
<1>4. CASE Begin(w)
  BY <1>4 DEF Begin, FirstStage
<1>5. CASE Step(w) /\ ~Authorize(w)
  BY <1>5 DEF Step, CreateBoard, Check, InsertMember, Target, UpdateRole, Reload, DeleteMember,
              Publish, GoTo, Finish, tables
<1>6. CASE Authorize(w)
  BY <1>6 DEF Authorize, Admitted, GoTo, Finish, tables
<1>7. CASE View(w)
  BY <1>7 DEF View, AskCache, LoadBoard, FillCache, RedisFails, GoTo, Finish
<1> QED
  BY <1>2, <1>3, <1>4, <1>5, <1>6, <1>7 DEF Next, Expire, FindOwned, Wipe, Step


\* The ids of boards that were in use stay so.
LEMMA UsedStayUsed ==
    ASSUME TypeInv, Next, NEW b \in Boards, NEW x \in Users, ids[b][x] > 0
    PROVE  ids'[b][x] > 0
<1>1. TablesOK
  BY TwoParts DEF TypeInv
<1>2. CASE ids' = ids
  BY <1>2
<1>3. ASSUME NEW c \in Boards, NEW u \in Users, ids' = [ids EXCEPT ![c][u] = @ + 1]
      PROVE  ids'[b][x] > 0
  <2>1. ids'[b][x] = IF b = c /\ x = u THEN ids[b][x] + 1 ELSE ids[b][x]
    BY <1>1, <1>3 DEF TablesOK
  <2>2. ids[b][x] \in Nat
    BY <1>1 DEF TablesOK
  <2> QED
    BY <2>1, <2>2
<1>4. ASSUME NEW w \in Workers, CreateBoard(w) PROVE ids'[b][x] > 0
  BY <1>2, <1>3, <1>4, AtWork DEF CreateBoard, NewRow
<1>5. ASSUME NEW w \in Workers, InsertMember(w) PROVE ids'[b][x] > 0
  BY <1>2, <1>3, <1>5, AtWork DEF InsertMember, NewRow, AtStage
<1>6. ASSUME NEW w \in Workers,
             Begin(w) \/ View(w) \/ (Step(w) /\ ~CreateBoard(w) /\ ~InsertMember(w))
      PROVE  ids' = ids
  BY <1>6 DEF Begin, View, Step, Authorize, Check, Target, UpdateRole, Reload, DeleteMember, Publish, tables
<1> QED
  BY <1>2, <1>4, <1>5, <1>6 DEF Next, Step, Expire, FindOwned, Wipe, tables

\* No board gets a second owner.
LEMMA FewOwnersStep == OwnerInv /\ Next => FewOwners'
<1> SUFFICES ASSUME OwnerInv, Next, NEW b \in Boards, NEW u \in Users, NEW v \in Users,
                    RoleOf(b, u)' = "owner", RoleOf(b, v)' = "owner"
             PROVE  u = v
  BY DEF FewOwners
<1>1. CASE OwnersStay
  BY <1>1 DEF OwnersStay, OwnerInv, FewOwners
<1>2. ASSUME NEW w \in Workers, BoardAppears(w) PROVE u = v
  <2>1. CASE b = req[w].board
    <3>1. \A x \in Users : RoleOf(b, x)' = IF x = req[w].caller THEN "owner" ELSE NoRole
      BY <1>2, <2>1 DEF BoardAppears
    <3> QED
      BY <3>1, NoRoleAssumption DEF Roles
  <2>2. CASE b # req[w].board
    BY <1>2, <2>2 DEF BoardAppears, OwnerInv, FewOwners
  <2> QED
    BY <2>1, <2>2
<1>3. ASSUME NEW x \in Users, OwnerLeaves(x) PROVE u = v
  BY <1>3 DEF OwnerLeaves, OwnerInv, FewOwners
<1> QED
  BY <1>1, <1>2, <1>3, OwnersStep

\* A board that a wipe has found gets no other owner before the wipe is done.
LEMMA FoundStep == ASSUME OwnerInv, Next, NEW u \in Users PROVE Found(u)'
<1> SUFFICES ASSUME owned'[u] # NoRow, NEW b \in owned'[u]
             PROVE  (\E x \in Users : ids'[b][x] > 0) /\ \A v \in Users \ {u} : RoleOf(b, v)' # "owner"
  BY DEF Found
<1>1. TypeInv /\ TablesOK
  BY TwoParts DEF OwnerInv, TypeInv
<1>2. CASE FindOwned(u)
  <2>1. b \in Boards /\ RoleOf(b, u) = "owner" /\ ids' = ids /\ row' = row
    BY <1>1, <1>2 DEF FindOwned, TablesOK, tables
  <2>2. b \in boards
    BY <2>1, NoRoleAssumption DEF OwnerInv, NoDanglingRows, RoleOf, Roles
  <2>3. \A v \in Users \ {u} : RoleOf(b, v) # "owner"
    BY <2>1 DEF OwnerInv, FewOwners
  <2> QED
    BY <1>1, <2>1, <2>2, <2>3 DEF TypeInv, RoleOf
<1>3. CASE owned'[u] = owned[u]
  <2>1. b \in Boards /\ (\E x \in Users : ids[b][x] > 0) /\ \A v \in Users \ {u} : RoleOf(b, v) # "owner"
    BY <1>1, <1>3 DEF OwnerInv, Found, TablesOK
  <2>2. \E x \in Users : ids'[b][x] > 0
    BY <1>1, <2>1, UsedStayUsed
  <2>3. \A v \in Users \ {u} : RoleOf(b, v)' # "owner"
    <3>1. CASE OwnersStay
      BY <2>1, <3>1 DEF OwnersStay
    <3>2. ASSUME NEW w \in Workers, BoardAppears(w) PROVE \A v \in Users \ {u} : RoleOf(b, v)' # "owner"
      <4>1. b # req[w].board
        BY <2>1, <3>2 DEF BoardAppears
      <4> QED
        BY <2>1, <3>2, <4>1 DEF BoardAppears
    <3>3. ASSUME NEW x \in Users, OwnerLeaves(x) PROVE \A v \in Users \ {u} : RoleOf(b, v)' # "owner"
      BY <2>1, <3>3 DEF OwnerLeaves
    <3> QED
      BY <3>1, <3>2, <3>3, OwnersStep
  <2> QED
    BY <2>2, <2>3
<1>4. CASE Wipe(u)
  <2>1. owned'[u] = NoRow
    BY <1>1, <1>4 DEF Wipe, TablesOK
  <2> QED
    BY <2>1
<1>5. ASSUME NEW v \in Users, v # u, FindOwned(v) \/ Wipe(v) PROVE owned'[u] = owned[u]
  BY <1>1, <1>5 DEF FindOwned, Wipe, TablesOK
<1>6. ASSUME NEW w \in Workers, Begin(w) \/ Step(w) \/ View(w) PROVE owned' = owned
  BY <1>6 DEF Begin, View, Step, CreateBoard, Authorize, Check, InsertMember, Target, UpdateRole, Reload,
              DeleteMember, Publish
<1> QED
  BY <1>2, <1>3, <1>4, <1>5, <1>6 DEF Next, Expire

\* What a handler checked lasts: an owner leaves only by a wipe, and no member becomes one.
LEMMA PermittedStep ==
    ASSUME OwnerInv, TypeInv', Next, NEW w \in Workers
    PROVE  Permitted(w)' /\ Targeted(w)'
<1> SUFFICES ASSUME pc'[w] \in {"check", "insert", "target", "update", "delete"}
             PROVE  Permitted(w)' /\ Targeted(w)'
  BY DEF Permitted, Targeted
<1> DEFINE r == req[w]
<1>1. /\ req'[w] = r
      /\ \/ pc[w] \in {"check", "insert", "target", "update", "delete"}
         \/ MayProceed(r) /\ r.op # "get"
      /\ pc'[w] \in {"update", "delete"} => pc[w] = pc'[w] \/ Eligible(r)
  BY ToTheWrite DEF OwnerInv
<1>2. r \in Requests /\ r # NoRequest /\ r.board \in Boards /\ r.caller \in Users
  BY <1>1, RequestShape DEF TypeInv, TypeOK
<1>3. pc'[w] \in {"update", "delete"} => r.user \in Users
  BY <1>1, <1>2, RequestShape DEF TypeInv, AtStage
<1>4. \/ RoleOf(r.board, r.caller) = "owner" \/ r.caller \notin users
      \/ r.op = "remove" /\ r.caller = r.user
  <2>1. CASE MayProceed(r) /\ r.op # "get"
    <3>1. RoleOf(r.board, r.caller) \in Roles \cup {NoRole}
      BY <1>2, RoleOfType, TwoParts DEF OwnerInv, TypeInv
    <3> QED
      BY <2>1, <3>1, Ranks DEF MayProceed
  <2> QED
    BY <1>1, <2>1 DEF OwnerInv, Permitted
<1>5. pc'[w] \in {"update", "delete"} => RoleOf(r.board, r.user) # "owner"
  BY <1>1 DEF OwnerInv, Targeted, Eligible
<1>6. ASSUME NEW b \in Boards, b = r.board
      PROVE  /\ \A u \in Users : RoleOf(b, u)' = "owner" => RoleOf(b, u) = "owner"
             /\ \A u \in Users : RoleOf(b, u) = "owner" => RoleOf(b, u)' = "owner" \/ u \notin users'
             /\ users' \subseteq users
  <2>1. CASE OwnersStay
    BY <2>1 DEF OwnersStay
  <2>2. ASSUME NEW v \in Workers, BoardAppears(v)
        PROVE  users' = users /\ \A u \in Users : RoleOf(b, u)' = RoleOf(b, u)
    <3>1. b # req[v].board
      BY <1>2, <1>6, <2>2 DEF BoardAppears
    <3> QED
      BY <2>2, <3>1 DEF BoardAppears
  <2>3. CASE \E u \in Users : OwnerLeaves(u)
    BY <2>3 DEF OwnerLeaves
  <2> QED
    BY <2>1, <2>2, <2>3, OwnersStep
<1>7. Permitted(w)'
  BY <1>1, <1>2, <1>4, <1>6 DEF Permitted
<1>8. Targeted(w)'
  BY <1>1, <1>2, <1>3, <1>5, <1>6 DEF Targeted
<1> QED
  BY <1>7, <1>8

LEMMA OwnerStep == OwnerInv /\ TypeInv' /\ [Next]_vars => OwnerInv'
<1> SUFFICES ASSUME OwnerInv, TypeInv', [Next]_vars PROVE OwnerInv'
  OBVIOUS
<1>1. CASE UNCHANGED vars
  BY <1>1 DEF vars, tables, OwnerInv, NoDanglingRows, FewOwners, Permitted, Targeted, Found, RoleOf
<1>2. CASE Next
  BY <1>2, DanglingStep, FewOwnersStep, PermittedStep, FoundStep DEF OwnerInv
<1> QED
  BY <1>1, <1>2

LEMMA OwnerInvariance == Spec => []OwnerInv
<1>1. Init => OwnerInv
  BY TypeInit, NoRoleAssumption
     DEF Init, OwnerInv, NoDanglingRows, FewOwners, Permitted, Targeted, Found, RoleOf, Roles
<1> QED
  BY <1>1, OwnerStep, TypeInvariance, PTL DEF Spec

\* Who owns a board that exists owns it until the wipe that removes them, and nobody
\* else becomes its owner, whatever is under way (boards.py:53, 136; cleanup.py:22-41).
THEOREM OwnersForLife == Spec => OwnersAreForLife
<1>1. OwnerInv /\ [Next]_vars
        => [\A b \in boards, u \in Users :
              (RoleOf(b, u)' = "owner") <=> (RoleOf(b, u) = "owner" /\ ~Wipe(u))]_vars
  <2> SUFFICES ASSUME OwnerInv, Next, NEW b \in boards, NEW u \in Users
               PROVE  (RoleOf(b, u)' = "owner") <=> (RoleOf(b, u) = "owner" /\ ~Wipe(u))
    OBVIOUS
  <2>1. b \in Boards
    BY DEF OwnerInv, TypeInv, TypeOK
  <2>2. Wipe(u) => RoleOf(b, u)' # "owner"
    BY <2>1, WipeEffect DEF OwnerLeaves
  <2>3. CASE OwnersStay
    BY <2>1, <2>2, <2>3 DEF OwnersStay
  <2>4. ASSUME NEW w \in Workers, BoardAppears(w)
        PROVE  RoleOf(b, u)' = RoleOf(b, u)
    <3>1. b # req[w].board
      BY <2>4 DEF BoardAppears, OwnerInv, TypeInv
    <3> QED
      BY <2>1, <2>4, <3>1 DEF BoardAppears
  <2>5. ASSUME NEW x \in Users, Wipe(x), OwnerLeaves(x)
        PROVE  (RoleOf(b, u)' = "owner") <=> (RoleOf(b, u) = "owner" /\ ~Wipe(u))
    BY <2>1, <2>2, <2>5 DEF OwnerLeaves
  <2> QED
    BY <2>2, <2>3, <2>4, <2>5, OwnersStep
<1> QED
  BY <1>1, OwnerInvariance, PTL DEF Spec, OwnersAreForLife

\* Members are changed by the owner at that moment, unless a wipe has just removed the
\* owner, or by themselves, although the permission was checked statements ago
\* (boards.py:117, 142, 157-159).
THEOREM PermissionsLast == Spec => ChangesAreTheOwners
<1>1. OwnerInv /\ [Next]_vars
        => [\A w \in Workers : LET r == req[w] IN
              (InsertMember(w) \/ UpdateRole(w) \/ DeleteMember(w)) /\ row' # row
                  => \/ RoleOf(r.board, r.caller) = "owner" \/ r.caller \notin users
                     \/ r.op = "remove" /\ r.caller = r.user]_vars
  BY DEF OwnerInv, Permitted, InsertMember, UpdateRole, DeleteMember
<1> QED
  BY <1>1, OwnerInvariance, PTL DEF Spec, ChangesAreTheOwners

-----------------------------------------------------------------------------
(* When nobody is wiped: no board is without its owner *)

BoardsOwned ==
    \A b \in boards : \E u \in Users : \A v \in Users : (RoleOf(b, v) = "owner") <=> (v = u)

LEMMA UsersStay == ASSUME Cleaned = {}, OwnerInv, Next PROVE users' = users
<1>1. ~ \E u \in Users : Wipe(u)
  BY DEF Wipe
<1> QED
  BY <1>1, RowStep DEF OwnerInv, CreateBoard, InsertMember, UpdateRole, DeleteMember

LEMMA OwnedStep == ASSUME Cleaned = {} PROVE OwnerInv /\ BoardsOwned /\ [Next]_vars => BoardsOwned'
<1> SUFFICES ASSUME OwnerInv, BoardsOwned, [Next]_vars, NEW b \in boards'
             PROVE  \E u \in Users : \A v \in Users : (RoleOf(b, v)' = "owner") <=> (v = u)
  BY DEF BoardsOwned
<1>1. boards \subseteq Boards
  BY DEF OwnerInv, TypeInv, TypeOK
<1>2. CASE UNCHANGED vars
  BY <1>2 DEF vars, tables, BoardsOwned, RoleOf
<1>3. CASE OwnersStay
  BY <1>1, <1>3 DEF OwnersStay, BoardsOwned
<1>4. ASSUME NEW w \in Workers, BoardAppears(w)
      PROVE  \E u \in Users : \A v \in Users : (RoleOf(b, v)' = "owner") <=> (v = u)
  <2>1. CASE b = req[w].board
    <3>1. \A u \in Users : RoleOf(b, u)' = IF u = req[w].caller THEN "owner" ELSE NoRole
      BY <1>4, <2>1 DEF BoardAppears
    <3> QED
      BY <1>4, <3>1, NoRoleAssumption DEF BoardAppears, Roles
  <2>2. CASE b # req[w].board
    <3>1. b \in boards /\ b \in Boards
      BY <1>1, <1>4, <2>2 DEF BoardAppears
    <3>2. \A u \in Users : RoleOf(b, u)' = RoleOf(b, u)
      BY <1>4, <2>2, <3>1 DEF BoardAppears
    <3> QED
      BY <3>1, <3>2 DEF BoardsOwned
  <2> QED
    BY <2>1, <2>2
<1>5. ~ \E u \in Users : Wipe(u)
  BY DEF Wipe
<1> QED
  BY <1>2, <1>3, <1>4, <1>5, OwnersStep

LEMMA OwnedInvariance == ASSUME Cleaned = {} PROVE Spec => []BoardsOwned
<1>1. Init => BoardsOwned
  BY DEF Init, BoardsOwned
<1>2. OwnerInv /\ BoardsOwned /\ [Next]_vars => BoardsOwned'
  BY OwnedStep
<1> QED
  BY <1>1, <1>2, OwnerInvariance, PTL DEF Spec

\* A board that has members has one owner, however many requests are under way
\* (README.md:93; boards.py:136).
THEOREM OwnersAreUnique == ASSUME Cleaned = {} PROVE Spec => []OneOwner
<1>1. OwnerInv /\ BoardsOwned => OneOwner
  <2> SUFFICES ASSUME OwnerInv, BoardsOwned, NEW b \in Boards, NEW x \in Users, RoleOf(b, x) # NoRole
               PROVE  \E u \in Users : \A v \in Users : (RoleOf(b, v) = "owner") <=> (v = u)
    BY DEF OneOwner, Abs!OneOwner, Abs!Unused
  <2>1. b \in boards
    BY DEF OwnerInv, NoDanglingRows, RoleOf
  <2> QED
    BY <2>1 DEF BoardsOwned
<1> QED
  BY <1>1, OwnerInvariance, OwnedInvariance, PTL

\* Every step of the handlers is a step of Membership or changes no role: checks and
\* writes that interleave do no more than requests one at a time could.
THEOREM Refines == ASSUME Cleaned = {} PROVE Spec => ImplementsMembership
<1> DEFINE roles == [b \in Boards |-> [u \in Users |-> RoleOf(b, u)]]
<1>1. Init => Abs!Init
  BY DEF Init, Abs!Init, RoleOf
<1>2. ASSUME OwnerInv, BoardsOwned, [Next]_vars PROVE [Abs!Next]_roles
  <2>1. ASSUME NEW c \in Boards, NEW v \in Users, NEW new,
               \A b \in Boards, u \in Users :
                  RoleOf(b, u)' = IF b = c /\ u = v THEN new ELSE RoleOf(b, u)
        PROVE  Abs!SetRole(c, v, new)
    BY <2>1 DEF Abs!SetRole
  <2>2. CASE row' = row
    BY <2>2 DEF RoleOf
  <2>3. ASSUME NEW w \in Workers, BoardAppears(w) PROVE Abs!Next
    <3>1. Abs!CreateBoard(req[w].board, req[w].caller)
      BY <2>1, <2>3 DEF BoardAppears, Abs!CreateBoard, Abs!Unused
    <3> QED
      BY <2>3, <3>1 DEF BoardAppears, Abs!Next
  <2>4. ASSUME NEW w \in Workers, InsertMember(w) \/ UpdateRole(w) \/ DeleteMember(w), row' # row
        PROVE  Abs!Next
    <3> DEFINE r == req[w]
    <3>1. r.board \in Boards /\ r.user \in Users
      BY <1>2, <2>4, WriteEffect
    <3>2. PICK new \in {"viewer", "editor", NoRole} :
              /\ \A b \in Boards, u \in Users :
                    RoleOf(b, u)' = IF b = r.board /\ u = r.user THEN new ELSE RoleOf(b, u)
              /\ InsertMember(w) =>
                    /\ RoleOf(r.board, r.user) = NoRole /\ new \in {"viewer", "editor"}
                    /\ r.board \in boards
              /\ UpdateRole(w) =>
                    RoleOf(r.board, r.user) \notin {NoRole, "owner"} /\ new \in {"viewer", "editor"}
              /\ DeleteMember(w) =>
                    RoleOf(r.board, r.user) \notin {NoRole, "owner"} /\ new = NoRole
      BY <1>2, <2>4, WriteEffect
    <3>3. Abs!SetRole(r.board, r.user, new)
      BY <2>1, <3>1, <3>2
    <3>4. ASSUME r.board \in boards PROVE ~Abs!Unused(r.board)
      <4>1. PICK u \in Users : RoleOf(r.board, u) = "owner"
        BY <1>2, <3>4 DEF BoardsOwned
      <4> QED
        BY <3>1, <4>1, NoRoleAssumption DEF Abs!Unused, Roles
    <3>5. Abs!MemberStep(r.board, r.user)
      BY <2>4, <3>1, <3>2, <3>3, <3>4
         DEF Abs!MemberStep, Abs!Grant, Abs!ChangeRole, Abs!Revoke
    <3> QED
      BY <3>1, <3>5 DEF Abs!Next
  <2>5. ~ \E u \in Users : Wipe(u)
    BY DEF Wipe
  <2> QED
    BY <1>2, <2>2, <2>3, <2>4, <2>5, RowStep, CreateEffect DEF vars, tables, OwnerInv
<1> QED
  BY <1>1, <1>2, OwnerInvariance, OwnedInvariance, PTL DEF Spec, ImplementsMembership, Abs!Spec

-----------------------------------------------------------------------------
(* Changes get announced, when nobody is wiped *)

\* The request on w is going to publish an event of b.
Promises(w, b) ==
    /\ req[w] # NoRequest /\ req[w].board = b
    /\ pc[w] = "publish" \/ (pc[w] = "reload" /\ Reloadable(w))

\* Steps that change no row announce what they find, or leave it to be announced.
LEMMA QuietStep ==
    ASSUME TypeInv, NEW w \in Workers, Next, row' = row, users' = users,
           NEW b, Promises(w, b)
    PROVE  Promises(w, b)' \/ (Publish(w) /\ b = req[w].board)
<1>1. HandlersOK
  BY TwoParts DEF TypeInv
<1> USE <1>1 DEF HandlersOK
<1>2. CASE UNCHANGED <<pc, req, seen>>
  BY <1>2 DEF Promises, Reloadable, Stands
<1>3. ASSUME NEW v \in Workers, v # w, Begin(v) \/ Step(v) \/ View(v)
      PROVE  pc'[w] = pc[w] /\ req'[w] = req[w] /\ seen'[w] = seen[w]
  BY <1>3 DEF Begin, Step, View, AskCache, LoadBoard, FillCache, RedisFails, CreateBoard, Authorize,
              Check, InsertMember, Target, UpdateRole, Reload, DeleteMember, Publish, GoTo, Finish
<1>4. ASSUME pc'[w] = pc[w] /\ req'[w] = req[w] /\ seen'[w] = seen[w] PROVE Promises(w, b)'
  BY <1>4 DEF Promises, Reloadable, Stands
<1>5. CASE Begin(w) \/ Step(w) \/ View(w)
  <2>1. Reload(w) \/ Publish(w)
    BY <1>5 DEF Promises, Begin, Step, View, AskCache, LoadBoard, FillCache, RedisFails, CreateBoard,
                Authorize, Check, InsertMember, Target, UpdateRole, DeleteMember
  <2>2. CASE Reload(w)
    <3>1. GoTo(w, "publish") /\ req[w].board = b /\ req[w] # NoRequest
      BY <2>2 DEF Reload, Promises
    <3> QED
      BY <3>1 DEF GoTo, Promises
  <2> QED
    BY <2>1, <2>2 DEF Promises
<1> QED
  BY <1>2, <1>3, <1>4, <1>5 DEF Next, Expire, FindOwned, Wipe

\* A handler that has changed a row promises the event.
LEMMA WriterPromises ==
    ASSUME TypeInv, NEW w \in Workers, InsertMember(w) \/ UpdateRole(w) \/ DeleteMember(w),
           row' # row \/ unannounced' # unannounced
    PROVE  /\ \A b \in Boards : b = req[w].board => Promises(w, b)'
           /\ unannounced' = unannounced \cup {req[w].board}
           /\ \A c \in Boards : c # req[w].board => row'[c] = row[c]
           /\ \A v \in Workers \ {w} : pc'[v] = pc[v] /\ req'[v] = req[v] /\ seen'[v] = seen[v]
<1> DEFINE r == req[w]
<1>1. /\ HandlersOK /\ TablesOK /\ AtStage(w) /\ req[w] # NoRequest
      /\ r.board \in Boards /\ r.user \in Users
      /\ pc[w] # "delete" => r.role \in Roles
  BY AtWork, RequestShape DEF InsertMember, UpdateRole, DeleteMember, AtStage, Roles
<1>2. PICK stage \in {"reload", "publish"} :
          GoTo(w, stage) /\ (stage = "reload" <=> ~DeleteMember(w)) /\ (stage = "publish" <=> DeleteMember(w))
  BY DEF InsertMember, UpdateRole, DeleteMember
<1>3. /\ pc'[w] = stage /\ req'[w] = req[w] /\ seen'[w] = seen[w]
      /\ \A v \in Workers \ {w} : pc'[v] = pc[v] /\ req'[v] = req[v] /\ seen'[v] = seen[v]
  BY <1>1, <1>2 DEF GoTo, HandlersOK
<1>4. unannounced' = unannounced \cup {r.board}
  BY DEF InsertMember, UpdateRole, DeleteMember
<1>5. \A c \in Boards : c # r.board => row'[c] = row[c]
  BY <1>1 DEF InsertMember, UpdateRole, DeleteMember, NewRow, TablesOK
<1>6. ASSUME ~DeleteMember(w) PROVE Reloadable(w)'
  <2>1. CASE InsertMember(w)
    BY <1>1, <1>3, <2>1 DEF InsertMember, Accepts, Reloadable, AtStage
  <2>2. CASE UpdateRole(w)
    <3>1. /\ Stands(w) /\ row' = [row EXCEPT ![r.board][r.user].role = r.role]
          /\ r.op = "patch"
      BY <1>1, <2>2 DEF UpdateRole, AtStage
    <3>2. row[r.board][r.user] \in MemberRows /\ row[r.board][r.user].id = seen[w].id
      BY <1>1, <3>1 DEF Stands, TablesOK
    <3>3. row'[r.board][r.user] = [row[r.board][r.user] EXCEPT !.role = r.role]
      BY <1>1, <3>1 DEF TablesOK
    <3>4. row'[r.board][r.user] \in MemberRows /\ row'[r.board][r.user].id = seen[w].id
      BY <1>1, <2>2, <3>2, <3>3 DEF MemberRows, UpdateRole
    <3> QED
      BY <1>3, <3>1, <3>4 DEF Reloadable, Stands
  <2> QED
    BY <1>6, <2>1, <2>2
<1> QED
  BY <1>1, <1>2, <1>3, <1>4, <1>5, <1>6 DEF Promises

LEMMA AnnouncedStep ==
    ASSUME Cleaned = {}
    PROVE  OwnerInv /\ ChangesGetAnnounced /\ [Next]_vars => ChangesGetAnnounced'
<1> SUFFICES ASSUME OwnerInv, ChangesGetAnnounced, [Next]_vars, NEW b \in unannounced'
             PROVE  \E w \in Workers : Promises(w, b)'
  BY DEF ChangesGetAnnounced, Promises
<1>1. CASE UNCHANGED vars
  BY <1>1 DEF vars, tables, ChangesGetAnnounced, Promises, Reloadable, Stands
<1>2. CASE Next
  <2>1. TypeInv /\ users' = users
    BY <1>2, UsersStay DEF OwnerInv
  <2>2. ASSUME NEW v \in Workers, InsertMember(v) \/ UpdateRole(v) \/ DeleteMember(v),
               row' # row \/ unannounced' # unannounced
        PROVE  \E w \in Workers : Promises(w, b)'
    <3>1. CASE b = req[v].board
      <4>1. b \in Boards
        BY <2>1, <2>2, <3>1, AtWork DEF InsertMember, UpdateRole, DeleteMember
      <4> QED
        BY <2>1, <2>2, <3>1, <4>1, WriterPromises
    <3>2. CASE b # req[v].board
      <4>1. b \in unannounced
        BY <2>1, <2>2, <3>2, WriterPromises
      <4>2. PICK w \in Workers : Promises(w, b)
        BY <4>1 DEF ChangesGetAnnounced, Promises
      <4>3. w # v /\ pc'[w] = pc[w] /\ req'[w] = req[w] /\ seen'[w] = seen[w]
        BY <2>1, <2>2, <3>2, <4>2, WriterPromises DEF Promises
      <4>4. b \in Boards /\ row'[b] = row[b]
        BY <2>1, <2>2, <3>2, <4>1, WriterPromises DEF TypeInv, TypeOK
      <4> QED
        BY <2>1, <4>2, <4>3, <4>4 DEF Promises, Reloadable, Stands
    <3> QED
      BY <3>1, <3>2
  <2>3. ASSUME NEW v \in Workers, CreateBoard(v), row' # row
        PROVE  \E w \in Workers : Promises(w, b)'
    <3>1. b \in unannounced /\ b \in Boards
      BY <2>1, <2>3 DEF CreateBoard, TypeInv, TypeOK
    <3>2. PICK w \in Workers : Promises(w, b)
      BY <3>1 DEF ChangesGetAnnounced, Promises
    <3>3. HandlersOK /\ TablesOK /\ pc[v] = "create" /\ pc[w] # "create" /\ req[w] # NoRequest
      BY <2>1, <2>3, <3>2, TwoParts DEF TypeInv, CreateBoard, Promises
    <3>4. req[v].board # b /\ w # v
      BY <2>1, <3>2, <3>3 DEF TypeInv, Fresh, Promises
    <3>5. /\ pc'[w] = pc[w] /\ req'[w] = req[w] /\ seen'[w] = seen[w]
          /\ row'[b] = row[b]
      BY <2>3, <3>1, <3>3, <3>4 DEF CreateBoard, Finish, HandlersOK, TablesOK, NewRow
    <3> QED
      BY <2>1, <3>2, <3>5 DEF Promises, Reloadable, Stands
  <2>4. CASE row' = row /\ ~ \E v \in Workers : /\ InsertMember(v) \/ UpdateRole(v) \/ DeleteMember(v)
                                                /\ unannounced' # unannounced
    <3>1. b \in unannounced /\ \A w \in Workers : Publish(w) => b # req[w].board
      BY <1>2, <2>1, <2>4 DEF Next, Begin, Step, CreateBoard, Authorize, Check, Target, Reload, Publish,
                  View, Expire, FindOwned, Wipe
    <3>2. PICK w \in Workers : Promises(w, b)
      BY <3>1 DEF ChangesGetAnnounced, Promises
    <3> QED
      BY <1>2, <2>1, <2>4, <3>1, <3>2, QuietStep
  <2>5. ~ \E u \in Users : Wipe(u)
    BY DEF Wipe
  <2> QED
    BY <1>2, <2>1, <2>2, <2>3, <2>4, <2>5, RowStep
<1> QED
  BY <1>1, <1>2

\* While a change of the members is unannounced some request is about to publish,
\* although a request may fail after its commit (boards.py:148-152).
THEOREM ChangesAnnounced == ASSUME Cleaned = {} PROVE Spec => []ChangesGetAnnounced
<1>1. Init => ChangesGetAnnounced
  BY DEF Init, ChangesGetAnnounced
<1>2. OwnerInv /\ ChangesGetAnnounced /\ [Next]_vars => ChangesGetAnnounced'
  BY AnnouncedStep
<1> QED
  BY <1>1, <1>2, OwnerInvariance, PTL DEF Spec
=============================================================================
