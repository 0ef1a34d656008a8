------------------------------ MODULE Members ------------------------------
(***************************************************************************)
(* Boards and their members: the endpoints that create a board, show it   *)
(* from a cache in Redis, and add, change and remove members               *)
(* (app/routers/boards.py), one action per SQL statement as in TaskWrites *)
(* and per Redis command, and the script that wipes a user (cleanup.py).  *)
(*                                                                         *)
(* A handler loads a membership row and later writes it by its primary    *)
(* key.  A user who is removed and added again has a new row, so rows     *)
(* carry an id that counts the rows of that board and user.               *)
(***************************************************************************)
EXTENDS Naturals, FiniteSets, Access

CONSTANTS
    Workers, Users, Boards,
    Cleaned,      \* users whose data the operator may wipe with cleanup.py
    MaxRows,      \* bound on the rows a user ever has on one board
    NoRow, NoRequest

VARIABLES
    users,        \* accounts
    boards,       \* boards that exist
    ids,          \* ids[b][u]: rows inserted so far
    row,          \* row[b][u]: the id and role in board_members, or NoRow
    cached,       \* boards with an entry board_cache:<id> in Redis
    pc, req,      \* as in TaskWrites
    seen,         \* seen[w]: the row that the handler on w has loaded
    owned,        \* owned[u]: boards that a running wipe of u found, or NoRow
    unannounced,  \* history: boards whose members changed since the last event
    welcome       \* history: requests to see a board whose caller has been one of
                  \* its members since they began

tables == <<users, boards, ids, row>>
vars == <<tables, cached, pc, req, seen, owned, unannounced, welcome>>

MemberRows == [id : 1..MaxRows, role : Roles]

Requests ==
         [op : {"create_board"}, caller : Users, board : Boards]
    \cup [op : {"add", "patch"}, caller : Users, board : Boards, user : Users,
          role : {"viewer", "editor"}]
    \cup [op : {"remove"}, caller : Users, board : Boards, user : Users]
    \cup [op : {"get"}, caller : Users, board : Boards]

Stages == {"idle", "create", "authorize", "check", "insert", "target", "update",
           "reload", "delete", "publish", "cached", "load", "fill"}

ASSUME MembersAssumption ==
    /\ IsFiniteSet(Workers) /\ Cleaned \subseteq Users /\ MaxRows \in Nat \ {0}
    /\ NoRow \notin MemberRows /\ NoRequest \notin Requests

TypeOK ==
    /\ users \subseteq Users /\ boards \subseteq Boards
    /\ ids \in [Boards -> [Users -> 0..MaxRows]]
    /\ row \in [Boards -> [Users -> MemberRows \cup {NoRow}]]
    /\ cached \subseteq Boards
    /\ pc \in [Workers -> Stages]
    /\ req \in [Workers -> Requests \cup {NoRequest}]
    /\ seen \in [Workers -> MemberRows \cup {NoRow}]
    /\ owned \in [Users -> (SUBSET Boards) \cup {NoRow}]
    /\ unannounced \subseteq Boards
    /\ welcome \subseteq Workers
    /\ \A w \in Workers :
        /\ pc[w] = "idle" <=> req[w] = NoRequest
        /\ seen[w] # NoRow => pc[w] \in {"update", "reload", "delete", "publish"}

Init ==
    /\ users = Users /\ boards = {}
    /\ ids = [b \in Boards |-> [u \in Users |-> 0]]
    /\ row = [b \in Boards |-> [u \in Users |-> NoRow]]
    /\ pc = [w \in Workers |-> "idle"]
    /\ req = [w \in Workers |-> NoRequest]
    /\ seen = [w \in Workers |-> NoRow]
    /\ owned = [u \in Users |-> NoRow]
    /\ unannounced = {}
    /\ cached = {} /\ welcome = {}

RoleOf(b, u) == IF row[b][u] = NoRow THEN NoRole ELSE row[b][u].role

-----------------------------------------------------------------------------
GoTo(w, stage) == pc' = [pc EXCEPT ![w] = stage] /\ UNCHANGED <<req, seen>>

\* Mutant: the session outlives the request, and with it the rows it has loaded.
FinishUnclosed(w) ==
    /\ pc' = [pc EXCEPT ![w] = "idle"]
    /\ req' = [req EXCEPT ![w] = NoRequest]
    /\ UNCHANGED seen

\* The handler returns or raises, and get_db closes its session.
Finish(w) ==
    /\ pc' = [pc EXCEPT ![w] = "idle"]
    /\ req' = [req EXCEPT ![w] = NoRequest]
    /\ seen' = [seen EXCEPT ![w] = NoRow]

Adding(b, u) == {w \in Workers : /\ req[w] # NoRequest
                                 /\ req[w].op = "add"
                                 /\ req[w].board = b /\ req[w].user = u}

\* A board id is drawn from its sequence once; a request names a board that exists,
\* or one to look at that has existed.  The bound MaxRows limits the additions of a user to a board.
Sensible(r) ==
    IF r.op = "create_board"
    THEN /\ \A u \in Users : ids[r.board][u] = 0
         /\ \A w \in Workers : req[w] # NoRequest => req[w].board # r.board
    ELSE /\ r.board \in boards \/ (r.op = "get" /\ \E u \in Users : ids[r.board][u] > 0)
         /\ r.op = "add" => ids[r.board][r.user] + Cardinality(Adding(r.board, r.user)) < MaxRows

\* Mutant: the cache is asked first.
FirstStageCached(r) ==
    CASE r.op = "create_board" -> "create" [] r.op = "get" -> "cached" [] OTHER -> "authorize"

FirstStage(r) == IF r.op = "create_board" THEN "create" ELSE "authorize"

\* get_current_user has found the caller's account.
Begin(w) ==
    /\ pc[w] = "idle"
    /\ \E r \in Requests :
        /\ Sensible(r) /\ r.caller \in users
        /\ req' = [req EXCEPT ![w] = r]
        /\ pc' = [pc EXCEPT ![w] = FirstStage(r)]
    /\ UNCHANGED <<tables, seen, owned, unannounced>>

\* Inserts a row for u; the id is new.
NewRow(b, u, r) ==
    /\ ids' = [ids EXCEPT ![b][u] = @ + 1]
    /\ row' = [row EXCEPT ![b][u] = [id |-> ids[b][u] + 1, role |-> r]]

\* One transaction: the board, its owner and (left out) its default lists.  The
\* foreign key refuses an owner whose account is gone (500).
CreateBoard(w) ==
    LET r == req[w] IN
    /\ pc[w] = "create"
    /\ \/ r.caller \in users /\ boards' = boards \cup {r.board} /\ NewRow(r.board, r.caller, "owner")
       \/ r.caller \notin users /\ UNCHANGED <<boards, ids, row>>
    /\ Finish(w)
    /\ UNCHANGED <<users, owned, unannounced>>

\* Mutant: everybody may remove everybody.
MayProceedUnchecked(r) == AtLeast(RoleOf(r.board, r.caller), IF r.op = "remove" THEN "viewer" ELSE "owner")

\* The owner may do anything; any member may look at the board or remove themselves.
MayProceed(r) ==
    \/ AtLeast(RoleOf(r.board, r.caller), "owner")
    \/ /\ r.op = "get" \/ (r.op = "remove" /\ r.user = r.caller)
       /\ AtLeast(RoleOf(r.board, r.caller), "viewer")

Admitted(r) == CASE r.op = "add" -> "check" [] r.op = "get" -> "cached" [] OTHER -> "target"

Authorize(w) ==
    /\ pc[w] = "authorize"
    /\ \/ MayProceed(req[w]) /\ GoTo(w, Admitted(req[w]))
       \/ ~MayProceed(req[w]) /\ Finish(w)
    /\ UNCHANGED <<tables, owned, unannounced>>

-----------------------------------------------------------------------------
(* add_board_member *)

\* The invited user exists (else 404) and is no member yet (else 409).
Check(w) ==
    LET r == req[w]
        free == r.user \in users /\ row[r.board][r.user] = NoRow
    IN  /\ pc[w] = "check"
        /\ \/ free /\ GoTo(w, "insert")
           \/ ~free /\ Finish(w)
        /\ UNCHANGED <<tables, owned, unannounced>>

\* Mutant: no foreign keys.
AcceptsDangling(r) == row[r.board][r.user] = NoRow

\* The foreign keys and the unique constraint of board_members.
Accepts(r) == r.user \in users /\ r.board \in boards /\ row[r.board][r.user] = NoRow

InsertMember(w) ==
    LET r == req[w] IN
    /\ pc[w] = "insert"
    /\ \/ /\ Accepts(r)
          /\ NewRow(r.board, r.user, r.role)
          /\ unannounced' = unannounced \cup {r.board}
          /\ GoTo(w, "reload")
       \/ ~Accepts(r) /\ Finish(w) /\ UNCHANGED <<ids, row, unannounced>>
    /\ UNCHANGED <<users, boards, owned>>

-----------------------------------------------------------------------------
(* change_member_role, remove_member *)

\* Mutant: the owner's row is a target like any other.
EligibleAnyone(r) == row[r.board][r.user] # NoRow

\* _get_target_membership: 404 without a row, 400 for the owner's.
Eligible(r) == RoleOf(r.board, r.user) \notin {NoRole, "owner"}

Target(w) ==
    LET r == req[w] IN
    /\ pc[w] = "target"
    /\ \/ /\ Eligible(r)
          /\ seen' = [seen EXCEPT ![w] = row[r.board][r.user]]
          /\ pc' = [pc EXCEPT ![w] = IF r.op = "patch" THEN "update" ELSE "delete"]
          /\ UNCHANGED req
       \/ ~Eligible(r) /\ Finish(w)
    /\ UNCHANGED <<tables, owned, unannounced>>

\* The loaded row is still in the table: a statement WHERE id = ... finds it.
Stands(w) == LET r == req[w] IN
    row[r.board][r.user] # NoRow /\ row[r.board][r.user].id = seen[w].id

\* The role the session has loaded is the one asked for: the flush emits nothing.
Unmodified(w) == seen[w].role = req[w].role

\* UPDATE by primary key; a row that is gone raises StaleDataError (500).
UpdateRole(w) ==
    LET r == req[w] IN
    /\ pc[w] = "update"
    /\ \/ Unmodified(w) /\ GoTo(w, "reload") /\ UNCHANGED <<row, unannounced>>
       \/ /\ ~Unmodified(w) /\ Stands(w)
          /\ row' = [row EXCEPT ![r.board][r.user].role = r.role]
          /\ unannounced' = unannounced \cup {r.board}
          /\ GoTo(w, "reload")
       \/ ~Unmodified(w) /\ ~Stands(w) /\ Finish(w) /\ UNCHANGED <<row, unannounced>>
    /\ UNCHANGED <<users, boards, ids, owned>>

\* The answer of add reads the user, that of patch the row, which the commit expired.
Reloadable(w) ==
    LET r == req[w] IN IF r.op = "add" THEN r.user \in users ELSE Stands(w)

\* A row deleted meanwhile raises (500), and the event is not published.
Reload(w) ==
    /\ pc[w] = "reload"
    /\ \/ Reloadable(w) /\ GoTo(w, "publish")
       \/ ~Reloadable(w) /\ Finish(w)
    /\ UNCHANGED <<tables, owned, unannounced>>

\* DELETE by primary key; a row that is gone only logs a warning.
DeleteMember(w) ==
    LET r == req[w] IN
    /\ pc[w] = "delete"
    /\ \/ /\ Stands(w)
          /\ row' = [row EXCEPT ![r.board][r.user] = NoRow]
          /\ unannounced' = unannounced \cup {r.board}
       \/ ~Stands(w) /\ UNCHANGED <<row, unannounced>>
    /\ GoTo(w, "publish")
    /\ UNCHANGED <<users, boards, ids, owned>>

\* Mutant: an event about someone who is no member is not published.
PublishOfMember(w) ==
    /\ pc[w] = "publish"
    /\ unannounced' = IF RoleOf(req[w].board, req[w].user) = NoRole
                        THEN unannounced ELSE unannounced \ {req[w].board}
    /\ Finish(w)
    /\ UNCHANGED <<tables, owned>>

\* The background task.
Publish(w) ==
    /\ pc[w] = "publish"
    /\ unannounced' = unannounced \ {req[w].board}
    /\ Finish(w)
    /\ UNCHANGED <<tables, owned>>

-----------------------------------------------------------------------------
(* get_board, which reads through the cache *)

\* GET board_cache:<id>; an entry is the answer.
AskCache(w) ==
    /\ pc[w] = "cached"
    /\ \/ req[w].board \in cached /\ Finish(w)
       \/ req[w].board \notin cached /\ GoTo(w, "load")
    /\ UNCHANGED cached

\* db.get; a board that is gone meanwhile fails the validation (500).
LoadBoard(w) ==
    /\ pc[w] = "load"
    /\ \/ req[w].board \in boards /\ GoTo(w, "fill")
       \/ req[w].board \notin boards /\ Finish(w)
    /\ UNCHANGED cached

\* SET board_cache:<id> EX 60 with what was loaded, and the answer.
FillCache(w) ==
    /\ pc[w] = "fill"
    /\ cached' = cached \cup {req[w].board}
    /\ Finish(w)

\* Redis refuses a command, or its answer is lost (500).
RedisFails(w) ==
    /\ pc[w] \in {"cached", "fill"}
    /\ Finish(w)
    /\ \/ UNCHANGED cached
       \/ pc[w] = "fill" /\ cached' = cached \cup {req[w].board}

View(w) ==
    /\ AskCache(w) \/ LoadBoard(w) \/ FillCache(w) \/ RedisFails(w)
    /\ UNCHANGED <<tables, owned, unannounced>>

\* The 60 seconds are over.
Expire(b) ==
    /\ b \in cached
    /\ cached' = cached \ {b}
    /\ UNCHANGED <<tables, pc, req, seen, owned, unannounced>>

-----------------------------------------------------------------------------
(* clean_user_data: it reads the boards the user owns, and later commits the  *)
(* deletion of these boards, of all memberships of the user and of the user.  *)
(* It publishes nothing.                                                      *)

FindOwned(u) ==
    /\ u \in Cleaned \cap users /\ owned[u] = NoRow
    /\ owned' = [owned EXCEPT ![u] = {b \in Boards : RoleOf(b, u) = "owner"}]
    /\ UNCHANGED <<tables, pc, req, seen, unannounced>>

Wipe(u) ==
    /\ u \in Cleaned /\ owned[u] # NoRow
    /\ users' = users \ {u}
    /\ boards' = boards \ owned[u]
    /\ row' = [b \in Boards |-> [v \in Users |->
                  IF b \in owned[u] \/ v = u THEN NoRow ELSE row[b][v]]]
    /\ owned' = [owned EXCEPT ![u] = NoRow]
    /\ UNCHANGED <<ids, pc, req, seen, unannounced>>

-----------------------------------------------------------------------------
Step(w) ==
    \/ CreateBoard(w) \/ Authorize(w) \/ Check(w) \/ InsertMember(w) \/ Target(w)
    \/ UpdateRole(w) \/ Reload(w) \/ DeleteMember(w) \/ Publish(w)

\* The history of the requests to see a board.
Observe ==
    welcome' = {w \in Workers : LET r == req'[w] IN
        /\ r # NoRequest /\ r.op = "get"
        /\ w \in welcome \/ row'[r.board][r.caller] # NoRow}

Next ==
    /\ \/ \E w \in Workers : (Begin(w) \/ Step(w)) /\ UNCHANGED cached
       \/ \E w \in Workers : View(w)
       \/ \E b \in Boards : Expire(b)
       \/ \E u \in Users : (FindOwned(u) \/ Wipe(u)) /\ UNCHANGED cached
    /\ Observe

Spec == Init /\ [][Next]_vars
-----------------------------------------------------------------------------
(* Properties *)

\* The endpoints implement Membership: a board comes with one owner, no request
\* changes the owner, and nobody joins a board twice, however the checks and the
\* writes of concurrent requests interleave (boards.py:53, 131-138,
\* board_member.py:7).
Abs == INSTANCE Membership WITH role <- [b \in Boards |-> [u \in Users |-> RoleOf(b, u)]]

ImplementsMembership == Abs!Spec

\* "A board always keeps its owner" (README.md:93; boards.py:136): a board that has
\* members has one owner, whoever is added, changed and removed at once.
OneOwner == Abs!OneOwner

\* "A board always keeps its owner" whatever requests and wipes interleave: who owns
\* a board that exists owns it until the wipe that removes them, and nobody else
\* becomes its owner, then or before (boards.py:53, 136; cleanup.py:22-41).
OwnersAreForLife ==
    [][\A b \in boards, u \in Users :
          (RoleOf(b, u)' = "owner") <=> (RoleOf(b, u) = "owner" /\ ~Wipe(u))]_vars

\* The permission that a handler checked some statements ago still holds when it
\* writes: members are changed by who is the owner then, or was until their own
\* wipe, or by themselves (boards.py:117, 142, 157-159).
ChangesAreTheOwners ==
    [][\A w \in Workers : LET r == req[w] IN
        (InsertMember(w) \/ UpdateRole(w) \/ DeleteMember(w)) /\ row' # row
            => \/ RoleOf(r.board, r.caller) = "owner" \/ r.caller \notin users
               \/ r.op = "remove" /\ r.caller = r.user]_vars

\* A membership never outlives its board or its user, also when a wipe runs
\* between the statements of a request (board_member.py:12-13).
NoDanglingRows ==
    \A b \in Boards, u \in Users : row[b][u] # NoRow => b \in boards /\ u \in users

\* The cache outlives what it was filled from, by its expiry and by a handler that
\* fills it late, and yet a board is shown only to somebody who was one of its
\* members while the request ran: not after a wipe, and not after a removal
\* (boards.py:69-78).
ShownToMembers ==
    [][\A w \in Workers :
        pc[w] = "fill" \/ (pc[w] = "cached" /\ req[w].board \in cached)
            => w \in welcome \/ pc'[w] # "idle"]_vars

\* While a change of the members is unannounced, some request is going to publish
\* a member event, also when the request that made the change fails after its
\* commit: what made it fail is a later change (boards.py:148-152).
ChangesGetAnnounced ==
    \A b \in unannounced : \E w \in Workers :
        /\ req[w] # NoRequest /\ req[w].board = b
        /\ pc[w] = "publish" \/ (pc[w] = "reload" /\ Reloadable(w))
=============================================================================
