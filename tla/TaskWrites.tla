----------------------------- MODULE TaskWrites -----------------------------
(***************************************************************************)
(* The five endpoints that change tasks and lists (app/routers/tasks.py,  *)
(* app/routers/lists.py, app/services/task_service.py), run concurrently. *)
(*                                                                         *)
(* The handlers are plain functions on the server's threadpool and the     *)
(* database runs at READ COMMITTED, so every SQL statement of a handler   *)
(* sees what was committed before it and other requests run in between:   *)
(* one action per statement.  A write and the COMMIT after it are one     *)
(* action, because the row locks of the write hold off every other writer *)
(* until the commit.  Titles, descriptions and creators are left out.     *)
(***************************************************************************)
EXTENDS Naturals, Access

CONSTANTS
    Workers,         \* threadpool threads, one request each
    Users, Boards,
    Lists, Tasks,    \* the ids the serial columns will ever hand out
    InitialRole,     \* [Boards -> [Users -> Roles \cup {NoRole}]]
    InitialBoardOf,  \* [Lists -> Boards \cup {NoBoard}]: the lists at the start
    InitialListOf,   \* [Tasks -> Lists \cup {NoList}]: the tasks at the start
    MaxVersion,      \* bound: no request names a version as high as this
    NoBoard, NoList, NoRequest,
    Unset, Null      \* list_id of an update: left out of the body, or null in it

Requests ==
         [op : {"create_task"}, user : Users, list : Lists, task : Tasks]
    \cup [op : {"update_task"}, user : Users, task : Tasks,
          list : Lists \cup {Unset, Null}, expected : 1..(MaxVersion - 1)]
    \cup [op : {"delete_task"}, user : Users, task : Tasks]
    \cup [op : {"create_list"}, user : Users, board : Boards, list : Lists]
    \cup [op : {"delete_list"}, user : Users, list : Lists]

ASSUME TaskAssumption ==
    /\ InitialRole \in [Boards -> [Users -> Roles \cup {NoRole}]]
    /\ InitialBoardOf \in [Lists -> Boards \cup {NoBoard}]
    /\ InitialListOf \in [Tasks -> {l \in Lists : InitialBoardOf[l] # NoBoard} \cup {NoList}]
    /\ MaxVersion \in Nat \ {0}
    /\ NoBoard \notin Boards /\ NoList \notin Lists /\ NoRequest \notin Requests
    /\ Unset \notin Lists /\ Null \notin Lists /\ Unset # Null

VARIABLES
    role,         \* board_members, as in Membership
    lists,        \* the ids in table lists
    boardOf,      \* lists.board_id, kept after the row is gone; NoBoard: unused id
    tasks,        \* the ids in table tasks
    row,          \* row[t]: list_id and version of t; version 0: unused id
    pc,           \* pc[w]: the statement that the handler on w runs next
    req,          \* req[w]: the request body and path of that handler
    board,        \* board[w]: its local board_id
    wins,         \* history: wins[t][v] counts updates accepted for version v of t
    unannounced   \* history: boards changed since an event was last published

vars == <<role, lists, boardOf, tasks, row, pc, req, board, wins, unannounced>>
store == <<lists, boardOf, tasks, row, wins, unannounced>>

Versions == 1..MaxVersion

Stages == {"idle", "lookup", "authorize", "target", "authorize_target",
           "write", "conflict", "refetch", "publish"}

Env == INSTANCE Membership

TypeOK ==
    /\ role \in [Boards -> [Users -> Roles \cup {NoRole}]]
    /\ boardOf \in [Lists -> Boards \cup {NoBoard}]
    /\ lists \subseteq {l \in Lists : boardOf[l] # NoBoard}
    /\ row \in [Tasks -> [list : Lists \cup {NoList}, version : 0..MaxVersion]]
    /\ tasks \subseteq {t \in Tasks : row[t].version # 0}
    /\ pc \in [Workers -> Stages]
    /\ req \in [Workers -> Requests \cup {NoRequest}]
    /\ board \in [Workers -> Boards \cup {NoBoard}]
    /\ wins \in [Tasks -> [Versions -> Nat]]
    /\ unannounced \subseteq Boards

Init ==
    /\ role = InitialRole
    /\ boardOf = InitialBoardOf
    /\ lists = {l \in Lists : InitialBoardOf[l] # NoBoard}
    /\ tasks = {t \in Tasks : InitialListOf[t] # NoList}
    /\ row = [t \in Tasks |-> [list |-> InitialListOf[t],
                               version |-> IF InitialListOf[t] = NoList THEN 0 ELSE 1]]
    /\ pc = [w \in Workers |-> "idle"]
    /\ req = [w \in Workers |-> NoRequest]
    /\ board = [w \in Workers |-> NoBoard]
    /\ wins = [t \in Tasks |-> [v \in Versions |-> 0]]
    /\ unannounced = {}

-----------------------------------------------------------------------------
(* What a request may ask for.  Clients know the ids and versions that some *)
(* answer showed them.  The id an INSERT will draw is fixed when the request *)
(* begins: which request draws which of the unused ids does not matter.      *)

Drawn(id, ops) == \E w \in Workers : 
    /\ req[w] # NoRequest
    /\ req[w].op \in ops
    /\ id = IF req[w].op = "create_task" THEN req[w].task ELSE req[w].list

Sensible(r) ==
    CASE r.op = "create_task" -> /\ boardOf[r.list] # NoBoard
                                 /\ row[r.task].version = 0
                                 /\ ~Drawn(r.task, {"create_task"})
      [] r.op = "update_task" -> /\ r.expected <= row[r.task].version
                                 /\ r.list \in Lists => boardOf[r.list] # NoBoard
      [] r.op = "delete_task" -> row[r.task].version # 0
      [] r.op = "create_list" -> boardOf[r.list] = NoBoard /\ ~Drawn(r.list, {"create_list"})
      [] r.op = "delete_list" -> boardOf[r.list] # NoBoard

GoTo(w, stage) ==
    /\ pc' = [pc EXCEPT ![w] = stage]
    /\ UNCHANGED <<req, board>>

\* The handler returns or raises; nothing of the request outlives it.
Finish(w) ==
    /\ pc' = [pc EXCEPT ![w] = "idle"]
    /\ req' = [req EXCEPT ![w] = NoRequest]
    /\ board' = [board EXCEPT ![w] = NoBoard]

Begin(w) ==
    /\ pc[w] = "idle"
    /\ \E r \in Requests :
        /\ Sensible(r)
        /\ req' = [req EXCEPT ![w] = r]
        /\ IF r.op = "create_list"   \* board_id is in the body
             THEN /\ pc' = [pc EXCEPT ![w] = "authorize"]
                  /\ board' = [board EXCEPT ![w] = r.board]
             ELSE pc' = [pc EXCEPT ![w] = "lookup"] /\ UNCHANGED board
    /\ UNCHANGED <<role, store>>

-----------------------------------------------------------------------------
(* app/core/deps.py *)

NamesTask(r) == r.op \in {"update_task", "delete_task"}

\* The first SELECT of get_authorized_list or get_authorized_task (which joins
\* the task with its list): no row answers 404.
Lookup(w) ==
    LET r == req[w]
        l == IF NamesTask(r) THEN row[r.task].list ELSE r.list
    IN  /\ pc[w] = "lookup"
        /\ \/ /\ NamesTask(r) => r.task \in tasks
              /\ l \in lists
              /\ pc' = [pc EXCEPT ![w] = "authorize"]
              /\ board' = [board EXCEPT ![w] = boardOf[l]]
              /\ UNCHANGED req
           \/ /\ (NamesTask(r) /\ r.task \notin tasks) \/ l \notin lists
              /\ Finish(w)
        /\ UNCHANGED <<role, store>>

MovesTask(r) == r.op = "update_task" /\ r.list \in Lists

\* authorize_board with min_role "editor", which each of the five asks for.
Authorize(w) ==
    /\ pc[w] = "authorize"
    /\ \/ /\ AtLeast(role[board[w]][req[w].user], "editor")
          /\ GoTo(w, IF MovesTask(req[w]) THEN "target" ELSE "write")
       \/ /\ ~AtLeast(role[board[w]][req[w].user], "editor")
          /\ Finish(w)
    /\ UNCHANGED <<role, store>>

\* update_task with a list_id: SELECT the target list ...
Target(w) ==
    /\ pc[w] = "target"
    /\ \/ req[w].list \in lists /\ GoTo(w, "authorize_target")
       \/ req[w].list \notin lists /\ Finish(w)
    /\ UNCHANGED <<role, store>>

\* Mutant: the comparison with the task's board is left out.
SameBoardUnchecked(w) == TRUE

SameBoard(w) == boardOf[req[w].list] = board[w]

\* ... authorize on its board, and refuse a list of another board (400).
AuthorizeTarget(w) ==
    LET allowed == AtLeast(role[boardOf[req[w].list]][req[w].user], "editor")
    IN  /\ pc[w] = "authorize_target"
        /\ \/ allowed /\ SameBoard(w) /\ GoTo(w, "write")
           \/ ~(allowed /\ SameBoard(w)) /\ Finish(w)
        /\ UNCHANGED <<role, store>>

-----------------------------------------------------------------------------
(* The write of each handler with its commit *)

Writes(w, op) == pc[w] = "write" /\ req[w].op = op

Changed(w) == unannounced' = unannounced \cup {board[w]}

\* Mutant: the column default is left out.
NewTaskUnversioned(l) == [list |-> l, version |-> 0]

NewTask(l) == [list |-> l, version |-> 1]

\* INSERT INTO tasks; the foreign key refuses a list that is gone (500).
InsertTask(w) ==
    LET r == req[w] IN
    /\ Writes(w, "create_task")
    /\ \/ /\ r.list \in lists
          /\ tasks' = tasks \cup {r.task}
          /\ row' = [row EXCEPT ![r.task] = NewTask(r.list)]
          /\ Changed(w)
          /\ GoTo(w, "refetch")
       \/ /\ r.list \notin lists
          /\ UNCHANGED <<tasks, row, unannounced>>
          /\ Finish(w)
    /\ UNCHANGED <<role, lists, boardOf, wins>>

\* Mutant: the version is not in the WHERE clause.
MatchesAnyVersion(r) == r.task \in tasks

\* The WHERE clause of update_task_with_conflict_check.
Matches(r) == r.task \in tasks /\ row[r.task].version = r.expected

\* Its SET clause: list_id when the body names one, and version + 1.
NewList(r) == IF r.list = Unset THEN row[r.task].list ELSE r.list

\* Mutant: the version stays.
NotBumped(r) == [list |-> NewList(r), version |-> row[r.task].version]

Bumped(r) == [list |-> NewList(r), version |-> row[r.task].version + 1]

\* UPDATE tasks ... WHERE id and version match.  A matching row takes the new
\* list and the next version unless a constraint refuses the list (500).
CompareAndSwap(w) ==
    LET r == req[w] IN
    /\ Writes(w, "update_task")
    /\ \/ /\ Matches(r)
          /\ NewList(r) \in lists
          /\ row' = [row EXCEPT ![r.task] = Bumped(r)]
          /\ wins' = [wins EXCEPT ![r.task][r.expected] = @ + 1]
          /\ Changed(w)
          /\ GoTo(w, "refetch")
       \/ /\ Matches(r)
          /\ NewList(r) \notin lists
          /\ UNCHANGED <<row, wins, unannounced>>
          /\ Finish(w)
       \/ /\ ~Matches(r)
          /\ UNCHANGED <<row, wins, unannounced>>
          /\ GoTo(w, "conflict")
    /\ UNCHANGED <<role, lists, boardOf, tasks>>

\* After a rollback, SELECT the version: 404 without a row, otherwise 409 that
\* quotes the version found.  Both end the request.
Conflict(w) ==
    /\ pc[w] = "conflict"
    /\ Finish(w)
    /\ UNCHANGED <<role, store>>

\* Rows that are gone.
RemoveTasks(S) ==
    /\ tasks' = tasks \ S
    /\ row' = [t \in Tasks |-> IF t \in S THEN [row[t] EXCEPT !.list = NoList] ELSE row[t]]

\* DELETE FROM tasks by id.  When another request deleted the row first the
\* statement matches nothing, which only logs a warning: the answer is the same.
DeleteTask(w) ==
    LET r == req[w] IN
    /\ Writes(w, "delete_task")
    /\ RemoveTasks({r.task} \cap tasks)
    /\ IF r.task \in tasks THEN Changed(w) ELSE UNCHANGED unannounced
    /\ GoTo(w, "publish")
    /\ UNCHANGED <<role, lists, boardOf, wins>>

InsertList(w) ==
    LET r == req[w] IN
    /\ Writes(w, "create_list")
    /\ lists' = lists \cup {r.list}
    /\ boardOf' = [boardOf EXCEPT ![r.list] = r.board]
    /\ Changed(w)
    /\ GoTo(w, "refetch")
    /\ UNCHANGED <<role, tasks, row, wins>>

\* Mutant: the foreign key of tasks does not cascade.
CascadeMissing(l) == {}

\* ON DELETE CASCADE of tasks.list_id.
Cascade(l) == {t \in tasks : row[t].list = l}

DeleteList(w) ==
    LET r == req[w] IN
    /\ Writes(w, "delete_list")
    /\ lists' = lists \ {r.list}
    /\ RemoveTasks(Cascade(r.list))
    /\ IF r.list \in lists THEN Changed(w) ELSE UNCHANGED unannounced
    /\ GoTo(w, "publish")
    /\ UNCHANGED <<role, boardOf, wins>>

-----------------------------------------------------------------------------
(* After the commit *)

\* What the handler reads back before it adds the event: the updated task
\* (.one()), the created list (refresh), or the created task (refresh) and then
\* its list, which the commit expired, for db_list.board_id.
StillThere(r) ==
    CASE r.op = "update_task" -> r.task \in tasks
      [] r.op = "create_task" -> r.task \in tasks /\ r.list \in lists
      [] r.op = "create_list" -> r.list \in lists

\* A row deleted meanwhile raises, the request answers 500 and never adds its
\* event, although its change is committed.
Refetch(w) ==
    /\ pc[w] = "refetch"
    /\ \/ StillThere(req[w]) /\ GoTo(w, "publish")
       \/ ~StillThere(req[w]) /\ Finish(w)
    /\ UNCHANGED <<role, store>>

\* Mutant: the background task checks the role again and drops the event.
PublishIfAllowed(w) ==
    /\ pc[w] = "publish"
    /\ unannounced' = IF AtLeast(role[board[w]][req[w].user], "editor")
                        THEN unannounced \ {board[w]} ELSE unannounced
    /\ Finish(w)
    /\ UNCHANGED <<role, lists, boardOf, tasks, row, wins>>

\* The background task of a handler that returned.
Publish(w) ==
    /\ pc[w] = "publish"
    /\ unannounced' = unannounced \ {board[w]}
    /\ Finish(w)
    /\ UNCHANGED <<role, lists, boardOf, tasks, row, wins>>

-----------------------------------------------------------------------------
\* The member endpoints, each request one step: an existing board's owner stays.
MembershipChange ==
    /\ \E b \in Boards, u \in Users : Env!MemberStep(b, u)
    /\ UNCHANGED <<store, pc, req, board>>

Write(w) == InsertTask(w) \/ CompareAndSwap(w) \/ DeleteTask(w) \/ InsertList(w) \/ DeleteList(w)

Step(w) ==
    \/ Lookup(w) \/ Authorize(w) \/ Target(w) \/ AuthorizeTarget(w)
    \/ Write(w) \/ Conflict(w) \/ Refetch(w) \/ Publish(w)

Next ==
    \/ \E w \in Workers : Begin(w) \/ Step(w)
    \/ MembershipChange

Spec == Init /\ [][Next]_vars
-----------------------------------------------------------------------------
(* Properties *)

\* "Exactly one writer per version can succeed, no matter how many arrive at
\* once" (task_service.py:14): every version a task has left was taken by one
\* accepted update, and its present version by none so far.
OneWinnerPerVersion ==
    \A t \in Tasks, v \in Versions :
        wins[t][v] = IF v < row[t].version THEN 1 ELSE 0

\* A task is never left in a list that is gone, whatever interleaving of moves,
\* insertions and list deletions: it would be on no board, so nobody could see
\* or delete it (list_.py, task.py:11).
NoOrphanTasks == \A t \in tasks : row[t].list \in lists

\* The board a handler looked up and authorised once, and uses in its write and
\* its event several statements later, is still the board of what it writes:
\* of its task, of its list, and of the list it moves the task to
\* (tasks.py:31-42, deps.py:66-80).
AuthorizedBoardIsCurrent ==
    \A w \in Workers : LET r == req[w] IN
        /\ pc[w] \notin {"idle", "lookup"} =>
              /\ NamesTask(r) /\ r.task \in tasks => boardOf[row[r.task].list] = board[w]
              /\ r.op \in {"create_task", "delete_list"} => boardOf[r.list] = board[w]
        /\ pc[w] = "write" /\ MovesTask(r) => boardOf[r.list] = board[w]

\* What an update tells its client is news: a conflict quotes, and a success
\* returns, a version above the one the client sent, so that a retry with the
\* quoted version differs from the attempt that failed (task_service.py:26-37).
AnswersAreNewer ==
    \A w \in Workers : LET r == req[w] IN
        pc[w] \in {"conflict", "refetch"} /\ r.op = "update_task" /\ r.task \in tasks
            => row[r.task].version > r.expected

\* The endpoints implement BoardStore: versions move by one, tasks never change
\* boards or come back, and one commit touches one board only.
Store == INSTANCE BoardStore WITH task <- [t \in Tasks |->
    IF t \in tasks THEN [board |-> boardOf[row[t].list], version |-> row[t].version]
    ELSE [board |-> NoBoard, version |-> IF row[t].version = 0 THEN 0 ELSE 1]]

ImplementsBoardStore == Store!Spec

\* While a committed change is unannounced, some request is going to publish an
\* event of its board, also when the request that made the change fails after its
\* commit and adds none: what made it fail is a deletion, whose own event follows
\* (tasks.py:21-25, task_service.py:36-37).  Losses of Redis itself are the subject
\* of Realtime.
ChangesGetAnnounced ==
    \A b \in unannounced : \E w \in Workers :
        /\ board[w] = b
        /\ pc[w] = "publish" \/ (pc[w] = "refetch" /\ StillThere(req[w]))
=============================================================================
