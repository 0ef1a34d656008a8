-------------------------- MODULE TaskWritesProofs --------------------------
(***************************************************************************)
(* Proofs about TaskWrites.                                                *)
(***************************************************************************)
EXTENDS TaskWrites, TLAPS

\* The shape of a request, by its operation.
LEMMA RequestShape ==
    ASSUME NEW r \in Requests
    PROVE  /\ r.op \in {"create_task", "update_task", "delete_task", "create_list", "delete_list"}
           /\ r.user \in Users
           /\ r.op \in {"create_task", "update_task", "delete_task"} => r.task \in Tasks
           /\ r.op \in {"create_task", "create_list", "delete_list"} => r.list \in Lists
           /\ r.op = "create_list" => r.board \in Boards
           /\ r.op = "update_task" => /\ r.list \in Lists \cup {Unset, Null}
                                      /\ r.expected \in 1..(MaxVersion - 1)
           /\ r # NoRequest
BY TaskAssumption DEF Requests

\* What the handler on w holds at each stage.
Holds(w) ==
    /\ pc[w] # "idle" => req[w] \in Requests
    /\ pc[w] \notin {"idle", "lookup"} => board[w] \in Boards
    /\ pc[w] \in {"target", "authorize_target"} => MovesTask(req[w])
    /\ pc[w] = "lookup" => req[w].op # "create_list"

TypeInv == TypeOK /\ \A w \in Workers : Holds(w)

LEMMA TypeInit == Init => TypeInv
BY TaskAssumption DEF Init, TypeInv, TypeOK, Holds, Stages, Versions

LEMMA TypeStep == TypeInv /\ [Next]_vars => TypeInv'
<1> SUFFICES ASSUME TypeInv, [Next]_vars PROVE TypeInv'
  OBVIOUS
<1> USE TaskAssumption DEF TypeInv, TypeOK, Holds, Stages
<1>1. ASSUME NEW w \in Workers, Begin(w) PROVE TypeInv'
  <2> USE DEF store
  <2>1. PICK r \in Requests :
            /\ pc[w] = "idle"
            /\ req' = [req EXCEPT ![w] = r]
            /\ IF r.op = "create_list"
                 THEN pc' = [pc EXCEPT ![w] = "authorize"] /\ board' = [board EXCEPT ![w] = r.board]
                 ELSE pc' = [pc EXCEPT ![w] = "lookup"] /\ UNCHANGED board
            /\ UNCHANGED <<role, store>>
    BY <1>1 DEF Begin
  <2>2. r.op = "create_list" => r.board \in Boards
    BY RequestShape
  <2>3. TypeOK'
    BY <2>1, <2>2
  <2>4. ASSUME NEW v \in Workers PROVE Holds(v)'
    BY <2>1, <2>2
  <2>5. QED
    BY <2>3, <2>4
<1>2. ASSUME NEW w \in Workers, Lookup(w) PROVE TypeInv'
  <2> DEFINE r == req[w]
             l == IF NamesTask(r) THEN row[r.task].list ELSE r.list
  <2>1. CASE l \in lists /\ pc' = [pc EXCEPT ![w] = "authorize"]
               /\ board' = [board EXCEPT ![w] = boardOf[l]] /\ UNCHANGED req
    <3>1. boardOf[l] \in Boards
      BY <2>1
    <3>2. pc[w] = "lookup" /\ UNCHANGED <<role, store>>
      BY <1>2 DEF Lookup
    <3> HIDE DEF r, l
    <3>3. QED
      BY <2>1, <3>1, <3>2 DEF store
  <2>2. CASE Finish(w)
    BY <1>2, <2>2 DEF Lookup, store, Finish
  <2>3. QED
    BY <1>2, <2>1, <2>2 DEF Lookup
<1>3. ASSUME NEW w \in Workers, Authorize(w) PROVE TypeInv'
  BY ZenonT(30), <1>3 DEF Authorize, store, Finish, GoTo
<1>4. ASSUME NEW w \in Workers, Target(w) PROVE TypeInv'
  BY ZenonT(30), <1>4 DEF Target, store, Finish, GoTo
<1>5. ASSUME NEW w \in Workers, AuthorizeTarget(w) PROVE TypeInv'
  BY ZenonT(30), <1>5 DEF AuthorizeTarget, store, Finish, GoTo
<1>6. ASSUME NEW w \in Workers, InsertTask(w) PROVE TypeInv'
  <2> DEFINE r == req[w]
  <2>1. r \in Requests /\ r.op = "create_task" /\ pc[w] = "write" /\ board[w] \in Boards
    BY <1>6 DEF InsertTask, Writes
  <2>2. r.task \in Tasks /\ r.list \in Lists
    BY <2>1, RequestShape
  <2> HIDE DEF r
  <2>3. CASE r.list \in lists
    <3>1. /\ tasks' = tasks \cup {r.task}
          /\ row' = [row EXCEPT ![r.task] = [list |-> r.list, version |-> 1]]
          /\ unannounced' = unannounced \cup {board[w]}
          /\ pc' = [pc EXCEPT ![w] = "refetch"]
          /\ UNCHANGED <<req, board, role, lists, boardOf, wins>>
      BY <1>6, <2>3 DEF InsertTask, NewTask, Changed, GoTo, r
    <3>2. /\ row' \in [Tasks -> [list : Lists \cup {NoList}, version : 0..MaxVersion]]
          /\ tasks' \subseteq {t \in Tasks : row'[t].version # 0}
      BY <3>1, <2>2
    <3>3. QED
      BY <2>1, <3>1, <3>2
  <2>4. CASE r.list \notin lists
    <3>1. Finish(w) /\ UNCHANGED <<role, lists, boardOf, tasks, row, wins, unannounced>>
      BY <1>6, <2>4 DEF InsertTask, r
    <3>2. QED
      BY <3>1 DEF Finish
  <2>5. QED
    BY <2>3, <2>4
<1>7. ASSUME NEW w \in Workers, CompareAndSwap(w) PROVE TypeInv'
  <2> DEFINE r == req[w]
  <2>1. r \in Requests /\ r.op = "update_task" /\ pc[w] = "write" /\ board[w] \in Boards
    BY <1>7 DEF CompareAndSwap, Writes
  <2>2. r.task \in Tasks /\ r.expected \in 1..(MaxVersion - 1)
    BY <2>1, RequestShape
  <2> HIDE DEF r
  <2>3. CASE Matches(r) /\ NewList(r) \in lists
    <3>1. /\ row' = [row EXCEPT ![r.task] = [list |-> NewList(r), version |-> r.expected + 1]]
          /\ wins' = [wins EXCEPT ![r.task][r.expected] = @ + 1]
          /\ unannounced' = unannounced \cup {board[w]}
          /\ pc' = [pc EXCEPT ![w] = "refetch"]
          /\ UNCHANGED <<req, board, role, lists, boardOf, tasks>>
      BY <1>7, <2>3 DEF CompareAndSwap, Matches, Bumped, Changed, GoTo, r
    <3>2. /\ row' \in [Tasks -> [list : Lists \cup {NoList}, version : 0..MaxVersion]]
          /\ tasks' \subseteq {t \in Tasks : row'[t].version # 0}
      BY <3>1, <2>2, <2>3
    <3>3. wins' \in [Tasks -> [Versions -> Nat]]
      <4>1. r.expected \in Versions
        BY <2>2 DEF Versions
      <4>2. wins[r.task] \in [Versions -> Nat] /\ wins[r.task][r.expected] + 1 \in Nat
        BY <2>2, <4>1
      <4>3. [wins[r.task] EXCEPT ![r.expected] = @ + 1] \in [Versions -> Nat]
        BY <4>1, <4>2
      <4>4. QED
        BY <3>1, <2>2, <4>3
    <3>4. QED
      BY <2>1, <3>1, <3>2, <3>3
  <2>4. CASE ~(Matches(r) /\ NewList(r) \in lists)
    <3>1. UNCHANGED <<role, lists, boardOf, tasks, row, wins, unannounced>>
      BY <1>7, <2>4 DEF CompareAndSwap, r
    <3>2. CASE GoTo(w, "conflict")
      BY <3>1, <3>2, <2>1 DEF GoTo
    <3>3. CASE Finish(w)
      BY <3>1, <3>3 DEF Finish
    <3>4. QED
      BY <1>7, <2>4, <3>2, <3>3 DEF CompareAndSwap, r
  <2>5. QED
    BY <2>3, <2>4
<1>8. ASSUME NEW w \in Workers, DeleteTask(w) PROVE TypeInv'
  BY <1>8, RequestShape DEF DeleteTask, Writes, RemoveTasks, Changed, GoTo
<1>9. ASSUME NEW w \in Workers, InsertList(w) PROVE TypeInv'
  BY <1>9, RequestShape DEF InsertList, Writes, Changed, GoTo
<1>10. ASSUME NEW w \in Workers, DeleteList(w) PROVE TypeInv'
  <2>1. pc[w] = "write" /\ board[w] \in Boards
    BY <1>10 DEF DeleteList, Writes
  <2>2. /\ lists' \subseteq lists /\ tasks' \subseteq tasks
        /\ unannounced' \subseteq unannounced \cup {board[w]}
        /\ pc' = [pc EXCEPT ![w] = "publish"]
        /\ UNCHANGED <<req, board, role, boardOf, wins>>
    BY <1>10 DEF DeleteList, RemoveTasks, Changed, GoTo
  <2>3. PICK S : row' = [t \in Tasks |-> IF t \in S THEN [row[t] EXCEPT !.list = NoList] ELSE row[t]]
    BY <1>10 DEF DeleteList, RemoveTasks
  <2>4. /\ row' \in [Tasks -> [list : Lists \cup {NoList}, version : 0..MaxVersion]]
        /\ \A t \in Tasks : row'[t].version = row[t].version
    <3>1. \A t \in Tasks : /\ [row[t] EXCEPT !.list = NoList] \in [list : Lists \cup {NoList}, version : 0..MaxVersion]
                           /\ [row[t] EXCEPT !.list = NoList].version = row[t].version
      BY SMTT(30)
    <3>2. QED
      BY <2>3, <3>1
  <2>5. TypeOK'
    BY <2>1, <2>2, <2>4
  <2>6. \A v \in Workers : Holds(v)'
    BY <2>1, <2>2
  <2>7. QED
    BY <2>5, <2>6
<1>11. ASSUME NEW w \in Workers, Conflict(w) PROVE TypeInv'
  BY <1>11 DEF Conflict, store, Finish
<1>12. ASSUME NEW w \in Workers, Refetch(w) PROVE TypeInv'
  <2>1. CASE GoTo(w, "publish")
    BY <1>12, <2>1 DEF Refetch, store, GoTo
  <2>2. CASE Finish(w)
    BY <1>12, <2>2 DEF Refetch, store, Finish
  <2>3. QED
    BY <1>12, <2>1, <2>2 DEF Refetch
<1>13. ASSUME NEW w \in Workers, Publish(w) PROVE TypeInv'
  BY <1>13 DEF Publish, Finish
<1>14. ASSUME MembershipChange PROVE TypeInv'
  <2>1. PICK b \in Boards, u \in Users, r \in Roles \cup {NoRole} :
            role' = [role EXCEPT ![b][u] = r]
    BY <1>14 DEF MembershipChange, Env!MemberStep, Env!Grant, Env!ChangeRole, Env!Revoke, Env!SetRole, Roles
  <2>2. role' \in [Boards -> [Users -> Roles \cup {NoRole}]]
    BY <2>1
  <2>3. QED
    BY <1>14, <2>2 DEF MembershipChange, store
<1>15. CASE UNCHANGED vars
  BY <1>15 DEF vars
<1>16. QED
  BY <1>1, <1>2, <1>3, <1>4, <1>5, <1>6, <1>7, <1>8, <1>9, <1>10, <1>11, <1>12, <1>13, <1>14, <1>15
     DEF Next, Step, Write

\* Every state is well typed, and a handler is at the stages its operation has.
THEOREM TypeCorrect == Spec => []TypeOK
<1>1. TypeInv => TypeOK
  BY DEF TypeInv
<1>2. QED
  BY TypeInit, TypeStep, <1>1, PTL DEF Spec
-----------------------------------------------------------------------------
(* The inductive invariant.  What a handler relies on several statements     *)
(* after it looked something up is a matter of which ids can still change:   *)
(* a list keeps its board, a task keeps the board of its list, a version     *)
(* only grows, and an id is drawn by one INSERT only.                        *)

\* The ids of the request that w handles, and of the row it is to insert.
IdsKnown(w) == LET r == req[w] IN pc[w] # "idle" =>
    /\ NamesTask(r) => row[r.task].version # 0
    /\ r.op = "update_task" => r.expected <= row[r.task].version
    /\ r.op \in {"create_task", "delete_list"} \/ MovesTask(r) => boardOf[r.list] # NoBoard
    /\ r.op = "create_task" /\ pc[w] \in {"lookup", "authorize", "write"}
            => row[r.task].version = 0
    /\ r.op = "create_list" /\ pc[w] \in {"authorize", "write"}
            => boardOf[r.list] = NoBoard
    /\ r.op = "create_task" /\ pc[w] = "refetch" => row[r.task].version # 0

BoardCurrent(w) == LET r == req[w] IN
    /\ pc[w] \notin {"idle", "lookup"} =>
          /\ NamesTask(r) /\ r.task \in tasks => boardOf[row[r.task].list] = board[w]
          /\ r.op \in {"create_task", "delete_list"} => boardOf[r.list] = board[w]
          /\ r.op = "create_list" => r.board = board[w]
    /\ pc[w] = "write" /\ MovesTask(r) => boardOf[r.list] = board[w]
    /\ pc[w] = "refetch" =>
          /\ r.op \in {"create_task", "update_task", "create_list"}
          /\ r.op = "create_task" /\ r.task \in tasks => boardOf[row[r.task].list] = board[w]
          /\ r.op = "create_list" => boardOf[r.list] = board[w]

AnswerNewer(w) == LET r == req[w] IN
    pc[w] \in {"conflict", "refetch"} /\ r.op = "update_task" /\ r.task \in tasks
        => row[r.task].version > r.expected

HandlerInv(w) == IdsKnown(w) /\ BoardCurrent(w) /\ AnswerNewer(w)

DrawnOnce == \A v, w \in Workers : v # w /\ pc[v] # "idle" /\ pc[w] # "idle" =>
    /\ req[v].op = "create_task" /\ req[w].op = "create_task" => req[v].task # req[w].task
    /\ req[v].op = "create_list" /\ req[w].op = "create_list" => req[v].list # req[w].list

Inv ==
    /\ TypeInv
    /\ \A w \in Workers : HandlerInv(w)
    /\ DrawnOnce /\ OneWinnerPerVersion /\ NoOrphanTasks

\* What a step of w may do to the tables as far as the others can tell.
Considerate(w) ==
    /\ \A t \in Tasks : row[t].version <= row'[t].version
    /\ \A t \in tasks' : t \in tasks \/ row[t].version = 0
    /\ \A t \in tasks' \cap tasks : boardOf'[row'[t].list] = boardOf[row[t].list]
    /\ \A l \in Lists : boardOf[l] # NoBoard => boardOf'[l] = boardOf[l]
    /\ \A t \in Tasks : row[t].version = 0 /\ row'[t].version # 0
                            => req[w].op = "create_task" /\ t = req[w].task
    /\ \A l \in Lists : boardOf[l] = NoBoard /\ boardOf'[l] # NoBoard
                            => req[w].op = "create_list" /\ l = req[w].list

LEMMA Others ==
    ASSUME Inv, NEW w \in Workers, NEW v \in Workers, v # w, Considerate(w), TypeInv',
           pc[w] # "idle", pc'[v] = pc[v], req'[v] = req[v], board'[v] = board[v]
    PROVE  HandlerInv(v)'
<1> DEFINE r == req[v]
<1>1. CASE pc[v] = "idle"
  BY <1>1 DEF HandlerInv, IdsKnown, BoardCurrent, AnswerNewer
<1>2. CASE pc[v] # "idle"
  <2>1. r \in Requests
    BY <1>2 DEF Inv, TypeInv, Holds
  <2>2. /\ NamesTask(r) => r.task \in Tasks
        /\ r.op = "create_task" => r.task \in Tasks
        /\ r.op \in {"create_task", "create_list", "delete_list"} \/ MovesTask(r) => r.list \in Lists
        /\ r.op = "update_task" => r.expected \in Nat /\ NamesTask(r)
    BY <2>1, RequestShape, TaskAssumption DEF NamesTask, MovesTask
  <2>3. row \in [Tasks -> [list : Lists \cup {NoList}, version : 0..MaxVersion]]
    BY DEF Inv, TypeInv, TypeOK
  <2>4. row' \in [Tasks -> [list : Lists \cup {NoList}, version : 0..MaxVersion]]
    BY DEF TypeInv, TypeOK
  <2>5. \A t \in Tasks : row[t].version \in Nat /\ row'[t].version \in Nat
    BY <2>3, <2>4, TaskAssumption
  <2>6. IdsKnown(v) /\ BoardCurrent(v) /\ AnswerNewer(v)
    BY DEF Inv, HandlerInv
  <2>7. /\ req[v].op = "create_task" /\ req[w].op = "create_task" => req[v].task # req[w].task
        /\ req[v].op = "create_list" /\ req[w].op = "create_list" => req[v].list # req[w].list
    BY <1>2 DEF Inv, DrawnOnce
  <2> board[v] # NoBoard \/ pc[v] = "lookup"
    BY <1>2, TaskAssumption DEF Inv, TypeInv, Holds
  <2>8. IdsKnown(v)'
    BY <1>2, <2>2, <2>5, <2>6, <2>7 DEF IdsKnown, Considerate, NamesTask, MovesTask
  <2>9. BoardCurrent(v)'
    BY <1>2, <2>2, <2>5, <2>6 DEF IdsKnown, BoardCurrent, Considerate, NamesTask, MovesTask
  <2>10. AnswerNewer(v)'
    BY <1>2, <2>2, <2>5, <2>6 DEF IdsKnown, AnswerNewer, Considerate, NamesTask
  <2>11. QED
    BY <2>8, <2>9, <2>10 DEF HandlerInv
<1>3. QED
  BY <1>1, <1>2
\* A handler is done, or goes on with the same request.
Proceeds(w) == pc'[w] = "idle" \/ (pc'[w] # "idle" /\ req'[w] = req[w] /\ HandlerInv(w)')

Alone(w) == \A v \in Workers : v # w =>
    pc'[v] = pc[v] /\ req'[v] = req[v] /\ board'[v] = board[v]

LEMMA Assemble ==
    ASSUME Inv, NEW w \in Workers, pc[w] # "idle", TypeInv', Considerate(w),
           Alone(w), Proceeds(w), OneWinnerPerVersion', NoOrphanTasks'
    PROVE  Inv'
<1>1. \A v \in Workers : v # w => HandlerInv(v)'
  BY Others DEF Alone
<1>2. HandlerInv(w)'
  BY DEF Proceeds, HandlerInv, IdsKnown, BoardCurrent, AnswerNewer
<1>3. DrawnOnce'
  <2>1. \A v \in Workers : pc'[v] # "idle" => pc[v] # "idle" /\ req'[v] = req[v]
    BY DEF Alone, Proceeds
  <2>2. QED
    BY <2>1 DEF Inv, DrawnOnce
<1>4. QED
  BY <1>1, <1>2, <1>3 DEF Inv

LEMMA Quiet ==
    ASSUME Inv, NEW w \in Workers, pc[w] # "idle", TypeInv', Alone(w), Proceeds(w),
           UNCHANGED <<lists, boardOf, tasks, row, wins>>
    PROVE  Inv'
<1>1. \A t \in Tasks : row[t].version \in Nat
  BY TaskAssumption DEF Inv, TypeInv, TypeOK
<1>2. Considerate(w)
  BY <1>1 DEF Considerate
<1>3. OneWinnerPerVersion' /\ NoOrphanTasks'
  BY DEF Inv, OneWinnerPerVersion, NoOrphanTasks
<1>4. QED
  BY <1>2, <1>3, Assemble

LEMMA FinishStep ==
    ASSUME Inv, NEW w \in Workers, Finish(w)
    PROVE  Alone(w) /\ Proceeds(w)
BY DEF Inv, TypeInv, TypeOK, Finish, Alone, Proceeds

LEMMA GoToStep ==
    ASSUME Inv, NEW w \in Workers, NEW s, GoTo(w, s)
    PROVE  /\ Alone(w)
           /\ pc'[w] = s /\ req' = req /\ board' = board
BY DEF Inv, TypeInv, TypeOK, GoTo, Alone

LEMMA InvInit == Init => Inv
<1> SUFFICES ASSUME Init PROVE Inv
  OBVIOUS
<1>1. TypeInv
  BY TypeInit
<1>2. \A w \in Workers : pc[w] = "idle"
  BY DEF Init
<1>3. (\A w \in Workers : HandlerInv(w)) /\ DrawnOnce
  BY <1>2 DEF HandlerInv, IdsKnown, BoardCurrent, AnswerNewer, DrawnOnce
<1>4. OneWinnerPerVersion
  <2> SUFFICES ASSUME NEW t \in Tasks, NEW v \in Versions
               PROVE  wins[t][v] = IF v < row[t].version THEN 1 ELSE 0
    BY DEF OneWinnerPerVersion
  <2>1. v \in Nat /\ v >= 1 /\ row[t].version \in {0, 1} /\ wins[t][v] = 0
    BY DEF Init, Versions
  <2>2. QED
    BY <2>1
<1>5. NoOrphanTasks
  BY TaskAssumption DEF Init, NoOrphanTasks
<1>6. QED
  BY <1>1, <1>3, <1>4, <1>5 DEF Inv

LEMMA BeginStep == ASSUME Inv, TypeInv', NEW w \in Workers, Begin(w) PROVE Inv'
<1>1. PICK r \in Requests :
          /\ Sensible(r)
          /\ req' = [req EXCEPT ![w] = r]
          /\ \/ r.op = "create_list" /\ pc' = [pc EXCEPT ![w] = "authorize"]
             \/ r.op # "create_list" /\ pc' = [pc EXCEPT ![w] = "lookup"]
  BY DEF Begin
<1>2. UNCHANGED <<lists, boardOf, tasks, row, wins>> /\ pc[w] = "idle"
  BY DEF Begin, store
<1>3. /\ req'[w] = r
      /\ pc'[w] = IF r.op = "create_list" THEN "authorize" ELSE "lookup"
      /\ \A v \in Workers : v # w => pc'[v] = pc[v] /\ req'[v] = req[v] /\ board'[v] = board[v]
  BY <1>1 DEF Begin, Inv, TypeInv, TypeOK
<1>4. \A v \in Workers : v # w => HandlerInv(v)'
  BY <1>2, <1>3 DEF Inv, HandlerInv, IdsKnown, BoardCurrent, AnswerNewer
<1>5. row \in [Tasks -> [list : Lists \cup {NoList}, version : 0..MaxVersion]]
  BY DEF Inv, TypeInv, TypeOK
<1>6. IdsKnown(w)'
  <2>1. /\ NamesTask(r) => row[r.task].version # 0
        /\ r.op = "update_task" => r.expected <= row[r.task].version
    <3>1. CASE r.op = "update_task"
      BY <1>1, <1>5, <3>1, RequestShape, TaskAssumption DEF Sensible
    <3>2. CASE r.op # "update_task"
      BY <1>1, <3>2 DEF Sensible, NamesTask
    <3>3. QED
      BY <3>1, <3>2
  <2>2. /\ r.op \in {"create_task", "delete_list"} \/ MovesTask(r) => boardOf[r.list] # NoBoard
        /\ r.op = "create_task" => row[r.task].version = 0
        /\ r.op = "create_list" => boardOf[r.list] = NoBoard
    BY <1>1 DEF Sensible, MovesTask
  <2>3. QED
    BY <1>2, <1>3, <2>1, <2>2 DEF IdsKnown, NamesTask, MovesTask
<1>7. BoardCurrent(w)' /\ AnswerNewer(w)'
  <2>1. r.op = "create_list" => board'[w] = r.board
    BY <1>1 DEF Begin, Inv, TypeInv, TypeOK
  <2>2. QED
    BY <1>3, <2>1 DEF BoardCurrent, AnswerNewer, NamesTask, MovesTask
<1>8. DrawnOnce'
  <2>1. \A v \in Workers : pc[v] # "idle" => req[v] # NoRequest
    BY TaskAssumption DEF Inv, TypeInv, Holds
  <2>2. \A v \in Workers : pc[v] # "idle" =>
          /\ r.op = "create_task" /\ req[v].op = "create_task" => req[v].task # r.task
          /\ r.op = "create_list" /\ req[v].op = "create_list" => req[v].list # r.list
    BY <1>1, <2>1 DEF Sensible, Drawn
  <2>3. QED
    BY <1>2, <1>3, <2>2 DEF Inv, DrawnOnce
<1>9. OneWinnerPerVersion' /\ NoOrphanTasks'
  BY <1>2 DEF Inv, OneWinnerPerVersion, NoOrphanTasks
<1>10. QED
  BY <1>3, <1>4, <1>6, <1>7, <1>8, <1>9 DEF Inv, HandlerInv
\* The statements that only read.
LEMMA ReadStep ==
    ASSUME Inv, TypeInv', NEW w \in Workers,
           Lookup(w) \/ Authorize(w) \/ Target(w) \/ AuthorizeTarget(w)
              \/ Conflict(w) \/ Refetch(w)
    PROVE  Inv'
<1>1. UNCHANGED <<lists, boardOf, tasks, row, wins>> /\ pc[w] # "idle"
  BY DEF Lookup, Authorize, Target, AuthorizeTarget, Conflict, Refetch, store
<1>2. HandlerInv(w)
  BY DEF Inv
<1>3. CASE Finish(w)
  BY <1>1, <1>3, FinishStep, Quiet
<1>4. ASSUME NEW s \in Stages \ {"idle"}, GoTo(w, s), HandlerInv(w)' PROVE Inv'
  BY <1>1, <1>4, GoToStep, Quiet DEF Proceeds
<1>5. CASE Lookup(w) /\ ~Finish(w)
  <2> DEFINE r == req[w]
             l == IF NamesTask(r) THEN row[r.task].list ELSE r.list
  <2>1. /\ pc[w] = "lookup"
        /\ pc' = [pc EXCEPT ![w] = "authorize"]
        /\ board' = [board EXCEPT ![w] = boardOf[l]]
        /\ UNCHANGED req
    BY <1>5 DEF Lookup
  <2>2. /\ Alone(w)
        /\ pc'[w] = "authorize" /\ req'[w] = req[w] /\ board'[w] = boardOf[l]
    BY <2>1 DEF Inv, TypeInv, TypeOK, Alone
  <2>3. r \in Requests /\ r.op # "create_list"
    BY <2>1 DEF Inv, TypeInv, Holds
  <2>4. HandlerInv(w)'
    BY <1>1, <1>2, <2>1, <2>2, <2>3
       DEF HandlerInv, IdsKnown, BoardCurrent, AnswerNewer, NamesTask, MovesTask
  <2>5. QED
    BY <1>1, <2>2, <2>4, Quiet DEF Proceeds
<1>6. CASE Authorize(w) /\ ~Finish(w)
  <2>1. PICK s \in {"target", "write"} :
            GoTo(w, s) /\ pc[w] = "authorize" /\ (s = "write" => ~MovesTask(req[w]))
    BY <1>6 DEF Authorize
  <2>2. pc'[w] = s /\ req' = req /\ board' = board
    BY <2>1, GoToStep
  <2>3. HandlerInv(w)'
    BY <1>1, <1>2, <2>1, <2>2
       DEF HandlerInv, IdsKnown, BoardCurrent, AnswerNewer, NamesTask, MovesTask
  <2>4. QED
    BY <1>4, <2>1, <2>3 DEF Stages
<1>7. CASE Target(w) /\ ~Finish(w)
  <2>1. GoTo(w, "authorize_target") /\ pc[w] = "target" /\ MovesTask(req[w])
    BY <1>7 DEF Target, Inv, TypeInv, Holds
  <2>2. pc'[w] = "authorize_target" /\ req' = req /\ board' = board
    BY <2>1, GoToStep
  <2>3. HandlerInv(w)'
    BY <1>1, <1>2, <2>1, <2>2
       DEF HandlerInv, IdsKnown, BoardCurrent, AnswerNewer, NamesTask, MovesTask
  <2>4. QED
    BY <1>4, <2>1, <2>3 DEF Stages
<1>8. CASE AuthorizeTarget(w) /\ ~Finish(w)
  <2>1. /\ GoTo(w, "write") /\ pc[w] = "authorize_target" /\ MovesTask(req[w])
        /\ boardOf[req[w].list] = board[w]
    BY <1>8 DEF AuthorizeTarget, SameBoard, Inv, TypeInv, Holds
  <2>2. pc'[w] = "write" /\ req' = req /\ board' = board
    BY <2>1, GoToStep
  <2>3. HandlerInv(w)'
    BY <1>1, <1>2, <2>1, <2>2
       DEF HandlerInv, IdsKnown, BoardCurrent, AnswerNewer, NamesTask, MovesTask
  <2>4. QED
    BY <1>4, <2>1, <2>3 DEF Stages
<1>9. CASE Refetch(w) /\ ~Finish(w)
  <2>1. GoTo(w, "publish") /\ pc[w] = "refetch"
    BY <1>9 DEF Refetch
  <2>2. pc'[w] = "publish" /\ req' = req /\ board' = board
    BY <2>1, GoToStep
  <2>3. HandlerInv(w)'
    BY <1>1, <1>2, <2>1, <2>2
       DEF HandlerInv, IdsKnown, BoardCurrent, AnswerNewer, NamesTask, MovesTask
  <2>4. QED
    BY <1>4, <2>1, <2>3 DEF Stages
<1>10. QED
  BY <1>3, <1>5, <1>6, <1>7, <1>8, <1>9 DEF Conflict

LEMMA PublishStep == ASSUME Inv, TypeInv', NEW w \in Workers, Publish(w) PROVE Inv'
BY FinishStep, Quiet DEF Publish

LEMMA MembershipStep == ASSUME Inv, TypeInv', MembershipChange PROVE Inv'
<1>1. UNCHANGED <<lists, boardOf, tasks, row, wins, pc, req, board>>
  BY DEF MembershipChange, store
<1>2. QED
  BY <1>1 DEF Inv, HandlerInv, IdsKnown, BoardCurrent, AnswerNewer, DrawnOnce,
              OneWinnerPerVersion, NoOrphanTasks, NamesTask, MovesTask

\* What the writing handler holds when it writes.
LEMMA AtWrite ==
    ASSUME Inv, NEW w \in Workers, NEW op, Writes(w, op)
    PROVE  /\ req[w] \in Requests /\ req[w].op = op /\ pc[w] = "write"
           /\ board[w] \in Boards
           /\ IdsKnown(w) /\ BoardCurrent(w)
           /\ row \in [Tasks -> [list : Lists \cup {NoList}, version : 0..MaxVersion]]
           /\ boardOf \in [Lists -> Boards \cup {NoBoard}]
           /\ \A t \in Tasks : row[t].version \in Nat
           /\ \A t \in tasks : t \in Tasks /\ row[t].version # 0 /\ row[t].list \in lists
           /\ \A l \in lists : l \in Lists /\ boardOf[l] # NoBoard
BY TaskAssumption DEF Writes, Inv, TypeInv, TypeOK, Holds, HandlerInv, NoOrphanTasks

LEMMA InsertTaskStep == ASSUME Inv, TypeInv', NEW w \in Workers, InsertTask(w) PROVE Inv'
<1> DEFINE r == req[w]
<1>1. Writes(w, "create_task")
  BY DEF InsertTask
<1>2. r.task \in Tasks /\ r.list \in Lists /\ row[r.task].version = 0
  BY <1>1, AtWrite, RequestShape DEF IdsKnown
<1>3. CASE r.list \notin lists
  BY <1>1, <1>3, AtWrite, FinishStep, Quiet DEF InsertTask
<1>4. CASE r.list \in lists
  <2>1. /\ tasks' = tasks \cup {r.task}
        /\ row' = [row EXCEPT ![r.task] = [list |-> r.list, version |-> 1]]
        /\ GoTo(w, "refetch")
        /\ UNCHANGED <<lists, boardOf, wins>>
    BY <1>4 DEF InsertTask, NewTask
  <2>2. /\ row'[r.task].list = r.list /\ row'[r.task].version = 1
        /\ \A t \in Tasks : t # r.task => row'[t] = row[t]
        /\ r.task \notin tasks
    BY <1>1, <1>2, <2>1, AtWrite
  <2>3. Considerate(w)
    BY <1>1, <1>2, <2>1, <2>2, AtWrite DEF Considerate
  <2>4. Alone(w) /\ pc'[w] = "refetch" /\ req' = req /\ board' = board
    BY <2>1, GoToStep
  <2>5. HandlerInv(w)'
    BY <1>1, <1>2, <2>1, <2>4, AtWrite
       DEF HandlerInv, IdsKnown, BoardCurrent, AnswerNewer, NamesTask, MovesTask
  <2>6. OneWinnerPerVersion'
    <3> SUFFICES ASSUME NEW t \in Tasks, NEW v \in Versions
                 PROVE  wins[t][v] = IF v < row'[t].version THEN 1 ELSE 0
      BY <2>1 DEF OneWinnerPerVersion
    <3>1. wins[t][v] = IF v < row[t].version THEN 1 ELSE 0
      BY DEF Inv, OneWinnerPerVersion
    <3>2. v \in Nat /\ v >= 1
      BY DEF Versions
    <3>3. QED
      BY <1>2, <2>2, <3>1, <3>2
  <2>7. NoOrphanTasks'
    BY <1>1, <1>4, <2>1, <2>2, AtWrite DEF NoOrphanTasks
  <2>8. QED
    BY <1>1, <2>3, <2>4, <2>5, <2>6, <2>7, AtWrite, Assemble DEF Proceeds
<1>5. QED
  BY <1>3, <1>4
LEMMA CompareAndSwapStep == ASSUME Inv, TypeInv', NEW w \in Workers, CompareAndSwap(w) PROVE Inv'
<1> DEFINE r == req[w]
<1>1. Writes(w, "update_task")
  BY DEF CompareAndSwap
<1>2. r.task \in Tasks /\ r.expected \in 1..(MaxVersion - 1) /\ r.list \in Lists \cup {Unset, Null}
  BY <1>1, AtWrite, RequestShape
<1>3. r.expected \in Nat /\ r.expected \in Versions /\ r.expected <= row[r.task].version
  BY <1>1, <1>2, AtWrite, TaskAssumption DEF IdsKnown, Versions
<1>4. CASE Finish(w)
  <2>1. UNCHANGED <<lists, boardOf, tasks, row, wins>>
    BY <1>1, <1>4, AtWrite DEF CompareAndSwap, Finish, GoTo, Inv, TypeInv, TypeOK
  <2>2. QED
    BY <1>1, <1>4, <2>1, AtWrite, FinishStep, Quiet
<1>5. CASE ~Matches(r) /\ GoTo(w, "conflict") /\ UNCHANGED <<lists, boardOf, tasks, row, wins>>
  <2>1. Alone(w) /\ pc'[w] = "conflict" /\ req' = req /\ board' = board
    BY <1>5, GoToStep
  <2>2. r.task \in tasks => row[r.task].version > r.expected
    BY <1>1, <1>2, <1>3, <1>5, AtWrite DEF Matches
  <2>3. HandlerInv(w)'
    BY <1>1, <1>5, <2>1, <2>2, AtWrite
       DEF HandlerInv, IdsKnown, BoardCurrent, AnswerNewer, NamesTask, MovesTask
  <2>4. QED
    BY <1>1, <1>5, <2>1, <2>3, AtWrite, Quiet DEF Proceeds
<1>6. CASE /\ Matches(r) /\ NewList(r) \in lists
           /\ row' = [row EXCEPT ![r.task] = Bumped(r)]
           /\ wins' = [wins EXCEPT ![r.task][r.expected] = @ + 1]
           /\ GoTo(w, "refetch")
           /\ UNCHANGED <<lists, boardOf, tasks>>
  <2>1. r.task \in tasks /\ row[r.task].version = r.expected
    BY <1>6 DEF Matches
  <2>2. /\ row'[r.task].list = NewList(r) /\ row'[r.task].version = r.expected + 1
        /\ \A t \in Tasks : t # r.task => row'[t] = row[t]
    BY <1>1, <1>2, <1>6, <2>1, AtWrite DEF Bumped
  <2>3. boardOf[NewList(r)] = boardOf[row[r.task].list]
    <3>1. CASE r.list = Unset
      BY <3>1 DEF NewList
    <3>2. CASE r.list # Unset
      <4>1. r.list \in Lists /\ NewList(r) = r.list /\ MovesTask(r)
        BY <1>1, <1>6, <3>2, AtWrite DEF NewList, MovesTask
      <4>2. QED
        BY <1>1, <2>1, <4>1, AtWrite DEF BoardCurrent, NamesTask
    <3>3. QED
      BY <3>1, <3>2
  <2>4. Considerate(w)
    BY <1>1, <1>3, <1>6, <2>1, <2>2, <2>3, AtWrite DEF Considerate
  <2>5. Alone(w) /\ pc'[w] = "refetch" /\ req' = req /\ board' = board
    BY <1>6, GoToStep
  <2>6. HandlerInv(w)'
    <3>1. IdsKnown(w)' /\ AnswerNewer(w)'
      BY <1>1, <1>3, <1>6, <2>1, <2>2, <2>5, AtWrite DEF IdsKnown, AnswerNewer, NamesTask, MovesTask
    <3>2. BoardCurrent(w)'
      BY <1>1, <1>6, <2>1, <2>2, <2>3, <2>5, AtWrite DEF BoardCurrent, NamesTask, MovesTask
    <3>3. QED
      BY <3>1, <3>2 DEF HandlerInv
  <2>7. OneWinnerPerVersion'
    <3> SUFFICES ASSUME NEW t \in Tasks, NEW v \in Versions
                 PROVE  wins'[t][v] = IF v < row'[t].version THEN 1 ELSE 0
      BY DEF OneWinnerPerVersion
    <3>1. wins[t][v] = IF v < row[t].version THEN 1 ELSE 0
      BY DEF Inv, OneWinnerPerVersion
    <3>2. v \in Nat
      BY DEF Versions
    <3>3. wins'[t][v] = IF t = r.task /\ v = r.expected THEN wins[t][v] + 1 ELSE wins[t][v]
      BY <1>2, <1>3, <1>6 DEF Inv, TypeInv, TypeOK
    <3>4. CASE t = r.task
      BY <1>3, <2>1, <2>2, <3>1, <3>2, <3>3, <3>4
    <3>5. CASE t # r.task
      BY <2>2, <3>1, <3>3, <3>5
    <3>6. QED
      BY <3>4, <3>5
  <2>8. NoOrphanTasks'
    BY <1>1, <1>6, <2>2, AtWrite DEF NoOrphanTasks
  <2>9. QED
    BY <1>1, <2>4, <2>5, <2>6, <2>7, <2>8, AtWrite, Assemble DEF Proceeds
<1>7. QED
  BY <1>4, <1>5, <1>6 DEF CompareAndSwap

\* Both deletions: the tasks in S go, all of them among the tasks of w's board.
LEMMA RemoveTasksStep ==
    ASSUME NEW S, RemoveTasks(S), Inv, NEW w \in Workers, NEW op, Writes(w, op)
    PROVE  /\ \A t \in Tasks : row'[t].version = row[t].version
           /\ \A t \in tasks' : row'[t] = row[t]
           /\ tasks' = tasks \ S
BY AtWrite DEF RemoveTasks

LEMMA DeleteTaskStep == ASSUME Inv, TypeInv', NEW w \in Workers, DeleteTask(w) PROVE Inv'
<1>1. /\ Writes(w, "delete_task") /\ RemoveTasks({req[w].task} \cap tasks)
      /\ GoTo(w, "publish") /\ UNCHANGED <<lists, boardOf, wins>>
  BY DEF DeleteTask
<1>2. /\ \A t \in Tasks : row'[t].version = row[t].version
      /\ \A t \in tasks' : row'[t] = row[t]
      /\ tasks' \subseteq tasks
  BY <1>1, RemoveTasksStep
<1>3. Considerate(w)
  BY <1>1, <1>2, AtWrite DEF Considerate
<1>4. Alone(w) /\ pc'[w] = "publish" /\ req' = req /\ board' = board
  BY <1>1, GoToStep
<1>5. req[w].task \in Tasks
  BY <1>1, AtWrite, RequestShape
<1>6. HandlerInv(w)'
  BY <1>1, <1>2, <1>4, <1>5, AtWrite
     DEF HandlerInv, IdsKnown, BoardCurrent, AnswerNewer, NamesTask, MovesTask
<1>7. OneWinnerPerVersion' /\ NoOrphanTasks'
  BY <1>1, <1>2 DEF Inv, OneWinnerPerVersion, NoOrphanTasks
<1>8. QED
  BY <1>1, <1>3, <1>4, <1>6, <1>7, AtWrite, Assemble DEF Proceeds

LEMMA DeleteListStep == ASSUME Inv, TypeInv', NEW w \in Workers, DeleteList(w) PROVE Inv'
<1>1. /\ Writes(w, "delete_list") /\ RemoveTasks(Cascade(req[w].list))
      /\ lists' = lists \ {req[w].list}
      /\ GoTo(w, "publish") /\ UNCHANGED <<boardOf, wins>>
  BY DEF DeleteList
<1>2. /\ \A t \in Tasks : row'[t].version = row[t].version
      /\ \A t \in tasks' : row'[t] = row[t] /\ row[t].list # req[w].list
      /\ tasks' \subseteq tasks
  BY <1>1, RemoveTasksStep DEF Cascade
<1>3. Considerate(w)
  BY <1>1, <1>2, AtWrite DEF Considerate
<1>4. Alone(w) /\ pc'[w] = "publish" /\ req' = req /\ board' = board
  BY <1>1, GoToStep
<1>5. HandlerInv(w)'
  BY <1>1, <1>2, <1>4, AtWrite
     DEF HandlerInv, IdsKnown, BoardCurrent, AnswerNewer, NamesTask, MovesTask
<1>6. OneWinnerPerVersion' /\ NoOrphanTasks'
  BY <1>1, <1>2 DEF Inv, OneWinnerPerVersion, NoOrphanTasks
<1>7. QED
  BY <1>1, <1>3, <1>4, <1>5, <1>6, AtWrite, Assemble DEF Proceeds

LEMMA InsertListStep == ASSUME Inv, TypeInv', NEW w \in Workers, InsertList(w) PROVE Inv'
<1> DEFINE r == req[w]
<1>1. /\ Writes(w, "create_list")
      /\ lists' = lists \cup {r.list}
      /\ boardOf' = [boardOf EXCEPT ![r.list] = r.board]
      /\ GoTo(w, "refetch") /\ UNCHANGED <<tasks, row, wins>>
  BY DEF InsertList
<1>2. r.list \in Lists /\ boardOf[r.list] = NoBoard
  BY <1>1, AtWrite, RequestShape DEF IdsKnown
<1>3. \A l \in Lists : l # r.list => boardOf'[l] = boardOf[l]
  BY <1>1, <1>2, AtWrite
<1>4. Considerate(w)
  BY <1>1, <1>2, <1>3, AtWrite DEF Considerate
<1>5. Alone(w) /\ pc'[w] = "refetch" /\ req' = req /\ board' = board
  BY <1>1, GoToStep
<1>6. HandlerInv(w)'
  BY <1>1, <1>2, <1>5, AtWrite DEF HandlerInv, IdsKnown, BoardCurrent, AnswerNewer, NamesTask, MovesTask
<1>7. OneWinnerPerVersion' /\ NoOrphanTasks'
  BY <1>1 DEF Inv, OneWinnerPerVersion, NoOrphanTasks
<1>8. QED
  BY <1>1, <1>4, <1>5, <1>6, <1>7, AtWrite, Assemble DEF Proceeds

LEMMA InvStep == Inv /\ [Next]_vars => Inv'
<1> SUFFICES ASSUME Inv, [Next]_vars PROVE Inv'
  OBVIOUS
<1>1. TypeInv'
  BY TypeStep DEF Inv
<1>2. CASE UNCHANGED vars
  BY <1>2 DEF vars, Inv, TypeInv, TypeOK, Holds, HandlerInv, IdsKnown, BoardCurrent, AnswerNewer,
              DrawnOnce, OneWinnerPerVersion, NoOrphanTasks, NamesTask, MovesTask
<1>3. CASE Next
  BY <1>1, <1>3, BeginStep, ReadStep, PublishStep, MembershipStep, InsertTaskStep,
     CompareAndSwapStep, DeleteTaskStep, InsertListStep, DeleteListStep
     DEF Next, Step, Write
<1>4. QED
  BY <1>2, <1>3

THEOREM Invariance == Spec => []Inv
BY InvInit, InvStep, PTL DEF Spec

\* Optimistic concurrency: however many requests arrive at once, a version of a
\* task is taken by exactly one update (task_service.py:14-15).
THEOREM WinnersAreUnique == Spec => []OneWinnerPerVersion
BY Invariance, PTL DEF Inv

\* No interleaving of moves, insertions and list deletions leaves a task on no board.
THEOREM TasksHaveLists == Spec => []NoOrphanTasks
BY Invariance, PTL DEF Inv

\* The board that a handler authorised is the board of what it writes.
THEOREM AuthorizationHolds == Spec => []AuthorizedBoardIsCurrent
<1>1. Inv => AuthorizedBoardIsCurrent
  BY DEF Inv, HandlerInv, BoardCurrent, AuthorizedBoardIsCurrent
<1>2. QED
  BY Invariance, <1>1, PTL

\* A conflict or a success tells the client of a version newer than its own.
THEOREM AnswersHelp == Spec => []AnswersAreNewer
<1>1. Inv => AnswersAreNewer
  BY DEF Inv, HandlerInv, AnswerNewer, AnswersAreNewer
<1>2. QED
  BY Invariance, <1>1, PTL
-----------------------------------------------------------------------------
(* Changes get announced *)

\* The request on w is going to publish an event of b.
Promises(w, b) ==
    /\ board[w] = b
    /\ pc[w] = "publish" \/ (pc[w] = "refetch" /\ StillThere(req[w]))

\* Whatever a write removes is on the board of the handler that removes it.
LEMMA RemovesFromOneBoard ==
    ASSUME Inv, NEW w \in Workers, Write(w)
    PROVE  /\ \A t \in tasks \ tasks' : boardOf[row[t].list] = board[w]
           /\ \A l \in lists \ lists' : boardOf[l] = board[w]
<1>1. CASE DeleteTask(w)
  <2>1. Writes(w, "delete_task") /\ tasks' = tasks \ ({req[w].task} \cap tasks) /\ lists' = lists
    BY <1>1 DEF DeleteTask, RemoveTasks
  <2>2. QED
    BY <2>1, AtWrite DEF BoardCurrent, NamesTask
<1>2. CASE DeleteList(w)
  <2>1. /\ Writes(w, "delete_list") /\ lists' = lists \ {req[w].list}
        /\ tasks' = tasks \ {t \in tasks : row[t].list = req[w].list}
    BY <1>2 DEF DeleteList, RemoveTasks, Cascade
  <2>2. boardOf[req[w].list] = board[w]
    BY <2>1, AtWrite DEF BoardCurrent
  <2>3. QED
    BY <2>1, <2>2
<1>3. CASE InsertTask(w) \/ CompareAndSwap(w) \/ InsertList(w)
  BY <1>3 DEF InsertTask, CompareAndSwap, InsertList
<1>4. QED
  BY <1>1, <1>2, <1>3 DEF Write

\* A handler that has changed a table promises an event of its board.
LEMMA WriterPromises ==
    ASSUME Inv, NEW w \in Workers, Write(w), NEW b, b = board[w]
    PROVE  /\ Alone(w)
           /\ \/ unannounced' = unannounced \cup {b} /\ Promises(w, b)'
              \/ unannounced' = unannounced /\ tasks \subseteq tasks' /\ lists \subseteq lists'
<1>1. CASE InsertTask(w)
  <2>1. CASE req[w].list \in lists
    <3>1. /\ GoTo(w, "refetch") /\ req[w].task \in tasks' /\ lists' = lists /\ tasks \subseteq tasks'
          /\ req[w].op = "create_task" /\ unannounced' = unannounced \cup {b}
      BY <1>1, <2>1 DEF InsertTask, Writes, Changed
    <3>2. QED
      BY <2>1, <3>1, GoToStep DEF Promises, StillThere
  <2>2. CASE req[w].list \notin lists
    BY <1>1, <2>2, FinishStep DEF InsertTask
  <2>3. QED
    BY <2>1, <2>2
<1>2. CASE CompareAndSwap(w)
  <2>1. CASE GoTo(w, "refetch") /\ Matches(req[w]) /\ Changed(w)
    <3>1. /\ req[w].op = "update_task" /\ req[w].task \in tasks /\ lists' = lists /\ tasks' = tasks
          /\ unannounced' = unannounced \cup {b}
      BY <1>2, <2>1 DEF CompareAndSwap, Writes, Changed, Matches
    <3>2. QED
      BY <2>1, <3>1, GoToStep DEF Promises, StillThere
  <2>2. CASE Finish(w) /\ UNCHANGED <<unannounced, tasks, lists>>
    BY <2>2, FinishStep
  <2>3. CASE GoTo(w, "conflict") /\ UNCHANGED <<unannounced, tasks, lists>>
    BY <2>3, GoToStep
  <2>4. QED
    BY <1>2, <2>1, <2>2, <2>3 DEF CompareAndSwap
<1>3. CASE InsertList(w)
  <2>1. /\ GoTo(w, "refetch") /\ req[w].list \in lists' /\ lists \subseteq lists' /\ tasks' = tasks
        /\ req[w].op = "create_list" /\ unannounced' = unannounced \cup {b}
    BY <1>3 DEF InsertList, Writes, Changed
  <2>2. QED
    BY <2>1, GoToStep DEF Promises, StillThere
<1>4. CASE DeleteTask(w)
  <2>1. /\ GoTo(w, "publish") /\ lists' = lists
        /\ \/ unannounced' = unannounced \cup {b}
           \/ unannounced' = unannounced /\ tasks' = tasks
    BY <1>4 DEF DeleteTask, RemoveTasks, Changed
  <2>2. QED
    BY <2>1, GoToStep DEF Promises
<1>5. CASE DeleteList(w)
  <2>1. /\ GoTo(w, "publish")
        /\ \/ unannounced' = unannounced \cup {b}
           \/ unannounced' = unannounced /\ tasks' = tasks /\ lists' = lists
    <3>1. CASE req[w].list \in lists
      BY <1>5, <3>1 DEF DeleteList, Changed
    <3>2. CASE req[w].list \notin lists
      BY <1>5, <3>2 DEF DeleteList, RemoveTasks, Cascade, Inv, NoOrphanTasks
    <3>3. QED
      BY <3>1, <3>2
  <2>2. QED
    BY <2>1, GoToStep DEF Promises
<1>6. QED
  BY <1>1, <1>2, <1>3, <1>4, <1>5 DEF Write

\* A promise is kept until it is fulfilled, or taken over by a deletion that makes
\* the read-back fail.
LEMMA PromiseStep ==
    ASSUME Inv, Next, NEW w \in Workers, NEW b, Promises(w, b)
    PROVE  \/ \E v \in Workers : Promises(v, b)'
           \/ Publish(w) /\ board[w] = b
<1>1. ASSUME NEW v \in Workers, v # w, Write(v) PROVE \E x \in Workers : Promises(x, b)'
  <2>1. pc'[w] = pc[w] /\ req'[w] = req[w] /\ board'[w] = board[w]
    BY <1>1, WriterPromises DEF Alone
  <2>2. CASE pc[w] = "publish" \/ StillThere(req[w])'
    BY <2>1, <2>2 DEF Promises
  <2>3. CASE pc[w] = "refetch" /\ StillThere(req[w]) /\ ~StillThere(req[w])'
    <3> DEFINE r == req[w]
    <3>1. /\ BoardCurrent(w) /\ board[w] = b /\ r \in Requests
          /\ r.op \in {"create_task", "update_task", "create_list"}
      BY <2>3 DEF Promises, Inv, HandlerInv, TypeInv, Holds, BoardCurrent
    <3>2. board[v] = b /\ ~(tasks \subseteq tasks' /\ lists \subseteq lists')
      BY <1>1, <2>1, <2>3, <3>1, RemovesFromOneBoard DEF StillThere, BoardCurrent, NamesTask
    <3>3. Promises(v, b)'
      BY <1>1, <3>2, WriterPromises
    <3>4. QED
      BY <3>3
  <2>4. QED
    BY <2>2, <2>3 DEF Promises
<1>2. ASSUME NEW v \in Workers, v # w, Begin(v) \/ (Step(v) /\ ~Write(v)) PROVE Promises(w, b)'
  <2>1. /\ pc'[w] = pc[w] /\ req'[w] = req[w] /\ board'[w] = board[w]
        /\ tasks' = tasks /\ lists' = lists
    BY <1>2 DEF Begin, Step, Lookup, Authorize, Target, AuthorizeTarget, Conflict, Refetch, Publish,
                GoTo, Finish, store, Inv, TypeInv, TypeOK
  <2>2. QED
    BY <2>1 DEF Promises, StillThere
<1>3. CASE Begin(w) \/ Step(w)
  <2>1. Refetch(w) \/ Publish(w)
    BY <1>3 DEF Promises, Begin, Step, Lookup, Authorize, Target, AuthorizeTarget, Conflict, Write,
                Writes, InsertTask, CompareAndSwap, DeleteTask, InsertList, DeleteList
  <2>2. CASE Refetch(w)
    BY <2>2, GoToStep DEF Refetch, Promises
  <2>3. QED
    BY <2>1, <2>2 DEF Promises
<1>4. CASE MembershipChange
  BY <1>4 DEF MembershipChange, store, Promises, StillThere
<1>5. QED
  BY <1>1, <1>2, <1>3, <1>4 DEF Next

LEMMA AnnouncedStep == Inv /\ ChangesGetAnnounced /\ [Next]_vars => ChangesGetAnnounced'
<1> SUFFICES ASSUME Inv, ChangesGetAnnounced, [Next]_vars, NEW b \in unannounced'
             PROVE  \E w \in Workers : Promises(w, b)'
  BY DEF ChangesGetAnnounced, Promises
<1>1. ASSUME b \in unannounced, Next, \A w \in Workers : ~(Publish(w) /\ board[w] = b)
      PROVE  \E w \in Workers : Promises(w, b)'
  BY <1>1, PromiseStep DEF ChangesGetAnnounced, Promises
<1>2. CASE \E v \in Workers : Write(v)
  <2>1. PICK v \in Workers : Write(v)
    BY <1>2
  <2>2. CASE b \in unannounced
    <3>1. Next
      BY <2>1 DEF Next, Step
    <3>2. \A w \in Workers : ~Publish(w)
      BY <2>1 DEF Publish, Finish, Write, Writes, InsertTask, CompareAndSwap, DeleteTask, InsertList,
                  DeleteList, GoTo, Inv, TypeInv, TypeOK
    <3>3. QED
      BY <1>1, <2>2, <3>1, <3>2
  <2>3. CASE b \notin unannounced
    BY <2>1, <2>3, WriterPromises
  <2>4. QED
    BY <2>2, <2>3
<1>3. CASE Next /\ ~ \E v \in Workers : Write(v)
  <2>1. b \in unannounced /\ \A w \in Workers : ~(Publish(w) /\ board[w] = b)
    BY <1>3 DEF Next, Begin, Step, Lookup, Authorize, Target, AuthorizeTarget, Conflict, Refetch,
                Publish, MembershipChange, store
  <2>2. QED
    BY <1>1, <1>3, <2>1
<1>4. CASE UNCHANGED vars
  <2>1. PICK w \in Workers : Promises(w, b)
    BY <1>4 DEF vars, ChangesGetAnnounced, Promises
  <2>2. Promises(w, b)'
    BY <1>4, <2>1 DEF vars, Promises, StillThere
  <2>3. QED
    BY <2>2
<1>5. QED
  BY <1>2, <1>3, <1>4

\* While a committed change is unannounced some request is going to publish an event
\* of its board, also when the one that made it fails after its commit
\* (tasks.py:21-25, task_service.py:36-37).
THEOREM ChangesAnnounced == Spec => []ChangesGetAnnounced
<1>1. Init => ChangesGetAnnounced
  BY DEF Init, ChangesGetAnnounced
<1>2. QED
  BY <1>1, AnnouncedStep, Invariance, PTL DEF Spec
-----------------------------------------------------------------------------
(* The endpoints implement BoardStore *)

\* What BoardStore sees of task t.
Shown(t) ==
    IF t \in tasks THEN [board |-> boardOf[row[t].list], version |-> row[t].version]
    ELSE [board |-> NoBoard, version |-> IF row[t].version = 0 THEN 0 ELSE 1]

LEMMA ShownAfterInsert ==
    ASSUME Inv, NEW w \in Workers, InsertTask(w), req[w].list \in lists,
           NEW t, t = req[w].task, NEW b, b = board[w]
    PROVE  Store!Create(t, b)
<1> DEFINE r == req[w]
<1>1. Writes(w, "create_task") /\ r \in Requests /\ t \in Tasks
  BY AtWrite, RequestShape DEF InsertTask
<1>2. /\ row[t].version = 0 /\ t \notin tasks /\ boardOf[r.list] = b
      /\ row \in [Tasks -> [list : Lists \cup {NoList}, version : 0..MaxVersion]]
  BY <1>1, AtWrite DEF IdsKnown, BoardCurrent
<1>3. /\ tasks' = tasks \cup {t} /\ boardOf' = boardOf
      /\ row'[t].list = r.list /\ row'[t].version = 1
      /\ \A x \in Tasks : x # t => row'[x] = row[x]
  BY <1>1, <1>2 DEF InsertTask, NewTask
<1>4. Shown(t) = Store!Unborn
  BY <1>2 DEF Shown, Store!Unborn
<1>5. Shown(t)' = [board |-> b, version |-> 1]
  BY <1>2, <1>3 DEF Shown
<1>6. \A x \in Tasks : x # t => Shown(x)' = Shown(x)
  BY <1>3 DEF Shown
<1>7. QED
  BY <1>1, <1>4, <1>5, <1>6 DEF Store!Create, Shown

LEMMA ShownAfterUpdate ==
    ASSUME Inv, NEW w \in Workers, CompareAndSwap(w), Matches(req[w]), NewList(req[w]) \in lists,
           NEW t, t = req[w].task, NEW b, b = board[w]
    PROVE  Store!Update(t)
<1> DEFINE r == req[w]
<1>1. Writes(w, "update_task") /\ r \in Requests /\ t \in Tasks /\ t \in tasks
  BY AtWrite, RequestShape DEF CompareAndSwap, Matches
<1>2. /\ boardOf[NewList(r)] = b /\ boardOf[row[t].list] = b
      /\ row \in [Tasks -> [list : Lists \cup {NoList}, version : 0..MaxVersion]]
      /\ b # NoBoard
  <2>1. boardOf[row[t].list] = b
    BY <1>1, AtWrite DEF BoardCurrent, NamesTask
  <2>2. CASE r.list = Unset
    BY <1>1, <2>1, <2>2, AtWrite, TaskAssumption DEF NewList
  <2>3. CASE r.list # Unset
    <3>1. r.list \in Lists /\ MovesTask(r) /\ NewList(r) = r.list
      BY <1>1, <2>3, AtWrite DEF NewList, MovesTask
    <3>2. QED
      BY <1>1, <2>1, <3>1, AtWrite, TaskAssumption DEF BoardCurrent
  <2>4. QED
    BY <2>2, <2>3
<1>3. /\ tasks' = tasks /\ boardOf' = boardOf
      /\ row'[t].list = NewList(r) /\ row'[t].version = row[t].version + 1
      /\ \A x \in Tasks : x # t => row'[x] = row[x]
  BY <1>1, <1>2 DEF CompareAndSwap, Bumped
<1>4. Shown(t) = [board |-> b, version |-> row[t].version]
  BY <1>1, <1>2 DEF Shown
<1>5. Shown(t)' = [board |-> b, version |-> row[t].version + 1]
  BY <1>1, <1>2, <1>3 DEF Shown
<1>6. \A x \in Tasks : x # t => Shown(x)' = Shown(x)
  BY <1>3 DEF Shown
<1>7. QED
  BY ZenonT(30), <1>1, <1>2, <1>4, <1>5, <1>6 DEF Store!Update, Shown

LEMMA ShownAfterDelete ==
    ASSUME Inv, NEW w \in Workers, DeleteTask(w) \/ DeleteList(w), NEW b, b = board[w]
    PROVE  Store!Remove(b)
<1> DEFINE S == tasks \ tasks'
<1>1. PICK op : Writes(w, op)
  BY DEF DeleteTask, DeleteList
<1>2. PICK R : RemoveTasks(R)
  BY DEF DeleteTask, DeleteList
<1>3. /\ \A t \in Tasks : row'[t].version = row[t].version
      /\ \A t \in tasks' : row'[t] = row[t]
      /\ tasks' \subseteq tasks /\ boardOf' = boardOf
  BY <1>1, <1>2, RemoveTasksStep DEF DeleteTask, DeleteList
<1>4. \A t \in S : t \in Tasks /\ row[t].version # 0 /\ boardOf[row[t].list] = b
  BY <1>1, AtWrite, RemovesFromOneBoard DEF Write
<1>5. \A t \in S : Shown(t).board = b /\ Shown(t)' = Store!Deleted
  BY <1>3, <1>4 DEF Shown, Store!Deleted
<1>6. \A t \in Tasks \ S : Shown(t)' = Shown(t)
  BY <1>3 DEF Shown
<1> HIDE DEF S
<1>7. S \in SUBSET {t \in Tasks : Shown(t).board = b}
  BY <1>4, <1>5
<1>8. QED
  BY ZenonT(30), <1>5, <1>6, <1>7 DEF Store!Remove, Shown

\* Every other step leaves the tasks as they are; a list that is inserted had no tasks.
LEMMA ShownOtherwise ==
    ASSUME Inv, [Next]_vars,
           \A w \in Workers : ~ \/ InsertTask(w) /\ req[w].list \in lists
                                \/ CompareAndSwap(w) /\ Matches(req[w]) /\ NewList(req[w]) \in lists
                                \/ DeleteTask(w) \/ DeleteList(w)
    PROVE  \A t \in Tasks : Shown(t)' = Shown(t)
<1>1. CASE UNCHANGED <<boardOf, tasks, row>>
  BY <1>1 DEF Shown
<1>2. ASSUME NEW w \in Workers, InsertList(w) PROVE \A t \in Tasks : Shown(t)' = Shown(t)
  <2>1. Writes(w, "create_list") /\ tasks' = tasks /\ row' = row
    BY <1>2 DEF InsertList
  <2>2. \A l \in lists : boardOf'[l] = boardOf[l]
    BY <1>2, <2>1, AtWrite, RequestShape DEF InsertList, IdsKnown
  <2>3. QED
    BY <2>1, <2>2, AtWrite DEF Shown
<1>3. QED
  BY <1>1, <1>2 DEF vars, Next, Begin, Step, Write, Lookup, Authorize, Target, AuthorizeTarget,
     InsertTask, CompareAndSwap, Conflict, Refetch, Publish, MembershipChange, store

\* Concurrent requests do to the tasks no more than requests one at a time could: a
\* task moves by one version, stays on its board, and does not come back once deleted.
THEOREM Refines == Spec => ImplementsBoardStore
<1> DEFINE shown == [t \in Tasks |->
               IF t \in tasks THEN [board |-> boardOf[row[t].list], version |-> row[t].version]
               ELSE [board |-> NoBoard, version |-> IF row[t].version = 0 THEN 0 ELSE 1]]
<1>1. Init => Store!Init
  <2> SUFFICES ASSUME Init, NEW t \in Tasks
               PROVE  Shown(t) \in {r \in Store!Row : r.version < 2} \ {Store!Deleted}
    BY DEF Store!Init, Shown
  <2>1. CASE t \in tasks
    <3>1. boardOf[row[t].list] \in Boards /\ row[t].version = 1
      BY <2>1, TaskAssumption DEF Init
    <3>2. QED
      BY <2>1, <3>1, TaskAssumption DEF Shown, Store!Row, Store!Deleted
  <2>2. CASE t \notin tasks
    <3>1. row[t].version = 0
      BY <2>2 DEF Init
    <3>2. QED
      BY <2>2, <3>1 DEF Shown, Store!Row, Store!Deleted, Store!Unborn
  <2>3. QED
    BY <2>1, <2>2
<1>2. ASSUME Inv, [Next]_vars PROVE [Store!Next]_shown
  <2>1. ASSUME NEW w \in Workers, InsertTask(w), req[w].list \in lists PROVE Store!Next
    <3>1. req[w].task \in Tasks /\ board[w] \in Boards
      BY <1>2, <2>1, AtWrite, RequestShape DEF InsertTask
    <3>2. QED
      BY <1>2, <2>1, <3>1, ShownAfterInsert DEF Store!Next
  <2>2. ASSUME NEW w \in Workers, CompareAndSwap(w), Matches(req[w]), NewList(req[w]) \in lists
        PROVE  Store!Next
    <3>1. req[w].task \in Tasks
      BY <1>2, <2>2, AtWrite, RequestShape DEF CompareAndSwap
    <3>2. QED
      BY <1>2, <2>2, <3>1, ShownAfterUpdate DEF Store!Next
  <2>3. ASSUME NEW w \in Workers, DeleteTask(w) \/ DeleteList(w) PROVE Store!Next
    <3>1. PICK b \in Boards : b = board[w]
      BY <1>2, <2>3, AtWrite DEF DeleteTask, DeleteList
    <3>2. QED
      BY <1>2, <2>3, <3>1, ShownAfterDelete DEF Store!Next
  <2>4. CASE \A t \in Tasks : Shown(t)' = Shown(t)
    BY <2>4 DEF Shown
  <2>5. QED
    BY <1>2, <2>1, <2>2, <2>3, <2>4, ShownOtherwise
<1>3. QED
  BY <1>1, <1>2, Invariance, PTL DEF Spec, ImplementsBoardStore, Store!Spec
=============================================================================
