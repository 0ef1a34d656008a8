# Verification of the real-time task board

TLA+ models of the task board in `src/`: the REST endpoints that write tasks, lists and memberships, the cache,
the rate limiter and the user search beside them, the threads and connections that requests compete for, the
WebSocket delivery of events through Redis, and the browser client; TLC runs of the models on small
instances; and proofs, checked by TLAPS, of what matters most for any number of requests and rows.

All paths below are relative to `src/`; `tasks.py` and the like are in `app/routers/` unless said otherwise.

## 1. The system

A browser page (`frontend/app.js`) talks to one of several identical FastAPI instances. The instances share a
PostgreSQL database and a Redis server. A change travels like this: a REST handler checks the caller's role,
commits a row change, and adds a background task that publishes a small event on the board's Redis channel;
every instance with viewers of that board runs one listener coroutine that reads the channel and sends the event
to its viewers' sockets; a client that gets an event fetches the board again over REST.

| Component | Where | State | Operations |
|---|---|---|---|
| Roles and authorisation | `app/core/deps.py` | none (reads `board_members`) | `authorize_board`, `get_authorized_list`, `get_authorized_task` |
| Task and list endpoints | `tasks.py`, `lists.py`, `app/services/task_service.py` | tables `tasks`, `lists` | create, update (compare-and-swap on `version`), delete; create and delete list |
| Board and member endpoints | `boards.py` | tables `boards`, `board_members` | create board; add, change, remove member; read a board |
| Board cache | `boards.py:65-79` | a Redis entry per board | read through, write with expiry |
| Data wipe | `cleanup.py` | the same tables, `users` | find owned boards, delete everything of a user |
| WebSocket endpoint, connection manager, Redis listener | `websocket.py`, `app/websockets/connection_manager.py`, `app/services/broadcast_service.py` | per instance: registry of sockets, one listener task per board with its `recovering` flag and backoff | handshake, register, exit, publish, subscribe, deliver, revoke, broadcast, resync |
| Redis, PostgreSQL | external | Pub/Sub connections; committed rows | at-most-once FIFO per connection; statements at READ COMMITTED with constraints |
| Rate limiter | `app/core/rate_limit.py` | a Redis counter per scope and user, with its expiry | allow or refuse |
| User search | `users.py` | none (reads `users`, `board_members`, `boards`) | suggest users to invite |
| Threads, sessions and connections | `app/db/session.py`, `app/core/deps.py`, `websocket.py` | per instance: who has a thread of the pool, who waits for one, who has a connection | enter, check out, commit, leave, close, time out |
| Browser client, board | `frontend/app.js` | token, current board, `ws`, reconnect timer and counter, what is on the screen | log in, log out, switch, load, handle events and closes, reconnect |
| Browser client, invite dialog | `frontend/app.js:372-666` | text, debounce timer, searches under way, suggestions, choice | type, search, choose, invite, close |
| Signup and login, health, Celery, configuration, migrations, load test | the rest | | |

### How the components interact

* REST handlers are plain functions (or, `get_board`, await `run_in_threadpool`), so each runs on threads of the
  server's pool, with a database session of its own, which holds a connection from its first statement to a
  commit or to the end of the request. At READ COMMITTED a statement sees everything committed before it; other requests run between any two
  statements of a handler. Handlers share nothing in memory.
* `publish_event` is a background task: it runs after the answer was sent, and only if the handler returned.
* On an instance everything about sockets is on one event loop: coroutines interleave exactly at their awaits.
* The listener awaits the delivery of one event before it reads the next.
* The client is JavaScript: a function runs to its next await; any number of async functions overlap, and their
  answers come in any order.

### What is hard about it, and what has to hold

| Where | Hard behaviour | What has to hold |
|---|---|---|
| Tasks | many writers with one version; a row gone between commit and read-back; a list deleted while tasks move into it; an authorisation used statements later | one winner per version; conflicts that help; no task without a list; the board that was authorised is the board written to; every change followed by an event |
| Members | two adds of one user; a change or removal racing a removal; a removed user added again under a new row id; a wipe between statements | one owner; no double membership; permission still valid at the write; no dangling rows; changes get announced |
| Cache | an entry filled from a row read two awaits ago, and outliving it by a minute | shown only to somebody who was a member during the request |
| Rate limiter | windows that end between requests, requests that go on while they are refused | bursts are bounded; refusals are earned |
| Pools | requests that hold connections queue for threads that requests without one occupy | every request ends; connections come back, whatever ends the request |
| User search | order, annotation and limit come from a join over memberships of others | nothing of a foreign board shows; collaborators first |
| Realtime | a socket connecting while the last one leaves; sends, closes and exits that overlap; a listener cut off from Redis; a removal racing a handshake | everybody open is served; no listener leaks; order, no duplicates; nothing after a revocation; the removed stay out; whoever missed an event is told |
| Client | overlapping switches; a timer firing during a switch or a logout; loads overtaking one another; a drop during anything | one way back to the board at a time, and never none; a drop ends in a new connection and a refetch |
| Invite dialog | searches that overtake one another; answers to a dialog that was closed, or that holds something else by now | older answers never overwrite; a closed dialog is quiet; whoever is named is invited; searches settle |

`PROJECT.json` lists every hazard at its line, with the property that watches it or the reason there is none.

## 2. The modules

| Module | What it is |
|---|---|
| `Access` | the three roles and their order (`ROLE_RANK`, the comparison in `authorize_board`) |
| `Membership` | abstract: what member requests promise about `board_members`, each request one step |
| `BoardStore` | abstract: what task and list requests promise about `tasks`, each commit one step |
| `TaskWrites` | the five task and list endpoints, one action per SQL statement; its environment is `Membership` |
| `Members` | the four member endpoints, one action per SQL statement, `GET /boards/{id}` with its cache, and `cleanup.py`; implements `Membership` |
| `RateLimiter` | the counter of the rate limiter and Redis' clock |
| `Pools` | threads and connections of one instance, and the shape of its requests |
| `UserSearch` | `GET /users/search` as an operator over the table, whose steps are those of `Membership` |
| `Realtime` | endpoint coroutines, connection manager, listener and Redis, one action per stretch between awaits |
| `Client` | the browser client's board, one action per stretch between awaits |
| `InviteSearch` | the browser client's invite dialog, in the same way |
| `TaskWritesProofs`, `MembersProofs`, `RealtimeProofs`, `ClientProofs`, `RateLimiterProofs`, `PoolsProofs`, `UserSearchProofs`, `InviteSearchProofs` | theorems about these modules |
| `MC...` | instances for TLC |

`TaskWrites` and `Members` are the two halves of the REST side. They share the table of roles: `Members` shows in
detail that concurrent member requests do no more than `Membership` allows, and `TaskWrites` lets the roles
change at any moment by the steps of `Membership` (on boards that exist). `Realtime` takes from both only that
events are published, in any order and number, and that a removal is committed before its event is.
`Client` and `InviteSearch` take from the server only that answers, failures, events and closes come at any time.
`UserSearch` evaluates its query on every table that the steps of `Membership` reach. `RateLimiter` and `Pools`
stand alone: the first guards the entry of two endpoints, the second says what all endpoints hold while they run,
and none of their data.

### TaskWrites

A worker is a thread with one request. `pc[w]` names the SQL statement it executes next, `board[w]` is the local
`board_id`. `Begin` takes a request; `Lookup` is the first SELECT of `get_authorized_list` or
`get_authorized_task`; `Authorize` is `authorize_board`; `Target` and `AuthorizeTarget` are lines 33-37 of
`tasks.py`; the five writes are `InsertTask`, `CompareAndSwap`, `DeleteTask`, `InsertList`, `DeleteList`;
`Conflict` is the SELECT after the rollback; `Refetch` is the read-back after the commit (`.one()`,
`db.refresh`, and the expired `db_list.board_id`), which raises when the row is gone; `Publish` is the background
task. A write and its COMMIT are one action, since the row locks of the write keep every other writer out until
the commit and nothing uncommitted is visible. Foreign keys and ON DELETE CASCADE are part of the writes.
A row that is deleted keeps its version in `row`, so that versions and boards of deleted tasks can be spoken of; its id is
never drawn again. `wins` and `unannounced` are history and guard nothing.

### Members

The same layout. A handler that changes or removes a member loads the row (`Target`) and later writes by its
primary key (`UpdateRole`, `DeleteMember`), so rows carry ids: a user who is removed and added again has a new
one. A DELETE that finds no row only warns and the event is published all the same; an UPDATE that finds none
raises; an UPDATE to the role the session has loaded is not sent at all (`Unmodified`). `FindOwned` and `Wipe`
are the two transactions' worth of `clean_user_data`: what it read, and its commit.

`GET /boards/{id}` is the operation "get": `Authorize`, then `AskCache`, `LoadBoard` and `FillCache`, one for each
await, with `RedisFails` and `Expire`. Nothing deletes an entry, so `cached` outlives boards and memberships.
`welcome` is history: the requests whose caller has been a member at some time while they ran.

### Realtime

One board. `conn[c]` is where the endpoint coroutine of a handshake is, `registered[i]` is
`manager.active_connections`, `listener[i]` is where `subscribe_to_channel` is, `todo[i]` are the connections
that the `disconnect_user` loop or the gather of `broadcast` has still to serve, `chan[i]` is what Redis has sent
and the instance has not read. A SUBSCRIBE is in force when Redis executes it (`Confirm`), not when
`subscribe()` returns. Each `send_text` of a gather is a step (`Send`). Cancelling the listener (`CancelListener`) stops whatever it was
doing. `published`, `last` and `stale` record what was published and what each client has had, and `banned` the
sockets and handshakes that a removal delivered to their instance must keep out.

### Client

`ws`, `timer`, `retrying`, `board` and `token` are the page's variables; `sock[s]` is a WebSocket object, which
lives on after `ws` has moved to another; `call[k]` is an async function waiting for a fetch. `Disconnect`,
`Connect`, `Logout` and `SwitchBoard` are the functions of these names, and the actions are made of them as the
handlers are. The state of a board on the server is a version; the screen shows the lists of one board and tasks
of one version. The role, the dialogs and the length of delays are left out. Ids of boards chosen by the
server (the first of the list, a session that has expired) are any. `stranded` is history: the server failed to
answer, or refused, when the client asked where to go on, or `leaveBoard` failed after it had closed the socket: in its DELETE, or before
it, when the user is not among the members (`NotAmongMembers`).

### RateLimiter

The pipeline of `__call__` is MULTI ... EXEC, so `Request(k)` is one step: `SetNX`, `Incremented`, `Allows`. Time is
`ttl[k]`, what is left of the expiry of a key, and `Tick` lets it pass for all keys at once. `age[k]` is history: how
long ago the latest requests that were let through came. The count stops at `Limit + 1`, as all refused requests are
alike; a later refusal in a window changes nothing then. `RefusalsAreEarned` is therefore an invariant about every moment
at which a request would be refused (`Refuses`), not about the steps that refuse.

### Pools

A request is some visits to the threadpool: `Enter` queues for a thread, `TakeThread` hands one over, `CheckOut` takes
a connection unless the session has one (`HasConnection`), `Leave` gives the thread back and keeps the connection,
`Commit` gives the connection back and asks for one again (the read after a commit or a rollback), `TimeOut` is the
`pool_timeout` of SQLAlchemy, `Close` the `finally` of `get_db`, which runs when everything else is over. A handshake is one
visit, and `Authorize` returns its connection before the socket opens. `Close` waits for no thread: FastAPI runs the
exit of a generator dependency with a limiter of its own.

### UserSearch

`Search(table, u, query, b)` is what `GET /users/search` answers to `u`: `Shared` is the self-join, `Rank` the coalesced
count, `Before` the ORDER BY, `Found` the WHERE clause, `Refused` the check of the role. The prefix is the set of users
it matches. The query is one statement, and so one look at the table; the check of the role before it is another,
which `TaskWrites` and `Members` have in general.

### InviteSearch

`timer` is the debounce timer with the query it will search for, `searches` are the calls of `searchUsers` that await
something. `Abort` takes the newest out, since an aborted fetch rejects before anything else runs; one that was
reading the body of an error is caught by `ensureOk` and draws its error then (`RenderAfterAbort`). A search may be due or
under way while the user chooses somebody or an earlier invitation is answered, and goes on.

## 3. The runs

| Run | Asks | States | Shows |
|---|---|---|---|
| `MCTaskWrites` | `TypeOK`, `NoOrphanTasks`, `OneWinnerPerVersion`, `AuthorizedBoardIsCurrent`, `AnswersAreNewer`, `ChangesGetAnnounced`, `ImplementsBoardStore` | 847 thousand | two concurrent requests, two boards, three lists, three versions, roles changing all the time |
| `MCMembers` | `TypeOK`, `OneOwner`, `ChangesGetAnnounced`, `ImplementsMembership`, `ChangesAreTheOwners` | 339 thousand | two concurrent member requests about three users, and the cache |
| `MCMembersWipe` | `NoDanglingRows`, `ShownToMembers`, `OwnersAreForLife` | 1.3 million | the same with two users, either of whom may be wiped at any time |
| `MCRateLimiter` | `TypeOK`, `BurstsAreBounded`, `RefusalsAreEarned` | 31 thousand | two keys, three requests in four units of time |
| `MCPools` | `TypeOK`, `ConnectionsComeBack`, `EveryRequestEnds` (fair) | 220 thousand | four requests or sockets, two threads, one connection |
| `MCUserSearch` | `NothingForeignShows`, `CollaboratorsFirst` | 12 thousand | every search of four users over every table with two boards |
| `MCRealtime` | `TypeOK`, `OpenSocketsAreServed`, `ListenersHaveViewers`, `DeliveredInOrder`, `NothingAfterRevocation`, `RemovedStayOut` | 3.0 million | three handshakes of two users on one instance, two events, one fault |
| `MCRealtimeFair` | `NoEventIsForgotten`, `RevocationTakesEffect` (fair) | 86 thousand | two sockets of one user, two events, one fault |
| `MCRealtimeGap` | `GapsAreFilled` | | **violated**: see section 6 |
| `MCClient` | `TypeOK`, `OneWayBack`, `AlwaysAWayBack`, `RefetchAfterDrop`, `DropsRecover` (fair) | 325 thousand | two moves of a user, two boards, two overlapping calls, one change, two faults |
| `MCInviteSearch` | `OlderNeverOverwrites`, `ClosedIsQuiet`, `InvitesWhomItNames`, `SearchSettles` (fair) | 4 thousand | a prefix, two users, two invitations at a time |
| `MCClientStale` | `LaterEventHeals` | | **violated**: see section 6 |

For every property of a passing run there is a mutant of a definition, kept beside it and marked as such, that
breaks the property on the run's own instance: a condition left out of a WHERE clause, a version not bumped, a
cascade missing, a listener stopped by anyone who leaves, a timer not cleared.

### Bounds, and why they are enough

* Two workers: every hazard of the REST side that we know of is a race of two requests; a third request finds
  what the first left behind, because a worker starts again when it is done. What depends on the number of
  requests, one winner per version, is proved for any number.
* `MaxVersion` 2 or 3 lets a task be updated twice, so that a stale version exists beside the current one and the one before it. No
  request names a version as high as the bound, so it never cuts a step short.
* `MaxRows` 2: a user can be removed and added once more, which is what makes a loaded row stale.
* `MCTaskWrites` starts with a list on each of two boards and no task: one more list and one task can be created, which
  is what a move within a board, a move across boards and a deletion under a writer take.
* `RateLimiter`: with three requests in four units a window can be full before it ends and can end before it is full,
  and its history reaches back over two windows. Two keys show that they do not disturb one another. The
  properties are proved for every limit and window.
* `Pools`: one connection, two threads and four requests are the least with which a request that holds the connection
  queues for a thread while both threads wait for the connection, and somebody else arrives. `MaxVisits` 3 is
  a request with dependency, endpoint and one more call, as `get_board` has.
* `UserSearch`: with four users and a limit of two, the searcher, somebody cut off and somebody ahead differ. Proved for all.
* One instance in `Realtime`: instances share only the channel, every invariant is about a single one of them, and events
  are published by an environment that stands for all. Three handshakes let one socket connect while another
  leaves and a third is served. Two events give order a meaning; one fault covers
  a lost connection, a refused one and a lost removal.
* `MaxMoves` 2 in `Client` is a login with a choice of board, an event or a logout after it; the switches that the
  login's own load or a refusal (4403) starts come on top, and overlap with the user's. (With three moves and one
  fault the same properties hold; 810 thousand states, two minutes.) Two calls overlap at a time, which is what
  overtaking needs; two faults are a drop and a failed reconnect. The refuted properties are shown with three moves.
* Symmetry is used only where no liveness property is checked, over sets whose elements are interchangeable in the instance.

Deadlock is checked for the REST side, whose threads always take another request, except in the wipe run, where
all accounts can be gone, and for the rate limiter, the pools, the search and the dialog. In `Realtime` and `Client` the handshakes, events and moves that the bounds allow run out.

### Fairness

* `TaskWrites`, `Members`, `RateLimiter` and `UserSearch` are checked for safety only, and nothing is assumed. That a
  committed change is announced is an invariant: somebody who is about to publish exists (`ChangesGetAnnounced`).
* `Pools`: each request that can go on does (`WF` of `Step(r)`): statements end, the event loop runs what is ready, and
  SQLAlchemy gives up after `pool_timeout` (30 seconds unless set, and it is not). The pool itself is not fair.
  Requests need not come and sockets need not close.
* `InviteSearch`: the timer fires, since typing pauses, and a fetch ends. Nothing else is assumed of the user.
* `Realtime`: the event loop runs each coroutine that can run, background tasks run, and a send ends one way or the other,
  since the server's ping timeout closes a socket that does not answer. Nothing is assumed of
  Redis: its confirmation may never come. Clients need not connect or leave.
* `Client`: fetches and handshakes end, timers fire, and the event loop runs what is ready. Nothing is assumed of the user.

## 4. What is proved

Every safety invariant, every action property and both refinements that the passing runs check are theorems. They
hold for any values of the constants: any number of workers, users, boards, lists, tasks, requests, instances, sockets,
overlapping calls, threads and connections, and any limit, window and bound.

| Module | Theorem | States |
|---|---|---|
| `TaskWritesProofs` | `TypeCorrect` | `Spec => []TypeOK` |
| | `WinnersAreUnique` | `Spec => []OneWinnerPerVersion`: each version of a task is taken by exactly one accepted update |
| | `TasksHaveLists` | `Spec => []NoOrphanTasks` |
| | `AuthorizationHolds` | `Spec => []AuthorizedBoardIsCurrent` |
| | `AnswersHelp` | `Spec => []AnswersAreNewer` |
| | `ChangesAnnounced` | `Spec => []ChangesGetAnnounced` |
| | `Refines` | `Spec => ImplementsBoardStore`: every step is a step of `BoardStore` or changes no task |
| `MembersProofs` | `TypeCorrect`, `NothingDangles` | `TypeOK` and `NoDanglingRows`, whatever the wipe script does |
| | `ShownOnlyToMembers` | the action property `ShownToMembers`, wipes included |
| | `OwnersForLife` | the action property `OwnersAreForLife`, wipes included |
| | `PermissionsLast` | the action property `ChangesAreTheOwners`, wipes included |
| | `OwnersAreUnique` | `OneOwner`, when nobody is wiped |
| | `Refines` | `Spec => ImplementsMembership`, when nobody is wiped |
| | `ChangesAnnounced` | `ChangesGetAnnounced`, when nobody is wiped |
| `RealtimeProofs` | `TypeCorrect` | `TypeOK` |
| | `SocketsAreServed`, `ListenersAreWatched` | `OpenSocketsAreServed`, `ListenersHaveViewers`, on any number of instances |
| | `EventsInOrder` | `DeliveredInOrder` |
| | `RevocationIsFinal`, `RemovedStaysOut` | `NothingAfterRevocation`, `RemovedStayOut` |
| `ClientProofs` | `TypeCorrect` | `TypeOK` |
| | `OneWayAtATime`, `WayBackRemains` | `OneWayBack`, `AlwaysAWayBack` |
| | `DropsAreRefetched` | `RefetchAfterDrop` |
| `RateLimiterProofs` | `TypeCorrect`, `BurstsBounded`, `RefusalsEarned` | `TypeOK`, `BurstsAreBounded`, `RefusalsAreEarned` |
| `PoolsProofs` | `TypeCorrect`, `NoConnectionIsStuck` | `TypeOK` (with it the limits of threads and connections) and `ConnectionsComeBack` |
| `UserSearchProofs` | `NothingForeign`, `CollaboratorsComeFirst` | `NothingForeignShows`, `CollaboratorsFirst` |
| `InviteSearchProofs` | `TypeCorrect`, `OlderStaysAway`, `ClosedAndQuiet`, `InvitedIsNamed` | `TypeOK`, `OlderNeverOverwrites`, `ClosedIsQuiet`, `InvitesWhomItNames` |

The only assumptions on constants are those named in the modules (`TaskAssumption`, `MembersAssumption`,
`ConnAssumption`, `ClientAssumption`, `IdleAssumption`, `LimiterAssumption`, `PoolAssumption`, `SearchAssumption`,
`InviteAssumption`, `NoRoleAssumption`): the types of the constants, that users, boards and
requests are finitely many where they are counted, and that placeholder values are not elements of the sets they stand
beside. TLC evaluates them on the runs. The one hypothesis beyond them is `Cleaned = {}` of three theorems about
`Members`, nobody is wiped: a wipe may leave a board without an owner (section 6), which refutes `OneOwner`, takes
the step away from what `Membership` allows, and removes rows without an event. `MCMembers`, which checks these three
properties, is that instance. What wipes do leave in force about owners is `OwnersAreForLife`.

*The arguments, in short.* `RateLimiter`: of the requests remembered, the latest `LetThrough(k)` came within the window
under way and those before them came before it began (`Windowed`), so no more than `Limit` of the latter are younger
than a window; a request is refused only when the window under way has let `Limit` through, all of them since it began. `Pools`: a request with a connection is only in four places, whoever is queued is in the queue once, and the two
actions that take something look first whether it is left. `InviteSearch`: a search aborts the one before it, so there
is one at most and it is the newest. `UserSearch`: the table without foreign boards gives the same shared boards, the
same members of a board the owner asks about, hence the same order and the same cut, whatever the table holds.

*`TaskWrites`.* `TypeOK` alone is not inductive: that `board[w]` is a board when the role is read needs
`Holds(w)`, what a handler has in its locals at each stage; `TypeInv` is the conjunction. The properties are not
inductive either: what a handler relies on statements after it looked something up is a matter of which ids can
still change. So `Inv` adds `IdsKnown` (the ids of a request are in use, an update names a version the task has
had, and an id that is to be inserted is unused) and `DrawnOnce` (two requests that create draw different ids:
an INSERT under an id in use would reset a version). One lemma says what a step must not do to the others' view
of the tables, `Considerate`: a version never falls, a list keeps its board, a task that stays keeps the board of
its list, and only a drawn id comes into use. `Others` shows that a considerate step keeps the invariant of every
other handler, `Assemble` puts the invariant together, and one lemma per action (`InsertTaskStep`,
`CompareAndSwapStep`, ...) shows that the action is considerate and keeps its own handler's part. An update
refused by its WHERE clause found a version that differs from the one it names, which the task had once, and
versions only grow: so the one that `Conflict` quotes is higher.

`ChangesGetAnnounced` is a promise that passes from hand to hand. A request that has committed is about to read its row back and publish;
if the row is gone the read fails and the promise is broken. `PromiseStep` says who keeps it then: a row that can be
read back is on the writer's board as long as it exists (`BoardCurrent`), so whatever removes it is authorised on that
board and owes an event of its own. For the refinement, `Shown(t)` is the row that `BoardStore` sees; one lemma per
write shows that it makes the matching step of `BoardStore` for one task, and `ShownOtherwise` that every other step shows no change.

*`Members`.* That a row id fits its bound is a count: the ids used for a user on a board and the requests that may still
insert one stay within `MaxRows` (`TypeInv`). A board that is about to be created is
known to no other request (`Fresh`). `NoDanglingRows` follows because each write that adds a row looks at the
foreign keys in the same statement, and a deletion cascades. `Welcomed` says that who got past the check of membership was a member
during the request, and the cache is only read after it. For the owners, `OwnerInv` says, whoever is wiped, that a board has at most one (`FewOwners`), that
who passed the check of a handler under way is still the owner, removes themselves or has been wiped since
(`Permitted`), that the row a handler is about to change or remove is not the owner's (`Targeted`), and that a board which
a wipe has found has no owner but the one being wiped (`Found`): otherwise the deletion of that board would take another
user's. This is inductive because only `CreateBoard` makes an owner, on a board nobody else knows, a request cannot ask
for the role (`WriteEffect`), and a wipe deletes the boards it found and no other rows than its user's
(`WipeEffect`, `OwnersStep`). When nobody is wiped, each board in addition has an owner (`BoardsOwned`). Hence each write is
a step of `Membership` by the owner or by the user who leaves, and every other step leaves the roles alone.

*`Realtime`.* `TypeOK` needs the count of events: those published and the removals that wait for publication fit the bound
(`Counted`). Then three conjuncts per instance. `Registry`: what the manager has registered, what a broadcast has still to
send to and which sends failed are endpoints of this instance in the right states, so a coroutine that
leaves finds the registry as it was. `Ordered`: the channel is sorted and newer than the event being delivered, which is at
least as new as what any socket has had, and strictly newer for those still to be sent to. `Barred`: a banned handshake is not past its check, its
user is no member, and if its socket is still open the listener is closing it. A step of one instance leaves the conjuncts of the others alone.

*`Client`.* `OneWayBack` and `AlwaysAWayBack` are nearly inductive. `LoadsOK` is added because an answer carries a
version of the board its call names. `RefetchAfterDrop` is not inductive at all: it needs `Recovering`, that a client that missed something has its
counter set until the new socket opens, and that in turn needs `OthersAreStray`, that a socket which opens and is not in
`ws` was overwritten; it is such a socket that resets the counter too early. `WayKept` is what each action must
see to so that `Observe` keeps `AlwaysAWayBack`: a client that goes off the air has a call that
ends in a connection, or the function that failed was to lead to a board or leave one (`Strands`).

What is model-checked only: the properties under fairness (`EveryRequestEnds`, `NoEventIsForgotten`, `RevocationTakesEffect`,
`DropsRecover`, `SearchSettles`), since liveness and `ENABLED` are beyond the prover, and of course the two properties
that are refuted. What is only proved: `TypeOK` of `InviteSearch`; `OlderNeverOverwrites` of its run depends on the one part of
it that is not about types, that one search at most is awaited.

## 5. What is not modelled

* Crashes of a REST process between commit and publish, and a read-back that finds no connection in time: for
  removals in `Realtime` (`LoseRemoval`); in `TaskWrites` and `Members` a loss of that kind would make
  `ChangesGetAnnounced` false, as the README's trade-offs say of it. `Pools` shows when the latter can happen.
* Deadlocks of row locks in PostgreSQL: each handler writes one row, and DELETE of a list locks a parent and its
  children in the order of its own cascade; two such requests at worst wait.
* Signup is the check-then-insert under a unique constraint that `Members` has for memberships, and login only reads.
  A token is valid or not; that it names a user by name, and that accounts come and go, is left out (`Members` lets accounts
  go).
* Health runs two probes at once, each bounded by a timeout, and keeps no state; its database probe is a visit like that of
  a handshake in `Pools`. Celery's job has no state. Configuration and assembly are constants and wiring, migrations
  run offline, and the load test measures.
* Read endpoints other than `GET /boards/{id}` and the search: one SELECT with the checks that `Lookup` and `Authorize`
  model; their answers are the `Answer` of `Client`.
* What Redis and SQLAlchemy promise is taken from how the code uses them: MULTI ... EXEC runs at one instant, keys
  expire, one connection of the pool is held by one session, and `pool_timeout` raises.
* In the client: the other forms and dialogs, the member list, roles on display, drag and drop as such (a move that the
  server refused reloads the tasks, `TaskNotSaved`). The invite dialog stays on one board.
* Wipes are steps of `Members` only: that a list cannot be inserted on a board that was wiped after the check
  (`lists.py:15-19`, the foreign key refuses it) is left out of `TaskWrites`, where boards stay.
* Versions that a client makes up: an update names a version its task has had (`Sensible`), as the client of this repository
  does. A made-up higher one would get a 409 that quotes a lower version, and `AnswersAreNewer` is about the others.
* A listener that ends by an exception the code does not catch (`done()` in `websocket.py:45`): each instance has one slot for a
  listener, and two at once cannot be expressed.
* Payloads, titles, wording, the length of timeouts and backoffs.

## 6. Where the code and its documentation differ

| Run | The documentation | The code |
|---|---|---|
| `MCRealtimeGap` | "clients refetch anything they missed" (`README.md:10`) | an event that Redis executes before the instance's first SUBSCRIBE, or between a resync and the SUBSCRIBE that it announces, reaches nobody there, and no resync follows |
| `MCClientStale` | "any later event brings it fully up to date" (`README.md:53`) | `loadTasks` draws whatever answer arrives; an older one that arrives last stays on the screen until the next event |

Three more are visible in the models, and a property of a passing run says exactly what holds instead:

* "every change is published to it" (`README.md:31`): a request whose row is deleted between its commit and the read
  after it answers 500 and publishes nothing. `ChangesGetAnnounced`: the deletion's own event then follows, so viewers
  still refetch.
* "a removed user's sockets are closed wherever they are connected, before this or any later event can reach them"
  (`broadcast_service.py:36-37`): a handshake authorised before the removal was committed may register after the
  removal was delivered, and stays. `RemovedStayOut`: a handshake that was not past its check when its instance took
  up the removal never opens a socket, and the sockets that were open are closed.
* "Closed on purpose (board switch or logout) and already replaced" (`app.js:841`): of two overlapping `switchBoard` both
  connect after their await; the first socket is overwritten in `ws`, not closed, and goes on handling events.
  `OneWayBack` speaks of the socket in `ws`. Adding `NoStraySockets` to `MCClientStale.cfg` as an invariant shows the
  overlap.

Some hazards have no property because the code does not exclude them and the documentation only claims more than
that in passing: a role that changes between the check and the write, a removal event that is lost or that
arrives after a new invitation, a board left without an owner by a wipe, a read-back that finds no connection. They are
in `PROJECT.json` with a note. `OneOwner` is checked without the wipe for this reason, and `OwnersAreForLife` with it.

## 7. Plan

Done: `TaskWrites` first, as the core of the system, with `BoardStore`; then `Members` with `Membership`, `Realtime`,
`Client`; then the cache in `Members`, `RateLimiter`, `Pools`, `UserSearch` and `InviteSearch`; and the proofs of all
their safety properties.

Left to do: upkeep, as the code changes.
