-------------------------------- MODULE Client --------------------------------
(***************************************************************************)
(* The browser client (frontend/app.js): its WebSocket with the reconnect *)
(* timer, and the loads that fill the screen.                             *)
(*                                                                         *)
(* JavaScript runs a function up to its next await without interruption,  *)
(* so an action is what runs between two awaits.  A call is an async      *)
(* function that waits for the answer to a fetch; any number of them      *)
(* overlap, and answers come in any order.  The server may refuse or close *)
(* a socket at any time.  Of the lists and tasks of a board only a version *)
(* remains; the role, the member dialog and the delays are left out.       *)
(***************************************************************************)
EXTENDS Naturals

CONSTANTS
    Boards, Sockets, Calls,   \* Sockets and Calls bound what is open at once
    MaxMoves,                 \* bound on what the user does and the events that arrive
    MaxChanges,               \* bound on the changes to a board
    MaxFaults,                \* bound on failed fetches and sockets lost or refused
    NoBoard, NoSocket, Idle

ASSUME ClientAssumption ==
    /\ NoBoard \notin Boards /\ NoSocket \notin Sockets
    /\ MaxMoves \in Nat /\ MaxChanges \in Nat /\ MaxFaults \in Nat

VARIABLES
    version,    \* version[b]: the state of board b on the server
    token,      \* currentToken is set
    board,      \* currentBoardId
    ws,         \* the socket in the variable ws
    sock,       \* sock[s]: state of a WebSocket object and the board of its URL
    retrying,   \* reconnectAttempts > 0
    timer,      \* reconnectTimer is armed
    call,       \* call[k]: an async function that waits, or Idle
    columns,    \* the board whose lists are on the screen
    cards,      \* the version of the tasks on the screen, 0 for none
    heard,      \* history: version of the board when its last event was handled
    missed,     \* history: ws was lost, and no refetch has been started on a new one
    stray,      \* history: ws was overwritten without being closed
    stranded,   \* history: off the air since a function failed that was to lead to a board
    moves, faults

net    == <<ws, sock, retrying, timer, stray>>
screen == <<columns, cards>>
bounds == <<moves, faults>>
most   == <<version, token, board, net, call, screen, heard, missed, bounds>>
vars   == <<most, stranded>>

\* "leaving": the GET of leaveBoard; "left": its DELETE.
Functions == {"loadBoards", "loadLists", "loadTasks", "reloadBoardUI",
              "refreshBoardAccess", "leaving", "left"}

Versions == 0..(MaxChanges + 1)

\* seen is the version that the answer carries.
CallRecords == [fn : Functions, board : Boards \cup {NoBoard},
                state : {"sent", "answered", "failed"}, seen : Versions]

ASSUME IdleAssumption == Idle \notin CallRecords

SocketStates == {"unused", "connecting", "open", "closing"}

TypeOK ==
    /\ version \in [Boards -> Versions]
    /\ token \in BOOLEAN /\ retrying \in BOOLEAN /\ timer \in BOOLEAN
    /\ board \in Boards \cup {NoBoard}
    /\ ws \in Sockets \cup {NoSocket}
    /\ sock \in [Sockets -> [state : SocketStates, board : Boards \cup {NoBoard}]]
    /\ call \in [Calls -> CallRecords \cup {Idle}]
    /\ columns \in Boards \cup {NoBoard} /\ cards \in Versions
    /\ heard \in Versions
    /\ missed \in BOOLEAN /\ stray \in BOOLEAN /\ stranded \in BOOLEAN
    /\ moves \in 0..MaxMoves /\ faults \in 0..MaxFaults
    /\ ws # NoSocket => sock[ws].state \in {"connecting", "open"}

Init ==
    /\ version = [b \in Boards |-> 1]
    /\ token = FALSE /\ board = NoBoard
    /\ ws = NoSocket
    /\ sock = [s \in Sockets |-> [state |-> "unused", board |-> NoBoard]]
    /\ retrying = FALSE /\ timer = FALSE /\ stray = FALSE
    /\ call = [k \in Calls |-> Idle]
    /\ columns = NoBoard /\ cards = 0
    /\ heard = 0 /\ missed = FALSE /\ stranded = FALSE
    /\ moves = 0 /\ faults = 0

-----------------------------------------------------------------------------
(* The parts that handlers are made of *)

\* fetch in slot k, by function fn for board b; nothing without a board.
Fetch(fn, b) == [fn |-> fn, board |-> b, state |-> "sent", seen |-> 0]

Start(k, fn, b) == call' = [call EXCEPT ![k] = Fetch(fn, b)]

StartIfBoard(k, fn, b) ==
    call' = [call EXCEPT ![k] = IF b = NoBoard THEN Idle ELSE Fetch(fn, b)]

Return(k) == call' = [call EXCEPT ![k] = Idle]

Closing == IF ws = NoSocket THEN sock ELSE [sock EXCEPT ![ws].state = "closing"]

\* Mutant: the reconnect timer is not cleared.
DisconnectKeepsTimer ==
    /\ retrying' = FALSE
    /\ ws' = NoSocket /\ sock' = Closing
    /\ UNCHANGED <<timer, stray>>

\* Mutant: ws still names the socket that was closed.
DisconnectKeepsSocket ==
    /\ timer' = FALSE /\ retrying' = FALSE
    /\ sock' = Closing
    /\ UNCHANGED <<ws, stray>>

\* disconnectWebSocket
Disconnect ==
    /\ timer' = FALSE /\ retrying' = FALSE
    /\ ws' = NoSocket /\ sock' = Closing
    /\ UNCHANGED stray

\* connectWebSocket
Connect ==
    /\ timer' = FALSE
    /\ IF board = NoBoard \/ ~token
         THEN UNCHANGED <<ws, sock, stray>>
         ELSE \E s \in Sockets :
                /\ sock[s].state = "unused"
                /\ sock' = [sock EXCEPT ![s] = [state |-> "connecting", board |-> board]]
                /\ ws' = s
                /\ stray' = (stray \/ ws # NoSocket)
    /\ UNCHANGED retrying

\* logout
Logout ==
    /\ token' = FALSE /\ board' = NoBoard
    /\ Disconnect
    /\ heard' = 0 /\ missed' = FALSE

\* switchBoard up to its await, in slot k.
SwitchBoard(k, b) ==
    /\ board' = b
    /\ Disconnect
    /\ Start(k, "loadLists", b)
    /\ heard' = 0 /\ missed' = FALSE

Fault == faults < MaxFaults /\ faults' = faults + 1 /\ UNCHANGED moves

Move == moves < MaxMoves /\ moves' = moves + 1 /\ UNCHANGED faults

-----------------------------------------------------------------------------
(* The user *)

\* login or createBoard has succeeded: both go on with loadBoards.  The user of
\* createBoard may have logged out since.
LoadBoards(k) ==
    /\ Move /\ call[k] = Idle
    /\ token' \in {TRUE, token}
    /\ Start(k, "loadBoards", NoBoard)
    /\ UNCHANGED <<version, board, net, screen, heard, missed>>

ConfirmLogout ==
    /\ Move /\ token
    /\ Logout
    /\ UNCHANGED <<version, call, screen>>

\* A choice in the list of boards.
Choose(k, b) ==
    /\ Move /\ token /\ call[k] = Idle /\ board # NoBoard
    /\ SwitchBoard(k, b)
    /\ UNCHANGED <<version, token, screen>>

\* leaveBoard first looks up the user's id among the members.
LeaveBoard(k) ==
    /\ Move /\ token /\ call[k] = Idle /\ board # NoBoard
    /\ Start(k, "leaving", board)
    /\ UNCHANGED <<version, token, board, net, screen, heard, missed>>

\* A task moved or edited could not be saved, and the tasks are loaded again.
TaskNotSaved(k) ==
    /\ Move /\ call[k] = Idle /\ board # NoBoard
    /\ Start(k, "loadTasks", board)
    /\ UNCHANGED <<version, token, board, net, screen, heard, missed>>

-----------------------------------------------------------------------------
(* The server *)

Change(b) ==
    /\ version[b] <= MaxChanges
    /\ version' = [version EXCEPT ![b] = @ + 1]
    /\ UNCHANGED <<token, board, net, call, screen, heard, missed, bounds>>

Answer(k) ==
    /\ call[k] # Idle /\ call[k].state = "sent"
    /\ call' = [call EXCEPT ![k].state = "answered",
                            ![k].seen = IF call[k].fn \in {"loadTasks", "reloadBoardUI"}
                                          THEN version[call[k].board] ELSE 0]
    /\ UNCHANGED <<version, token, board, net, screen, heard, missed, bounds>>

\* The network or the server fails, or the answer is an error.
Fail(k) ==
    /\ Fault
    /\ call[k] # Idle /\ call[k].state = "sent"
    /\ call' = [call EXCEPT ![k].state = "failed"]
    /\ UNCHANGED <<version, token, board, net, screen, heard, missed>>

-----------------------------------------------------------------------------
(* An async function goes on after its await *)

Resumes(k, fn) == call[k] # Idle /\ call[k].fn = fn /\ call[k].state # "sent"

Answered(k, fn) == Resumes(k, fn) /\ call[k].state = "answered"

\* Functions that only report the failure; leaveBoard's DELETE is among them.
GiveUp(k) ==
    /\ call[k] # Idle /\ call[k].state = "failed" /\ call[k].fn # "loadLists"
    /\ Return(k)
    /\ UNCHANGED <<version, token, board, net, screen, heard, missed, bounds>>

\* The user's first board, or none.  A session that has expired ends here (401).
BoardsLoaded(k) ==
    /\ Answered(k, "loadBoards")
    /\ \/ \E b \in Boards : SwitchBoard(k, b) /\ UNCHANGED <<token, screen>>
       \/ /\ board' = NoBoard /\ columns' = NoBoard /\ cards' = 0
          /\ Disconnect /\ Return(k)
          /\ heard' = 0 /\ missed' = FALSE
          /\ UNCHANGED token
       \/ Logout /\ Return(k) /\ UNCHANGED screen
    /\ UNCHANGED <<version, bounds>>

\* loadLists returns to switchBoard, with or without lists; it connects to what is
\* the current board by now and starts loadTasks.
ListsLoaded(k) ==
    /\ Resumes(k, "loadLists")
    /\ IF call[k].state = "answered"
         THEN columns' = call[k].board /\ cards' = 0
         ELSE UNCHANGED screen
    /\ Connect
    /\ StartIfBoard(k, "loadTasks", board)
    /\ UNCHANGED <<version, token, board, heard, missed, bounds>>

\* renderTasks: the lists on the screen are emptied, and a task is shown where its
\* list is on the screen.
TasksLoaded(k) ==
    /\ Answered(k, "loadTasks")
    /\ cards' = IF call[k].board = columns THEN call[k].seen ELSE 0
    /\ Return(k)
    /\ UNCHANGED <<version, token, board, net, columns, heard, missed, bounds>>

Reloaded(k) ==
    /\ Answered(k, "reloadBoardUI")
    /\ columns' = call[k].board /\ cards' = call[k].seen
    /\ Return(k)
    /\ UNCHANGED <<version, token, board, net, heard, missed, bounds>>

\* When the role on the current board has changed the board is drawn again.
AccessRefreshed(k) ==
    /\ Answered(k, "refreshBoardAccess")
    /\ Return(k) \/ StartIfBoard(k, "reloadBoardUI", board)
    /\ UNCHANGED <<version, token, board, net, screen, heard, missed, bounds>>

\* The socket is closed before the DELETE is sent.
MembersLooked(k) ==
    /\ Answered(k, "leaving")
    /\ Disconnect
    /\ Start(k, "left", board)
    /\ missed' = FALSE
    /\ UNCHANGED <<version, token, board, screen, heard, bounds>>

\* The user is not among the members: removed by now, or logged in under another name.
\* The socket is closed before the id of nobody raises.
NotAmongMembers(k) ==
    /\ Fault
    /\ Answered(k, "leaving")
    /\ Disconnect
    /\ Return(k)
    /\ missed' = FALSE
    /\ UNCHANGED <<version, token, board, screen, heard>>

BoardLeft(k) ==
    /\ Answered(k, "left")
    /\ Start(k, "loadBoards", NoBoard)
    /\ UNCHANGED <<version, token, board, net, screen, heard, missed, bounds>>

-----------------------------------------------------------------------------
(* Socket events *)

\* onopen: after a drop the whole board is fetched again.
Opened(s, k) ==
    /\ sock[s].state = "connecting" /\ call[k] = Idle
    /\ sock' = [sock EXCEPT ![s].state = "open"]
    /\ retrying' = FALSE
    /\ IF retrying
         THEN StartIfBoard(k, "reloadBoardUI", board)
         ELSE UNCHANGED call
    /\ missed' = (missed /\ ~(retrying /\ s = ws))
    /\ UNCHANGED <<version, token, board, ws, timer, stray, screen, heard, bounds>>

\* onmessage: task events, list events and resyncs, member events.
Message(s, k) ==
    /\ Move /\ sock[s].state = "open" /\ call[k] = Idle
    /\ \E fn \in {"loadTasks", "reloadBoardUI", "refreshBoardAccess"} :
        /\ StartIfBoard(k, fn, board)
        /\ heard' = IF s = ws /\ fn # "refreshBoardAccess" THEN version[board] ELSE heard
    /\ UNCHANGED <<version, token, board, net, screen, missed>>

Release(s) == sock' = [sock EXCEPT ![s] = [state |-> "unused", board |-> NoBoard]]

\* The server, or the network, closes a socket or refuses its handshake.
Closed(s) == Fault /\ sock[s].state \in {"connecting", "open"} /\ Release(s)

\* Mutant: the timer is set and the attempt is not counted.
ScheduleUncounted == timer' = TRUE /\ UNCHANGED retrying

\* scheduleReconnect
Schedule == timer' = TRUE /\ retrying' = TRUE

\* onclose of an old socket: ignored.
ClosedOther(s) ==
    /\ Closed(s) /\ s # ws
    /\ UNCHANGED <<version, token, board, ws, retrying, timer, stray, call, screen, heard, missed>>

\* Code 4401.  (Nothing is left of logout's disconnectWebSocket: the timer is off.)
ClosedUnauthenticated(s) ==
    /\ Closed(s) /\ s = ws
    /\ token' = FALSE /\ board' = NoBoard
    /\ ws' = NoSocket /\ timer' = FALSE /\ retrying' = FALSE
    /\ heard' = 0 /\ missed' = FALSE
    /\ UNCHANGED <<version, stray, call, screen>>

\* Mutant: a client that was removed goes nowhere.
RemovedGoesNowhere(s, k) ==
    /\ Closed(s) /\ s = ws /\ call[k] = Idle
    /\ ws' = NoSocket
    /\ missed' = FALSE
    /\ UNCHANGED <<version, token, board, retrying, timer, stray, call, screen, heard>>

\* Code 4403.
ClosedNotAMember(s, k) ==
    /\ Closed(s) /\ s = ws /\ call[k] = Idle
    /\ ws' = NoSocket
    /\ Start(k, "loadBoards", NoBoard)
    /\ missed' = FALSE
    /\ UNCHANGED <<version, token, board, retrying, timer, stray, screen, heard>>

\* Mutant: a handshake that fails is not tried again.
DroppedWhenOpen(s) ==
    /\ Closed(s) /\ s = ws
    /\ ws' = NoSocket
    /\ IF sock[s].state = "open" THEN Schedule ELSE UNCHANGED <<timer, retrying>>
    /\ missed' = TRUE
    /\ UNCHANGED <<version, token, board, stray, call, screen, heard>>

\* Any other code.
Dropped(s) ==
    /\ Closed(s) /\ s = ws
    /\ ws' = NoSocket
    /\ Schedule
    /\ missed' = TRUE
    /\ UNCHANGED <<version, token, board, stray, call, screen, heard>>

\* The close that the client asked for completes; onclose finds another ws.
ClosingDone(s) ==
    /\ sock[s].state = "closing"
    /\ Release(s)
    /\ UNCHANGED <<version, token, board, ws, retrying, timer, stray, call, screen,
                   heard, missed, bounds>>

TimerFires ==
    /\ timer
    /\ Connect
    /\ UNCHANGED <<version, token, board, call, screen, heard, missed, bounds>>

-----------------------------------------------------------------------------
Resume(k) ==
    \/ GiveUp(k) \/ BoardsLoaded(k) \/ ListsLoaded(k) \/ TasksLoaded(k) \/ Reloaded(k)
    \/ AccessRefreshed(k) \/ MembersLooked(k) \/ NotAmongMembers(k) \/ BoardLeft(k)

User(k) == LoadBoards(k) \/ LeaveBoard(k) \/ TaskNotSaved(k) \/ \E b \in Boards : Choose(k, b)

Lost(s) == \/ ClosedOther(s) \/ ClosedUnauthenticated(s) \/ Dropped(s)
           \/ \E k \in Calls : ClosedNotAMember(s, k)

\* The client shows a board, and has neither a socket nor a timer to get one.
OffAir == token /\ board # NoBoard /\ ws = NoSocket /\ ~timer

Pending(fns) == \E k \in Calls : call[k] # Idle /\ call[k].fn \in fns

\* The function in slot k fails that was to lead to a board, or to leave one.
Strands(k) ==
    \/ call[k] # Idle /\ GiveUp(k) /\ call[k].fn \in {"loadBoards", "left"}
    \/ NotAmongMembers(k)

Observe ==
    stranded' = /\ OffAir' /\ ~Pending({"loadLists"})'
                /\ stranded \/ \E k \in Calls : Strands(k)

Next ==
    /\ \/ ConfirmLogout \/ TimerFires
       \/ \E b \in Boards : Change(b)
       \/ \E k \in Calls : User(k) \/ Answer(k) \/ Fail(k) \/ Resume(k)
       \/ \E s \in Sockets : \/ Lost(s) \/ ClosingDone(s)
                             \/ \E k \in Calls : Opened(s, k) \/ Message(s, k)
    /\ Observe

Spec == Init /\ [][Next]_vars

\* Fetches and handshakes end, timers fire, and the event loop runs what is ready.
Fairness ==
    /\ WF_most(TimerFires)
    /\ \A k \in Calls : WF_most(Answer(k)) /\ WF_most(Resume(k))
    /\ \A s \in Sockets : WF_most(ClosingDone(s)) /\ WF_most(\E k \in Calls : Opened(s, k))

FairSpec == Spec /\ Fairness
-----------------------------------------------------------------------------
(* Properties *)

\* The client has one way back to its board at a time: the socket in ws belongs to
\* the board on display and a session, and the reconnect timer runs only without a
\* socket, however switches, drops, logouts and pending loads interleave; a timer
\* that fires late cannot revive an old board (app.js:808-814, 865-873).
OneWayBack ==
    /\ ws # NoSocket => token /\ board # NoBoard /\ sock[ws].board = board
    /\ timer => token /\ board # NoBoard /\ ws = NoSocket

\* A client on a board is not left without events for good, however drops, refusals,
\* switches and timers interleave: without socket and timer some load is under way
\* that ends in a connection, unless the server failed to answer where to go on, or
\* leaveBoard failed after it had closed the socket (app.js:499-516, 841-856).
AlwaysAWayBack ==
    OffAir => stranded \/ Pending({"loadBoards", "loadLists", "left"})

\* "Events published while we were disconnected are lost, so refetch the whole
\* board after a drop" (app.js:817): when a socket is open again after a drop the
\* refetch has been started.  Sockets that were overwritten spoil this.
RefetchAfterDrop ==
    ws # NoSocket /\ sock[ws].state = "open" /\ ~stray => ~missed

\* A dropped socket recovers on its own (README.md:10, 86): the client connects
\* again and refetches, unless the user goes elsewhere meanwhile.
DropsRecover == missed ~> ~missed \/ stray

\* Refuted: a socket that is not ws was "closed on purpose (board switch or logout)"
\* (app.js:841).  Two switches that overlap both connect after their await, and the
\* first socket stays open.
NoStraySockets == ~stray

\* Refuted: "any later event brings it fully up to date" (README.md:53).  With no
\* load under way and the event of the last change handled, the screen may still show
\* the answer to an older load that arrived last.
LaterEventHeals ==
    (board # NoBoard /\ heard = version[board] /\ \A k \in Calls : call[k] = Idle)
        => columns = board /\ cards = heard
=============================================================================
