---------------------------- MODULE ClientProofs ----------------------------
(***************************************************************************)
(* Proofs about Client: its invariants, by an inductive invariant over the *)
(* sockets, the timer and the calls under way.                             *)
(***************************************************************************)
EXTENDS Client, TLAPS

USE ClientAssumption, IdleAssumption

\* A load of the tasks names a board, whose version its answer carries.
LoadsOK ==
    \A k \in Calls : call[k] # Idle /\ call[k].fn \in {"loadTasks", "reloadBoardUI"}
        => call[k].board \in Boards

\* A socket that is alive and not in ws was overwritten.
OthersAreStray ==
    \A s \in Sockets : sock[s].state \in {"connecting", "open"} /\ s # ws => stray

\* After a drop the client is on its way to a new socket, and knows that it has to
\* refetch; a socket that was overwritten may have made it forget.
Recovering ==
    missed => stray \/ (retrying /\ (ws = NoSocket \/ sock[ws].state = "connecting"))

\* What a set of calls under way may hold.
CallsOK == call \in [Calls -> CallRecords \cup {Idle}] /\ LoadsOK

\* The sockets and the timer.
NetOK ==
    /\ ws \in Sockets \cup {NoSocket}
    /\ sock \in [Sockets -> [state : SocketStates, board : Boards \cup {NoBoard}]]
    /\ retrying \in BOOLEAN /\ timer \in BOOLEAN /\ stray \in BOOLEAN
    /\ ws # NoSocket => sock[ws].state \in {"connecting", "open"}

\* The types of the other variables, but stranded.
RestOK ==
    /\ version \in [Boards -> Versions]
    /\ token \in BOOLEAN /\ board \in Boards \cup {NoBoard}
    /\ columns \in Boards \cup {NoBoard} /\ cards \in Versions /\ heard \in Versions
    /\ missed \in BOOLEAN
    /\ moves \in 0..MaxMoves /\ faults \in 0..MaxFaults

Safe == RestOK /\ CallsOK /\ NetOK /\ OneWayBack /\ OthersAreStray /\ Recovering

Inv == Safe /\ stranded \in BOOLEAN /\ AlwaysAWayBack

LEMMA ZeroIsAVersion == 0 \in Versions
BY DEF Versions

LEMMA InvIsTyped == Inv => TypeOK
BY DEF Inv, Safe, RestOK, CallsOK, NetOK, TypeOK

LEMMA InvInit == Init => Inv
<1> SUFFICES ASSUME Init PROVE Inv
  OBVIOUS
<1>1. RestOK
  <2>1. 0 \in Versions /\ 1 \in Versions /\ 0 \in 0..MaxMoves /\ 0 \in 0..MaxFaults
    BY DEF Versions
  <2>2. version \in [Boards -> Versions]
    BY <2>1 DEF Init
  <2> QED
    BY <2>1, <2>2 DEF Init, RestOK
<1>2. CallsOK
  BY DEF Init, CallsOK, LoadsOK
<1>3. NetOK
  BY DEF Init, NetOK, SocketStates
<1>4. OneWayBack /\ OthersAreStray /\ Recovering
  BY DEF Init, OneWayBack, OthersAreStray, Recovering
<1>5. stranded \in BOOLEAN /\ AlwaysAWayBack
  BY DEF Init, AlwaysAWayBack, OffAir
<1> QED
  BY <1>1, <1>2, <1>3, <1>4, <1>5 DEF Inv, Safe

-----------------------------------------------------------------------------
(* The parts that handlers are made of *)

LEMMA Disconnecting ==
    ASSUME NetOK, Disconnect
    PROVE  /\ NetOK' /\ ws' = NoSocket /\ ~timer' /\ ~retrying' /\ stray' = stray
           /\ \A s \in Sockets : sock'[s].state \in {"connecting", "open"}
                                    => sock'[s] = sock[s] /\ s # ws
BY DEF NetOK, Disconnect, Closing, SocketStates

LEMMA Connecting ==
    ASSUME NetOK, Connect, board \in Boards \cup {NoBoard}
    PROVE  /\ NetOK' /\ ~timer' /\ retrying' = retrying
           /\ \/ /\ board = NoBoard \/ ~token
                 /\ UNCHANGED <<ws, sock, stray>>
              \/ /\ board # NoBoard /\ token /\ ws' \in Sockets
                 /\ sock[ws'].state = "unused"
                 /\ sock'[ws'] = [state |-> "connecting", board |-> board]
                 /\ \A s \in Sockets : s # ws' => sock'[s] = sock[s]
                 /\ stray' = (stray \/ ws # NoSocket)
<1>1. CASE board = NoBoard \/ ~token
  BY <1>1 DEF NetOK, Connect
<1>2. CASE ~(board = NoBoard \/ ~token)
  <2>1. PICK s \in Sockets :
            /\ sock[s].state = "unused"
            /\ sock' = [sock EXCEPT ![s] = [state |-> "connecting", board |-> board]]
            /\ ws' = s
            /\ stray' = (stray \/ ws # NoSocket)
    BY <1>2 DEF Connect
  <2>2. /\ sock'[s] = [state |-> "connecting", board |-> board]
        /\ \A x \in Sockets : x # s => sock'[x] = sock[x]
        /\ sock' \in [Sockets -> [state : SocketStates, board : Boards \cup {NoBoard}]]
    BY <2>1 DEF NetOK, SocketStates
  <2> QED
    BY <1>2, <2>1, <2>2 DEF NetOK, Connect
<1> QED
  BY <1>1, <1>2

\* A call starts, or goes on with another fetch.
LEMMA Starting ==
    ASSUME CallsOK, NEW k \in Calls, NEW fn \in Functions, NEW b \in Boards \cup {NoBoard},
           \/ /\ Start(k, fn, b)
              /\ fn \in {"loadTasks", "reloadBoardUI"} => b # NoBoard
           \/ StartIfBoard(k, fn, b) /\ b # NoBoard
    PROVE  /\ CallsOK' /\ call'[k] # Idle /\ call'[k].fn = fn
           /\ \A x \in Calls : x # k => call'[x] = call[x]
<1>1. call' = [call EXCEPT ![k] = Fetch(fn, b)]
  BY DEF Start, StartIfBoard
<1>2. Fetch(fn, b) \in CallRecords /\ Fetch(fn, b).fn = fn /\ Fetch(fn, b).board = b
  BY DEF Fetch, CallRecords, Versions
<1>3. Fetch(fn, b) # Idle
  BY <1>2
<1>4. /\ call'[k] = Fetch(fn, b) /\ \A x \in Calls : x # k => call'[x] = call[x]
      /\ call' \in [Calls -> CallRecords \cup {Idle}]
  BY <1>1, <1>2 DEF CallsOK
<1>5. LoadsOK'
  BY <1>2, <1>3, <1>4 DEF CallsOK, LoadsOK, StartIfBoard
<1> QED
  BY <1>2, <1>3, <1>4, <1>5 DEF CallsOK

\* A call ends; or there is no board to load.
LEMMA Returning ==
    ASSUME CallsOK, NEW k \in Calls, Return(k) \/ \E fn : StartIfBoard(k, fn, NoBoard)
    PROVE  /\ CallsOK' /\ call'[k] = Idle
           /\ \A x \in Calls : x # k => call'[x] = call[x]
<1>1. call' = [call EXCEPT ![k] = Idle]
  BY DEF Return, StartIfBoard
<1>2. /\ call'[k] = Idle /\ \A x \in Calls : x # k => call'[x] = call[x]
      /\ call' \in [Calls -> CallRecords \cup {Idle}]
  BY <1>1 DEF CallsOK
<1> QED
  BY <1>2 DEF CallsOK, LoadsOK

-----------------------------------------------------------------------------
(* A way back to the board *)

\* The calls that end in a connection.
Ways == {"loadBoards", "loadLists", "left"}

\* What every action but Observe has to see to.
WayKept ==
    OffAir' => \/ Pending(Ways)'
               \/ OffAir /\ ~Pending(Ways)
               \/ \E k \in Calls : Strands(k)

LEMMA Observed ==
    ASSUME AlwaysAWayBack, WayKept, Observe
    PROVE  stranded' \in BOOLEAN /\ AlwaysAWayBack'
<1>1. stranded' \in BOOLEAN
  BY DEF Observe
<1>2. ASSUME OffAir', ~Pending(Ways)' PROVE stranded'
  <2>1. ~Pending({"loadLists"})'
    BY <1>2 DEF Pending, Ways
  <2>2. stranded \/ \E k \in Calls : Strands(k)
    BY <1>2 DEF AlwaysAWayBack, WayKept, Ways
  <2> QED
    BY <1>2, <2>1, <2>2 DEF Observe
<1>3. Pending(Ways)' <=> Pending({"loadBoards", "loadLists", "left"})'
  BY DEF Ways
<1> QED
  BY <1>1, <1>2, <1>3 DEF AlwaysAWayBack

LEMMA OthersPend ==
    ASSUME NEW k \in Calls, \A x \in Calls : x # k => call'[x] = call[x],
           call[k] = Idle \/ call[k].fn \notin Ways, Pending(Ways)
    PROVE  Pending(Ways)'
BY DEF Pending

\* An action that leaves the sockets, the timer, the board and the session alone.
Still == UNCHANGED <<token, board, ws, sock, retrying, timer, stray>>

LEMMA StillKeeps ==
    ASSUME Safe, Still, RestOK', CallsOK', missed' = missed,
           Pending(Ways) => Pending(Ways)' \/ \E k \in Calls : Strands(k)
    PROVE  Safe' /\ WayKept
<1>1. NetOK' /\ OneWayBack' /\ OthersAreStray' /\ Recovering'
  BY DEF Safe, Still, NetOK, OneWayBack, OthersAreStray, Recovering
<1>2. OffAir' = OffAir
  BY DEF Still, OffAir
<1> QED
  BY <1>1, <1>2 DEF Safe, WayKept

-----------------------------------------------------------------------------
(* Actions that leave the socket alone *)

LEMMA Bounded ==
    ASSUME RestOK, Move \/ Fault
    PROVE  moves' \in 0..MaxMoves /\ faults' \in 0..MaxFaults
BY DEF RestOK, Move, Fault

LEMMA LeaveBoardKeeps ==
    ASSUME Safe, NEW k \in Calls, LeaveBoard(k) \/ TaskNotSaved(k)
    PROVE  Safe' /\ WayKept
<1>1. /\ call[k] = Idle /\ board \in Boards
      /\ Start(k, "leaving", board) \/ Start(k, "loadTasks", board)
  BY DEF Safe, RestOK, LeaveBoard, TaskNotSaved
<1>2. CallsOK' /\ \A x \in Calls : x # k => call'[x] = call[x]
  BY <1>1, Starting DEF Safe, Functions
<1>3. RestOK' /\ Still /\ missed' = missed
  BY Bounded DEF Safe, RestOK, LeaveBoard, TaskNotSaved, Still, net, screen
<1> QED
  BY <1>1, <1>2, <1>3, OthersPend, StillKeeps

LEMMA ChangeKeeps ==
    ASSUME Safe, NEW b \in Boards, Change(b)
    PROVE  Safe' /\ WayKept
<1>1. version' \in [Boards -> Versions]
  <2>1. version[b] + 1 \in Versions
    BY DEF Safe, RestOK, Change, Versions
  <2> QED
    BY <2>1 DEF Safe, RestOK, Change
<1>2. RestOK' /\ Still /\ missed' = missed /\ call' = call
  BY <1>1 DEF Safe, RestOK, Change, Still, net, screen, bounds
<1>3. CallsOK' /\ (Pending(Ways) => Pending(Ways)')
  BY <1>2 DEF Safe, CallsOK, LoadsOK, Pending
<1> QED
  BY <1>2, <1>3, StillKeeps

\* The answer, or the failure, reaches a call: it stays the call it is.
LEMMA AnswerKeeps ==
    ASSUME Safe, NEW k \in Calls, Answer(k) \/ Fail(k)
    PROVE  Safe' /\ WayKept
<1> DEFINE v == IF call[k].fn \in {"loadTasks", "reloadBoardUI"} THEN version[call[k].board] ELSE 0
           a == [call[k] EXCEPT !.state = "answered", !.seen = v]
           f == [call[k] EXCEPT !.state = "failed"]
<1>1. call[k] # Idle /\ call[k] \in CallRecords
  BY DEF Safe, CallsOK, Answer, Fail
<1>2. v \in Versions
  BY <1>1 DEF Safe, RestOK, CallsOK, LoadsOK, Versions
<1>3. call' = [call EXCEPT ![k] = a] \/ call' = [call EXCEPT ![k] = f]
  BY DEF Answer, Fail
<1> HIDE DEF v
<1>4. /\ a \in CallRecords /\ a.fn = call[k].fn /\ a.board = call[k].board
      /\ f \in CallRecords /\ f.fn = call[k].fn /\ f.board = call[k].board
  BY <1>1, <1>2 DEF CallRecords
<1> HIDE DEF a, f
<1>5. /\ call' \in [Calls -> CallRecords \cup {Idle}] /\ \A x \in Calls : x # k => call'[x] = call[x]
      /\ call'[k] # Idle /\ call'[k].fn = call[k].fn /\ call'[k].board = call[k].board
  BY <1>3, <1>4 DEF Safe, CallsOK
<1>6. CallsOK' /\ (Pending(Ways) => Pending(Ways)')
  BY <1>1, <1>5 DEF Safe, CallsOK, LoadsOK, Pending
<1>7. RestOK' /\ Still /\ missed' = missed
  BY Bounded DEF Safe, RestOK, Answer, Fail, Still, net, screen, bounds
<1> QED
  BY <1>6, <1>7, StillKeeps

\* A function that gives up may have been the way back.
LEMMA GiveUpKeeps ==
    ASSUME Safe, NEW k \in Calls, GiveUp(k)
    PROVE  Safe' /\ WayKept
<1>1. CallsOK' /\ \A x \in Calls : x # k => call'[x] = call[x]
  BY Returning DEF Safe, GiveUp
<1>2. RestOK' /\ Still /\ missed' = missed
  BY DEF Safe, RestOK, GiveUp, Still, net, screen, bounds
<1>3. CASE call[k].fn \in {"loadBoards", "left"}
  BY <1>1, <1>2, <1>3, StillKeeps DEF GiveUp, Strands
<1>4. CASE call[k].fn \notin {"loadBoards", "left"}
  <2>1. call[k].fn \notin Ways
    BY <1>4 DEF GiveUp, Ways
  <2> QED
    BY <1>1, <1>2, <2>1, OthersPend, StillKeeps
<1> QED
  BY <1>3, <1>4

\* The screen is drawn.
LEMMA DrawnKeeps ==
    ASSUME Safe, NEW k \in Calls, TasksLoaded(k) \/ Reloaded(k)
    PROVE  Safe' /\ WayKept
<1>1. call[k] # Idle /\ call[k] \in CallRecords /\ call[k].fn \in {"loadTasks", "reloadBoardUI"}
  BY DEF Safe, CallsOK, TasksLoaded, Reloaded, Answered, Resumes
<1>2. CallsOK' /\ \A x \in Calls : x # k => call'[x] = call[x]
  BY Returning DEF Safe, TasksLoaded, Reloaded
<1>3. call[k].board \in Boards /\ call[k].seen \in Versions /\ 0 \in Versions
  BY <1>1 DEF Safe, CallsOK, LoadsOK, CallRecords, Versions
<1>4. RestOK' /\ Still /\ missed' = missed
  BY <1>3 DEF Safe, RestOK, TasksLoaded, Reloaded, Still, net, bounds
<1>5. call[k].fn \notin Ways
  BY <1>1 DEF Ways
<1> QED
  BY <1>2, <1>4, <1>5, OthersPend, StillKeeps

LEMMA AccessRefreshedKeeps ==
    ASSUME Safe, NEW k \in Calls, AccessRefreshed(k)
    PROVE  Safe' /\ WayKept
<1>1. CallsOK' /\ \A x \in Calls : x # k => call'[x] = call[x]
  <2>1. CASE Return(k)
    BY <2>1, Returning DEF Safe
  <2>2. CASE StartIfBoard(k, "reloadBoardUI", board) /\ board = NoBoard
    BY <2>2, Returning DEF Safe
  <2>3. CASE StartIfBoard(k, "reloadBoardUI", board) /\ board # NoBoard
    BY <2>3, Starting DEF Safe, RestOK, Functions
  <2> QED
    BY <2>1, <2>2, <2>3 DEF AccessRefreshed
<1>2. RestOK' /\ Still /\ missed' = missed
  BY DEF Safe, RestOK, AccessRefreshed, Still, net, screen, bounds
<1>3. call[k].fn \notin Ways
  BY DEF AccessRefreshed, Answered, Resumes, Ways
<1> QED
  BY <1>1, <1>2, <1>3, OthersPend, StillKeeps

LEMMA BoardLeftKeeps ==
    ASSUME Safe, NEW k \in Calls, BoardLeft(k)
    PROVE  Safe' /\ WayKept
<1>1. CallsOK' /\ Pending(Ways)'
  <2>1. CallsOK' /\ call'[k] # Idle /\ call'[k].fn = "loadBoards"
    BY Starting DEF Safe, BoardLeft, Functions
  <2> QED
    BY <2>1 DEF Pending, Ways
<1>2. RestOK' /\ Still /\ missed' = missed
  BY DEF Safe, RestOK, BoardLeft, Still, net, screen, bounds
<1> QED
  BY <1>1, <1>2, StillKeeps

\* An event names no board: what it starts is for the board on display.
LEMMA MessageKeeps ==
    ASSUME Safe, NEW s \in Sockets, NEW k \in Calls, Message(s, k)
    PROVE  Safe' /\ WayKept
<1>1. PICK fn \in {"loadTasks", "reloadBoardUI", "refreshBoardAccess"} :
          /\ StartIfBoard(k, fn, board)
          /\ heard' = IF s = ws /\ fn # "refreshBoardAccess" THEN version[board] ELSE heard
  BY DEF Message
<1>2. call[k] = Idle
  BY DEF Message
<1>3. CallsOK' /\ \A x \in Calls : x # k => call'[x] = call[x]
  <2>1. CASE board = NoBoard
    BY <2>1, <1>1, Returning DEF Safe
  <2>2. CASE board # NoBoard
    BY <2>2, <1>1, Starting DEF Safe, RestOK, Functions
  <2> QED
    BY <2>1, <2>2
<1>4. heard' \in Versions
  <2>1. s = ws => board \in Boards
    BY DEF Safe, OneWayBack, NetOK, RestOK
  <2> QED
    BY <1>1, <2>1 DEF Safe, RestOK
<1>5. RestOK' /\ Still /\ missed' = missed
  BY <1>4, Bounded DEF Safe, RestOK, Message, Still, net, screen
<1> QED
  BY <1>2, <1>3, <1>5, OthersPend, StillKeeps

-----------------------------------------------------------------------------
(* Actions that close or open a socket *)

\* Wherever the client closes its socket it forgets that it missed anything.
LEMMA Disconnected ==
    ASSUME Safe, Disconnect, missed' = FALSE
    PROVE  NetOK' /\ OneWayBack' /\ OthersAreStray' /\ Recovering'
<1>1. /\ NetOK' /\ ws' = NoSocket /\ ~timer' /\ stray' = stray
      /\ \A s \in Sockets : sock'[s].state \in {"connecting", "open"} => sock'[s] = sock[s] /\ s # ws
  BY Disconnecting DEF Safe
<1>2. OthersAreStray'
  BY <1>1 DEF Safe, OthersAreStray
<1> QED
  BY <1>1, <1>2 DEF OneWayBack, Recovering

\* Whatever socket it had before, a client that connects is on the air, and the
\* timer that may have brought it here is off.
LEMMA Connected ==
    ASSUME Safe, Connect, UNCHANGED <<token, board, missed>>
    PROVE  NetOK' /\ OneWayBack' /\ OthersAreStray' /\ Recovering' /\ ~OffAir'
<1>1. NetOK /\ RestOK
  BY DEF Safe
<1>2. /\ NetOK' /\ ~timer' /\ retrying' = retrying
      /\ \/ /\ board = NoBoard \/ ~token
            /\ UNCHANGED <<ws, sock, stray>>
         \/ /\ board # NoBoard /\ token /\ ws' \in Sockets
            /\ sock[ws'].state = "unused"
            /\ sock'[ws'] = [state |-> "connecting", board |-> board]
            /\ \A s \in Sockets : s # ws' => sock'[s] = sock[s]
            /\ stray' = (stray \/ ws # NoSocket)
  BY <1>1, Connecting DEF RestOK
<1>3. CASE board = NoBoard \/ ~token
  BY <1>2, <1>3 DEF Safe, OneWayBack, OthersAreStray, Recovering, OffAir
<1>4. CASE board # NoBoard /\ token
  <2>1. OneWayBack' /\ ~OffAir'
    BY <1>2, <1>4 DEF OneWayBack, OffAir
  <2>2. OthersAreStray'
    <3> SUFFICES ASSUME NEW s \in Sockets, sock'[s].state \in {"connecting", "open"}, s # ws'
                 PROVE  stray'
      BY DEF OthersAreStray
    <3> QED
      BY <1>1, <1>2, <1>4 DEF Safe, OthersAreStray, NetOK
  <2>3. Recovering'
    BY <1>1, <1>2, <1>4 DEF Safe, Recovering, NetOK
  <2> QED
    BY <1>2, <2>1, <2>2, <2>3
<1> QED
  BY <1>3, <1>4

LEMMA Pends ==
    ASSUME NEW k \in Calls, call'[k] # Idle, call'[k].fn \in Ways
    PROVE  Pending(Ways)'
BY DEF Pending

LEMMA SwitchKeeps ==
    ASSUME Safe, NEW k \in Calls, NEW b \in Boards, SwitchBoard(k, b),
           UNCHANGED <<version, token, screen>>,
           moves' \in 0..MaxMoves, faults' \in 0..MaxFaults
    PROVE  Safe' /\ WayKept
<1>1. NetOK' /\ OneWayBack' /\ OthersAreStray' /\ Recovering'
  BY Disconnected DEF SwitchBoard
<1>2. CallsOK' /\ call'[k] # Idle /\ call'[k].fn = "loadLists"
  BY Starting DEF Safe, SwitchBoard, Functions
<1>3. RestOK'
  BY ZeroIsAVersion DEF Safe, RestOK, SwitchBoard, screen
<1>4. Pending(Ways)'
  BY <1>2, Pends DEF Ways
<1> QED
  BY <1>1, <1>2, <1>3, <1>4 DEF Safe, WayKept

LEMMA LogoutKeeps ==
    ASSUME Safe, Logout, UNCHANGED <<version, screen>>, CallsOK',
           moves' \in 0..MaxMoves, faults' \in 0..MaxFaults
    PROVE  Safe' /\ WayKept
<1>1. NetOK' /\ OneWayBack' /\ OthersAreStray' /\ Recovering'
  BY Disconnected DEF Logout
<1>2. RestOK'
  BY ZeroIsAVersion DEF Safe, RestOK, Logout, screen
<1>3. ~OffAir'
  BY DEF Logout, OffAir
<1> QED
  BY <1>1, <1>2, <1>3 DEF Safe, WayKept

LEMMA ConfirmLogoutKeeps ==
    ASSUME Safe, ConfirmLogout
    PROVE  Safe' /\ WayKept
<1>1. CallsOK'
  BY DEF Safe, ConfirmLogout, CallsOK, LoadsOK
<1> QED
  BY <1>1, Bounded, LogoutKeeps DEF Safe, ConfirmLogout

LEMMA ChooseKeeps ==
    ASSUME Safe, NEW k \in Calls, NEW b \in Boards, Choose(k, b)
    PROVE  Safe' /\ WayKept
BY Bounded, SwitchKeeps DEF Safe, Choose

\* A session starts, or goes on: a token takes nothing away.
LEMMA LoadBoardsKeeps ==
    ASSUME Safe, NEW k \in Calls, LoadBoards(k)
    PROVE  Safe' /\ WayKept
<1>1. CallsOK' /\ call'[k] # Idle /\ call'[k].fn = "loadBoards"
  BY Starting DEF Safe, LoadBoards, Functions
<1>2. RestOK' /\ NetOK' /\ OneWayBack' /\ OthersAreStray' /\ Recovering'
  <2>1. RestOK'
    BY Bounded DEF Safe, RestOK, LoadBoards, screen
  <2>2. NetOK' /\ OthersAreStray' /\ Recovering'
    BY DEF Safe, LoadBoards, net, NetOK, OthersAreStray, Recovering
  <2>3. OneWayBack'
    <3>1. UNCHANGED <<ws, sock, timer, board>>
      BY DEF LoadBoards, net
    <3>2. token = TRUE => token' = TRUE
      BY DEF LoadBoards
    <3> QED
      BY <3>1, <3>2 DEF Safe, RestOK, OneWayBack
  <2> QED
    BY <2>1, <2>2, <2>3
<1>3. Pending(Ways)'
  BY <1>1, Pends DEF Ways
<1> QED
  BY <1>1, <1>2, <1>3 DEF Safe, WayKept

LEMMA BoardsLoadedKeeps ==
    ASSUME Safe, NEW k \in Calls, BoardsLoaded(k)
    PROVE  Safe' /\ WayKept
<1>1. version' = version /\ moves' \in 0..MaxMoves /\ faults' \in 0..MaxFaults
  BY DEF Safe, RestOK, BoardsLoaded, bounds
<1>2. CASE \E b \in Boards : SwitchBoard(k, b) /\ UNCHANGED <<token, screen>>
  BY <1>1, <1>2, SwitchKeeps
<1>3. CASE Logout /\ Return(k) /\ UNCHANGED screen
  BY <1>1, <1>3, Returning, LogoutKeeps DEF Safe
<1>4. CASE /\ board' = NoBoard /\ columns' = NoBoard /\ cards' = 0
           /\ Disconnect /\ Return(k)
           /\ heard' = 0 /\ missed' = FALSE
           /\ UNCHANGED token
  <2>1. NetOK' /\ OneWayBack' /\ OthersAreStray' /\ Recovering'
    BY <1>4, Disconnected
  <2>2. CallsOK'
    BY <1>4, Returning DEF Safe
  <2>3. RestOK'
    BY <1>1, <1>4, ZeroIsAVersion DEF Safe, RestOK
  <2>4. ~OffAir'
    BY <1>4 DEF OffAir
  <2> QED
    BY <2>1, <2>2, <2>3, <2>4 DEF Safe, WayKept
<1> QED
  BY <1>2, <1>3, <1>4 DEF BoardsLoaded

LEMMA ListsLoadedKeeps ==
    ASSUME Safe, NEW k \in Calls, ListsLoaded(k)
    PROVE  Safe' /\ WayKept
<1>1. NetOK' /\ OneWayBack' /\ OthersAreStray' /\ Recovering' /\ ~OffAir'
  BY Connected DEF ListsLoaded
<1>2. CallsOK'
  <2>1. CASE board = NoBoard
    BY <2>1, Returning DEF Safe, ListsLoaded
  <2>2. CASE board # NoBoard
    BY <2>2, Starting DEF Safe, RestOK, ListsLoaded, Functions
  <2> QED
    BY <2>1, <2>2
<1>3. RestOK'
  <2>1. call[k].board \in Boards \cup {NoBoard}
    BY DEF Safe, CallsOK, CallRecords, ListsLoaded, Resumes
  <2>2. columns' \in Boards \cup {NoBoard} /\ cards' \in Versions
    BY <2>1 DEF Safe, RestOK, ListsLoaded, screen, Versions
  <2> QED
    BY <2>2 DEF Safe, RestOK, ListsLoaded, bounds
<1> QED
  BY <1>1, <1>2, <1>3 DEF Safe, WayKept

LEMMA MembersLookedKeeps ==
    ASSUME Safe, NEW k \in Calls, MembersLooked(k)
    PROVE  Safe' /\ WayKept
<1>1. NetOK' /\ OneWayBack' /\ OthersAreStray' /\ Recovering'
  BY Disconnected DEF MembersLooked
<1>2. CallsOK' /\ call'[k] # Idle /\ call'[k].fn = "left"
  BY Starting DEF Safe, RestOK, MembersLooked, Functions
<1>3. RestOK'
  BY DEF Safe, RestOK, MembersLooked, screen, bounds
<1>4. Pending(Ways)'
  BY <1>2, Pends DEF Ways
<1> QED
  BY <1>1, <1>2, <1>3, <1>4 DEF Safe, WayKept

LEMMA NotAmongMembersKeeps ==
    ASSUME Safe, NEW k \in Calls, NotAmongMembers(k)
    PROVE  Safe' /\ WayKept
<1>1. NetOK' /\ OneWayBack' /\ OthersAreStray' /\ Recovering'
  BY Disconnected DEF NotAmongMembers
<1>2. CallsOK'
  BY Returning DEF Safe, NotAmongMembers
<1>3. RestOK'
  BY Bounded DEF Safe, RestOK, NotAmongMembers, screen
<1>4. WayKept
  BY DEF WayKept, Strands
<1> QED
  BY <1>1, <1>2, <1>3, <1>4 DEF Safe

LEMMA TimerFiresKeeps ==
    ASSUME Safe, TimerFires
    PROVE  Safe' /\ WayKept
<1>1. NetOK' /\ OneWayBack' /\ OthersAreStray' /\ Recovering' /\ ~OffAir'
  BY Connected DEF TimerFires
<1>2. RestOK' /\ CallsOK'
  BY DEF Safe, RestOK, CallsOK, LoadsOK, TimerFires, screen, bounds
<1> QED
  BY <1>1, <1>2 DEF Safe, WayKept

-----------------------------------------------------------------------------
(* Socket events *)

\* A socket that is not in ws opens only where ws was overwritten; the one in ws
\* opens with a refetch after a drop.
LEMMA OpenedKeeps ==
    ASSUME Safe, NEW s \in Sockets, NEW k \in Calls, Opened(s, k)
    PROVE  Safe' /\ WayKept
<1>1. /\ sock'[s].state = "open" /\ sock'[s].board = sock[s].board
      /\ \A x \in Sockets : x # s => sock'[x] = sock[x]
      /\ sock' \in [Sockets -> [state : SocketStates, board : Boards \cup {NoBoard}]]
  <2> DEFINE r == [sock[s] EXCEPT !.state = "open"]
  <2>1. sock[s] \in [state : SocketStates, board : Boards \cup {NoBoard}]
    BY DEF Safe, NetOK
  <2>2. r \in [state : SocketStates, board : Boards \cup {NoBoard}]
        /\ r.state = "open" /\ r.board = sock[s].board
    BY <2>1 DEF SocketStates
  <2>3. sock' = [sock EXCEPT ![s] = r]
    BY DEF Opened
  <2> HIDE DEF r
  <2> QED
    BY <2>2, <2>3 DEF Safe, NetOK
<1>2. UNCHANGED <<token, board, ws, timer, stray>> /\ retrying' = FALSE
  BY DEF Opened
<1>3. NetOK'
  BY <1>1, <1>2 DEF Safe, NetOK
<1>4. OneWayBack'
  BY <1>1, <1>2 DEF Safe, NetOK, OneWayBack
<1>5. s # ws => stray
  BY DEF Safe, OthersAreStray, Opened
<1>6. OthersAreStray'
  BY <1>1, <1>2, <1>5 DEF Safe, OthersAreStray
<1>7. Recovering'
  <2>1. missed' = (missed /\ ~(retrying /\ s = ws))
    BY DEF Opened
  <2> QED
    BY <2>1, <1>2, <1>5 DEF Safe, Recovering
<1>8. call[k] = Idle /\ CallsOK' /\ \A x \in Calls : x # k => call'[x] = call[x]
  <2>1. CASE ~retrying
    BY <2>1 DEF Safe, CallsOK, LoadsOK, Opened
  <2>2. CASE retrying /\ board = NoBoard
    BY <2>2, Returning DEF Safe, Opened
  <2>3. CASE retrying /\ board # NoBoard
    BY <2>3, Starting DEF Safe, RestOK, Opened, Functions
  <2> QED
    BY <2>1, <2>2, <2>3 DEF Opened
<1>9. RestOK'
  BY DEF Safe, RestOK, Opened, screen, bounds
<1>10. WayKept
  BY <1>2, <1>8, OthersPend DEF WayKept, OffAir
<1> QED
  BY <1>3, <1>4, <1>6, <1>7, <1>8, <1>9, <1>10 DEF Safe

\* What becomes of a socket that is released.
LEMMA Releasing ==
    ASSUME NetOK, NEW s \in Sockets, Release(s)
    PROVE  /\ sock' \in [Sockets -> [state : SocketStates, board : Boards \cup {NoBoard}]]
           /\ sock'[s].state = "unused" /\ \A x \in Sockets : x # s => sock'[x] = sock[x]
BY DEF NetOK, Release, SocketStates

LEMMA OtherSocketKeeps ==
    ASSUME Safe, NEW s \in Sockets, ClosedOther(s) \/ ClosingDone(s)
    PROVE  Safe' /\ WayKept
<1>1. Release(s) /\ s # ws
  BY DEF Safe, NetOK, ClosedOther, ClosingDone, Closed
<1>2. UNCHANGED <<token, board, ws, retrying, timer, stray, call, missed>>
  BY DEF ClosedOther, ClosingDone
<1>3. /\ sock' \in [Sockets -> [state : SocketStates, board : Boards \cup {NoBoard}]]
      /\ sock'[s].state = "unused" /\ \A x \in Sockets : x # s => sock'[x] = sock[x]
  BY <1>1, Releasing DEF Safe
<1>4. NetOK' /\ OneWayBack' /\ OthersAreStray' /\ Recovering'
  <2>1. NetOK'
    BY <1>1, <1>2, <1>3 DEF Safe, NetOK
  <2>2. ws # NoSocket => sock'[ws] = sock[ws]
    BY <1>1, <1>3 DEF Safe, NetOK
  <2>3. OneWayBack' /\ Recovering'
    BY <1>2, <2>2 DEF Safe, OneWayBack, Recovering
  <2>4. OthersAreStray'
    BY <1>2, <1>3 DEF Safe, OthersAreStray
  <2> QED
    BY <2>1, <2>3, <2>4
<1>5. RestOK'
  BY Bounded DEF Safe, RestOK, ClosedOther, ClosingDone, Closed, screen, bounds
<1>6. CallsOK'
  BY <1>2 DEF Safe, CallsOK, LoadsOK
<1>7. WayKept
  BY <1>2 DEF WayKept, OffAir, Pending
<1> QED
  BY <1>4, <1>5, <1>6, <1>7 DEF Safe

\* ws is lost.
LEMMA OwnSocketKeeps ==
    ASSUME Safe, NEW s \in Sockets, Closed(s), s = ws, ws' = NoSocket, stray' = stray,
           retrying' \in BOOLEAN, timer' \in BOOLEAN
    PROVE  /\ NetOK' /\ OthersAreStray' /\ (~missed' \/ retrying' => Recovering')
           /\ ~timer /\ board \in Boards /\ token
           /\ moves' \in 0..MaxMoves /\ faults' \in 0..MaxFaults
<1>1. /\ sock' \in [Sockets -> [state : SocketStates, board : Boards \cup {NoBoard}]]
      /\ sock'[s].state = "unused" /\ \A x \in Sockets : x # s => sock'[x] = sock[x]
  BY Releasing DEF Safe, Closed
<1>2. NetOK'
  BY <1>1 DEF Safe, NetOK
<1>3. OthersAreStray'
  BY <1>1 DEF Safe, OthersAreStray
<1>4. ~timer /\ board \in Boards /\ token
  BY DEF Safe, RestOK, OneWayBack
<1> QED
  BY <1>2, <1>3, <1>4, Bounded DEF Safe, Closed, Recovering

LEMMA ClosedUnauthenticatedKeeps ==
    ASSUME Safe, NEW s \in Sockets, ClosedUnauthenticated(s)
    PROVE  Safe' /\ WayKept
<1>1. /\ NetOK' /\ OthersAreStray' /\ Recovering'
      /\ moves' \in 0..MaxMoves /\ faults' \in 0..MaxFaults
  BY OwnSocketKeeps DEF ClosedUnauthenticated
<1>2. OneWayBack' /\ WayKept
  BY DEF ClosedUnauthenticated, OneWayBack, WayKept, OffAir
<1>3. CallsOK'
  BY DEF Safe, ClosedUnauthenticated, CallsOK, LoadsOK
<1>4. RestOK'
  BY <1>1, ZeroIsAVersion DEF Safe, RestOK, ClosedUnauthenticated, screen
<1> QED
  BY <1>1, <1>2, <1>3, <1>4 DEF Safe

LEMMA ClosedNotAMemberKeeps ==
    ASSUME Safe, NEW s \in Sockets, NEW k \in Calls, ClosedNotAMember(s, k)
    PROVE  Safe' /\ WayKept
<1>1. /\ NetOK' /\ OthersAreStray' /\ Recovering' /\ ~timer
      /\ moves' \in 0..MaxMoves /\ faults' \in 0..MaxFaults
  BY OwnSocketKeeps DEF ClosedNotAMember, Safe, NetOK
<1>2. OneWayBack'
  BY <1>1 DEF ClosedNotAMember, OneWayBack
<1>3. CallsOK' /\ call'[k] # Idle /\ call'[k].fn = "loadBoards"
  BY Starting DEF Safe, ClosedNotAMember, Functions
<1>4. RestOK'
  BY <1>1 DEF Safe, RestOK, ClosedNotAMember, screen
<1>5. WayKept
  BY <1>3, Pends DEF WayKept, Ways
<1> QED
  BY <1>1, <1>2, <1>3, <1>4, <1>5 DEF Safe

LEMMA DroppedKeeps ==
    ASSUME Safe, NEW s \in Sockets, Dropped(s)
    PROVE  Safe' /\ WayKept
<1>1. /\ NetOK' /\ OthersAreStray' /\ Recovering' /\ board \in Boards /\ token
      /\ moves' \in 0..MaxMoves /\ faults' \in 0..MaxFaults
  BY OwnSocketKeeps DEF Dropped, Schedule
<1>2. OneWayBack' /\ WayKept
  BY <1>1 DEF Dropped, Schedule, OneWayBack, WayKept, OffAir
<1>3. CallsOK'
  BY DEF Safe, Dropped, CallsOK, LoadsOK
<1>4. RestOK'
  BY <1>1 DEF Safe, RestOK, Dropped, screen
<1> QED
  BY <1>1, <1>2, <1>3, <1>4 DEF Safe

-----------------------------------------------------------------------------
(* Every step, and the theorems *)

LEMMA InvStep == Inv /\ [Next]_vars => Inv'
<1> SUFFICES ASSUME Inv, [Next]_vars PROVE Inv'
  OBVIOUS
<1>1. CASE Next
  <2>1. Safe' /\ WayKept
    <3>1. ASSUME ConfirmLogout \/ TimerFires \/ \E b \in Boards : Change(b) PROVE Safe' /\ WayKept
      BY <3>1, ConfirmLogoutKeeps, TimerFiresKeeps, ChangeKeeps DEF Inv
    <3>2. ASSUME NEW k \in Calls, User(k) \/ Answer(k) \/ Fail(k) PROVE Safe' /\ WayKept
      BY <3>2, LoadBoardsKeeps, LeaveBoardKeeps, ChooseKeeps, AnswerKeeps DEF Inv, User
    <3>3. ASSUME NEW k \in Calls, Resume(k) PROVE Safe' /\ WayKept
      BY <3>3, GiveUpKeeps, BoardsLoadedKeeps, ListsLoadedKeeps, DrawnKeeps, AccessRefreshedKeeps,
         MembersLookedKeeps, NotAmongMembersKeeps, BoardLeftKeeps DEF Inv, Resume
    <3>4. ASSUME NEW s \in Sockets, Lost(s) \/ ClosingDone(s) PROVE Safe' /\ WayKept
      BY <3>4, OtherSocketKeeps, ClosedUnauthenticatedKeeps, DroppedKeeps, ClosedNotAMemberKeeps
         DEF Inv, Lost
    <3>5. ASSUME NEW s \in Sockets, NEW k \in Calls, Opened(s, k) \/ Message(s, k)
          PROVE  Safe' /\ WayKept
      BY <3>5, OpenedKeeps, MessageKeeps DEF Inv
    <3> QED
      BY <1>1, <3>1, <3>2, <3>3, <3>4, <3>5 DEF Next
  <2> QED
    BY <1>1, <2>1, Observed DEF Inv, Next
<1>2. CASE UNCHANGED vars
  <2>1. UNCHANGED <<version, token, board, ws, sock, retrying, timer, stray, call, columns, cards,
                    heard, missed, moves, faults, stranded>>
    BY <1>2 DEF vars, most, net, screen, bounds
  <2>2. Safe'
    BY <2>1 DEF Inv, Safe, RestOK, CallsOK, LoadsOK, NetOK, OneWayBack, OthersAreStray, Recovering
  <2>3. stranded' \in BOOLEAN /\ AlwaysAWayBack'
    BY <2>1 DEF Inv, AlwaysAWayBack, OffAir, Pending
  <2> QED
    BY <2>2, <2>3 DEF Inv
<1> QED
  BY <1>1, <1>2

LEMMA InvHolds == Spec => []Inv
BY InvInit, InvStep, PTL DEF Spec

\* The variables of the page keep their types in every interleaving of its async
\* functions: a socket in ws is always one that connects or is open (app.js:808-880).
THEOREM TypeCorrect == Spec => []TypeOK
BY InvHolds, InvIsTyped, PTL

\* Whatever overlaps, the socket in ws belongs to the board on display and to a
\* session, and the reconnect timer runs only without a socket (app.js:808-814, 865-873).
THEOREM OneWayAtATime == Spec => []OneWayBack
<1>1. Inv => OneWayBack
  BY DEF Inv, Safe
<1> QED
  BY InvHolds, <1>1, PTL

\* A page on a board without a socket has a timer or a load under way that ends in a
\* connection, unless the server failed to say where to go, or leaving failed
\* (app.js:499-516, 841-856).
THEOREM WayBackRemains == Spec => []AlwaysAWayBack
<1>1. Inv => AlwaysAWayBack
  BY DEF Inv
<1> QED
  BY InvHolds, <1>1, PTL

\* "Events published while we were disconnected are lost, so refetch the whole board
\* after a drop" (app.js:817): no socket that follows a drop opens without it.
THEOREM DropsAreRefetched == Spec => []RefetchAfterDrop
<1>1. Inv => RefetchAfterDrop
  BY DEF Inv, Safe, Recovering, RefetchAfterDrop
<1> QED
  BY InvHolds, <1>1, PTL
=============================================================================
