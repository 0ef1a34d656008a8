-------------------------------- MODULE Pools --------------------------------
(***************************************************************************)
(* What a request holds on one server instance: a thread of the threadpool *)
(* that runs everything synchronous, and a connection of SQLAlchemy's pool *)
(* (app/db/session.py, get_current_user in app/core/deps.py, the shape of *)
(* the endpoints, and _authorize in app/routers/websocket.py).             *)
(*                                                                         *)
(* A REST request is several visits to the threadpool: get_current_user,  *)
(* then the endpoint, or an async endpoint's run_in_threadpool calls.  Its *)
(* session checks a connection out with the first statement and keeps it  *)
(* across visits until a commit or until get_db closes it.  So requests   *)
(* with a connection queue for threads, and threads wait for connections. *)
(* A handshake is one visit with a session of its own.                     *)
(***************************************************************************)
EXTENDS Naturals, Sequences, FiniteSets

CONSTANTS
    Requests,     \* requests and sockets at a time
    Threads,      \* tokens of the threadpool
    Connections,  \* pool_size + max_overflow
    MaxVisits     \* bound: visits of a request to the threadpool

ASSUME PoolAssumption ==
    /\ IsFiniteSet(Requests)
    /\ Threads \in Nat \ {0} /\ Connections \in Nat \ {0}
    /\ MaxVisits \in Nat \ {0}

VARIABLES
    pc,         \* pc[r]: where the request is
    handshake,  \* those that are WebSocket handshakes
    visits,     \* visits[r]: visits it has begun
    queue,      \* requests that wait for a thread, first come first served
    holders     \* requests whose session has a connection

vars == <<pc, handshake, visits, queue, holders>>

\* "between": awaits something, or nothing, on the event loop; "queued": for a
\* thread; "checkout": its thread waits for a connection; "running": its thread has
\* one; "closing": the answer is out, get_db has yet to close; "open": a socket.
Places == {"idle", "between", "queued", "checkout", "running", "closing", "open"}

OnThread == {r \in Requests : pc[r] \in {"checkout", "running"}}

TypeOK ==
    /\ pc \in [Requests -> Places]
    /\ handshake \subseteq Requests
    /\ visits \in [Requests -> 0..MaxVisits]
    /\ queue \in Seq(Requests)
    /\ \A i, j \in 1..Len(queue) : queue[i] = queue[j] => i = j
    /\ holders \subseteq Requests
    /\ Cardinality(OnThread) <= Threads
    /\ Cardinality(holders) <= Connections

Init ==
    /\ pc = [r \in Requests |-> "idle"]
    /\ handshake = {}
    /\ visits = [r \in Requests |-> 0]
    /\ queue = <<>>
    /\ holders = {}

GoTo(r, place) == pc' = [pc EXCEPT ![r] = place]

-----------------------------------------------------------------------------
(* A request arrives and queues for its visits *)

Arrive(r) ==
    /\ pc[r] = "idle"
    /\ GoTo(r, "between")
    /\ visits' = [visits EXCEPT ![r] = 0]
    /\ handshake' \in {handshake \cup {r}, handshake \ {r}}
    /\ UNCHANGED <<queue, holders>>

\* run_in_threadpool, by FastAPI or by the code.
Enter(r) ==
    /\ pc[r] = "between" /\ visits[r] < MaxVisits
    /\ GoTo(r, "queued")
    /\ visits' = [visits EXCEPT ![r] = @ + 1]
    /\ queue' = Append(queue, r)
    /\ UNCHANGED <<handshake, holders>>

\* The session of get_db is shared by get_current_user and the endpoint.
HasConnection(r) == r \in holders

\* The first in the queue gets a free thread.
TakeThread(r) ==
    /\ queue # <<>> /\ r = Head(queue)
    /\ Cardinality(OnThread) < Threads
    /\ queue' = Tail(queue)
    /\ GoTo(r, IF HasConnection(r) THEN "running" ELSE "checkout")
    /\ UNCHANGED <<handshake, visits, holders>>

-----------------------------------------------------------------------------
(* On a thread *)

\* Mutant: max_overflow = -1.
FreeAlways == TRUE

Free == Cardinality(holders) < Connections

\* Any thread that waits may get a connection that is free: the pool is not fair.
CheckOut(r) ==
    /\ pc[r] = "checkout" /\ Free
    /\ holders' = holders \cup {r}
    /\ GoTo(r, "running")
    /\ UNCHANGED <<handshake, visits, queue>>

\* Mutant: no pool_timeout.
TimeOutNever(r) == FALSE /\ UNCHANGED vars

\* After pool_timeout without one the statement raises, and the request ends (500).
TimeOut(r) ==
    /\ pc[r] = "checkout" /\ ~Free
    /\ GoTo(r, IF r \in handshake THEN "idle" ELSE "closing")
    /\ UNCHANGED <<handshake, visits, queue, holders>>

\* db.commit() or db.rollback() gives the connection back, and the SELECT after it
\* checks one out again, on the same thread.  A handler does it once, in its last
\* visit.
Commit(r) ==
    /\ pc[r] = "running" /\ r \notin handshake
    /\ visits[r] < MaxVisits
    /\ visits' = [visits EXCEPT ![r] = MaxVisits]
    /\ holders' = holders \ {r}
    /\ GoTo(r, "checkout")
    /\ UNCHANGED <<handshake, queue>>

\* A visit of a REST request ends and leaves its thread, not its connection.  After
\* it the request goes on, or answers: at the end, or because the visit raised.
Leave(r) ==
    /\ pc[r] = "running" /\ r \notin handshake
    /\ \/ GoTo(r, "closing")
       \/ visits[r] < MaxVisits /\ GoTo(r, "between")
    /\ UNCHANGED <<handshake, visits, queue, holders>>

\* Mutant: the handshake uses get_db, which closes when the socket does.
AuthorizeWithGetDb(r) ==
    /\ pc[r] = "running" /\ r \in handshake
    /\ GoTo(r, "open") \/ GoTo(r, "idle")
    /\ UNCHANGED <<handshake, visits, queue, holders>>

\* _authorize returns: `with SessionLocal()` has closed its session on the thread.
\* The socket is open for as long as its client likes, or refused.
Authorize(r) ==
    /\ pc[r] = "running" /\ r \in handshake
    /\ holders' = holders \ {r}
    /\ GoTo(r, "open") \/ GoTo(r, "idle")
    /\ UNCHANGED <<handshake, visits, queue>>

Hangup(r) ==
    /\ pc[r] = "open"
    /\ GoTo(r, "idle")
    /\ UNCHANGED <<handshake, visits, queue, holders>>

\* The finally of get_db, after the background task: closing a session waits for no
\* thread of the pool.
Close(r) ==
    /\ pc[r] = "closing"
    /\ holders' = holders \ {r}
    /\ GoTo(r, "idle")
    /\ UNCHANGED <<handshake, visits, queue>>

-----------------------------------------------------------------------------
Step(r) ==
    \/ Enter(r) \/ TakeThread(r) \/ CheckOut(r) \/ TimeOut(r)
    \/ Commit(r) \/ Leave(r) \/ Authorize(r) \/ Close(r)

Next == \E r \in Requests : Arrive(r) \/ Step(r) \/ Hangup(r)

Spec == Init /\ [][Next]_vars

\* Statements, waits on the event loop and the pool's timeout end.  Requests need not
\* come and sockets need not close.
FairSpec == Spec /\ \A r \in Requests : WF_vars(Step(r))
-----------------------------------------------------------------------------
(* Properties *)

\* No request hangs, although requests with connections queue for threads that are
\* taken by requests without: what resolves such a standstill is the timeout of the
\* pool (session.py:7, deps.py:34).
EveryRequestEnds ==
    \A r \in Requests : pc[r] \notin {"idle", "open"} ~> pc[r] \in {"idle", "open"}

\* A connection is never stuck: no answered request and no open socket holds one, of
\* which there are many more than connections, after a timeout, an exception or a
\* refusal at any stage either; and no request that holds one waits for another,
\* else nobody might be left to give one back (session.py:14-15, websocket.py:22,
\* deps.py:34).
ConnectionsComeBack ==
    \A r \in holders : pc[r] \notin {"idle", "open", "checkout"}
=============================================================================
