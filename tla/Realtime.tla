------------------------------ MODULE Realtime ------------------------------
(***************************************************************************)
(* Real-time delivery for one board: the WebSocket endpoint               *)
(* (app/routers/websocket.py), the connection manager                     *)
(* (app/websockets/connection_manager.py), the Redis listener             *)
(* (app/services/broadcast_service.py) on every server instance, and the  *)
(* Redis channel between them.                                             *)
(*                                                                         *)
(* An instance is one event loop: what a coroutine does between two awaits *)
(* is one action, and the coroutines of all connections and the listener  *)
(* interleave at the awaits.  Events are numbered in the order in which    *)
(* Redis accepts them; of their content only a removed member matters.     *)
(***************************************************************************)
EXTENDS Naturals, Sequences, FiniteSets

CONSTANTS
    Instances, Users,
    Conns,        \* the WebSocket handshakes that clients will ever make
    instanceOf,   \* [Conns -> Instances]: the load balancer's choice
    userOf,       \* [Conns -> Users]: whose token the handshake carries
    NoUser,       \* the event removes nobody
    MaxEvents,    \* bound on the events published
    MaxDrops      \* bound on the Redis connections lost or refused

ASSUME ConnAssumption ==
    /\ instanceOf \in [Conns -> Instances]
    /\ userOf \in [Conns -> Users]
    /\ NoUser \notin Users
    /\ MaxEvents \in Nat /\ MaxDrops \in Nat

VARIABLES
    member,      \* users with a row in board_members
    removals,    \* users removed by a commit whose event is not yet published
    published,   \* published[n]: the user whom event n removes, or NoUser
    drops,       \* Redis connections lost so far
    chan,        \* chan[i]: events sent by Redis and not yet read by instance i
    link,        \* link[i]: the connection of instance i to Redis
    listener,    \* listener[i]: where subscribe_to_channel is; "none": no task
    recovering,  \* recovering[i]: its local of that name
    msg,         \* msg[i]: the event it is delivering
    todo,        \* todo[i]: connections the loop or gather has still to serve
    failed,      \* failed[i]: connections whose send raised in this gather
    registered,  \* registered[i]: manager.active_connections of the board
    conn,        \* conn[c]: the endpoint coroutine and its socket
    last,        \* history: last[c] is the last event sent to c, or 0
    stale,       \* history: does c still have to hear of an event, and how
    banned       \* history: banned[i]: sockets and handshakes of removed users that
                 \* were not past their check when i took up the removal

db     == <<member, removals>>
redis  == <<published, drops, chan, link>>
task   == <<listener, recovering, msg, todo, failed>>
ghosts == <<last, stale, banned>>
vars   == <<db, redis, task, registered, conn, ghosts>>

\* "gone": the client left; "revoked": closed with 4403; in both the endpoint
\* has yet to notice.  "done": the endpoint has returned.
ConnStates == {"new", "authorizing", "accepting", "open", "gone", "revoked", "done"}

\* "sent": SUBSCRIBE is on its way to Redis.
LinkStates == {"down", "sent", "up"}

ListenerStates == {"none", "subscribing", "resyncing", "listening", "closing",
                   "sending", "backoff"}

Here(i) == {c \in Conns : instanceOf[c] = i}

Events == 1..MaxEvents

TypeOK ==
    /\ member \subseteq Users /\ removals \subseteq Users
    /\ published \in Seq(Users \cup {NoUser}) /\ Len(published) <= MaxEvents
    /\ drops \in 0..MaxDrops
    /\ chan \in [Instances -> Seq(Events)]
    /\ link \in [Instances -> LinkStates]
    /\ listener \in [Instances -> ListenerStates]
    /\ recovering \in [Instances -> BOOLEAN]
    /\ msg \in [Instances -> 0..MaxEvents]
    /\ todo \in [Instances -> SUBSET Conns]
    /\ failed \in [Instances -> SUBSET Conns]
    /\ registered \in [Instances -> SUBSET Conns]
    /\ conn \in [Conns -> ConnStates]
    /\ last \in [Conns -> 0..MaxEvents]
    /\ stale \in [Conns -> {"no", "gap", "owed"}]
    /\ banned \in [Instances -> SUBSET Conns]
    /\ \A i \in Instances :
        todo[i] # {} => listener[i] \in {"resyncing", "closing", "sending"}

Init ==
    /\ member = Users /\ removals = {}
    /\ published = <<>> /\ drops = 0
    /\ chan = [i \in Instances |-> <<>>]
    /\ link = [i \in Instances |-> "down"]
    /\ listener = [i \in Instances |-> "none"]
    /\ recovering = [i \in Instances |-> FALSE]
    /\ msg = [i \in Instances |-> 0]
    /\ todo = [i \in Instances |-> {}]
    /\ failed = [i \in Instances |-> {}]
    /\ registered = [i \in Instances |-> {}]
    /\ conn = [c \in Conns |-> "new"]
    /\ last = [c \in Conns |-> 0]
    /\ stale = [c \in Conns |-> "no"]
    /\ banned = [i \in Instances |-> {}]

-----------------------------------------------------------------------------
(* The REST side: commits in the database, events published later by a       *)
(* background task.                                                          *)

Room == Len(published) + Cardinality(removals) < MaxEvents

\* (Two unpublished removals of one user at once are left out.)
RemoveMember(u) ==
    /\ u \in member /\ u \notin removals /\ Room
    /\ member' = member \ {u}
    /\ removals' = removals \cup {u}
    /\ UNCHANGED <<redis, task, registered, conn, ghosts>>

\* Invited again: from here on the user may connect.
AddMember(u) ==
    /\ u \notin member
    /\ member' = member \cup {u}
    /\ banned' = [i \in Instances |-> {c \in banned[i] : userOf[c] # u}]
    /\ UNCHANGED <<removals, redis, task, registered, conn, last, stale>>

\* Redis does not send an event to instance i, and no resync is due to c either.
Unheard(i, c) ==
    \/ listener[i] = "subscribing" /\ ~recovering[i]
    \/ link[i] = "sent" /\ ~(listener[i] = "resyncing" /\ c \in todo[i])

\* What becomes of a connection's view of the board when an event is published.
Missing(c) ==
    LET i == instanceOf[c] IN
    IF c \notin registered[i] THEN "no"
    ELSE IF Unheard(i, c) /\ stale[c] # "owed" THEN "gap"
    ELSE "owed"

\* Redis hands an event to the instances that are subscribed.
Received(i, n) == IF link[i] = "up" THEN Append(chan[i], n) ELSE chan[i]

\* PUBLISH to channel board:<id>.
Emit(u) ==
    /\ published' = Append(published, u)
    /\ chan' = [i \in Instances |-> Received(i, Len(published) + 1)]
    /\ stale' = [c \in Conns |-> Missing(c)]

PublishChange ==
    /\ Room
    /\ Emit(NoUser)
    /\ UNCHANGED <<db, drops, link, task, registered, conn, last, banned>>

PublishRemoval(u) ==
    /\ u \in removals
    /\ removals' = removals \ {u}
    /\ Emit(u)
    /\ UNCHANGED <<member, drops, link, task, registered, conn, last, banned>>

\* The process dies between commit and publish, or PUBLISH itself fails.
LoseRemoval(u) ==
    /\ u \in removals /\ drops < MaxDrops
    /\ removals' = removals \ {u}
    /\ drops' = drops + 1
    /\ UNCHANGED <<member, published, chan, link, task, registered, conn, ghosts>>

-----------------------------------------------------------------------------
(* websocket_endpoint *)

Handshake(c) ==
    /\ conn[c] = "new"
    /\ conn' = [conn EXCEPT ![c] = "authorizing"]
    /\ UNCHANGED <<db, redis, task, registered, ghosts>>

\* Mutant: a valid token is enough.
AuthorizeAnyone(c) ==
    /\ conn[c] = "authorizing"
    /\ conn' \in {[conn EXCEPT ![c] = answer] : answer \in {"accepting", "done"}}
    /\ UNCHANGED <<db, redis, task, registered, ghosts>>

\* _authorize reads the membership on a threadpool thread; the endpoint goes on
\* with what it returned.  It closes the socket of a non-member with 4403, and one
\* whose token is missing or expired with 4401.
AuthorizeSocket(c) ==
    /\ conn[c] = "authorizing"
    /\ \E answer \in {"accepting", "done"} :
        /\ answer = "accepting" => userOf[c] \in member
        /\ conn' = [conn EXCEPT ![c] = answer]
    /\ UNCHANGED <<db, redis, task, registered, ghosts>>

\* accept() has returned: manager.connect registers the socket and the endpoint
\* starts a listener unless one runs, without an await in between.
Connect(c) ==
    LET i == instanceOf[c] IN
    /\ conn[c] = "accepting"
    /\ conn' = [conn EXCEPT ![c] = "open"]
    /\ registered' = [registered EXCEPT ![i] = @ \cup {c}]
    /\ IF listener[i] = "none"
         THEN /\ listener' = [listener EXCEPT ![i] = "subscribing"]
              /\ recovering' = [recovering EXCEPT ![i] = FALSE]
         ELSE UNCHANGED <<listener, recovering>>
    /\ UNCHANGED <<db, redis, msg, todo, failed, ghosts>>

\* The client closes its tab or loses its network, at any time.
Hangup(c) ==
    /\ conn[c] \in {"accepting", "open"}
    /\ conn' = [conn EXCEPT ![c] = IF conn[c] = "open" THEN "gone" ELSE "done"]
    /\ UNCHANGED <<db, redis, task, registered, ghosts>>

\* Mutant: the sends of a broadcast in progress go on.
CancelListenerOnly(i) ==
    /\ listener' = [listener EXCEPT ![i] = "none"]
    /\ chan' = [chan EXCEPT ![i] = <<>>]
    /\ link' = [link EXCEPT ![i] = "down"]
    /\ UNCHANGED <<todo, failed>>

\* redis_tasks.pop(board_id).cancel()
CancelListener(i) ==
    /\ listener' = [listener EXCEPT ![i] = "none"]
    /\ chan' = [chan EXCEPT ![i] = <<>>]
    /\ link' = [link EXCEPT ![i] = "down"]
    /\ todo' = [todo EXCEPT ![i] = {}]
    /\ failed' = [failed EXCEPT ![i] = {}]

Forget(S) == stale' = [c \in Conns |-> IF c \in S THEN "no" ELSE stale[c]]

\* Mutant: whoever leaves cancels the listener.
AnyoneOut(i, c) == TRUE

\* Mutant: only an endpoint that was itself still registered cancels.
LastRegisteredOut(i, c) == registered[i] = {c}

\* board_id not in manager.active_connections, once c is out of it.
LastOut(i, c) == registered[i] \subseteq {c}

\* receive_text raises and the finally block runs: manager.disconnect, which
\* tolerates a connection already dropped, then the last one out cancels.
EndpointExit(c) ==
    LET i == instanceOf[c] IN
    /\ conn[c] \in {"gone", "revoked"}
    /\ conn' = [conn EXCEPT ![c] = "done"]
    /\ registered' = [registered EXCEPT ![i] = @ \ {c}]
    /\ Forget({c})
    /\ IF LastOut(i, c) /\ listener[i] # "none"
         THEN CancelListener(i)
         ELSE UNCHANGED <<listener, chan, link, todo, failed>>
    /\ UNCHANGED <<db, published, drops, recovering, msg, last, banned>>

-----------------------------------------------------------------------------
(* subscribe_to_channel *)

StartBroadcast(i, state) ==
    /\ listener' = [listener EXCEPT ![i] = state]
    /\ todo' = [todo EXCEPT ![i] = registered[i]]

\* subscribe() has sent SUBSCRIBE; the confirmation is one of the messages that
\* listen() reads and skips.  After a lost connection the local clients are told
\* to refetch before anything is read.
Subscribe(i) ==
    /\ listener[i] = "subscribing"
    /\ link' = [link EXCEPT ![i] = "sent"]
    /\ IF recovering[i]
         THEN StartBroadcast(i, "resyncing")
         ELSE listener' = [listener EXCEPT ![i] = "listening"] /\ UNCHANGED todo
    /\ UNCHANGED <<db, published, drops, chan, recovering, msg, failed, registered, conn, ghosts>>

\* Redis executes SUBSCRIBE: from now on it sends what is published.
Confirm(i) ==
    /\ link[i] = "sent"
    /\ link' = [link EXCEPT ![i] = "up"]
    /\ UNCHANGED <<db, published, drops, chan, task, registered, conn, ghosts>>

\* Mutant: recovering is not set.
BackOffForgetful(i) ==
    /\ listener' = [listener EXCEPT ![i] = "backoff"]
    /\ UNCHANGED <<recovering, msg, todo, failed>>

\* The loop goes round: sleep, then subscribe again as one that is recovering.
BackOff(i) ==
    /\ listener' = [listener EXCEPT ![i] = "backoff"]
    /\ recovering' = [recovering EXCEPT ![i] = TRUE]
    /\ UNCHANGED <<msg, todo, failed>>

SubscribeFails(i) ==
    /\ listener[i] = "subscribing" /\ drops < MaxDrops
    /\ drops' = drops + 1
    /\ BackOff(i)
    /\ UNCHANGED <<db, published, chan, link, registered, conn, ghosts>>

\* The connection to Redis breaks; from now on nothing more arrives on it.
LoseRedis(i) ==
    /\ link[i] # "down" /\ drops < MaxDrops
    /\ drops' = drops + 1
    /\ link' = [link EXCEPT ![i] = "down"]
    /\ UNCHANGED <<db, published, chan, task, registered, conn, ghosts>>

\* listen() raises, at its next read at the earliest; what was not read is lost.
NoticeLoss(i) ==
    /\ listener[i] = "listening" /\ link[i] = "down"
    /\ chan' = [chan EXCEPT ![i] = <<>>]
    /\ BackOff(i)
    /\ UNCHANGED <<db, published, drops, link, registered, conn, ghosts>>

Retry(i) ==
    /\ listener[i] = "backoff"
    /\ listener' = [listener EXCEPT ![i] = "subscribing"]
    /\ UNCHANGED <<db, redis, recovering, msg, todo, failed, registered, conn, ghosts>>

-----------------------------------------------------------------------------
(* _deliver, disconnect_user, broadcast *)

\* Mutant: the id in the event is compared as a string and matches no one.
OfNobody(i, u) == {}

\* revoked, the snapshot of disconnect_user.
OfUser(i, u) == {c \in registered[i] : userOf[c] = u}

\* Mutant: every event is delivered by a task of its own.
DeliverableAny(i) == DOMAIN chan[i]

\* listen() yields the events in their order, and each is delivered before the next.
Deliverable(i) == {k \in DOMAIN chan[i] : k = 1}

\* Deliver an event.  When it removes a user with sockets here, disconnect_user
\* takes its snapshot of them; otherwise broadcast takes its own at once.
Take(i) ==
    /\ listener[i] = "listening"
    /\ \E k \in Deliverable(i) :
        LET n == chan[i][k]
            u == published[n]
        IN  /\ chan' = [chan EXCEPT ![i] = SubSeq(@, 1, k - 1) \o SubSeq(@, k + 1, Len(@))]
            /\ msg' = [msg EXCEPT ![i] = n]
            /\ IF OfUser(i, u) = {}
                 THEN StartBroadcast(i, "sending")
                 ELSE /\ listener' = [listener EXCEPT ![i] = "closing"]
                      /\ todo' = [todo EXCEPT ![i] = OfUser(i, u)]
            /\ banned' = [banned EXCEPT ![i] = @ \cup {c \in Here(i) :
                   userOf[c] = u /\ u \notin member /\ conn[c] # "accepting"}]
    /\ UNCHANGED <<db, published, drops, link, recovering, failed, registered, conn, last, stale>>

\* Mutant: the socket is closed and stays registered.
CloseOnly(i) ==
    /\ listener[i] = "closing"
    /\ \E c \in todo[i] :
        /\ todo' = [todo EXCEPT ![i] = @ \ {c}]
        /\ conn' = [conn EXCEPT ![c] = IF @ = "open" THEN "revoked" ELSE @]
        /\ Forget({c})
    /\ UNCHANGED <<db, redis, registered, listener, recovering, msg, failed, last, banned>>

\* disconnect, then the close() that is awaited before the next one.
CloseOne(i) ==
    /\ listener[i] = "closing"
    /\ \E c \in todo[i] :
        /\ todo' = [todo EXCEPT ![i] = @ \ {c}]
        /\ registered' = [registered EXCEPT ![i] = @ \ {c}]
        /\ conn' = [conn EXCEPT ![c] = IF @ = "open" THEN "revoked" ELSE @]
        /\ Forget({c})
    /\ UNCHANGED <<db, redis, listener, recovering, msg, failed, last, banned>>

ClosedAll(i) ==
    /\ listener[i] = "closing" /\ todo[i] = {}
    /\ StartBroadcast(i, "sending")
    /\ UNCHANGED <<db, redis, recovering, msg, failed, registered, conn, ghosts>>

\* One send_text of the gather completes.  To a socket that is no longer open it
\* raises, or is swallowed by a network that has not noticed yet.
Send(i, c) ==
    /\ listener[i] \in {"sending", "resyncing"} /\ c \in todo[i]
    /\ todo' = [todo EXCEPT ![i] = @ \ {c}]
    /\ \/ /\ conn[c] = "open"
          /\ Forget({c})
          /\ last' = [last EXCEPT ![c] = IF listener[i] = "sending" THEN msg[i] ELSE @]
          /\ UNCHANGED failed
       \/ /\ conn[c] # "open"
          /\ failed' \in {failed, [failed EXCEPT ![i] = @ \cup {c}]}
          /\ UNCHANGED <<stale, last>>
    /\ UNCHANGED <<db, redis, listener, recovering, msg, registered, conn, banned>>

\* gather returns: the connections whose send raised are dropped.
FinishBroadcast(i) ==
    /\ listener[i] \in {"sending", "resyncing"} /\ todo[i] = {}
    /\ registered' = [registered EXCEPT ![i] = @ \ failed[i]]
    /\ Forget(failed[i])
    /\ failed' = [failed EXCEPT ![i] = {}]
    /\ recovering' = [recovering EXCEPT ![i] = FALSE]
    /\ listener' = [listener EXCEPT ![i] = "listening"]
    /\ UNCHANGED <<db, redis, msg, todo, conn, last, banned>>

-----------------------------------------------------------------------------
Rest(u) == RemoveMember(u) \/ AddMember(u) \/ PublishRemoval(u) \/ LoseRemoval(u)

Endpoint(c) == AuthorizeSocket(c) \/ Connect(c) \/ EndpointExit(c)

Deliver(i) == Take(i) \/ CloseOne(i) \/ ClosedAll(i) \/ FinishBroadcast(i)

Listen(i) == Subscribe(i) \/ NoticeLoss(i) \/ Retry(i) \/ Deliver(i)

Redis(i) == Confirm(i) \/ SubscribeFails(i) \/ LoseRedis(i)

Next ==
    \/ PublishChange
    \/ \E u \in Users : Rest(u)
    \/ \E c \in Conns : Handshake(c) \/ Hangup(c) \/ Endpoint(c)
    \/ \E i \in Instances : Redis(i) \/ Listen(i) \/ \E c \in Conns : Send(i, c)

Spec == Init /\ [][Next]_vars

\* The event loop runs every coroutine that can run, threads and background
\* tasks finish, and a send to a socket ends one way or the other.
Fairness ==
    /\ \A c \in Conns : WF_vars(Endpoint(c))
    /\ \A i \in Instances : WF_vars(Listen(i)) /\ WF_vars(\E c \in Conns : Send(i, c))
    /\ \A u \in Users : WF_vars(PublishRemoval(u) \/ LoseRemoval(u))

FairSpec == Spec /\ Fairness
-----------------------------------------------------------------------------
(* Properties *)

\* No viewer is left behind: a socket that is open is among those its instance
\* broadcasts to, and a listener runs for it, however connects, disconnects,
\* failed sends and revocations interleave (websocket.py:43-58).
OpenSocketsAreServed ==
    \A c \in Conns : conn[c] = "open" =>
        c \in registered[instanceOf[c]] /\ listener[instanceOf[c]] # "none"

\* No listener leaks: one that runs has an endpoint that will stop it on exit,
\* although broadcasts and revocations empty the registry without stopping it
\* (websocket.py:56-58, connection_manager.py:29-36).
ListenersHaveViewers ==
    \A i \in Instances : listener[i] # "none" =>
        \E c \in Here(i) : conn[c] \in {"open", "gone", "revoked"}

\* A client never gets an event twice nor an older one after a newer one, also
\* across lost connections to Redis: what an instance is sending or has yet to
\* read is newer than what any receiver has had (broadcast_service.py:64-66).
DeliveredInOrder ==
    \A i \in Instances :
        /\ listener[i] = "sending" => \A c \in todo[i] : last[c] < msg[i]
        /\ \A c \in registered[i], k \in DOMAIN chan[i] : last[c] < chan[i][k]

\* A socket closed for a removal gets neither that event nor a later one
\* (broadcast_service.py:36-37), however its close() and sends interleave.
NothingAfterRevocation ==
    \A i \in Instances, c \in Conns : conn[c] = "revoked" =>
        c \notin registered[i] /\ c \notin todo[i]

\* A removal closes the user's sockets "wherever they are connected" and keeps the
\* user out until the next invitation (broadcast_service.py:36-37): what is open is
\* about to be closed, or was past its membership check, which is read awaits before
\* the socket is registered, when the removal came (websocket.py:33-41).
RemovedStayOut ==
    \A i \in Instances : \A c \in banned[i] :
        conn[c] = "open" => listener[i] = "closing" /\ c \in todo[i]

\* An event published while an instance was cut off from Redis is made up for:
\* every connection it was meant for hears it, hears a later event or is told to
\* resync, or leaves (README.md:85; broadcast_service.py:58-61).
NoEventIsForgotten ==
    \A c \in Conns : stale[c] = "owed" ~> stale[c] # "owed"

RemovalQueued(i, u) ==
    \E k \in DOMAIN chan[i] : published[chan[i][k]] = u

\* A removal that reached an instance unregisters every socket the user has there
\* unless the connection to Redis breaks before it is read (README.md:101).
RevocationTakesEffect ==
    \A c \in Conns : LET i == instanceOf[c] IN
        (c \in registered[i] /\ RemovalQueued(i, userOf[c]))
            ~> (c \notin registered[i] \/ link[i] = "down")

\* Refuted: "clients refetch anything they missed" (README.md:10).  An event that
\* is published before a subscription of an instance is in force leads to no resync
\* when the listener is not recovering, or has sent the resync already.
GapsAreFilled ==
    \A c \in Conns : stale[c] = "gap" ~> stale[c] # "gap"
=============================================================================
