--------------------------- MODULE RealtimeProofs ---------------------------
(***************************************************************************)
(* Proofs about Realtime.                                                  *)
(***************************************************************************)
EXTENDS Realtime, FiniteSetTheorems, SequenceTheorems, TLAPS

USE ConnAssumption

\* There is room for every removal that is committed and not yet published, and
\* an instance has yet to read only what was published.
Counted ==
    /\ IsFiniteSet(removals)
    /\ Len(published) + Cardinality(removals) <= MaxEvents
    /\ \A i \in Instances : msg[i] <= Len(published)
    /\ \A i \in Instances : \A k \in DOMAIN chan[i] : chan[i][k] <= Len(published)

TypeInv == TypeOK /\ Counted

\* Which endpoints the manager and the listener of an instance hold on to.  None of
\* them has been revoked, and no send fails to a socket that is open.
Registry(i) ==
    /\ registered[i] \subseteq {c \in Here(i) : conn[c] \in {"open", "gone"}}
    /\ todo[i] \subseteq {c \in Here(i) : conn[c] \in {"open", "gone", "done"}}
    /\ failed[i] \subseteq {c \in Here(i) : conn[c] \in {"gone", "done"}}

\* An instance takes events up in their order, and the last that any socket of its
\* has had is not newer than the one taken up last.
Ordered(i) ==
    /\ \A c \in Here(i) : last[c] <= msg[i]
    /\ \A k \in DOMAIN chan[i] : msg[i] < chan[i][k]
    /\ \A j, k \in DOMAIN chan[i] : j < k => chan[i][j] < chan[i][k]
    /\ listener[i] = "closing" => \A c \in Here(i) : last[c] < msg[i]
    /\ listener[i] = "sending" => \A c \in todo[i] : last[c] < msg[i]

\* A banned socket or handshake is not let in before its user is a member again.
Barred(i) ==
    \A c \in banned[i] :
        /\ instanceOf[c] = i /\ userOf[c] \notin member /\ conn[c] # "accepting"
        /\ conn[c] = "open" => listener[i] = "closing" /\ c \in todo[i]

Inv ==
    /\ \A i \in Instances : Registry(i) /\ Ordered(i) /\ Barred(i)
    /\ OpenSocketsAreServed /\ ListenersHaveViewers
-----------------------------------------------------------------------------
(* Types and counts *)

\* What the listener has left after it takes up the first event of its channel.
LEMMA Popped ==
    ASSUME NEW S, NEW s \in Seq(S), 1 \in DOMAIN s, NEW p, p = SubSeq(s, 1, 0) \o SubSeq(s, 2, Len(s))
    PROVE  /\ p \in Seq(S) /\ Len(p) = Len(s) - 1
           /\ \A k \in DOMAIN p : k + 1 \in DOMAIN s /\ p[k] = s[k + 1]
<1>1. SubSeq(s, 1, 0) = << >>
  BY SubSeqEmpty
<1>2. \A k \in 2 .. Len(s) : s[k] \in S
  BY ElementOfSeq
<1>3. /\ SubSeq(s, 2, Len(s)) \in Seq(S)
      /\ Len(SubSeq(s, 2, Len(s))) = Len(s) - 1
      /\ \A k \in 1 .. Len(s) - 1 : SubSeq(s, 2, Len(s))[k] = s[k + 1]
  <2>1. Len(s) \in Nat /\ Len(s) >= 1
    OBVIOUS
  <2>2. 2 \in Int /\ Len(s) \in Int
    BY <2>1
  <2> DEFINE q == SubSeq(s, 2, Len(s))
  <2>3. /\ q \in Seq(S)
        /\ Len(q) = IF 2 <= Len(s) THEN Len(s) - 2 + 1 ELSE 0
        /\ \A k \in 1 .. Len(s) - 2 + 1 : q[k] = s[2 + k - 1]
    BY <1>2, <2>2, SubSeqProperties
  <2> HIDE DEF q
  <2>4. Len(q) = Len(s) - 1
    <3>1. CASE 2 <= Len(s)
      BY <2>1, <2>3, <3>1
    <3>2. CASE Len(s) = 1
      BY <2>3, <3>2
    <3>3. 2 <= Len(s) \/ Len(s) = 1
      <4> DEFINE n == Len(s)
      <4>1. n \in Nat /\ n >= 1
        BY <2>1
      <4> HIDE DEF n
      <4>2. 2 <= n \/ n = 1
        BY <4>1
      <4> QED
        BY <4>2 DEF n
    <3> QED
      BY <3>1, <3>2, <3>3
  <2>5. ASSUME NEW k \in 1 .. Len(s) - 1 PROVE q[k] = s[k + 1]
    <3>1. k \in 1 .. Len(s) - 2 + 1 /\ 2 + k - 1 = k + 1
      BY <2>1
    <3> QED
      BY <2>3, <3>1
  <2> QED
    BY <2>3, <2>4, <2>5 DEF q
<1>4. p = SubSeq(s, 2, Len(s))
  BY <1>1, <1>3, ConcatEmptySeq
<1> QED
  BY <1>3, <1>4

\* The types of what the database and Redis hold, and of what Redis sent.
EventsOK ==
    /\ member \subseteq Users /\ removals \subseteq Users
    /\ published \in Seq(Users \cup {NoUser}) /\ Len(published) <= MaxEvents
    /\ drops \in 0..MaxDrops
    /\ chan \in [Instances -> Seq(Events)]
    /\ msg \in [Instances -> 0..MaxEvents]
    /\ Counted

\* The types of what an instance keeps, and of the histories.
InstancesOK ==
    /\ link \in [Instances -> LinkStates]
    /\ listener \in [Instances -> ListenerStates]
    /\ recovering \in [Instances -> BOOLEAN]
    /\ todo \in [Instances -> SUBSET Conns]
    /\ failed \in [Instances -> SUBSET Conns]
    /\ registered \in [Instances -> SUBSET Conns]
    /\ conn \in [Conns -> ConnStates]
    /\ last \in [Conns -> 0..MaxEvents]
    /\ stale \in [Conns -> {"no", "gap", "owed"}]
    /\ banned \in [Instances -> SUBSET Conns]
    /\ \A i \in Instances :
        todo[i] # {} => listener[i] \in {"resyncing", "closing", "sending"}

LEMMA TwoParts == /\ TypeInv <=> EventsOK /\ InstancesOK
                  /\ TypeInv' <=> EventsOK' /\ InstancesOK'
BY DEF TypeInv, TypeOK, EventsOK, InstancesOK

LEMMA TypeInit == Init => TypeInv
<1> SUFFICES ASSUME Init PROVE TypeInv
  OBVIOUS
<1>1. IsFiniteSet(removals) /\ Cardinality(removals) = 0
  BY FS_EmptySet DEF Init
<1>2. EventsOK
  BY <1>1 DEF Init, EventsOK, Counted, Events
<1>3. InstancesOK
  BY DEF Init, InstancesOK, LinkStates, ListenerStates, ConnStates
<1> QED
  BY <1>2, <1>3, TwoParts

\* PUBLISH, while there is room for one more event.
LEMMA EmitTypes ==
    ASSUME EventsOK, InstancesOK, NEW u \in Users \cup {NoUser}, Emit(u), Len(published) < MaxEvents
    PROVE  /\ published' \in Seq(Users \cup {NoUser}) /\ Len(published') = Len(published) + 1
           /\ chan' \in [Instances -> Seq(Events)]
           /\ \A i \in Instances : \A k \in DOMAIN chan'[i] :
                \/ k \in DOMAIN chan[i] /\ chan'[i][k] = chan[i][k]
                \/ k = Len(chan[i]) + 1 /\ chan'[i][k] = Len(published) + 1
           /\ stale' \in [Conns -> {"no", "gap", "owed"}]
<1> USE DEF EventsOK
<1>1. published' \in Seq(Users \cup {NoUser}) /\ Len(published') = Len(published) + 1
  BY DEF Emit
<1>2. Len(published) + 1 \in Events
  BY DEF Events
<1>3. ASSUME NEW i \in Instances
      PROVE  /\ Received(i, Len(published) + 1) \in Seq(Events)
             /\ \A k \in DOMAIN Received(i, Len(published) + 1) :
                  \/ k \in DOMAIN chan[i] /\ Received(i, Len(published) + 1)[k] = chan[i][k]
                  \/ k = Len(chan[i]) + 1 /\ Received(i, Len(published) + 1)[k] = Len(published) + 1
  <2>1. chan[i] \in Seq(Events)
    OBVIOUS
  <2> QED
    BY <1>2, <2>1 DEF Received
<1>4. stale' \in [Conns -> {"no", "gap", "owed"}]
  BY DEF Emit, Missing
<1> QED
  BY <1>1, <1>3, <1>4 DEF Emit

\* An event is counted.
LEMMA EmitCounts ==
    ASSUME EventsOK, InstancesOK, NEW u \in Users \cup {NoUser}, Emit(u), Len(published) < MaxEvents,
           IsFiniteSet(removals'), Len(published) + 1 + Cardinality(removals') <= MaxEvents,
           removals' \subseteq Users, UNCHANGED <<member, drops, msg>>
    PROVE  EventsOK'
<1>1. \A i \in Instances : \A k \in DOMAIN chan'[i] : chan'[i][k] <= Len(published) + 1
  <2> SUFFICES ASSUME NEW i \in Instances, NEW k \in DOMAIN chan'[i]
               PROVE  chan'[i][k] <= Len(published) + 1
    OBVIOUS
  <2>1. CASE k \in DOMAIN chan[i] /\ chan'[i][k] = chan[i][k]
    <3>1. chan[i][k] \in Events /\ chan[i][k] <= Len(published)
      BY <2>1 DEF EventsOK, Counted
    <3> QED
      BY <2>1, <3>1 DEF Events, EventsOK
  <2>2. CASE chan'[i][k] = Len(published) + 1
    BY <2>2 DEF EventsOK
  <2> QED
    BY <2>1, <2>2, EmitTypes
<1>2. \A i \in Instances : msg'[i] <= Len(published) + 1
  BY DEF EventsOK, Counted
<1>3. Counted'
  BY <1>1, <1>2, EmitTypes DEF Counted
<1> QED
  BY <1>3, EmitTypes, FS_CardinalityType DEF EventsOK

LEMMA ChannelCleared ==
    ASSUME EventsOK, NEW i \in Instances, chan' = chan \/ chan' = [chan EXCEPT ![i] = << >>]
    PROVE  /\ chan' \in [Instances -> Seq(Events)]
           /\ \A x \in Instances : chan'[x] \in {chan[x], << >>}
<1>1. << >> \in Seq(Events)
  OBVIOUS
<1>2. CASE chan' = chan
  BY <1>2 DEF EventsOK
<1>3. CASE chan' = [chan EXCEPT ![i] = << >>]
  BY <1>1, <1>3 DEF EventsOK
<1> QED
  BY <1>2, <1>3

LEMMA EventsStep == ASSUME EventsOK, InstancesOK, Next PROVE EventsOK'
<1>1. /\ IsFiniteSet(removals) /\ Cardinality(removals) \in Nat /\ Len(published) \in Nat
      /\ Len(published) + Cardinality(removals) <= MaxEvents
  BY FS_CardinalityType DEF EventsOK, Counted
<1>2. CASE PublishChange
  <2>1. removals' = removals /\ Emit(NoUser) /\ UNCHANGED <<member, drops, msg>>
    BY <1>2 DEF PublishChange, db, task
  <2>2. Len(published) + 1 + Cardinality(removals) <= MaxEvents /\ Len(published) < MaxEvents
    BY <1>1, <1>2 DEF PublishChange, Room
  <2> QED
    BY <1>1, <2>1, <2>2, EmitCounts DEF EventsOK
<1>3. ASSUME NEW u \in Users, RemoveMember(u) PROVE EventsOK'
  <2>1. IsFiniteSet(removals') /\ Cardinality(removals') = Cardinality(removals) + 1
    BY <1>1, <1>3, FS_AddElement DEF RemoveMember
  <2> QED
    BY <1>1, <1>3, <2>1 DEF RemoveMember, Room, redis, task, EventsOK, Counted
<1>4. ASSUME NEW u \in Users, AddMember(u) PROVE EventsOK'
  BY <1>4 DEF AddMember, redis, task, EventsOK, Counted
<1>5. ASSUME NEW u \in Users, u \in removals
      PROVE  /\ IsFiniteSet(removals \ {u})
             /\ Cardinality(removals \ {u}) = Cardinality(removals) - 1
             /\ Cardinality(removals \ {u}) \in Nat
  BY <1>1, <1>5, FS_RemoveElement, FS_CardinalityType
<1>6. ASSUME NEW u \in Users, PublishRemoval(u) PROVE EventsOK'
  <2>0. u \in removals /\ removals' = removals \ {u}
    BY <1>6 DEF PublishRemoval
  <2>1. IsFiniteSet(removals') /\ Len(published) + 1 + Cardinality(removals') <= MaxEvents
    BY <1>1, <1>5, <2>0
  <2>2. Len(published) < MaxEvents
    BY <1>1, <1>5, <1>6 DEF PublishRemoval
  <2> QED
    BY <1>6, <2>1, <2>2, EmitCounts DEF PublishRemoval, EventsOK, task
<1>7. ASSUME NEW u \in Users, LoseRemoval(u) PROVE EventsOK'
  <2>0. u \in removals /\ removals' = removals \ {u}
    BY <1>7 DEF LoseRemoval
  <2>1. IsFiniteSet(removals') /\ Len(published) + Cardinality(removals') <= MaxEvents
    <3>1. /\ IsFiniteSet(removals') /\ Cardinality(removals') \in Nat
          /\ Cardinality(removals') = Cardinality(removals) - 1
      BY <1>5, <2>0
    <3> QED
      BY <1>1, <3>1
  <2> QED
    BY <1>7, <2>1 DEF LoseRemoval, EventsOK, Counted, task
<1>8. ASSUME NEW i \in Instances, Take(i) PROVE EventsOK'
  <2>1. /\ 1 \in DOMAIN chan[i] /\ msg' = [msg EXCEPT ![i] = chan[i][1]]
        /\ chan' = [chan EXCEPT ![i] = SubSeq(@, 1, 0) \o SubSeq(@, 2, Len(@))]
        /\ UNCHANGED <<member, removals, published, drops>>
    BY <1>8 DEF Take, Deliverable, db
  <2>2. chan[i] \in Seq(Events) /\ chan[i][1] \in 0..MaxEvents /\ chan[i][1] <= Len(published)
    BY <2>1 DEF EventsOK, Counted, Events
  <2>3. /\ chan'[i] \in Seq(Events)
        /\ \A k \in DOMAIN chan'[i] : k + 1 \in DOMAIN chan[i] /\ chan'[i][k] = chan[i][k + 1]
        /\ \A x \in Instances : x # i => chan'[x] = chan[x]
        /\ chan' \in [Instances -> Seq(Events)]
    BY <2>1, <2>2, Popped DEF EventsOK
  <2>4. msg' \in [Instances -> 0..MaxEvents] /\ \A x \in Instances : msg'[x] <= Len(published)
    BY <2>1, <2>2 DEF EventsOK, Counted
  <2> QED
    BY <2>1, <2>3, <2>4 DEF EventsOK, Counted
<1>9. ASSUME UNCHANGED <<member, removals, published, msg>>, drops' \in 0..MaxDrops,
             chan' \in [Instances -> Seq(Events)],
             \A i \in Instances : chan'[i] \in {chan[i], <<>>}
      PROVE  EventsOK'
  BY <1>9 DEF EventsOK, Counted
<1>10. ASSUME NEW c \in Conns, Handshake(c) \/ Hangup(c) \/ AuthorizeSocket(c) \/ Connect(c)
       PROVE  EventsOK'
  BY <1>10 DEF Handshake, Hangup, AuthorizeSocket, Connect, db, redis, task, EventsOK, Counted
<1>11. ASSUME NEW c \in Conns, EndpointExit(c) PROVE EventsOK'
  <2>1. /\ UNCHANGED <<member, removals, published, msg, drops>>
        /\ chan' = chan \/ chan' = [chan EXCEPT ![instanceOf[c]] = <<>>]
    BY <1>11 DEF EndpointExit, CancelListener, db
  <2> QED
    BY <1>9, <2>1, ChannelCleared DEF EventsOK
<1>12. ASSUME NEW i \in Instances, Redis(i) \/ (Listen(i) /\ ~Take(i)) \/ \E c \in Conns : Send(i, c)
       PROVE  EventsOK'
  <2>1. /\ UNCHANGED <<member, removals, published, msg>>
        /\ drops' = drops \/ (drops < MaxDrops /\ drops' = drops + 1)
        /\ chan' = chan \/ chan' = [chan EXCEPT ![i] = <<>>]
    BY <1>12 DEF Redis, Listen, Deliver, Confirm, SubscribeFails, LoseRedis, Subscribe, NoticeLoss, Retry,
                 CloseOne, ClosedAll, FinishBroadcast, Send, BackOff, db, redis, task
  <2> QED
    BY <1>9, <2>1, ChannelCleared DEF EventsOK
<1> QED
  BY <1>2, <1>3, <1>4, <1>6, <1>7, <1>8, <1>10, <1>11, <1>12 DEF Next, Rest, Endpoint, Listen, Deliver

LEMMA InstancesStep == ASSUME EventsOK, InstancesOK, Next PROVE InstancesOK'
<1> USE DEF InstancesOK, ConnStates, LinkStates, ListenerStates
<1>1. CASE PublishChange \/ \E u \in Users : Rest(u)
  <2>1. stale' \in [Conns -> {"no", "gap", "owed"}]
    BY <1>1 DEF PublishChange, Rest, RemoveMember, AddMember, PublishRemoval, LoseRemoval, Emit, Missing, ghosts
  <2>2. banned' \in [Instances -> SUBSET Conns]
    BY <1>1 DEF PublishChange, Rest, RemoveMember, AddMember, PublishRemoval, LoseRemoval, ghosts
  <2> QED
    BY <1>1, <2>1, <2>2
       DEF PublishChange, Rest, RemoveMember, AddMember, PublishRemoval, LoseRemoval, redis, task, ghosts
<1>2. ASSUME NEW c \in Conns, Handshake(c) \/ Hangup(c) \/ AuthorizeSocket(c) PROVE InstancesOK'
  BY <1>2 DEF Handshake, Hangup, AuthorizeSocket, redis, task, ghosts
<1>3. ASSUME NEW c \in Conns, Connect(c) PROVE InstancesOK'
  <2>1. /\ conn' \in [Conns -> ConnStates] /\ registered' \in [Instances -> SUBSET Conns]
        /\ recovering' \in [Instances -> BOOLEAN]
    BY <1>3 DEF Connect
  <2>2. /\ listener' \in [Instances -> ListenerStates]
        /\ \A i \in Instances : listener[i] \in {"resyncing", "closing", "sending"} => listener'[i] = listener[i]
    BY <1>3 DEF Connect
  <2> QED
    BY <1>3, <2>1, <2>2 DEF Connect, redis, ghosts
<1>4. ASSUME NEW c \in Conns, EndpointExit(c) PROVE InstancesOK'
  BY ZenonT(30), <1>4 DEF EndpointExit, CancelListener, Forget
<1>5. ASSUME NEW i \in Instances, Redis(i) PROVE InstancesOK'
  <2>1. /\ link' \in [Instances -> LinkStates]
        /\ listener' \in [Instances -> ListenerStates]
        /\ recovering' \in [Instances -> BOOLEAN]
        /\ \A x \in Instances : listener'[x] = listener[x] \/ listener[x] = "subscribing"
    BY ZenonT(30), <1>5 DEF Redis, Confirm, SubscribeFails, LoseRedis, BackOff, task
  <2>2. UNCHANGED <<todo, failed, registered, conn, last, stale, banned>>
    BY <1>5 DEF Redis, Confirm, SubscribeFails, LoseRedis, BackOff, task, ghosts
  <2> QED
    BY <2>1, <2>2
<1>6. ASSUME NEW i \in Instances, Subscribe(i) PROVE InstancesOK'
  <2>1. /\ link' = [link EXCEPT ![i] = "sent"]
        /\ UNCHANGED <<recovering, failed, registered, conn, last, stale, banned>>
    BY <1>6 DEF Subscribe, ghosts
  <2>2. link' \in [Instances -> LinkStates]
    BY <2>1
  <2>3. CASE recovering[i]
    <3>1. /\ listener' = [listener EXCEPT ![i] = "resyncing"]
          /\ todo' = [todo EXCEPT ![i] = registered[i]]
      BY <1>6, <2>3 DEF Subscribe, StartBroadcast
    <3>2. /\ listener' \in [Instances -> ListenerStates] /\ todo' \in [Instances -> SUBSET Conns]
          /\ listener'[i] = "resyncing"
          /\ \A x \in Instances : x # i => todo'[x] = todo[x] /\ listener'[x] = listener[x]
      BY <3>1
    <3> QED
      BY <2>1, <2>2, <3>2
  <2>4. CASE ~recovering[i]
    <3>1. /\ listener[i] = "subscribing" /\ listener' = [listener EXCEPT ![i] = "listening"]
          /\ todo' = todo
      BY <1>6, <2>4 DEF Subscribe
    <3>2. /\ listener' \in [Instances -> ListenerStates]
          /\ todo[i] = {} /\ \A x \in Instances : x # i => listener'[x] = listener[x]
      BY <3>1
    <3> QED
      BY <2>1, <2>2, <3>1, <3>2
  <2> QED
    BY <2>3, <2>4
<1>7. ASSUME NEW i \in Instances, NoticeLoss(i) \/ Retry(i) PROVE InstancesOK'
  BY ZenonT(30), <1>7 DEF NoticeLoss, Retry, BackOff, redis, ghosts
<1>8. ASSUME NEW i \in Instances, Take(i) PROVE InstancesOK'
  <2>1. PICK u : /\ \/ listener' = [listener EXCEPT ![i] = "sending"] /\ todo' = [todo EXCEPT ![i] = registered[i]]
                    \/ listener' = [listener EXCEPT ![i] = "closing"] /\ todo' = [todo EXCEPT ![i] = OfUser(i, u)]
                 /\ banned' = [banned EXCEPT ![i] = @ \cup {c \in Here(i) :
                        userOf[c] = u /\ u \notin member /\ conn[c] # "accepting"}]
                 /\ UNCHANGED <<link, recovering, failed, registered, conn, last, stale>>
    BY ZenonT(30), <1>8 DEF Take, StartBroadcast
  <2>2. OfUser(i, u) \subseteq Conns /\ Here(i) \subseteq Conns
    BY DEF OfUser, Here
  <2>3. banned' \in [Instances -> SUBSET Conns]
    BY <2>1, <2>2
  <2>4. PICK state \in {"sending", "closing"}, S \in SUBSET Conns :
            listener' = [listener EXCEPT ![i] = state] /\ todo' = [todo EXCEPT ![i] = S]
    BY <2>1, <2>2
  <2>5. /\ listener' \in [Instances -> ListenerStates] /\ todo' \in [Instances -> SUBSET Conns]
        /\ listener'[i] = state
        /\ \A x \in Instances : x # i => todo'[x] = todo[x] /\ listener'[x] = listener[x]
    BY <2>4
  <2> QED
    BY <2>1, <2>3, <2>5
<1>9. ASSUME NEW i \in Instances, CloseOne(i) PROVE InstancesOK'
  BY <1>9 DEF CloseOne, Forget, redis
<1>10. ASSUME NEW i \in Instances, ClosedAll(i) PROVE InstancesOK'
  BY <1>10 DEF ClosedAll, StartBroadcast, redis, ghosts
<1>11. ASSUME NEW i \in Instances, NEW c \in Conns, Send(i, c) PROVE InstancesOK'
  <2>1. /\ todo' = [todo EXCEPT ![i] = @ \ {c}]
        /\ UNCHANGED <<link, listener, recovering, registered, conn, banned>>
    BY <1>11 DEF Send, redis
  <2>2. last' \in [Conns -> 0..MaxEvents]
    <3>1. msg[i] \in 0..MaxEvents /\ last[c] \in 0..MaxEvents
      BY DEF EventsOK
    <3>2. last' = last \/ last' = [last EXCEPT ![c] = msg[i]] \/ last' = [last EXCEPT ![c] = @]
      BY <1>11 DEF Send
    <3> QED
      BY <3>1, <3>2
  <2>4. stale' \in [Conns -> {"no", "gap", "owed"}]
    BY <1>11 DEF Send, Forget
  <2>3. failed' \in [Instances -> SUBSET Conns]
    BY <1>11 DEF Send
  <2> QED
    BY <2>1, <2>2, <2>3, <2>4
<1>12. ASSUME NEW i \in Instances, FinishBroadcast(i) PROVE InstancesOK'
  BY <1>12 DEF FinishBroadcast, Forget, redis
<1> QED
  BY <1>1, <1>2, <1>3, <1>4, <1>5, <1>6, <1>7, <1>8, <1>9, <1>10, <1>11, <1>12
     DEF Next, Endpoint, Listen, Deliver

LEMMA TypeStep == TypeInv /\ [Next]_vars => TypeInv'
<1> SUFFICES ASSUME TypeInv, [Next]_vars PROVE TypeInv'
  OBVIOUS
<1>1. CASE Next
  BY <1>1, TwoParts, EventsStep, InstancesStep
<1>2. CASE UNCHANGED vars
  BY <1>2, TwoParts DEF vars, db, redis, task, ghosts, EventsOK, InstancesOK, Counted
<1> QED
  BY <1>1, <1>2

LEMMA TypeInvariance == Spec => []TypeInv
BY TypeInit, TypeStep, PTL DEF Spec

\* Every state is well typed, and there is always room to publish the removals that
\* are committed.
THEOREM TypeCorrect == Spec => []TypeOK
BY TypeInvariance, PTL DEF TypeInv

-----------------------------------------------------------------------------
(* The inductive invariant, part by part *)

LEMMA InvInit == Init => Inv
<1> SUFFICES ASSUME Init PROVE Inv
  OBVIOUS
<1>1. \A i \in Instances : Registry(i) /\ Barred(i)
  BY DEF Init, Registry, Barred
<1>2. ASSUME NEW i \in Instances PROVE Ordered(i)
  <2>1. chan[i] = << >> /\ msg[i] = 0 /\ listener[i] = "none"
    BY DEF Init
  <2>2. DOMAIN chan[i] = {}
    BY <2>1
  <2> QED
    BY <2>1, <2>2 DEF Init, Ordered, Here
<1> QED
  BY <1>1, <1>2 DEF Init, Inv, OpenSocketsAreServed, ListenersHaveViewers

\* What the parts of the invariant are about.
sockets == <<conn, registered, todo, failed>>

LEMMA RegistryStep ==
    ASSUME TypeInv, \A i \in Instances : Registry(i), Next, NEW j \in Instances
    PROVE  Registry(j)'
<1>0. InstancesOK /\ Registry(j)
  BY TwoParts
<1> USE DEF Registry, InstancesOK, Here
<1>1. CASE UNCHANGED sockets
  BY <1>0, <1>1 DEF sockets
<1>2. ASSUME NEW c \in Conns, Handshake(c) \/ AuthorizeSocket(c) \/ Hangup(c) PROVE Registry(j)'
  <2>1. /\ UNCHANGED <<registered, todo, failed>> /\ conn[c] # "revoked"
        /\ \A d \in Conns : d # c => conn'[d] = conn[d]
        /\ conn[c] \in {"open", "gone", "done"} => conn[c] = "open" /\ conn'[c] = "gone"
    BY <1>0, <1>2 DEF Handshake, AuthorizeSocket, Hangup, task
  <2> QED
    BY <1>0, <2>1
<1>3. ASSUME NEW c \in Conns, Connect(c) PROVE Registry(j)'
  <2>1. /\ UNCHANGED <<todo, failed>> /\ conn[c] = "accepting" /\ conn'[c] = "open"
        /\ \A d \in Conns : d # c => conn'[d] = conn[d]
        /\ registered'[j] \subseteq registered[j] \cup {c}
        /\ c \in registered'[j] => instanceOf[c] = j
    BY <1>0, <1>3 DEF Connect
  <2>2. c \notin registered[j] /\ c \notin todo[j] /\ c \notin failed[j]
    BY <1>0, <2>1
  <2>3. /\ todo'[j] \subseteq {d \in Here(j) : conn'[d] \in {"open", "gone", "done"}}
        /\ failed'[j] \subseteq {d \in Here(j) : conn'[d] \in {"gone", "done"}}
    BY <1>0, <2>1, <2>2
  <2> QED
    BY <1>0, <2>1, <2>2, <2>3
<1>4. ASSUME NEW c \in Conns, EndpointExit(c) PROVE Registry(j)'
  <2>1. /\ conn[c] \in {"gone", "revoked"} /\ conn'[c] = "done"
        /\ \A d \in Conns : d # c => conn'[d] = conn[d]
    BY <1>0, <1>4 DEF EndpointExit
  <2>2. registered'[j] = IF j = instanceOf[c] THEN registered[j] \ {c} ELSE registered[j]
    <3>1. registered' = [registered EXCEPT ![instanceOf[c]] = @ \ {c}]
      BY <1>4 DEF EndpointExit
    <3>2. registered \in [Instances -> SUBSET Conns]
      BY <1>0
    <3>3. CASE j = instanceOf[c]
      BY <3>1, <3>2, <3>3
    <3>4. CASE j # instanceOf[c]
      BY <3>1, <3>2, <3>4
    <3> QED
      BY <3>3, <3>4
  <2>3. todo'[j] \subseteq todo[j] /\ failed'[j] \subseteq failed[j]
    <3>1. CASE UNCHANGED <<todo, failed>>
      BY <3>1
    <3>2. CASE CancelListener(instanceOf[c])
      BY <1>0, <3>2 DEF CancelListener
    <3> QED
      BY <1>4, <3>1, <3>2 DEF EndpointExit
  <2> QED
    BY SMTT(30), <1>0, <2>1, <2>2, <2>3
<1>5. ASSUME NEW i \in Instances, Subscribe(i) \/ Take(i) \/ ClosedAll(i) PROVE Registry(j)'
  <2>1. /\ UNCHANGED <<conn, registered, failed>>
        /\ todo'[j] \subseteq todo[j] \/ todo'[j] \subseteq registered[j]
    BY <1>0, <1>5 DEF Subscribe, Take, ClosedAll, StartBroadcast, OfUser
  <2> QED
    BY <1>0, <2>1
<1>6. ASSUME NEW i \in Instances, CloseOne(i) PROVE Registry(j)'
  <2>1. PICK c \in todo[i] :
            /\ todo' = [todo EXCEPT ![i] = @ \ {c}]
            /\ registered' = [registered EXCEPT ![i] = @ \ {c}]
            /\ conn' = [conn EXCEPT ![c] = IF @ = "open" THEN "revoked" ELSE @]
            /\ failed' = failed
    BY <1>6 DEF CloseOne
  <2>2. c \in Conns /\ instanceOf[c] = i
    BY <2>1
  <2>3. /\ \A d \in Conns : d # c => conn'[d] = conn[d]
        /\ conn[c] # "open" => conn'[c] = conn[c]
        /\ c \notin todo'[j] /\ c \notin registered'[j]
        /\ todo'[j] \subseteq todo[j] /\ registered'[j] \subseteq registered[j]
    BY <1>0, <2>1, <2>2
  <2> QED
    BY <1>0, <2>1, <2>3
<1>7. ASSUME NEW i \in Instances, NEW c \in Conns, Send(i, c) PROVE Registry(j)'
  <2>1. /\ UNCHANGED <<conn, registered>> /\ todo'[j] \subseteq todo[j]
        /\ failed'[j] \subseteq failed[j] \cup (IF j = i /\ conn[c] # "open" THEN {c} ELSE {})
        /\ c \in todo[i]
    BY <1>0, <1>7 DEF Send
  <2> QED
    BY <1>0, <2>1
<1>8. ASSUME NEW i \in Instances, FinishBroadcast(i) PROVE Registry(j)'
  BY <1>0, <1>8 DEF FinishBroadcast
<1> QED
  BY <1>1, <1>2, <1>3, <1>4, <1>5, <1>6, <1>7, <1>8
     DEF Next, PublishChange, Rest, RemoveMember, AddMember, PublishRemoval, LoseRemoval, Endpoint, Redis,
         Confirm, SubscribeFails, LoseRedis, BackOff, Listen, Deliver, NoticeLoss, Retry, sockets, task

\* A socket that is open stays registered and served.
LEMMA ServedStep ==
    ASSUME TypeInv, \A i \in Instances : Registry(i), OpenSocketsAreServed, Next
    PROVE  OpenSocketsAreServed'
<1>0. InstancesOK
  BY TwoParts
<1> USE DEF OpenSocketsAreServed, InstancesOK
<1> SUFFICES ASSUME NEW d \in Conns, conn'[d] = "open", NEW j \in Instances, j = instanceOf[d]
             PROVE  d \in registered'[j] /\ listener'[j] # "none"
  OBVIOUS
<1>1. CASE \E c \in Conns : Connect(c)
  <2>1. PICK c \in Conns : Connect(c)
    BY <1>1
  <2>2. /\ \/ listener' = listener /\ listener[instanceOf[c]] # "none"
           \/ listener' = [listener EXCEPT ![instanceOf[c]] = "subscribing"]
        /\ conn' = [conn EXCEPT ![c] = "open"]
        /\ registered' = [registered EXCEPT ![instanceOf[c]] = @ \cup {c}]
    BY <1>0, <2>1 DEF Connect
  <2> QED
    BY <1>0, <2>2
<1>2. CASE ~ \E c \in Conns : Connect(c)
  <2>1. conn[d] = "open"
    <3>1. ASSUME NEW c \in Conns, Handshake(c) \/ Hangup(c) \/ AuthorizeSocket(c) \/ EndpointExit(c)
          PROVE  conn[d] = "open"
      BY <1>0, <3>1 DEF Handshake, Hangup, AuthorizeSocket, EndpointExit
    <3>2. ASSUME NEW i \in Instances, CloseOne(i) PROVE conn[d] = "open"
      BY <1>0, <3>2 DEF CloseOne
    <3> QED
      BY <1>2, <3>1, <3>2
         DEF Next, PublishChange, Rest, RemoveMember, AddMember, PublishRemoval, LoseRemoval, Endpoint, Redis,
             Confirm, SubscribeFails, LoseRedis, Listen, Deliver, Subscribe, NoticeLoss, Retry, Take, ClosedAll,
             FinishBroadcast, Send
  <2>2. d \in registered[j] /\ listener[j] # "none" /\ d \notin failed[j]
    BY <2>1 DEF Registry
  <2>3. ASSUME NEW c \in Conns, EndpointExit(c) PROVE d \in registered'[j] /\ listener'[j] # "none"
    BY <1>0, <2>1, <2>2, <2>3 DEF EndpointExit, LastOut, CancelListener
  <2>4. ASSUME NEW i \in Instances, Listen(i) PROVE d \in registered'[j] /\ listener'[j] # "none"
    <3>1. listener'[j] # "none"
      BY <1>0, <2>2, <2>4 DEF Listen, Deliver, Subscribe, NoticeLoss, Retry, BackOff,
                Take, CloseOne, ClosedAll, FinishBroadcast, StartBroadcast
    <3>2. CASE CloseOne(i)
      BY <1>0, <2>1, <2>2, <3>2 DEF CloseOne
    <3>3. CASE FinishBroadcast(i)
      BY <1>0, <2>2, <3>3 DEF FinishBroadcast
    <3>4. CASE registered' = registered
      BY <2>2, <3>1, <3>4
    <3> QED
      BY <2>4, <3>1, <3>2, <3>3, <3>4 DEF Listen, Deliver, Subscribe, NoticeLoss, Retry, Take, ClosedAll
  <2>5. CASE registered' = registered /\ (listener' = listener \/ \E i \in Instances : Redis(i))
    BY <1>0, <2>2, <2>5 DEF Redis, Confirm, SubscribeFails, LoseRedis, BackOff, task
  <2> QED
    BY <1>2, <2>3, <2>4, <2>5 DEF Next, PublishChange, Rest, RemoveMember, AddMember, PublishRemoval,
       LoseRemoval, Handshake, Hangup, Endpoint, AuthorizeSocket, Redis, Confirm, SubscribeFails, LoseRedis,
       Send, task
<1> QED
  BY <1>1, <1>2

\* A listener that runs has an endpoint that will stop it.
LEMMA ViewersStep ==
    ASSUME TypeInv, \A i \in Instances : Registry(i), ListenersHaveViewers, Next
    PROVE  ListenersHaveViewers'
<1>0. InstancesOK
  BY TwoParts
<1> USE DEF ListenersHaveViewers, InstancesOK, Here
<1> SUFFICES ASSUME NEW j \in Instances, listener'[j] # "none"
             PROVE  \E d \in Here(j) : conn'[d] \in {"open", "gone", "revoked"}
  OBVIOUS
<1>1. ASSUME NEW c \in Conns, Connect(c) PROVE \E d \in Here(j) : conn'[d] \in {"open", "gone", "revoked"}
  <2>1. CASE instanceOf[c] = j
    BY <1>0, <1>1, <2>1 DEF Connect
  <2>2. CASE instanceOf[c] # j
    <3>1. listener[j] # "none" /\ \A d \in Conns : conn[d] \in {"open", "gone", "revoked"} => conn'[d] = conn[d]
      BY <1>0, <1>1, <2>2 DEF Connect
    <3> QED
      BY <3>1
  <2> QED
    BY <2>1, <2>2
<1>2. ASSUME NEW c \in Conns, EndpointExit(c)
      PROVE  \E d \in Here(j) : conn'[d] \in {"open", "gone", "revoked"}
  <2>1. listener[j] # "none" /\ \A d \in Conns : d # c => conn'[d] = conn[d]
    BY <1>0, <1>2 DEF EndpointExit, CancelListener
  <2>2. CASE instanceOf[c] # j
    BY <2>1, <2>2
  <2>3. CASE instanceOf[c] = j
    <3>1. ~(registered[j] \subseteq {c})
      BY <1>0, <1>2, <2>1, <2>3 DEF EndpointExit, CancelListener, LastOut
    <3>2. PICK d \in registered[j] : d # c
      BY <3>1
    <3> QED
      BY <2>1, <3>2 DEF Registry
  <2> QED
    BY <2>2, <2>3
<1>3. CASE ~ \E c \in Conns : Connect(c) \/ EndpointExit(c)
  <2>1. listener[j] # "none"
    <3>1. ASSUME NEW i \in Instances, Redis(i) \/ Listen(i) PROVE listener[j] # "none"
      BY <1>0, <3>1 DEF Redis, Confirm, SubscribeFails, LoseRedis, BackOff, Listen, Deliver, Subscribe, NoticeLoss,
                  Retry, Take, CloseOne, ClosedAll, FinishBroadcast, StartBroadcast, task
    <3> QED
      BY <1>3, <3>1 DEF Next, PublishChange, Rest, RemoveMember, AddMember, PublishRemoval, LoseRemoval,
                  Handshake, Hangup, Endpoint, AuthorizeSocket, Send, task
  <2>2. \A d \in Conns : conn[d] \in {"open", "gone", "revoked"} => conn'[d] \in {"open", "gone", "revoked"}
    <3>1. ASSUME NEW i \in Instances, CloseOne(i)
          PROVE  \A d \in Conns : conn[d] \in {"open", "gone", "revoked"} => conn'[d] \in {"open", "gone", "revoked"}
      BY <1>0, <3>1 DEF CloseOne
    <3>2. ASSUME NEW c \in Conns, Handshake(c) \/ Hangup(c) \/ AuthorizeSocket(c)
          PROVE  \A d \in Conns : conn[d] \in {"open", "gone", "revoked"} => conn'[d] \in {"open", "gone", "revoked"}
      BY <1>0, <3>2 DEF Handshake, Hangup, AuthorizeSocket
    <3> QED
      BY <1>3, <3>1, <3>2
         DEF Next, PublishChange, Rest, RemoveMember, AddMember, PublishRemoval, LoseRemoval, Endpoint, Redis,
             Confirm, SubscribeFails, LoseRedis, Listen, Deliver, Subscribe, NoticeLoss, Retry, Take, ClosedAll,
             FinishBroadcast, Send
  <2> QED
    BY <2>1, <2>2
<1> QED
  BY <1>1, <1>2, <1>3

\* Events stay in their order.
LEMMA OrderedStep ==
    ASSUME TypeInv, TypeInv', \A i \in Instances : Registry(i), Next, NEW j \in Instances, Ordered(j)
    PROVE  Ordered(j)'
<1>0. EventsOK /\ InstancesOK /\ InstancesOK'
  BY TwoParts
<1> USE DEF Here
<1>1. /\ msg[j] \in Nat /\ \A c \in Here(j) : last[c] \in Nat /\ last'[c] \in Nat
      /\ \A k \in DOMAIN chan[j] : k \in Nat /\ chan[j][k] \in Nat
  BY <1>0 DEF EventsOK, InstancesOK, Events
\* Nothing is received, taken up or sent.
<1>2. ASSUME chan'[j] \in {chan[j], << >>}, msg'[j] = msg[j], \A c \in Here(j) : last'[c] = last[c],
             \/ listener'[j] \notin {"closing", "sending"}
             \/ listener'[j] = listener[j] /\ todo'[j] \subseteq todo[j]
             \/ listener[j] = "closing" /\ todo'[j] \subseteq Here(j)
      PROVE  Ordered(j)'
  <2>1. \A k \in DOMAIN chan'[j] : k \in DOMAIN chan[j] /\ chan'[j][k] = chan[j][k]
    BY <1>2
  <2>2. listener'[j] = "closing" => \A c \in Here(j) : last'[c] < msg'[j]
    BY <1>2 DEF Ordered
  <2>3. listener'[j] = "sending" => \A c \in todo'[j] : last'[c] < msg'[j]
    <3>1. CASE listener'[j] \notin {"closing", "sending"}
      BY <3>1
    <3>2. CASE listener'[j] = listener[j] /\ todo'[j] \subseteq todo[j]
      BY <1>2, <3>2 DEF Ordered, Registry
    <3>3. CASE listener[j] = "closing" /\ todo'[j] \subseteq Here(j)
      BY <1>2, <3>3 DEF Ordered
    <3> QED
      BY <1>2, <3>1, <3>2, <3>3
  <2>4. \A k \in DOMAIN chan'[j] : msg'[j] < chan'[j][k]
    BY <1>2, <2>1 DEF Ordered
  <2>5. \A k, l \in DOMAIN chan'[j] : k < l => chan'[j][k] < chan'[j][l]
    BY <2>1 DEF Ordered
  <2>6. \A c \in Here(j) : last'[c] <= msg'[j]
    BY <1>2 DEF Ordered
  <2> QED
    BY <2>2, <2>3, <2>4, <2>5, <2>6 DEF Ordered
<1>3. ASSUME NEW u \in Users \cup {NoUser}, Emit(u), Len(published) < MaxEvents,
             UNCHANGED <<msg, last, listener, todo>>
      PROVE  Ordered(j)'
  <2>1. /\ \A k \in DOMAIN chan'[j] :
              \/ k \in DOMAIN chan[j] /\ chan'[j][k] = chan[j][k]
              \/ k = Len(chan[j]) + 1 /\ chan'[j][k] = Len(published) + 1
        /\ chan[j] \in Seq(Events)
    BY <1>0, <1>3, EmitTypes DEF EventsOK
  <2>2. /\ Len(published) \in Nat /\ msg[j] <= Len(published)
        /\ \A k \in DOMAIN chan[j] : chan[j][k] <= Len(published)
    BY <1>0 DEF EventsOK, Counted
  <2>3. \A k \in DOMAIN chan'[j] : msg[j] < chan'[j][k]
    BY <1>1, <2>1, <2>2 DEF Ordered
  <2>4. ASSUME NEW k \in DOMAIN chan'[j], NEW l \in DOMAIN chan'[j], k < l
        PROVE  chan'[j][k] < chan'[j][l]
    <3>1. k \in DOMAIN chan[j]
      BY <2>1, <2>4
    <3>2. CASE l \in DOMAIN chan[j] /\ chan'[j][l] = chan[j][l]
      BY <2>1, <2>4, <3>1, <3>2 DEF Ordered
    <3>3. CASE chan'[j][l] = Len(published) + 1
      BY <1>1, <2>1, <2>2, <3>1, <3>3
    <3> QED
      BY <2>1, <3>2, <3>3
  <2> QED
    BY <1>3, <2>3, <2>4 DEF Ordered
<1>4. ASSUME Take(j) PROVE Ordered(j)'
  <2> DEFINE n == chan[j][1]
  <2>1. /\ 1 \in DOMAIN chan[j] /\ msg' = [msg EXCEPT ![j] = n]
        /\ chan' = [chan EXCEPT ![j] = SubSeq(@, 1, 0) \o SubSeq(@, 2, Len(@))]
        /\ last' = last
    BY <1>4 DEF Take, Deliverable
  <2>2. msg[j] < n /\ msg'[j] = n /\ n \in Nat
    BY <1>0, <1>1, <2>1 DEF Ordered, EventsOK
  <2>3. \A k \in DOMAIN chan'[j] : k + 1 \in DOMAIN chan[j] /\ chan'[j][k] = chan[j][k + 1]
    BY <1>0, <2>1, Popped DEF EventsOK
  <2>4. \A k \in DOMAIN chan'[j] : k \in Nat /\ k >= 1
    BY <1>0, <2>1, Popped DEF EventsOK
  <2> HIDE DEF n
  <2>5. \A c \in Here(j) : last'[c] < n
    BY <1>1, <2>1, <2>2 DEF Ordered
  <2>6. \A k \in DOMAIN chan'[j] : n < chan'[j][k]
    <3> SUFFICES ASSUME NEW k \in DOMAIN chan'[j] PROVE n < chan[j][k + 1]
      BY <2>3
    <3>1. 1 < k + 1
      BY <2>4
    <3> QED
      BY <2>1, <2>3, <3>1 DEF Ordered, n
  <2>7. ASSUME NEW k \in DOMAIN chan'[j], NEW l \in DOMAIN chan'[j], k < l
        PROVE  chan'[j][k] < chan'[j][l]
    <3>1. k + 1 < l + 1
      BY <2>4, <2>7
    <3> QED
      BY <2>3, <3>1 DEF Ordered
  <2>8. \A c \in Here(j) : last'[c] <= msg'[j] /\ last'[c] < msg'[j]
    BY <1>1, <2>1, <2>2, <2>5
  <2>9. todo'[j] \subseteq Here(j)
    BY <1>0, <1>4 DEF Take, StartBroadcast, OfUser, Registry, InstancesOK
  <2> QED
    BY <2>2, <2>6, <2>7, <2>8, <2>9 DEF Ordered
<1>5. ASSUME NEW c \in Conns, Send(j, c) PROVE Ordered(j)'
  <2>1. /\ UNCHANGED <<chan, msg, listener>> /\ todo' = [todo EXCEPT ![j] = @ \ {c}]
        /\ listener[j] # "closing"
        /\ \A d \in Conns : d # c => last'[d] = last[d]
        /\ last'[c] \in {last[c], msg[j]}
    BY <1>0, <1>5 DEF Send, redis, InstancesOK
  <2>2. todo'[j] = todo[j] \ {c}
    BY <1>0, <2>1 DEF InstancesOK
  <2> QED
    BY <1>1, <2>1, <2>2 DEF Ordered, Registry
<1>6. ASSUME NEW i \in Instances, i # j, Take(i) \/ \E c \in Conns : Send(i, c) PROVE Ordered(j)'
  <2>1. /\ chan'[j] = chan[j] /\ msg'[j] = msg[j] /\ listener'[j] = listener[j] /\ todo'[j] = todo[j]
    <3>1. CASE Take(i)
      <4>1. \E q : chan' = [chan EXCEPT ![i] = q]
        BY <3>1 DEF Take
      <4>2. \E n : msg' = [msg EXCEPT ![i] = n]
        BY <3>1 DEF Take
      <4>3. \E state : listener' = [listener EXCEPT ![i] = state]
        BY <3>1 DEF Take, StartBroadcast
      <4>4. \E S : todo' = [todo EXCEPT ![i] = S]
        BY <3>1 DEF Take, StartBroadcast
      <4> QED
        BY <1>0, <1>6, <4>1, <4>2, <4>3, <4>4 DEF EventsOK, InstancesOK
    <3>2. CASE \E c \in Conns : Send(i, c)
      BY <1>0, <1>6, <3>2 DEF Send, redis, InstancesOK
    <3> QED
      BY <1>6, <3>1, <3>2
  <2>2. \A c \in Here(j) : last'[c] = last[c]
    <3>1. CASE Take(i)
      BY <3>1 DEF Take
    <3>2. ASSUME NEW c \in Conns, Send(i, c) PROVE \A d \in Here(j) : last'[d] = last[d]
      <4>1. c \in todo[i] /\ c \notin Here(j)
        BY <1>6, <3>2 DEF Send, Registry
      <4>2. last' = last \/ \E n : last' = [last EXCEPT ![c] = n]
        BY <3>2 DEF Send
      <4> QED
        BY <1>0, <4>1, <4>2 DEF InstancesOK
    <3> QED
      BY <1>6, <3>1, <3>2
  <2> QED
    BY <1>2, <2>1, <2>2
<1>7. CASE PublishChange
  <2>1. Emit(NoUser) /\ Len(published) < MaxEvents /\ UNCHANGED <<msg, last, listener, todo>>
    BY <1>0, <1>7, FS_CardinalityType DEF PublishChange, Room, EventsOK, Counted, task
  <2> QED
    BY <1>3, <2>1
<1>8. ASSUME NEW u \in Users, PublishRemoval(u) PROVE Ordered(j)'
  <2>1. Emit(u) /\ UNCHANGED <<msg, last, listener, todo>>
    BY <1>8 DEF PublishRemoval, task
  <2>2. Len(published) < MaxEvents
    <3>1. Len(published') = Len(published) + 1 /\ Len(published') <= MaxEvents /\ Len(published) \in Nat
      BY <1>0, <2>1, TwoParts DEF Emit, EventsOK
    <3> QED
      BY <3>1
  <2> QED
    BY <1>3, <2>1, <2>2
<1>9. ASSUME NEW c \in Conns, Handshake(c) \/ Hangup(c) \/ AuthorizeSocket(c) PROVE Ordered(j)'
  BY <1>2, <1>9 DEF Handshake, Hangup, AuthorizeSocket, redis, task, ghosts
<1>10. ASSUME NEW c \in Conns, Connect(c) PROVE Ordered(j)'
  <2>1. UNCHANGED <<chan, msg, last, todo>> /\ (listener'[j] = listener[j] \/ listener'[j] = "subscribing")
    BY <1>0, <1>10 DEF Connect, redis, ghosts, InstancesOK
  <2> QED
    BY <1>2, <2>1
<1>11. ASSUME NEW c \in Conns, EndpointExit(c) PROVE Ordered(j)'
  <2>1. UNCHANGED <<msg, last>>
    BY <1>11 DEF EndpointExit
  <2>2. CASE UNCHANGED <<listener, chan, todo>>
    BY <1>2, <2>1, <2>2
  <2>3. CASE CancelListener(instanceOf[c])
    <3>1. \/ chan'[j] = chan[j] /\ listener'[j] = listener[j] /\ todo'[j] = todo[j]
          \/ chan'[j] = << >> /\ listener'[j] = "none"
      BY <1>0, <2>3 DEF CancelListener, EventsOK, InstancesOK
    <3> QED
      BY <1>2, <2>1, <3>1
  <2> QED
    BY <1>11, <2>2, <2>3 DEF EndpointExit
<1>12. ASSUME NEW i \in Instances, Redis(i) \/ Subscribe(i) \/ NoticeLoss(i) \/ Retry(i) PROVE Ordered(j)'
  <2>1. /\ UNCHANGED <<msg, last>>
        /\ chan'[j] = chan[j] \/ chan'[j] = << >>
        /\ \/ listener'[j] = listener[j] /\ todo'[j] = todo[j]
           \/ listener'[j] \in {"resyncing", "listening", "backoff", "subscribing"}
    BY <1>0, <1>12 DEF Redis, Confirm, SubscribeFails, LoseRedis, BackOff, Subscribe, NoticeLoss, Retry,
                StartBroadcast, task, redis, ghosts, EventsOK, InstancesOK
  <2> QED
    BY <1>2, <2>1
<1>13. ASSUME NEW i \in Instances, CloseOne(i) \/ ClosedAll(i) \/ FinishBroadcast(i) PROVE Ordered(j)'
  <2>1. /\ UNCHANGED <<chan, msg, last>>
        /\ \/ listener'[j] = "listening"
           \/ listener'[j] = listener[j] /\ todo'[j] \subseteq todo[j]
           \/ listener[j] = "closing" /\ todo'[j] = registered[j]
    <3>1. CASE CloseOne(i)
      BY <1>0, <3>1 DEF CloseOne, redis, InstancesOK
    <3>2. CASE ClosedAll(i)
      BY <1>0, <3>2 DEF ClosedAll, StartBroadcast, redis, ghosts, InstancesOK
    <3>3. CASE FinishBroadcast(i)
      BY <1>0, <3>3 DEF FinishBroadcast, redis, InstancesOK
    <3> QED
      BY <1>13, <3>1, <3>2, <3>3
  <2>2. registered[j] \subseteq Here(j)
    BY DEF Registry
  <2> QED
    BY <1>2, <2>1, <2>2
<1>14. ASSUME NEW u \in Users, RemoveMember(u) \/ AddMember(u) \/ LoseRemoval(u) PROVE Ordered(j)'
  BY <1>2, <1>14 DEF RemoveMember, AddMember, LoseRemoval, redis, task, ghosts
<1> QED
  BY <1>4, <1>5, <1>6, <1>7, <1>8, <1>9, <1>10, <1>11, <1>12, <1>13, <1>14
     DEF Next, Rest, Endpoint, Listen, Deliver

\* Who is banned stays out until invited again.
LEMMA BarredStep ==
    ASSUME TypeInv, Inv, Next, NEW j \in Instances
    PROVE  Barred(j)'
<1>0. /\ InstancesOK /\ Barred(j)
      /\ \A i \in Instances : Registry(i)
  BY TwoParts DEF Inv
<1> USE DEF Here
\* A step that lets nobody in and ends no closing.
<1>1. ASSUME banned'[j] \subseteq banned[j], member' \subseteq member,
             \A c \in banned[j] : conn'[c] \in {"accepting", "open"} => conn'[c] = conn[c],
             \A c \in banned[j] : listener[j] = "closing" /\ c \in todo[j] /\ conn'[c] = "open"
                                    => listener'[j] = "closing" /\ c \in todo'[j]
      PROVE  Barred(j)'
  BY <1>0, <1>1 DEF Barred
<1>2. ASSUME NEW u \in Users, Rest(u) PROVE Barred(j)'
  <2>1. UNCHANGED <<conn, listener, todo>>
    BY <1>2 DEF Rest, RemoveMember, AddMember, PublishRemoval, LoseRemoval, task
  <2>2. CASE AddMember(u)
    <3>1. member' = member \cup {u} /\ banned'[j] = {c \in banned[j] : userOf[c] # u}
      BY <2>2 DEF AddMember
    <3> QED
      BY <1>0, <2>1, <3>1 DEF Barred
  <2>3. CASE ~AddMember(u)
    <3>1. member' \subseteq member /\ banned' = banned
      BY <1>2, <2>3 DEF Rest, RemoveMember, PublishRemoval, LoseRemoval, ghosts
    <3> QED
      BY <1>1, <2>1, <3>1
  <2> QED
    BY <2>2, <2>3
<1>3. CASE PublishChange
  BY <1>1, <1>3 DEF PublishChange, db, task
<1>4. ASSUME NEW c \in Conns, Handshake(c) \/ Hangup(c) \/ AuthorizeSocket(c) PROVE Barred(j)'
  <2>1. UNCHANGED <<banned, member, listener, todo>>
    BY <1>4 DEF Handshake, Hangup, AuthorizeSocket, db, task, ghosts
  <2>2. \A d \in banned[j] : conn'[d] \in {"accepting", "open"} => conn'[d] = conn[d]
    BY <1>0, <1>4 DEF Handshake, Hangup, AuthorizeSocket, Barred, InstancesOK
  <2> QED
    BY <1>1, <2>1, <2>2
<1>5. ASSUME NEW c \in Conns, Connect(c) PROVE Barred(j)'
  <2>1. UNCHANGED <<banned, member, todo>> /\ (listener[j] # "none" => listener'[j] = listener[j])
    BY <1>0, <1>5 DEF Connect, db, ghosts, InstancesOK
  <2>2. \A d \in banned[j] : conn'[d] = conn[d]
    BY <1>0, <1>5 DEF Connect, Barred, InstancesOK
  <2> QED
    BY <1>1, <2>1, <2>2
<1>6. ASSUME NEW c \in Conns, EndpointExit(c) PROVE Barred(j)'
  <2>1. /\ UNCHANGED <<banned, member>> /\ conn[c] # "open" /\ conn'[c] = "done"
        /\ \A d \in Conns : d # c => conn'[d] = conn[d]
    BY <1>0, <1>6 DEF EndpointExit, db, InstancesOK
  <2>2. CASE UNCHANGED <<listener, todo>>
    BY <1>0, <1>1, <2>1, <2>2 DEF InstancesOK
  <2>3. CASE LastOut(instanceOf[c], c) /\ CancelListener(instanceOf[c])
    <3>1. CASE instanceOf[c] = j
      <4>1. \A d \in banned[j] : conn'[d] # "open"
        BY <1>0, <2>1, <2>3, <3>1 DEF LastOut, Inv, OpenSocketsAreServed, Barred, InstancesOK
      <4> QED
        BY <1>0, <1>1, <2>1, <4>1 DEF InstancesOK
    <3>2. CASE instanceOf[c] # j
      <4>1. listener'[j] = listener[j] /\ todo'[j] = todo[j]
        BY <1>0, <2>3, <3>2 DEF CancelListener, InstancesOK
      <4> QED
        BY <1>0, <1>1, <2>1, <4>1 DEF InstancesOK
    <3> QED
      BY <3>1, <3>2
  <2> QED
    BY <1>6, <2>2, <2>3 DEF EndpointExit
<1>7. ASSUME NEW i \in Instances, Redis(i) \/ Subscribe(i) \/ NoticeLoss(i) \/ Retry(i) \/ FinishBroadcast(i)
      PROVE  Barred(j)'
  <2>1. /\ UNCHANGED <<banned, member, conn>>
        /\ listener[j] = "closing" => listener'[j] = "closing" /\ todo'[j] = todo[j]
    BY <1>0, <1>7 DEF Redis, Confirm, SubscribeFails, LoseRedis, BackOff, Subscribe, NoticeLoss, Retry,
                FinishBroadcast, StartBroadcast, db, task, ghosts, InstancesOK
  <2> QED
    BY <1>1, <2>1
<1>8. ASSUME NEW i \in Instances, NEW c \in Conns, Send(i, c) PROVE Barred(j)'
  <2>1. /\ UNCHANGED <<banned, member, conn, listener>>
        /\ listener[j] = "closing" => todo'[j] = todo[j]
    BY <1>0, <1>8 DEF Send, db, InstancesOK
  <2> QED
    BY <1>1, <2>1
<1>9. ASSUME NEW i \in Instances, CloseOne(i) PROVE Barred(j)'
  <2>1. PICK c \in todo[i] :
            /\ todo' = [todo EXCEPT ![i] = @ \ {c}]
            /\ conn' = [conn EXCEPT ![c] = IF @ = "open" THEN "revoked" ELSE @]
            /\ UNCHANGED <<banned, member, listener>>
    BY <1>9 DEF CloseOne, db
  <2>2. /\ conn'[c] # "open" /\ \A d \in Conns : d # c => conn'[d] = conn[d]
        /\ conn'[c] = "accepting" => conn[c] = "accepting"
        /\ \A d \in todo[j] : d # c => d \in todo'[j]
    BY <1>0, <2>1 DEF InstancesOK
  <2> QED
    BY <1>0, <1>1, <2>1, <2>2 DEF InstancesOK
<1>10. ASSUME NEW i \in Instances, ClosedAll(i) PROVE Barred(j)'
  <2>1. /\ UNCHANGED <<banned, member, conn>>
        /\ i # j => listener'[j] = listener[j] /\ todo'[j] = todo[j]
        /\ i = j => todo[j] = {}
    BY <1>0, <1>10 DEF ClosedAll, StartBroadcast, db, ghosts, InstancesOK
  <2> QED
    BY <1>1, <2>1
<1>11. ASSUME NEW i \in Instances, i # j, Take(i) PROVE Barred(j)'
  <2>1. /\ UNCHANGED <<member, conn>> /\ banned'[j] = banned[j]
        /\ listener'[j] = listener[j] /\ todo'[j] = todo[j]
    BY <1>0, <1>11 DEF Take, StartBroadcast, db, InstancesOK
  <2> QED
    BY <1>1, <2>1
<1>12. ASSUME Take(j) PROVE Barred(j)'
  <2>1. PICK u :
            /\ IF OfUser(j, u) = {} THEN TRUE
               ELSE /\ listener' = [listener EXCEPT ![j] = "closing"]
                    /\ todo' = [todo EXCEPT ![j] = OfUser(j, u)]
            /\ banned' = [banned EXCEPT ![j] = @ \cup {c \in Here(j) :
                   userOf[c] = u /\ u \notin member /\ conn[c] # "accepting"}]
            /\ listener[j] = "listening" /\ UNCHANGED <<member, conn>>
    BY <1>12 DEF Take, StartBroadcast, db
  <2>2. ASSUME NEW c \in banned'[j]
        PROVE  /\ instanceOf[c] = j /\ userOf[c] \notin member' /\ conn'[c] # "accepting"
               /\ conn'[c] = "open" => listener'[j] = "closing" /\ c \in todo'[j]
    <3>1. CASE c \in banned[j]
      BY <1>0, <2>1, <3>1 DEF Barred
    <3>2. CASE c \in Here(j) /\ userOf[c] = u /\ u \notin member /\ conn[c] # "accepting"
      <4>1. conn[c] = "open" => c \in OfUser(j, u)
        BY <3>2 DEF OfUser, Inv, OpenSocketsAreServed
      <4> QED
        BY <1>0, <2>1, <3>2, <4>1 DEF InstancesOK
    <3> QED
      BY <1>0, <2>1, <2>2, <3>1, <3>2 DEF InstancesOK
  <2> QED
    BY <2>2 DEF Barred
<1> QED
  BY <1>2, <1>3, <1>4, <1>5, <1>6, <1>7, <1>8, <1>9, <1>10, <1>11, <1>12
     DEF Next, Endpoint, Listen, Deliver

LEMMA InvStep == TypeInv /\ TypeInv' /\ Inv /\ [Next]_vars => Inv'
<1> SUFFICES ASSUME TypeInv, TypeInv', Inv, [Next]_vars PROVE Inv'
  OBVIOUS
<1>1. CASE Next
  <2>1. \A i \in Instances : Registry(i)' /\ Ordered(i)' /\ Barred(i)'
    BY <1>1, RegistryStep, OrderedStep, BarredStep DEF Inv
  <2> QED
    BY <1>1, <2>1, ServedStep, ViewersStep DEF Inv
<1>2. CASE UNCHANGED vars
  BY <1>2 DEF vars, db, redis, task, ghosts, Inv, Registry, Ordered, Barred, Here,
              OpenSocketsAreServed, ListenersHaveViewers
<1> QED
  BY <1>1, <1>2

LEMMA Invariance == Spec => []Inv
BY InvInit, InvStep, TypeInvariance, PTL DEF Spec

\* No viewer is left behind: an open socket is registered and a listener runs for it
\* (websocket.py:43-58).
THEOREM SocketsAreServed == Spec => []OpenSocketsAreServed
BY Invariance, PTL DEF Inv

\* No listener leaks: one that runs has an endpoint that stops it on exit
\* (websocket.py:56-58).
THEOREM ListenersAreWatched == Spec => []ListenersHaveViewers
BY Invariance, PTL DEF Inv

\* A client never gets an event twice, nor an older one after a newer one
\* (broadcast_service.py:64-66).
THEOREM EventsInOrder == Spec => []DeliveredInOrder
<1>1. TypeInv /\ Inv => DeliveredInOrder
  <2> SUFFICES ASSUME TypeInv, Inv, NEW i \in Instances,
                      NEW c \in registered[i], NEW k \in DOMAIN chan[i]
               PROVE  last[c] < chan[i][k]
    BY DEF DeliveredInOrder, Inv, Ordered
  <2>1. c \in Here(i) /\ last[c] <= msg[i] /\ msg[i] < chan[i][k]
    BY DEF Inv, Registry, Ordered
  <2>2. last[c] \in Nat /\ msg[i] \in Nat /\ chan[i][k] \in Nat
    BY <2>1 DEF TypeInv, TypeOK, Here, Events
  <2> QED
    BY <2>1, <2>2
<1> QED
  BY <1>1, TypeInvariance, Invariance, PTL

\* A socket closed for a removal gets neither that event nor a later one
\* (broadcast_service.py:36-37).
THEOREM RevocationIsFinal == Spec => []NothingAfterRevocation
<1>1. Inv => NothingAfterRevocation
  BY DEF Inv, Registry, NothingAfterRevocation
<1> QED
  BY <1>1, Invariance, PTL

\* A removal closes what is open of the user, and no handshake that was not past its
\* check by then gets in before the next invitation (websocket.py:33-41).
THEOREM RemovedStaysOut == Spec => []RemovedStayOut
<1>1. Inv => RemovedStayOut
  BY DEF Inv, Barred, RemovedStayOut
<1> QED
  BY <1>1, Invariance, PTL
=============================================================================
