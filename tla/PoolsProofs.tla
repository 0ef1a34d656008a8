----------------------------- MODULE PoolsProofs -----------------------------
(***************************************************************************)
(* What Pools promises, for any number of requests, threads, connections   *)
(* and visits.                                                             *)
(***************************************************************************)
EXTENDS Pools, FiniteSetTheorems, TLAPS

\* Where a request with a connection may be.
HolderPlaces == {"between", "queued", "running", "closing"}

QueueInv ==
    /\ queue \in Seq(Requests)
    /\ \A i, j \in 1..Len(queue) : queue[i] = queue[j] => i = j
    /\ \A i \in 1..Len(queue) : pc[queue[i]] = "queued"

Typed ==
    /\ pc \in [Requests -> Places]
    /\ handshake \subseteq Requests
    /\ visits \in [Requests -> 0..MaxVisits]
    /\ holders \subseteq Requests
    /\ \A r \in holders : pc[r] \in HolderPlaces

Limits ==
    /\ Cardinality(OnThread) <= Threads
    /\ Cardinality(holders) <= Connections

Inv == Typed /\ QueueInv /\ Limits

USE PoolAssumption

LEMMA InitInv == Init => Inv
<1> SUFFICES ASSUME Init PROVE Inv
  OBVIOUS
<1>1. Typed
  BY DEF Init, Typed, Places
<1>2. QueueInv
  BY DEF Init, QueueInv
<1>3. OnThread = {} /\ holders = {}
  BY DEF Init, OnThread
<1>4. Limits
  BY <1>3, FS_EmptySet DEF Limits
<1> QED
  BY <1>1, <1>2, <1>4 DEF Inv

-----------------------------------------------------------------------------
\* Types and places, step by step.
LEMMA NextTyped ==
    ASSUME Typed, [Next]_vars
    PROVE  Typed'
<1> USE DEF Typed, Places, HolderPlaces, GoTo
<1>1. ASSUME NEW r \in Requests, Arrive(r) PROVE Typed'
  BY <1>1 DEF Arrive
<1>2. ASSUME NEW r \in Requests, Enter(r) PROVE Typed'
  BY <1>2 DEF Enter
<1>3. ASSUME NEW r \in Requests, TakeThread(r) PROVE Typed'
  BY <1>3 DEF TakeThread, HasConnection
<1>4. ASSUME NEW r \in Requests, CheckOut(r) PROVE Typed'
  BY <1>4 DEF CheckOut
<1>5. ASSUME NEW r \in Requests, TimeOut(r) PROVE Typed'
  BY <1>5 DEF TimeOut
<1>6. ASSUME NEW r \in Requests, Commit(r) PROVE Typed'
  BY <1>6 DEF Commit
<1>7. ASSUME NEW r \in Requests, Leave(r) PROVE Typed'
  BY <1>7 DEF Leave
<1>8. ASSUME NEW r \in Requests, Authorize(r) PROVE Typed'
  BY <1>8 DEF Authorize
<1>9. ASSUME NEW r \in Requests, Close(r) PROVE Typed'
  BY <1>9 DEF Close
<1>10. ASSUME NEW r \in Requests, Hangup(r) PROVE Typed'
  BY <1>10 DEF Hangup
<1>11. CASE UNCHANGED vars
  BY <1>11 DEF vars
<1> QED
  BY <1>1, <1>2, <1>3, <1>4, <1>5, <1>6, <1>7, <1>8, <1>9, <1>10, <1>11 DEF Next, Step

-----------------------------------------------------------------------------
\* Whoever is queued is in the queue once.  Only Enter and TakeThread touch it, and
\* nobody in it moves otherwise.
LEMMA NextQueue ==
    ASSUME Typed, QueueInv, [Next]_vars
    PROVE  QueueInv'
<1> USE DEF Typed
<1>1. ASSUME NEW r \in Requests, Enter(r) PROVE QueueInv'
  <2>1. /\ queue' = Append(queue, r) /\ pc' = [pc EXCEPT ![r] = "queued"]
        /\ pc[r] = "between"
    BY <1>1 DEF Enter, GoTo
  <2>2. /\ queue' \in Seq(Requests) /\ Len(queue') = Len(queue) + 1
        /\ queue'[Len(queue) + 1] = r
        /\ \A i \in 1..Len(queue) : queue'[i] = queue[i]
    BY <2>1 DEF QueueInv
  <2>3. \A i \in 1..Len(queue) : queue[i] \in Requests /\ queue[i] # r
    BY <2>1 DEF QueueInv
  <2> QED
    BY <2>1, <2>2, <2>3 DEF QueueInv
<1>2. ASSUME NEW r \in Requests, TakeThread(r) PROVE QueueInv'
  <2>1. PICK place : pc' = [pc EXCEPT ![r] = place]
    BY <1>2 DEF TakeThread, GoTo
  <2>2. queue # <<>> /\ r = queue[1] /\ queue' = Tail(queue)
    BY <1>2 DEF TakeThread, QueueInv
  <2>3. /\ queue' \in Seq(Requests) /\ Len(queue) >= 1 /\ Len(queue') = Len(queue) - 1
        /\ \A i \in 1..Len(queue') : queue'[i] = queue[i + 1]
    BY <2>2 DEF QueueInv
  <2>4. \A i \in 1..Len(queue') :
            i + 1 \in 1..Len(queue) /\ queue[i + 1] \in Requests /\ queue[i + 1] # r
    BY <2>2, <2>3 DEF QueueInv
  <2>5. ASSUME NEW i \in 1..Len(queue'), NEW j \in 1..Len(queue'), queue'[i] = queue'[j]
        PROVE  i = j
    <3>1. queue[i + 1] = queue[j + 1]
      BY <2>3, <2>5
    <3>2. i + 1 = j + 1
      BY <2>4, <3>1 DEF QueueInv
    <3> QED
      BY <3>2
  <2>6. ASSUME NEW i \in 1..Len(queue') PROVE pc'[queue'[i]] = "queued"
    <3>1. queue'[i] = queue[i + 1]
      BY <2>3
    <3>2. pc[queue[i + 1]] = "queued"
      BY <2>4 DEF QueueInv
    <3> QED
      BY <2>1, <2>4, <3>1, <3>2
  <2> QED
    BY <2>3, <2>5, <2>6 DEF QueueInv
<1>3. ASSUME NEW r \in Requests, pc[r] # "queued", UNCHANGED queue,
             NEW place, pc' = [pc EXCEPT ![r] = place]
      PROVE  QueueInv'
  BY <1>3 DEF QueueInv
<1>4. ASSUME NEW r \in Requests,
             \/ Arrive(r) \/ CheckOut(r) \/ TimeOut(r) \/ Commit(r) \/ Leave(r)
             \/ Authorize(r) \/ Close(r) \/ Hangup(r)
      PROVE  QueueInv'
  <2>1. pc[r] # "queued" /\ UNCHANGED queue
    BY <1>4 DEF Arrive, CheckOut, TimeOut, Commit, Leave, Authorize, Close, Hangup
  <2>2. PICK place : pc' = [pc EXCEPT ![r] = place]
    BY <1>4 DEF Arrive, CheckOut, TimeOut, Commit, Leave, Authorize, Close, Hangup, GoTo
  <2> QED
    BY <2>1, <2>2, <1>3
<1>5. CASE UNCHANGED vars
  BY <1>5 DEF vars, QueueInv
<1> QED
  BY <1>1, <1>2, <1>4, <1>5 DEF Next, Step

-----------------------------------------------------------------------------
LEMMA Smaller ==
    ASSUME NEW S, NEW T, IsFiniteSet(T), S \subseteq T, NEW n \in Nat, Cardinality(T) <= n
    PROVE  Cardinality(S) <= n
BY FS_Subset, FS_CardinalityType

LEMMA OneMore ==
    ASSUME NEW S, NEW T, IsFiniteSet(T), NEW x, S \subseteq T \cup {x},
           NEW n \in Nat, Cardinality(T) < n
    PROVE  Cardinality(S) <= n
<1>1. /\ IsFiniteSet(T \cup {x})
      /\ Cardinality(T \cup {x}) = IF x \in T THEN Cardinality(T) ELSE Cardinality(T) + 1
      /\ Cardinality(T) \in Nat
  BY FS_AddElement, FS_CardinalityType
<1>2. Cardinality(T \cup {x}) <= n
  BY <1>1
<1> QED
  BY <1>1, <1>2, Smaller

\* TakeThread alone puts a request on a thread, and CheckOut alone gives one a
\* connection; each looks first whether one is left.
LEMMA NextLimits ==
    ASSUME Typed, Limits, [Next]_vars
    PROVE  Limits'
<1> USE DEF Typed
<1>0. IsFiniteSet(OnThread) /\ IsFiniteSet(holders)
  BY FS_Subset DEF OnThread
<1>1. ASSUME NEW r \in Requests, TakeThread(r) PROVE Limits'
  <2>1. OnThread' \subseteq OnThread \cup {r}
    BY <1>1 DEF OnThread, TakeThread, GoTo
  <2>2. Cardinality(OnThread') <= Threads
    BY <1>0, <1>1, <2>1, OneMore DEF TakeThread
  <2> QED
    BY <1>1, <2>2 DEF TakeThread, Limits
<1>2. ASSUME NEW r \in Requests, CheckOut(r) PROVE Limits'
  <2>1. OnThread' \subseteq OnThread
    BY <1>2 DEF OnThread, CheckOut, GoTo
  <2>2. Cardinality(holders') <= Connections
    BY <1>0, <1>2, OneMore DEF CheckOut, Free
  <2> QED
    BY <1>0, <2>1, <2>2, Smaller DEF Limits
<1>3. ASSUME OnThread' \subseteq OnThread, holders' \subseteq holders PROVE Limits'
  BY <1>0, <1>3, Smaller DEF Limits
<1>4. ASSUME NEW r \in Requests,
             \/ Arrive(r) \/ Enter(r) \/ TimeOut(r) \/ Commit(r) \/ Leave(r)
             \/ Authorize(r) \/ Close(r) \/ Hangup(r)
      PROVE  Limits'
  <2>1. OnThread' \subseteq OnThread
    BY <1>4 DEF OnThread, Arrive, Enter, TimeOut, Commit, Leave, Authorize, Close, Hangup, GoTo
  <2>2. holders' \subseteq holders
    BY <1>4 DEF Arrive, Enter, TimeOut, Commit, Leave, Authorize, Close, Hangup
  <2> QED
    BY <2>1, <2>2, <1>3
<1>5. CASE UNCHANGED vars
  BY <1>5 DEF vars, Limits, OnThread
<1> QED
  BY <1>1, <1>2, <1>4, <1>5 DEF Next, Step

LEMMA Invariance == Spec => []Inv
<1>1. Inv /\ [Next]_vars => Inv'
  BY NextTyped, NextQueue, NextLimits DEF Inv
<1> QED
  BY InitInv, <1>1, PTL DEF Spec

-----------------------------------------------------------------------------
(* The theorems *)

\* The variables have their types, nobody queues twice, and there are never more
\* threads and connections out than there are.
THEOREM TypeCorrect == Spec => []TypeOK
<1>1. Inv => TypeOK
  BY DEF Inv, Typed, QueueInv, Limits, TypeOK
<1> QED
  BY Invariance, <1>1, PTL

\* No answered request, no open socket and no request that waits for a connection
\* holds one (session.py:14-15, websocket.py:22, deps.py:34).
THEOREM NoConnectionIsStuck == Spec => []ConnectionsComeBack
<1>1. Inv => ConnectionsComeBack
  BY DEF Inv, Typed, HolderPlaces, ConnectionsComeBack
<1> QED
  BY Invariance, <1>1, PTL
=============================================================================
