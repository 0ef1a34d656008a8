-------------------------- MODULE RateLimiterProofs --------------------------
(***************************************************************************)
(* What RateLimiter promises, for any limit, any window and any number of  *)
(* keys.                                                                   *)
(***************************************************************************)
EXTENDS RateLimiter, TLAPS

\* How many requests the window that is under way has let through.
LetThrough(k) == IF count[k] > Limit THEN Limit ELSE count[k]

\* Why the bounds hold: the latest LetThrough(k) requests came within the window under
\* way, which began Window - ttl[k] ago; those before them came before it began; and
\* of these no more than Limit are younger than a window.
Windowed(k) ==
    /\ ttl[k] = 0 <=> count[k] = 0
    /\ \A i \in Recent : i <= LetThrough(k) => age[k][i] <= Window - ttl[k]
    /\ ttl[k] > 0 => \A i \in Recent : i > LetThrough(k) => age[k][i] >= Window - ttl[k]
    /\ \A i \in Recent : i > LetThrough(k) + Limit => age[k][i] = Window

Inv == TypeOK /\ \A k \in Keys : Windowed(k)

USE LimiterAssumption

-----------------------------------------------------------------------------
\* No counter runs before the first request.
LEMMA InitInv == Init => Inv
BY DEF Init, Inv, TypeOK, Windowed, LetThrough, Recent

\* The types of what is kept for one key.
LEMMA Typed ==
    ASSUME TypeOK, NEW k \in Keys
    PROVE  /\ count[k] \in 0..(Limit + 1) /\ ttl[k] \in 0..Window
           /\ \A i \in Recent : i \in Nat /\ i >= 1 /\ age[k][i] \in 0..Window
BY DEF TypeOK, Recent

\* The counter that a request finds or creates, and what it makes of it.
LEMMA Counted ==
    ASSUME TypeOK, NEW k \in Keys, Windowed(k), Request(k)
    PROVE  /\ ttl[k] = 0 => count'[k] = 1 /\ ttl'[k] = Window
           /\ ttl[k] > 0 => /\ ttl'[k] = ttl[k]
                            /\ count'[k] = IF count[k] > Limit THEN count[k] ELSE count[k] + 1
           /\ \A l \in Keys \ {k} : count'[l] = count[l] /\ ttl'[l] = ttl[l]
BY DEF TypeOK, Windowed, Request, SetNX, Incremented

\* The ages after a request: one more if it is let through.
LEMMA Aged ==
    ASSUME TypeOK, NEW k \in Keys, Request(k)
    PROVE  /\ count'[k] <= Limit =>
                 \A i \in Recent : age'[k][i] = IF i = 1 THEN 0 ELSE age[k][i - 1]
           /\ count'[k] > Limit => age' = age
           /\ \A l \in Keys \ {k} : age'[l] = age[l]
<1> DEFINE shifted == [i \in Recent |-> IF i = 1 THEN 0 ELSE age[k][i - 1]]
<1>1. age' = IF Allows(count'[k]) THEN [age EXCEPT ![k] = shifted] ELSE age
  BY DEF TypeOK, Request
<1>2. count'[k] \in Nat
  BY DEF TypeOK, Request, SetNX, Incremented
<1>3. CASE count'[k] <= Limit
  <2>1. age' = [age EXCEPT ![k] = shifted]
    BY <1>1, <1>3 DEF Allows
  <2>2. age'[k] = shifted /\ \A l \in Keys \ {k} : age'[l] = age[l]
    BY <2>1 DEF TypeOK
  <2> QED
    BY <1>2, <1>3, <2>2
<1>4. CASE count'[k] > Limit
  BY <1>1, <1>2, <1>4 DEF Allows
<1> QED
  BY <1>2, <1>3, <1>4

LEMMA RequestTypes ==
    ASSUME TypeOK, NEW k \in Keys, Request(k)
    PROVE  TypeOK'
<1>1. count' \in [Keys -> 0..(Limit + 1)] /\ ttl' \in [Keys -> 0..Window]
  BY DEF TypeOK, Request, SetNX, Incremented
<1>2. [i \in Recent |-> IF i = 1 THEN 0 ELSE age[k][i - 1]] \in [Recent -> 0..Window]
  BY DEF TypeOK, Recent
<1>3. age' \in [Keys -> [Recent -> 0..Window]]
  BY <1>2 DEF TypeOK, Request
<1> QED
  BY <1>1, <1>3 DEF TypeOK

LEMMA RequestInv ==
    ASSUME Inv, NEW k \in Keys, Request(k)
    PROVE  Inv'
<1>1. TypeOK /\ TypeOK'
  BY RequestTypes DEF Inv
<1>2. Windowed(k)'
  <2> DEFINE a == age[k]
             n == LetThrough(k)
  <2>1. Windowed(k)
    BY DEF Inv
  <2>2. /\ count[k] \in 0..(Limit + 1) /\ ttl[k] \in 0..Window
        /\ \A i \in Recent : i \in Nat /\ i >= 1 /\ a[i] \in 0..Window
    BY <1>1, Typed
  <2>3. CASE ttl[k] = 0
    <3>1. /\ count'[k] = 1 /\ ttl'[k] = Window
          /\ \A i \in Recent : age'[k][i] = IF i = 1 THEN 0 ELSE a[i - 1]
      BY <1>1, <2>1, <2>3, Counted, Aged
    <3>2. n = 0 /\ LetThrough(k)' = 1
      BY <2>1, <2>3, <3>1 DEF Windowed, LetThrough
    <3>3. \A i \in Recent : i > 1 => i - 1 \in Recent
      BY DEF Recent
    <3>4. \A i \in Recent : i > 1 + Limit => a[i - 1] = Window
      BY <2>1, <2>2, <3>2, <3>3 DEF Windowed
    <3> QED
      BY <2>2, <3>1, <3>2, <3>3, <3>4 DEF Windowed
  <2>4. CASE ttl[k] > 0 /\ count[k] >= Limit
    <3>1. ttl'[k] = ttl[k] /\ count'[k] > Limit /\ age' = age
      BY <1>1, <2>1, <2>2, <2>4, Counted, Aged
    <3>2. n = Limit /\ LetThrough(k)' = Limit
      BY <2>2, <2>4, <3>1 DEF LetThrough
    <3> QED
      BY <2>1, <2>4, <2>2, <3>1, <3>2 DEF Windowed
  <2>5. CASE ttl[k] > 0 /\ count[k] < Limit
    <3>1. ttl'[k] = ttl[k] /\ count'[k] = count[k] + 1
      BY <1>1, <2>1, <2>2, <2>5, Counted
    <3>2. \A i \in Recent : age'[k][i] = IF i = 1 THEN 0 ELSE a[i - 1]
      BY <1>1, <2>2, <2>5, <3>1, Aged
    <3>3. n = count[k] /\ LetThrough(k)' = n + 1
      BY <2>2, <2>5, <3>1 DEF LetThrough
    <3>4. \A i \in Recent : i > 1 => i - 1 \in Recent
      BY DEF Recent
    <3>5. \A i \in Recent : i > 1 =>
              /\ i <= n + 1 => a[i - 1] <= Window - ttl[k]
              /\ i > n + 1 => a[i - 1] >= Window - ttl[k]
              /\ i > n + 1 + Limit => a[i - 1] = Window
      BY <2>1, <2>2, <2>5, <3>3, <3>4 DEF Windowed
    <3> QED
      BY <2>2, <2>5, <3>1, <3>2, <3>3, <3>5 DEF Windowed
  <2> QED
    BY <2>2, <2>3, <2>4, <2>5
<1>3. ASSUME NEW l \in Keys \ {k} PROVE Windowed(l)'
  <2>1. count'[l] = count[l] /\ ttl'[l] = ttl[l] /\ age'[l] = age[l] /\ Windowed(l)
    <3>1. TypeOK /\ Windowed(k) /\ Windowed(l)
      BY DEF Inv
    <3> QED
      BY <3>1, Counted, Aged, RequestTypes DEF TypeOK
  <2> QED
    BY <2>1 DEF Windowed, LetThrough
<1> QED
  BY <1>1, <1>2, <1>3 DEF Inv

LEMMA TickTypes ==
    ASSUME TypeOK, Tick
    PROVE  TypeOK'
<1>1. count' \in [Keys -> 0..(Limit + 1)]
  BY Typed DEF Tick
<1>2. ttl' \in [Keys -> 0..Window]
  <2>1. ASSUME NEW k \in Keys PROVE (IF ttl[k] = 0 THEN 0 ELSE ttl[k] - 1) \in 0..Window
    BY Typed
  <2> QED
    BY <2>1 DEF Tick
<1>3. ASSUME NEW k \in Keys, NEW i \in Recent
      PROVE  (IF age[k][i] = Window THEN Window ELSE age[k][i] + 1) \in 0..Window
  BY Typed
<1>4. age' \in [Keys -> [Recent -> 0..Window]]
  BY <1>3 DEF Tick
<1> QED
  BY <1>1, <1>2, <1>4 DEF TypeOK

LEMMA TickInv ==
    ASSUME Inv, Tick
    PROVE  Inv'
<1>1. TypeOK /\ TypeOK'
  BY TickTypes DEF Inv
<1>2. ASSUME NEW k \in Keys PROVE Windowed(k)'
  <2> DEFINE a == age[k]
             n == LetThrough(k)
  <2>1. Windowed(k)
    BY DEF Inv
  <2>2. /\ count[k] \in 0..(Limit + 1) /\ ttl[k] \in 0..Window
        /\ \A i \in Recent : i \in Nat /\ i >= 1 /\ a[i] \in 0..Window
    BY <1>1, Typed
  <2>3. /\ ttl'[k] = IF ttl[k] = 0 THEN 0 ELSE ttl[k] - 1
        /\ count'[k] = IF ttl[k] <= 1 THEN 0 ELSE count[k]
        /\ \A i \in Recent : age'[k][i] = IF a[i] = Window THEN Window ELSE a[i] + 1
    BY DEF Tick
  <2>4. CASE ttl[k] <= 1
    <3>1. ttl'[k] = 0 /\ count'[k] = 0 /\ LetThrough(k)' = 0
      BY <2>2, <2>3, <2>4 DEF LetThrough
    <3>2. n \in 0..Limit /\ (ttl[k] = 0 => n = 0)
      BY <2>1, <2>2 DEF LetThrough, Windowed
    <3>3. \A i \in Recent : i > Limit => a[i] >= Window - 1
      BY <2>1, <2>2, <2>4, <3>2 DEF Windowed
    <3> QED
      BY <2>2, <2>3, <3>1, <3>3 DEF Windowed
  <2>5. CASE ttl[k] > 1
    <3>1. ttl'[k] = ttl[k] - 1 /\ count'[k] = count[k] /\ LetThrough(k)' = n
      BY <2>2, <2>3, <2>5 DEF LetThrough
    <3>2. n \in 0..Limit
      BY <2>2 DEF LetThrough
    <3>3. ttl'[k] = 0 <=> count'[k] = 0
      BY <2>1, <2>2, <2>5, <3>1 DEF Windowed
    <3>4. \A i \in Recent :
              /\ i <= n => a[i] <= Window - ttl[k]
              /\ i > n => a[i] >= Window - ttl[k]
              /\ i > n + Limit => a[i] = Window
      BY <2>1, <2>2, <2>5 DEF Windowed
    <3> QED
      BY <2>2, <2>3, <2>5, <3>1, <3>2, <3>3, <3>4 DEF Windowed
  <2> QED
    BY <2>2, <2>4, <2>5
<1> QED
  BY <1>1, <1>2 DEF Inv

LEMMA Invariance == Spec => []Inv
<1>1. Inv /\ [Next]_vars => Inv'
  <2> SUFFICES ASSUME Inv, [Next]_vars PROVE Inv'
    OBVIOUS
  <2>1. CASE Tick
    BY <2>1, TickInv
  <2>2. ASSUME NEW k \in Keys, Request(k) PROVE Inv'
    BY <2>2, RequestInv
  <2>3. CASE UNCHANGED vars
    BY <2>3 DEF vars, Inv, TypeOK, Windowed, LetThrough
  <2> QED
    BY <2>1, <2>2, <2>3 DEF Next
<1> QED
  BY InitInv, <1>1, PTL DEF Spec

-----------------------------------------------------------------------------
(* The theorems *)

\* Counters, expiries and ages have their types.
THEOREM TypeCorrect == Spec => []TypeOK
<1>1. Inv => TypeOK
  BY DEF Inv
<1> QED
  BY Invariance, <1>1, PTL

\* Whatever the limit and the window are, no period of Window sees more than 2 * Limit
\* requests let through for one key (rate_limit.py:9-12).
THEOREM BurstsBounded == Spec => []BurstsAreBounded
<1>1. ASSUME Inv, NEW k \in Keys PROVE age[k][2 * Limit + 1] = Window
  <2>1. 2 * Limit + 1 \in Recent /\ count[k] \in 0..(Limit + 1)
    BY <1>1, Typed DEF Inv, Recent
  <2>2. 2 * Limit + 1 > LetThrough(k) + Limit
    BY <2>1 DEF LetThrough
  <2> QED
    BY <1>1, <2>1, <2>2 DEF Inv, Windowed
<1>2. Inv => BurstsAreBounded
  BY <1>1 DEF BurstsAreBounded
<1> QED
  BY Invariance, <1>2, PTL

\* Whenever a request would be refused, the first in its window or a later one, its
\* user had Limit requests let through within the last Window, and no request of
\* another key counts (rate_limit.py:24-32).
THEOREM RefusalsEarned == Spec => []RefusalsAreEarned
<1>1. ASSUME Inv, NEW k \in Keys, Refuses(k)
      PROVE  age[k][Limit] < Window
  <2>1. /\ count[k] \in 0..(Limit + 1) /\ ttl[k] \in 0..Window
        /\ Limit \in Recent /\ age[k][Limit] \in 0..Window /\ Windowed(k)
    BY <1>1, Typed DEF Inv, Recent
  <2>2. ttl[k] > 0 /\ count[k] >= Limit
    BY <1>1, <2>1 DEF Refuses, Allows, Incremented, SetNX
  <2>3. LetThrough(k) = Limit
    BY <2>1, <2>2 DEF LetThrough
  <2>4. age[k][Limit] <= Window - ttl[k]
    BY <2>1, <2>3 DEF Windowed
  <2> QED
    BY <2>1, <2>2, <2>4
<1>2. Inv => RefusalsAreEarned
  BY <1>1 DEF RefusalsAreEarned
<1> QED
  BY Invariance, <1>2, PTL
=============================================================================
