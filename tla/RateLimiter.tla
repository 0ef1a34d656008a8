----------------------------- MODULE RateLimiter -----------------------------
(***************************************************************************)
(* The fixed-window rate limiter (app/core/rate_limit.py): a counter in    *)
(* Redis per scope and user, created with its expiry by the first request *)
(* of a window.  The pipeline of a request is a MULTI ... EXEC transaction, *)
(* so Redis runs it at one instant with no other request in between.       *)
(*                                                                         *)
(* Time is what is left of each expiry and the age of what came before.    *)
(* Of a count only what the code compares is kept: above Limit, one value. *)
(***************************************************************************)
EXTENDS Naturals

CONSTANTS
    Keys,     \* rate_limit:<scope>:<user id>
    Limit, Window

ASSUME LimiterAssumption == Limit \in Nat \ {0} /\ Window \in Nat \ {0}

VARIABLES
    count,    \* count[k]: the number at key k, as far as it matters
    ttl,      \* ttl[k]: time until key k expires; 0: there is no such key
    age       \* history: age[k][i]: how long ago the i-th latest of the requests
              \* that were let through came; Window: that long or longer

vars == <<count, ttl, age>>

Recent == 1..(2 * Limit + 1)

TypeOK ==
    /\ count \in [Keys -> 0..(Limit + 1)]
    /\ ttl \in [Keys -> 0..Window]
    /\ age \in [Keys -> [Recent -> 0..Window]]

Init ==
    /\ count = [k \in Keys |-> 0]
    /\ ttl = [k \in Keys |-> 0]
    /\ age = [k \in Keys |-> [i \in Recent |-> Window]]

\* Mutant: the first refusal renews the expiry, once.
SetAndPenalize(k) == [count |-> IF ttl[k] = 0 THEN 0 ELSE count[k],
                      ttl |-> IF ttl[k] = 0 \/ count[k] = Limit THEN Window ELSE ttl[k]]

\* Mutant: a second is added for good measure.
SetLonger(k) == IF ttl[k] = 0 THEN [count |-> 0, ttl |-> Window + 1]
                ELSE [count |-> count[k], ttl |-> ttl[k]]

\* SET key 0 EX window NX
SetNX(k) == IF ttl[k] = 0 THEN [count |-> 0, ttl |-> Window]
            ELSE [count |-> count[k], ttl |-> ttl[k]]

\* INCR key; beyond Limit all numbers are refused alike.
Incremented(n) == IF n > Limit THEN n ELSE n + 1

\* Mutant: one too many.
AllowsOneMore(n) == n <= Limit + 1

\* request_count > self.limit raises 429.
Allows(n) == n <= Limit

\* __call__: a refused request counts too.  That the answer of Redis is lost and
\* the request fails (500) changes nothing here.
Request(k) ==
    LET n == Incremented(SetNX(k).count) IN
    /\ count' = [count EXCEPT ![k] = n]
    /\ ttl' = [ttl EXCEPT ![k] = SetNX(k).ttl]
    /\ age' = IF Allows(n)
                THEN [age EXCEPT ![k] = [i \in Recent |-> IF i = 1 THEN 0 ELSE age[k][i - 1]]]
                ELSE age

\* Time passes in Redis, whose clock the expiry goes by.
Tick ==
    /\ ttl' = [k \in Keys |-> IF ttl[k] = 0 THEN 0 ELSE ttl[k] - 1]
    /\ count' = [k \in Keys |-> IF ttl[k] <= 1 THEN 0 ELSE count[k]]
    /\ age' = [k \in Keys |-> [i \in Recent |->
                  IF age[k][i] = Window THEN Window ELSE age[k][i] + 1]]

Next == Tick \/ \E k \in Keys : Request(k)

Spec == Init /\ [][Next]_vars
-----------------------------------------------------------------------------
(* Properties *)

\* A request that came now would be refused.
Refuses(k) == ~Allows(Incremented(SetNX(k).count))

\* Nobody is refused for what others did, or for long ago: at any time at which a
\* request would be refused, the first or a later one, its user had Limit requests let
\* through within the last Window, also when requests go on during a refusal or come
\* on both sides of an expiry.  So no user is blocked permanently, by "a counter that
\* never expires" or otherwise (rate_limit.py:9-12, 24-32).
RefusalsAreEarned == \A k \in Keys : Refuses(k) => age[k][Limit] < Window

\* Two windows' worth is the most that is let through in any period of Window,
\* wherever it begins ("Fixed-window ... allows bursts at window edges",
\* README.md:152): of the latest 2 * Limit + 1 the oldest is that long ago.
BurstsAreBounded ==
    \A k \in Keys : age[k][2 * Limit + 1] = Window
=============================================================================
