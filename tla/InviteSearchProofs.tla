-------------------------- MODULE InviteSearchProofs --------------------------
(***************************************************************************)
(* What InviteSearch promises, for any users and texts and any number of   *)
(* invitations on their way.                                               *)
(***************************************************************************)
EXTENDS InviteSearch, FiniteSetTheorems, TLAPS

\* Why an older answer cannot overwrite a newer one: every search aborts the one
\* before it, so that there is one, the newest.
OneSearch ==
    \A s, t \in searches : s = t /\ s.newest /\ ~s.overtaken

\* The types, without the number of searches, which follows from OneSearch.
Typed ==
    /\ open \in BOOLEAN /\ listed \in BOOLEAN
    /\ text \in Texts \cup {Empty} /\ timer \in Texts \cup {Empty}
    /\ answeredFor \in Texts \cup {Empty}
    /\ searches \subseteq Searches
    /\ suggestions \subseteq Users
    /\ listed => suggestions # {}
    /\ selected \in Users \cup {NoUser}
    /\ posts \in 0..MaxPosts

Inv == Typed /\ OneSearch /\ ClosedIsQuiet /\ InvitesWhomItNames

USE InviteAssumption

\* Nothing survives an abort.
LEMMA NothingLeft == OneSearch => Abort(searches) = {}
BY DEF OneSearch, Abort

\* What is drawn is well typed.
LEMMA Drawn ==
    ASSUME Typed
    PROVE  /\ \A S \in SUBSET Users : Render(S) => /\ suggestions' \subseteq Users
                                                   /\ listed' \in BOOLEAN
                                                   /\ listed' => suggestions' # {}
           /\ RenderAfterAbort => /\ suggestions' \subseteq Users
                                  /\ listed' \in BOOLEAN
                                  /\ listed' => suggestions' # {}
BY DEF Typed, Render, RenderAfterAbort

LEMMA InitInv == Init => Inv
<1>1. Init => posts \in 0..MaxPosts
  BY DEF Init
<1> QED
  BY <1>1 DEF Init, Inv, Typed, OneSearch, ClosedIsQuiet, InvitesWhomItNames

LEMMA NextInv == Inv /\ [Next]_vars => Inv'
<1> SUFFICES ASSUME Inv, [Next]_vars PROVE Inv'
  OBVIOUS
<1> USE DEF Inv, Typed, OneSearch, ClosedIsQuiet, InvitesWhomItNames
<1>1. CASE OpenDialog
  BY <1>1, Drawn DEF OpenDialog, Reset
<1>2. CASE CloseDialog
  BY <1>2, Drawn, NothingLeft DEF CloseDialog
<1>3. CASE Search
  <2> DEFINE new == [query |-> timer, failing |-> FALSE, newest |-> TRUE, overtaken |-> FALSE]
  <2>1. searches' = {new}
    BY <1>3, NothingLeft DEF Search
  <2>2. new \in Searches
    BY <1>3 DEF Search, Searches
  <2>3. /\ open /\ timer' = Empty
        /\ UNCHANGED <<open, text, selected, posts, answeredFor>>
    BY <1>3 DEF Search
  <2>4. /\ suggestions' \subseteq Users /\ listed' \in BOOLEAN
        /\ listed' => suggestions' # {}
    BY <1>3, Drawn DEF Search
  <2>5. OneSearch'
    <3>1. new.newest /\ ~new.overtaken
      OBVIOUS
    <3> HIDE DEF new
    <3> QED
      BY <2>1, <3>1
  <2>6. Typed'
    BY <2>1, <2>2, <2>3, <2>4
  <2>7. ClosedIsQuiet' /\ InvitesWhomItNames'
    BY <2>3
  <2> QED
    BY <2>5, <2>6, <2>7
<1>4. CASE Hide
  BY <1>4 DEF Hide
<1>5. CASE Submit
  BY <1>5 DEF Submit
<1>6. CASE Submitted
  BY <1>6, Drawn DEF Submitted, Reset
<1>7. ASSUME NEW t \in Texts \cup {Empty}, Type(t) PROVE Inv'
  <2>1. CASE t = Empty
    BY <1>7, <2>1, Drawn, NothingLeft DEF Type, ChoiceDropped
  <2>2. CASE t # Empty
    BY <1>7, <2>2 DEF Type, ChoiceDropped
  <2> QED
    BY <2>1, <2>2
<1>8. ASSUME NEW s \in searches, ErrorStatus(s) PROVE Inv'
  <2>1. searches' = {[s EXCEPT !.failing = TRUE]}
    BY <1>8 DEF ErrorStatus
  <2>2. [s EXCEPT !.failing = TRUE] \in Searches
    BY <1>8 DEF Searches
  <2> QED
    BY <1>8, <2>1, <2>2 DEF ErrorStatus, Searches
<1>9. ASSUME NEW s \in searches, Answer(s) PROVE Inv'
  <2>1. searches' = {}
    BY <1>9 DEF Answer
  <2>2. s.query \in Texts
    BY <1>9 DEF Searches
  <2> QED
    BY <1>9, <2>1, <2>2, Drawn DEF Answer
<1>10. ASSUME NEW u \in Users, Choose(u) PROVE Inv'
  BY <1>10 DEF Choose
<1>11. CASE UNCHANGED vars
  BY <1>11 DEF vars
<1> QED
  BY <1>1, <1>2, <1>3, <1>4, <1>5, <1>6, <1>7, <1>8, <1>9, <1>10, <1>11 DEF Next

LEMMA Invariance == Spec => []Inv
BY InitInv, NextInv, PTL DEF Spec

-----------------------------------------------------------------------------
(* The theorems *)

\* The variables have their types, and no more than one search is awaited.
THEOREM TypeCorrect == Spec => []TypeOK
<1>1. ASSUME OneSearch PROVE Cardinality(searches) <= 1
  <2>1. CASE searches = {}
    BY <2>1, FS_EmptySet
  <2>2. ASSUME NEW s \in searches PROVE Cardinality(searches) <= 1
    <3>1. searches = {s}
      BY <1>1 DEF OneSearch
    <3> QED
      BY SMTT(30), <3>1, FS_Singleton
  <2> QED
    BY <2>1, <2>2
<1>2. Inv => TypeOK
  BY <1>1 DEF Inv, Typed, TypeOK
<1> QED
  BY Invariance, <1>2, PTL

\* Once the answer to a search is drawn, none of an earlier search can follow
\* (app.js:547).
THEOREM OlderStaysAway == Spec => []OlderNeverOverwrites
<1>1. Inv => OlderNeverOverwrites
  BY DEF Inv, OneSearch, OlderNeverOverwrites
<1> QED
  BY Invariance, <1>1, PTL

\* A closed dialog has no search due or under way (app.js:417-419).
THEOREM ClosedAndQuiet == Spec => []ClosedIsQuiet
<1>1. Inv => ClosedIsQuiet
  BY DEF Inv
<1> QED
  BY Invariance, <1>1, PTL

\* The user who would be invited is the one named in the form (app.js:531-532,
\* 639-651).
THEOREM InvitedIsNamed == Spec => []InvitesWhomItNames
<1>1. Inv => InvitesWhomItNames
  BY DEF Inv
<1> QED
  BY Invariance, <1>1, PTL
=============================================================================
