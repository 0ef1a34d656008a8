---------------------------- MODULE InviteSearch ----------------------------
(***************************************************************************)
(* The dialog that invites a user (frontend/app.js): a text field whose    *)
(* suggestions are searched on the server once the typing pauses, the      *)
(* choice of one of them, and the invitation.                              *)
(*                                                                         *)
(* As in Client an action is what runs between two awaits.  Aborting a     *)
(* fetch makes the function that awaits it return, before anything else    *)
(* runs.  The dialog stays on one board, whose owner has it open; the       *)
(* highlighted entry and the line of hints are left out.                   *)
(***************************************************************************)
EXTENDS Naturals, FiniteSets

CONSTANTS
    Users,
    Texts,       \* what the field may hold, the names of the users among it
    NoUser, Empty,
    MaxPosts     \* bound on the invitations sent and not answered

ASSUME InviteAssumption ==
    Users \subseteq Texts /\ Empty \notin Texts /\ NoUser \notin Users /\ MaxPosts \in Nat

VARIABLES
    open,         \* the dialog is shown, in its mode "invite"
    text,         \* the text field
    timer,        \* the query that inviteSearchTimer will search for, or Empty
    searches,     \* calls of searchUsers that await something
    suggestions,  \* inviteSuggestions
    listed,       \* they are visible
    selected,     \* selectedInvitee
    posts,        \* calls of submitInvite that await something
    answeredFor   \* history: the query answered last since the last input, or Empty

vars == <<open, text, timer, searches, suggestions, listed, selected, posts, answeredFor>>

\* failing: the status was an error and the body is being read.  newest: its
\* controller is inviteSearchController.  overtaken (history): the answer to a later
\* search has been drawn.
Searches == [query : Texts, failing : BOOLEAN, newest : BOOLEAN, overtaken : BOOLEAN]

TypeOK ==
    /\ open \in BOOLEAN /\ listed \in BOOLEAN
    /\ text \in Texts \cup {Empty} /\ timer \in Texts \cup {Empty}
    /\ answeredFor \in Texts \cup {Empty}
    /\ searches \subseteq Searches /\ Cardinality(searches) <= 1
    /\ suggestions \subseteq Users
    /\ listed => suggestions # {}
    /\ selected \in Users \cup {NoUser}
    /\ posts \in 0..MaxPosts

Init ==
    /\ open = FALSE /\ listed = FALSE
    /\ text = Empty /\ timer = Empty /\ answeredFor = Empty
    /\ searches = {} /\ suggestions = {}
    /\ selected = NoUser /\ posts = 0

-----------------------------------------------------------------------------
\* renderSuggestions
Render(S) == suggestions' = S /\ listed' = (S # {})

\* Mutant: nothing is aborted.
AbortNone(S) == S

\* inviteSearchController.abort()
Abort(S) == {s \in S : ~s.newest}

\* An aborted search returns in silence, unless ensureOk was reading the body of an
\* error: it swallows the AbortError, and the search draws the error it has.
RenderAfterAbort ==
    IF \E s \in searches : s.newest /\ s.failing
    THEN Render({}) ELSE UNCHANGED <<suggestions, listed>>

\* resetInviteSearch; a search that is due or under way goes on.
Reset ==
    /\ text' = Empty /\ selected' = NoUser
    /\ Render({})

\* openMembersModal
OpenDialog ==
    /\ ~open /\ open' = TRUE
    /\ Reset
    /\ UNCHANGED <<timer, searches, posts, answeredFor>>

\* Mutant: a search that is due is not called off.
CloseLeavingTimer ==
    /\ open /\ open' = FALSE
    /\ searches' = Abort(searches) /\ RenderAfterAbort
    /\ UNCHANGED <<text, timer, selected, posts, answeredFor>>

\* closeMembersModal
CloseDialog ==
    /\ open /\ open' = FALSE
    /\ timer' = Empty
    /\ searches' = Abort(searches) /\ RenderAfterAbort
    /\ UNCHANGED <<text, selected, posts, answeredFor>>

\* Mutant: the choice stays.
ChoiceKept == selected

\* selectInvitee(null)
ChoiceDropped == NoUser

\* onInviteInput; the field counts without the blanks around it, so it may stay as it was.
Type(t) ==
    /\ open
    /\ text' = t
    /\ selected' = ChoiceDropped
    /\ timer' = t
    /\ IF t = Empty
         THEN searches' = Abort(searches) /\ Render({})
         ELSE UNCHANGED <<searches, suggestions, listed>>
    /\ answeredFor' = Empty
    /\ UNCHANGED <<open, posts>>

\* Mutant: the new search is aborted with the old.
SearchAborted ==
    /\ timer # Empty /\ timer' = Empty
    /\ searches' = Abort(searches) /\ RenderAfterAbort
    /\ UNCHANGED <<open, text, selected, posts, answeredFor>>

\* searchUsers up to its await.
Search ==
    /\ timer # Empty /\ timer' = Empty
    /\ searches' = {[s EXCEPT !.newest = FALSE] : s \in Abort(searches)} \cup
                   {[query |-> timer, failing |-> FALSE, newest |-> TRUE, overtaken |-> FALSE]}
    /\ RenderAfterAbort
    /\ UNCHANGED <<open, text, selected, posts, answeredFor>>

ErrorStatus(s) ==
    /\ s \in searches /\ ~s.failing
    /\ searches' = (searches \ {s}) \cup {[s EXCEPT !.failing = TRUE]}
    /\ UNCHANGED <<open, text, timer, suggestions, listed, selected, posts, answeredFor>>

\* The rest of searchUsers: the users found, whoever they are, or nobody on failure.
Answer(s) ==
    /\ s \in searches
    /\ searches' = {[x EXCEPT !.overtaken = s.newest \/ x.overtaken] : x \in searches \ {s}}
    /\ Render({}) \/ (~s.failing /\ \E S \in SUBSET Users : Render(S))
    /\ answeredFor' = s.query
    /\ UNCHANGED <<open, text, timer, selected, posts>>

\* selectInvitee, by mouse or keyboard; a search that is due or under way goes on.
Choose(u) ==
    /\ open /\ listed /\ u \in suggestions
    /\ selected' = u /\ text' = u
    /\ listed' = FALSE
    /\ UNCHANGED <<open, timer, searches, suggestions, posts, answeredFor>>

\* hideSuggestions, on Escape and when the field loses the focus.
Hide ==
    /\ open /\ listed /\ listed' = FALSE
    /\ UNCHANGED <<open, text, timer, searches, suggestions, selected, posts, answeredFor>>

\* submitInvite up to its await.  The button stays enabled.
Submit ==
    /\ open /\ selected # NoUser
    /\ posts < MaxPosts /\ posts' = posts + 1
    /\ UNCHANGED <<open, text, timer, searches, suggestions, listed, selected, answeredFor>>

\* The rest of it: the form is reset, whatever it holds by now, unless the server
\* refused.
Submitted ==
    /\ posts > 0 /\ posts' = posts - 1
    /\ Reset \/ UNCHANGED <<text, suggestions, listed, selected>>
    /\ UNCHANGED <<open, timer, searches, answeredFor>>

-----------------------------------------------------------------------------
Next ==
    \/ OpenDialog \/ CloseDialog \/ Search \/ Hide \/ Submit \/ Submitted
    \/ \E t \in Texts \cup {Empty} : Type(t)
    \/ \E s \in searches : ErrorStatus(s) \/ Answer(s)
    \/ \E u \in Users : Choose(u)

Spec == Init /\ [][Next]_vars

\* Timers fire, since typing pauses, and fetches end.  The user need do nothing.
FairSpec == Spec /\ WF_vars(Search) /\ WF_vars(\E s \in searches : Answer(s))
-----------------------------------------------------------------------------
(* Properties *)

\* "A slow, older response can't overwrite newer results" (app.js:547): once the
\* answer to a search is drawn, none of an earlier search is awaited any more.
OlderNeverOverwrites == \A s \in searches : ~s.overtaken

\* A closed dialog is quiet: nothing that was typed into it is still searched for, so
\* what appears in it when it is opened again was typed since (app.js:417-419).
ClosedIsQuiet == ~open => timer = Empty /\ searches = {}

\* Whoever is invited is whom the form names, although answers, choices and resets by
\* earlier invitations come in between (app.js:531-532, 639-651).
InvitesWhomItNames == selected # NoUser => text = selected

\* Every search settles: what the field holds is answered for, with suggestions or an
\* error, since it was typed, unless the user types on, chooses, or leaves
\* (app.js:542-565).
SearchSettles ==
    \A t \in Texts : open /\ text = t /\ selected = NoUser
        ~> (answeredFor = t \/ text # t \/ selected # NoUser \/ ~open)
=============================================================================
