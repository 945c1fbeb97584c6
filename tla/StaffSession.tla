---------------------------- MODULE StaffSession ----------------------------
(***************************************************************************)
(* Who uses staff-client, and in which mode: view, session and             *)
(* sessionStorage of App.tsx, the sign-in of staff, the entry of display   *)
(* mode through the application token, and the poll timer that an effect   *)
(* starts for the session.  What the boards show is in StaffBoard.         *)
(*                                                                         *)
(* A step is one handler, or what follows one await of it, with the render *)
(* and the effects it causes.                                              *)
(***************************************************************************)
EXTENDS AppToken

CONSTANTS
    Staff,  \* staff members; a name also stands for the token of its login
    Nobody  \* no login under way

ASSUME StaffAssumption == Nobody \notin Staff /\ Staff \cap (Tokens \cup {NoToken}) = {}

VARIABLES
    view,         \* what the dashboard shows
    session,      \* mode and access token, NoSession when signed out
    storage,      \* the persisted session
    displayError, \* display_loading shows an error and Back
    login,        \* whose login is under way (authLoading)
    entering,     \* loops that an enterDisplayMode awaits
    poll          \* the session that the interval of the poll effect captured

uiVars == <<view, session, storage, displayError, login, entering>>
vars == <<uiVars, poll, tokenVars>>

NoSession == [mode |-> "none", token |-> NoToken]
Interactive(u) == [mode |-> "interactive", token |-> u]
Display(t) == [mode |-> "display", token |-> t]

\* What writeDisplaySession persists: the mode without the token.
DisplayMark == Display(NoToken)

IsBoardView(v) == v \in {"interactive_board", "display_board"}

Init ==
    /\ view = "landing" /\ session = NoSession /\ storage = NoSession
    /\ displayError = FALSE /\ login = Nobody /\ entering = {} /\ poll = NoSession
    /\ TokenInit

-----------------------------------------------------------------------------
(* The entry                                                               *)

ChooseInteractive ==
    /\ view = "landing"
    /\ view' = "interactive_credentials"
    /\ UNCHANGED <<session, storage, displayError, login, entering, tokenVars>>

\* Faulty variant: the token is persisted with the mode.
DisplayEnteredPersisting(t) ==
    /\ storage' = Display(t)
    /\ session' = Display(t)
    /\ view' = "display_board"

\* enterDisplayMode goes on with token t, whatever is on the screen by now.
DisplayEntered(t) ==
    /\ storage' = DisplayMark
    /\ session' = Display(t)
    /\ view' = "display_board"

\* enterDisplayMode begins: getDisplayToken answers at once or joins a loop.
EnterDisplayMode ==
    \/ /\ HasValidToken
       /\ DisplayEntered(stored)
       /\ UNCHANGED <<entering, tokenVars>>
    \/ /\ ~ HasValidToken
       /\ view' = "display_loading"
       /\ \E l \in Loops : ForceTokenRefresh(l) /\ entering' = entering \cup {l}
       /\ UNCHANGED <<session, storage, stored, expired, armed, refreshing>>

ChooseDisplay ==
    /\ view = "landing" /\ session = NoSession
    /\ displayError' = FALSE
    /\ EnterDisplayMode
    /\ UNCHANGED login

SubmitLogin(u) ==
    /\ view = "interactive_credentials" /\ login = Nobody
    /\ login' = u
    /\ UNCHANGED <<view, session, storage, displayError, entering, tokenVars>>

\* onLogin goes on, whatever is on the screen by now.
LoginSucceeds ==
    /\ login # Nobody
    /\ storage' = Interactive(login)
    /\ session' = Interactive(login)
    /\ view' = "interactive_board"
    /\ login' = Nobody
    /\ UNCHANGED <<displayError, entering, tokenVars>>

LoginFails ==
    /\ login # Nobody
    /\ login' = Nobody
    /\ UNCHANGED <<view, session, storage, displayError, entering, tokenVars>>

\* Back, or Login in the navigation.
GoBackToLanding ==
    /\ view \in {"interactive_credentials", "display_loading"}
    /\ view' = "landing" /\ displayError' = FALSE
    /\ ClearToken
    /\ UNCHANGED <<session, storage, login, entering>>

\* Faulty variant: the persisted session is left behind.
ResetAllStateButStorage ==
    /\ IsBoardView(view)
    /\ view' = "landing" /\ session' = NoSession /\ displayError' = FALSE
    /\ ClearToken
    /\ UNCHANGED <<storage, login, entering>>

\* Logout, Exit.
ResetAllState ==
    /\ IsBoardView(view)
    /\ view' = "landing" /\ session' = NoSession /\ storage' = NoSession
    /\ displayError' = FALSE
    /\ ClearToken
    /\ UNCHANGED <<login, entering>>

\* The page is loaded again: computeInitialState, and the effect that enters
\* display mode again.
Reload ==
    /\ ForgetTokens
    /\ displayError' = FALSE /\ login' = Nobody
    /\ UNCHANGED storage
    /\ \/ /\ storage.mode = "display"
          /\ view' = "display_loading" /\ session' = NoSession
          /\ \E l \in Loops :
                /\ inFlight' = l /\ entering' = {l}
                /\ loop' = [k \in Loops |-> IF k = l THEN [state |-> "calling", attempt |-> 1] ELSE Idle]
       \/ /\ storage.mode # "display"
          /\ session' = storage
          /\ view' = IF storage = NoSession THEN "landing" ELSE "interactive_board"
          /\ inFlight' = NoLoop /\ loop' = [k \in Loops |-> Idle] /\ entering' = {}

-----------------------------------------------------------------------------
(* The application token                                                   *)

AcquireSucceeds(l) ==
    /\ \E t \in Tokens \ {stored, session.token} :
          /\ Acquired(l, t)
          /\ IF l \in entering THEN DisplayEntered(t)
                               ELSE UNCHANGED <<view, session, storage>>
    /\ entering' = entering \ {l}
    /\ UNCHANGED <<displayError, login>>

\* Faulty variant: enterDisplayMode has no catch.
AcquireFailsSilently(l) ==
    /\ \/ TriesAgainLater(l) /\ UNCHANGED entering
       \/ GivesUp(l) /\ entering' = entering \ {l}
    /\ UNCHANGED <<view, session, storage, displayError, login>>

\* The last failure rejects enterDisplayMode, which shows it.
AcquireFails(l) ==
    /\ \/ TriesAgainLater(l) /\ UNCHANGED <<entering, displayError>>
       \/ /\ GivesUp(l)
          /\ entering' = entering \ {l}
          /\ displayError' = (displayError \/ l \in entering)
    /\ UNCHANGED <<view, session, storage, login>>

TriesAgain(l) == RetryDelayEnds(l) /\ UNCHANGED uiVars

RefreshDue == RefreshTimerFires /\ UNCHANGED uiVars

\* Users-service no longer accepts a token that the client holds.
TokenRunsOut == \E t \in {stored, session.token} \cap Tokens : Expire(t) /\ UNCHANGED uiVars

-----------------------------------------------------------------------------
\* Faulty variant: the effect does not depend on the access token.
PollEffectOfView ==
    poll' = IF IsBoardView(view') = IsBoardView(view) THEN poll
            ELSE IF IsBoardView(view') THEN session' ELSE NoSession

\* The effect with dependencies isBoardView and session?.accessToken stops the
\* interval and starts another for the session it sees, if there is a board.
PollEffect ==
    poll' = IF <<IsBoardView(view'), session'.token>> = <<IsBoardView(view), session.token>> THEN poll
            ELSE IF IsBoardView(view') THEN session' ELSE NoSession

Step ==
    \/ ChooseInteractive \/ ChooseDisplay
    \/ \E u \in Staff : SubmitLogin(u)
    \/ LoginSucceeds \/ LoginFails
    \/ GoBackToLanding \/ ResetAllState \/ Reload
    \/ \E l \in Loops : AcquireSucceeds(l) \/ AcquireFails(l) \/ TriesAgain(l)
    \/ RefreshDue \/ TokenRunsOut

Next == Step /\ PollEffect

Spec == Init /\ [][Next]_vars

Sessions == {NoSession} \cup {Interactive(u) : u \in Staff} \cup {Display(t) : t \in Tokens}

TypeOK ==
    /\ view \in {"landing", "interactive_credentials", "display_loading", "interactive_board", "display_board"}
    /\ session \in Sessions
    /\ storage \in {NoSession, DisplayMark} \cup {Interactive(u) : u \in Staff}
    /\ displayError \in BOOLEAN
    /\ login \in Staff \cup {Nobody}
    /\ entering \subseteq Loops
    /\ poll \in Sessions
    /\ TokenTypeOK

-----------------------------------------------------------------------------
\* "only interactive may issue production commands" (domain-brain/
\* invariants.md): the board on the screen is the one of the session's mode, and
\* the poll asks with the token and for the board of that session, in whatever
\* order logins, display entries, exits and their late answers happen.
BoardFollowsSession ==
    /\ (view = "interactive_board") = (session.mode = "interactive")
    /\ (view = "display_board") = (session.mode = "display")
    /\ poll = session

\* What a page load restores when a board is on the screen is that board: in its
\* mode, an interactive one with its token; and the token of somebody who has
\* logged out is not kept.  (Without a board only the latter: after Back from a
\* display mode that was re-entered its mark is kept, and a load enters it again.)
StorageFollowsSession ==
    /\ session.mode = "interactive" => storage = session
    /\ session.mode = "display" => storage = DisplayMark
    /\ session = NoSession => storage.mode # "interactive"

\* "Callers refresh token before expiry" (domain-brain/flows/
\* user-authentication.md): while the client has a valid application token, the
\* display board polls with a valid one.
DisplayTokenIsFresh == poll.mode = "display" /\ HasValidToken => poll.token \notin expired

-----------------------------------------------------------------------------
(* Liveness: an HTTP call is answered or fails, a delay ends, and the page *)
(* is not loaded again for ever.                                           *)

FairSpec ==
    /\ Spec
    /\ \A l \in Loops : WF_vars((AcquireSucceeds(l) \/ AcquireFails(l) \/ TriesAgain(l)) /\ PollEffect)
    /\ <>[][~ Reload]_vars

\* "Staff display mode cannot acquire an application token": the loading screen
\* ends with the board or with an error and a way back (domain-brain/edge-cases.md).
DisplayWaitEnds == view = "display_loading" ~> view # "display_loading" \/ displayError
=============================================================================
