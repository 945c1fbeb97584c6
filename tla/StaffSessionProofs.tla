------------------------- MODULE StaffSessionProofs -------------------------
(***************************************************************************)
(* For any staff, application tokens, concurrent loops and retries: screen, *)
(* poll and stored session of staff-client agree, and its token is renewed *)
(* for ever.                                                               *)
(***************************************************************************)
EXTENDS StaffSession, AppTokenProofs

\* Types without those of the poll, which the effect keeps.
UiTypeOK ==
    /\ view \in {"landing", "interactive_credentials", "display_loading", "interactive_board", "display_board"}
    /\ session \in Sessions
    /\ storage \in {NoSession, DisplayMark} \cup {Interactive(u) : u \in Staff}
    /\ displayError \in BOOLEAN
    /\ login \in Staff \cup {Nobody}
    /\ entering \subseteq Loops

\* The screen shows the board of the session's mode.
ViewFollowsSession ==
    /\ (view = "interactive_board") = (session.mode = "interactive")
    /\ (view = "display_board") = (session.mode = "display")

LEMMA SessionKinds ==
    /\ NoSession \in Sessions /\ NoSession.mode = "none" /\ NoSession.token = NoToken
    /\ \A u : /\ u \in Staff => Interactive(u) \in Sessions
              /\ Interactive(u).mode = "interactive" /\ Interactive(u).token = u
    /\ \A t : /\ t \in Tokens => Display(t) \in Sessions
              /\ Display(t).mode = "display" /\ Display(t).token = t
    /\ DisplayMark.mode = "display"
BY DEF Sessions, NoSession, Interactive, Display, DisplayMark

\* Every step of the client is one of the token manager, or none of it.
LEMMA StepOfManager ==
    ASSUME UiTypeOK, TokenInv, Step
    PROVE  TokenStep
<1> USE DEF TokenStep, LoopStep
<1>1. CASE ChooseInteractive
    BY <1>1 DEF ChooseInteractive
<1>2. CASE ChooseDisplay
    BY <1>2 DEF ChooseDisplay, EnterDisplayMode, Joins
<1>3. ASSUME NEW u \in Staff, SubmitLogin(u) PROVE TokenStep
    BY <1>3 DEF SubmitLogin
<1>4. CASE LoginSucceeds \/ LoginFails
    BY <1>4 DEF LoginSucceeds, LoginFails
<1>5. CASE GoBackToLanding \/ ResetAllState
    BY <1>5 DEF GoBackToLanding, ResetAllState
<1>6. CASE Reload
  <2>1. loop' \in [Loops -> {Idle, Fresh}] /\ inFlight' \in Loops \cup {NoLoop}
      BY <1>6 DEF Reload, Fresh
  <2> QED
      BY <1>6, <2>1 DEF Reload, Forgets
<1>7. ASSUME NEW l \in Loops, AcquireSucceeds(l) \/ AcquireFails(l) \/ TriesAgain(l)
      PROVE  TokenStep
    BY <1>7 DEF AcquireSucceeds, AcquireFails, TriesAgain
<1>8. CASE RefreshDue
    BY <1>8 DEF RefreshDue
<1>9. CASE TokenRunsOut
    BY <1>9 DEF TokenRunsOut
<1> QED
    BY <1>1, <1>2, <1>3, <1>4, <1>5, <1>6, <1>7, <1>8, <1>9 DEF Step

\* What the screen and the stored session keep.
ScreenInv == UiTypeOK /\ ViewFollowsSession /\ StorageFollowsSession

LEMMA DisplayEnteredKeeps ==
    ASSUME NEW t \in Tokens, DisplayEntered(t)
    PROVE  /\ view' = "display_board" /\ session' \in Sessions
           /\ storage' = DisplayMark
           /\ ViewFollowsSession' /\ StorageFollowsSession'
BY SessionKinds DEF DisplayEntered, ViewFollowsSession, StorageFollowsSession

LEMMA StepOnScreen ==
    ASSUME ScreenInv, TokenInv, Step
    PROVE  ScreenInv'
<1> USE SessionKinds DEF ScreenInv, UiTypeOK, ViewFollowsSession, StorageFollowsSession
<1>1. CASE ChooseInteractive
    BY <1>1 DEF ChooseInteractive
<1>2. CASE ChooseDisplay
  <2>1. CASE HasValidToken
      BY <1>2, <2>1, DisplayEnteredKeeps DEF ChooseDisplay, EnterDisplayMode, HasValidToken
  <2>2. CASE ~ HasValidToken
      BY <1>2, <2>2 DEF ChooseDisplay, EnterDisplayMode
  <2> QED
      BY <2>1, <2>2
<1>3. ASSUME NEW u \in Staff, SubmitLogin(u) PROVE ScreenInv'
    BY <1>3 DEF SubmitLogin
<1>4. CASE LoginSucceeds
  <2>1. login \in Staff
      BY <1>4 DEF LoginSucceeds
  <2> QED
      BY <1>4, <2>1 DEF LoginSucceeds
<1>5. CASE LoginFails
    BY <1>5 DEF LoginFails
<1>6. CASE GoBackToLanding
    BY <1>6 DEF GoBackToLanding
<1>7. CASE ResetAllState
    BY <1>7 DEF ResetAllState
<1>8. CASE Reload
  <2>1. CASE storage.mode = "display"
      BY <1>8, <2>1 DEF Reload
  <2>2. CASE storage = NoSession
      BY <1>8, <2>2 DEF Reload
  <2>3. ASSUME NEW u \in Staff, storage = Interactive(u) PROVE ScreenInv'
    <3>1. session' = storage /\ view' = "interactive_board" /\ UNCHANGED storage /\ entering' = {}
          /\ displayError' = FALSE /\ login' = Nobody
        BY <1>8, <2>3 DEF Reload
    <3> QED
        BY <3>1, <2>3
  <2> QED
      BY <2>1, <2>2, <2>3
<1>9. ASSUME NEW l \in Loops, AcquireSucceeds(l) PROVE ScreenInv'
  <2>1. PICK t \in Tokens : IF l \in entering THEN DisplayEntered(t)
                                              ELSE UNCHANGED <<view, session, storage>>
      BY <1>9 DEF AcquireSucceeds
  <2> QED
      BY <1>9, <2>1, DisplayEnteredKeeps DEF AcquireSucceeds
<1>10. ASSUME NEW l \in Loops, AcquireFails(l) \/ TriesAgain(l) PROVE ScreenInv'
    BY <1>10 DEF AcquireFails, TriesAgain, uiVars
<1>11. CASE RefreshDue \/ TokenRunsOut
    BY <1>11 DEF RefreshDue, TokenRunsOut, uiVars
<1> QED
    BY <1>1, <1>2, <1>3, <1>4, <1>5, <1>6, <1>7, <1>8, <1>9, <1>10, <1>11 DEF Step

\* The poll effect runs when it has to: the session on a board is known by its
\* token, since no login has the token of an application.
LEMMA EffectSuffices ==
    ASSUME ScreenInv, ScreenInv', poll = session, PollEffect
    PROVE  poll' = session'
<1> USE SessionKinds, StaffAssumption
    DEF ScreenInv, UiTypeOK, ViewFollowsSession, IsBoardView
<1>1. /\ IsBoardView(view) <=> session # NoSession
      /\ IsBoardView(view') <=> session' # NoSession
    BY DEF Sessions
<1>2. CASE <<IsBoardView(view'), session'.token>> = <<IsBoardView(view), session.token>>
  <2>1. poll' = poll
      BY <1>2 DEF PollEffect
  <2>2. IsBoardView(view') = IsBoardView(view) /\ session'.token = session.token
      BY <1>2
  <2>3. session' = session
      BY <1>1, <2>2 DEF Sessions
  <2> QED
      BY <2>1, <2>3
<1>3. CASE <<IsBoardView(view'), session'.token>> # <<IsBoardView(view), session.token>>
    BY <1>1, <1>3 DEF PollEffect
<1> QED
    BY <1>2, <1>3

\* The inductive invariant.
SessionInv == ScreenInv /\ TokenInv /\ RefreshGoesOn /\ poll = session

LEMMA InitInv == Init => SessionInv
<1> SUFFICES ASSUME Init PROVE SessionInv
    OBVIOUS
<1>1. TokenInv /\ RefreshGoesOn
    BY TokenInitTyped DEF Init, TokenInit, RefreshGoesOn
<1>2. ScreenInv
    BY SessionKinds
    DEF Init, ScreenInv, UiTypeOK, ViewFollowsSession, StorageFollowsSession
<1> QED
    BY <1>1, <1>2 DEF Init, SessionInv

LEMMA StepInv == SessionInv /\ [Next]_vars => SessionInv'
<1> SUFFICES ASSUME SessionInv, [Next]_vars PROVE SessionInv'
    OBVIOUS
<1>1. CASE Next
  <2>1. ScreenInv'
      BY <1>1, StepOnScreen DEF Next, SessionInv
  <2>2. TokenStep
      BY <1>1, StepOfManager DEF Next, SessionInv, ScreenInv
  <2>3. TokenInv' /\ RefreshGoesOn'
      BY <2>2, TokenStepTyped, TokenStepRefreshes DEF SessionInv
  <2>4. poll' = session'
      BY <1>1, <2>1, EffectSuffices DEF Next, SessionInv
  <2> QED
      BY <2>1, <2>3, <2>4 DEF SessionInv
<1>2. CASE UNCHANGED vars
    BY <1>2
    DEF vars, uiVars, tokenVars, SessionInv, ScreenInv, UiTypeOK, ViewFollowsSession,
        StorageFollowsSession, TokenInv, TokenTypeOK, RefreshGoesOn
<1> QED
    BY <1>1, <1>2

THEOREM SessionInvariant == Spec => []SessionInv
BY InitInv, StepInv, PTL DEF Spec

\* Every state of the client and of its token manager is typed.
THEOREM SessionTypeCorrect == Spec => []TypeOK
<1>1. SessionInv => TypeOK
    BY DEF SessionInv, ScreenInv, UiTypeOK, TokenInv, TypeOK
<1> QED
    BY <1>1, SessionInvariant, PTL

\* Only interactive mode has the board with commands, and the poll belongs to
\* the session (App.tsx:373-387), however late answers come.
THEOREM BoardFollows == Spec => []BoardFollowsSession
<1>1. SessionInv => BoardFollowsSession
    BY DEF SessionInv, ScreenInv, ViewFollowsSession, BoardFollowsSession
<1> QED
    BY <1>1, SessionInvariant, PTL

\* Loading the page again brings back what was on the screen (session.ts).
THEOREM StorageFollows == Spec => []StorageFollowsSession
<1>1. SessionInv => StorageFollowsSession
    BY DEF SessionInv, ScreenInv
<1> QED
    BY <1>1, SessionInvariant, PTL

\* A client with a token has its refresh due or under way (appToken.ts), also
\* after failures and after a clear with a request in flight.
THEOREM RefreshForEver == Spec => []RefreshGoesOn
<1>1. SessionInv => RefreshGoesOn
    BY DEF SessionInv
<1> QED
    BY <1>1, SessionInvariant, PTL
=============================================================================
