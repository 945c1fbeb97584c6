--------------------------- MODULE AppTokenProofs ---------------------------
(***************************************************************************)
(* What every step of the token manager keeps, for the proofs about the    *)
(* two clients.                                                            *)
(***************************************************************************)
EXTENDS AppToken, TLAPS

\* A loop that waits to retry has a retry left.
TokenInv ==
    /\ TokenTypeOK
    /\ \A l \in Loops : loop[l].state = "delaying" => loop[l].attempt < MaxRetries

Fresh == [state |-> "calling", attempt |-> 1]

\* A caller joins loop l.
Joins(l) == ForceTokenRefresh(l) /\ UNCHANGED <<stored, expired, armed, refreshing>>

\* The page is loaded again, and some loops start with it.
Forgets ==
    /\ ForgetTokens
    /\ inFlight' \in Loops \cup {NoLoop}
    /\ loop' \in [Loops -> {Idle, Fresh}]

LoopStep(l) ==
    \/ Joins(l) \/ TriesAgainLater(l) \/ GivesUp(l) \/ RetryDelayEnds(l)
    \/ \E t \in Tokens : Acquired(l, t)

\* All that the clients do with the manager.
TokenStep ==
    \/ UNCHANGED tokenVars
    \/ \E l \in Loops : LoopStep(l)
    \/ RefreshTimerFires \/ ClearToken \/ Forgets
    \/ \E t \in Tokens : Expire(t)

LoopStates == [state : {"idle", "calling", "delaying"}, attempt : 0..MaxRetries]

LEMMA NewLoops ==
    /\ Idle \in LoopStates /\ Idle.state = "idle"
    /\ Fresh \in LoopStates /\ Fresh.state = "calling"
BY AppTokenAssumption DEF Idle, Fresh, LoopStates

LEMMA TokenInitTyped == TokenInit => TokenInv
<1> SUFFICES ASSUME TokenInit PROVE TokenInv
    OBVIOUS
<1>1. loop \in [Loops -> LoopStates] /\ \A l \in Loops : loop[l].state = "idle"
    BY NewLoops DEF TokenInit
<1> QED
    BY <1>1 DEF TokenInit, TokenInv, TokenTypeOK, LoopStates

LEMMA ForceKeeps ==
    ASSUME TokenInv, NEW l \in Loops, ForceTokenRefresh(l)
    PROVE  /\ inFlight' \in Loops \cup {NoLoop}
           /\ loop' \in [Loops -> [state : {"idle", "calling", "delaying"}, attempt : 0..MaxRetries]]
           /\ \A k \in Loops : loop'[k].state = "delaying" => loop'[k].attempt < MaxRetries
BY AppTokenAssumption DEF TokenInv, TokenTypeOK, ForceTokenRefresh

LEMMA TokenStepTyped ==
    ASSUME TokenInv, TokenStep
    PROVE  TokenInv'
<1> USE AppTokenAssumption DEF TokenInv, TokenTypeOK
<1>1. CASE UNCHANGED tokenVars
    BY <1>1 DEF tokenVars
<1>2. ASSUME NEW l \in Loops, LoopStep(l) PROVE TokenInv'
  <2>1. CASE Joins(l)
      BY <2>1, ForceKeeps DEF Joins
  <2>2. CASE TriesAgainLater(l)
      BY <2>2 DEF TriesAgainLater
  <2>3. CASE GivesUp(l)
      BY <2>3, NewLoops DEF GivesUp, LoopEnds, LoopStates
  <2>4. CASE RetryDelayEnds(l)
      BY <2>4 DEF RetryDelayEnds
  <2>5. ASSUME NEW t \in Tokens, Acquired(l, t) PROVE TokenInv'
      BY <2>5, NewLoops DEF Acquired, LoopEnds, LoopStates
  <2> QED
      BY <1>2, <2>1, <2>2, <2>3, <2>4, <2>5 DEF LoopStep
<1>3. CASE RefreshTimerFires
  <2>1. PICK l \in Loops : ForceTokenRefresh(l) /\ refreshing' = refreshing \cup {l}
      BY <1>3 DEF RefreshTimerFires
  <2> QED
      BY <1>3, <2>1, ForceKeeps DEF RefreshTimerFires
<1>4. CASE ClearToken
    BY <1>4 DEF ClearToken
<1>5. CASE Forgets
  <2>1. /\ loop' \in [Loops -> LoopStates]
        /\ \A l \in Loops : loop'[l].state # "delaying"
      BY <1>5, NewLoops DEF Forgets
  <2> QED
      BY <1>5, <2>1 DEF Forgets, ForgetTokens, LoopStates
<1>6. ASSUME NEW t \in Tokens, Expire(t) PROVE TokenInv'
    BY <1>6 DEF Expire
<1> QED
    BY <1>1, <1>2, <1>3, <1>4, <1>5, <1>6 DEF TokenStep

LEMMA TokenStepRefreshes ==
    ASSUME RefreshGoesOn, TokenStep
    PROVE  RefreshGoesOn'
<1> USE DEF RefreshGoesOn
<1>1. CASE UNCHANGED tokenVars
    BY <1>1 DEF tokenVars
<1>2. ASSUME NEW l \in Loops, LoopStep(l) PROVE RefreshGoesOn'
    BY <1>2 DEF LoopStep, Joins, TriesAgainLater, GivesUp, RetryDelayEnds, Acquired, LoopEnds
<1>3. CASE RefreshTimerFires
    BY <1>3 DEF RefreshTimerFires
<1>4. CASE ClearToken \/ Forgets
    BY <1>4 DEF ClearToken, Forgets, ForgetTokens
<1>5. ASSUME NEW t \in Tokens, Expire(t) PROVE RefreshGoesOn'
    BY <1>5 DEF Expire
<1> QED
    BY <1>1, <1>2, <1>3, <1>4, <1>5 DEF TokenStep
=============================================================================
