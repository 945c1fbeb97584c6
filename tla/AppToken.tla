------------------------------ MODULE AppToken ------------------------------
(***************************************************************************)
(* The application token of a browser client: features/auth/appToken.ts,   *)
(* of which staff-client and orders-client each have a copy (only          *)
(* staff-client can clear its token).  The clients' modules extend this one *)
(* and say what waits for a token.                                         *)
(*                                                                         *)
(* A loop is one call of requestTokenWithRetry, with its attempts.  There  *)
(* is no clock: a timer that is armed may fire at any time and a token may *)
(* run out at any time, since timers of a browser are late when a tab is   *)
(* in the background or the machine sleeps.  What runs without waiting for *)
(* a timer or the network, promise continuations included, is one step.    *)
(***************************************************************************)
EXTENDS Naturals, FiniteSets

CONSTANTS
    Tokens, NoToken,  \* application tokens; the empty string
    Loops, NoLoop,    \* how many loops may run at once (a bound); null
    MaxRetries        \* MAX_RETRIES

ASSUME AppTokenAssumption ==
    /\ NoToken \notin Tokens
    /\ NoLoop \notin Loops
    /\ MaxRetries \in Nat \ {0}

VARIABLES
    stored,     \* displayToken, appToken
    expired,    \* tokens that have run out
    armed,      \* refreshTimer will fire
    inFlight,   \* inFlightRequest: the loop that a caller joins
    loop,       \* each loop: its attempt, and whether it calls or waits to retry
    refreshing  \* loops whose result a refreshToken awaits

tokenVars == <<stored, expired, armed, inFlight, loop, refreshing>>

Idle == [state |-> "idle", attempt |-> 0]

TokenTypeOK ==
    /\ stored \in Tokens \cup {NoToken}
    /\ expired \subseteq Tokens
    /\ armed \in BOOLEAN
    /\ inFlight \in Loops \cup {NoLoop}
    /\ loop \in [Loops -> [state : {"idle", "calling", "delaying"}, attempt : 0..MaxRetries]]
    /\ refreshing \subseteq Loops

TokenInit ==
    /\ stored = NoToken /\ expired = {} /\ armed = FALSE
    /\ inFlight = NoLoop /\ loop = [l \in Loops |-> Idle] /\ refreshing = {}

HasValidToken == stored \in Tokens \ expired

\* Faulty variant: a caller does not look for a request in flight.
ForceTokenRefreshAlways(l) ==
    /\ loop[l] = Idle
    /\ inFlight' = l
    /\ loop' = [loop EXCEPT ![l] = [state |-> "calling", attempt |-> 1]]

\* A caller gets the promise of loop l: the one in flight, else a new one.
ForceTokenRefresh(l) ==
    \/ /\ inFlight = l
       /\ UNCHANGED <<inFlight, loop>>
    \/ /\ inFlight = NoLoop /\ loop[l] = Idle
       /\ inFlight' = l
       /\ loop' = [loop EXCEPT ![l] = [state |-> "calling", attempt |-> 1]]

\* refreshTimer fires: refreshToken.
RefreshTimerFires ==
    /\ armed
    /\ armed' = FALSE
    /\ \E l \in Loops :
          /\ ForceTokenRefresh(l)
          /\ refreshing' = refreshing \cup {l}
    /\ UNCHANGED <<stored, expired>>

\* Promise l settles.  Its finally clears inFlightRequest, whichever promise
\* that is by now.
LoopEnds(l) ==
    /\ loop' = [loop EXCEPT ![l] = Idle]
    /\ inFlight' = NoLoop
    /\ refreshing' = refreshing \ {l}

\* acquireAppToken answers with token t: stored, and its refresh scheduled.
Acquired(l, t) ==
    /\ loop[l].state = "calling"
    /\ stored' = t
    /\ expired' = expired \ {t}
    /\ armed' = TRUE
    /\ LoopEnds(l)

\* acquireAppToken fails, not for the last time.
TriesAgainLater(l) ==
    /\ loop[l].state = "calling" /\ loop[l].attempt < MaxRetries
    /\ loop' = [loop EXCEPT ![l].state = "delaying"]
    /\ UNCHANGED <<stored, expired, armed, inFlight, refreshing>>

\* Faulty variant: the background retry is forgotten.
GivesUpForGood(l) ==
    /\ loop[l].state = "calling" /\ loop[l].attempt = MaxRetries
    /\ LoopEnds(l)
    /\ UNCHANGED <<stored, expired, armed>>

\* acquireAppToken fails for the last time.  A refreshToken that awaits the
\* loop starts its timer again.
GivesUp(l) ==
    /\ loop[l].state = "calling" /\ loop[l].attempt = MaxRetries
    /\ armed' = (armed \/ l \in refreshing)
    /\ LoopEnds(l)
    /\ UNCHANGED <<stored, expired>>

RetryDelayEnds(l) ==
    /\ loop[l].state = "delaying"
    /\ loop' = [loop EXCEPT ![l] = [state |-> "calling", attempt |-> @.attempt + 1]]
    /\ UNCHANGED <<stored, expired, armed, inFlight, refreshing>>

\* clearDisplayToken; the loops run on.
ClearToken ==
    /\ stored' = NoToken
    /\ inFlight' = NoLoop
    /\ armed' = FALSE
    /\ UNCHANGED <<expired, loop, refreshing>>

\* The page is loaded again: of the manager nothing is left.
ForgetTokens ==
    /\ stored' = NoToken
    /\ armed' = FALSE
    /\ refreshing' = {}
    /\ UNCHANGED expired

Expire(t) ==
    /\ t \notin expired
    /\ expired' = expired \cup {t}
    /\ UNCHANGED <<stored, armed, inFlight, loop, refreshing>>

\* A token, once obtained, is renewed for ever: its refresh is due or under
\* way, through failures, overlapping requests and clears.
RefreshGoesOn == stored # NoToken => armed \/ refreshing # {}
=============================================================================
