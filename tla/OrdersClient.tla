---------------------------- MODULE OrdersClient ----------------------------
(***************************************************************************)
(* orders-client: sign-in of registered users and guests (who need an      *)
(* application token first), the menu, the basket and the submission of    *)
(* orders, as the handlers of App.tsx and the calls they await.            *)
(*                                                                         *)
(* A step is one handler up to its await, or what follows the await.  token, *)
(* user and mode always change together: session is the user they belong   *)
(* to.  Of orders-service (OrderSubmission) only this is here: a request   *)
(* that was made may become an order at any time, whether or not the       *)
(* client still waits for it.                                              *)
(* Left out: tabs, text size, texts of errors, prices, and the content of  *)
(* the menu but for whether there is one.                                  *)
(***************************************************************************)
EXTENDS AppToken

CONSTANTS
    Registered, Guests, Nobody,  \* users by mode; null
    SignIns,                     \* how many sign-ins may be under way (a bound)
    Dishes, MaxQuantity,         \* items of the menu; a bound
    Requests, NoRequest,         \* the ids that createRequestId makes, as numbers (a bound)
    MaxReloads                   \* how many reloadMenu may be under way (a bound)

ASSUME OrdersClientAssumption ==
    /\ Nobody \notin Registered \cup Guests
    /\ Requests \subseteq Nat /\ NoRequest \notin Requests
    /\ MaxQuantity \in Nat \ {0} /\ MaxReloads \in Nat

VARIABLES
    session, storage,  \* the user signed in, and the one of sessionStorage
    entryStep,
    authLoading,
    signIn,            \* each onLogin or onGuestLogin under way: what it awaits
    menu, menuLoading, \* there are menu items
    reloads,           \* reloadMenu calls under way
    basket,            \* the quantity of each dish, 0 for no line
    submitLoading,
    lastOrder,
    request,           \* each request made: what came of it
    tried              \* the last request made for the basket as it is

signInVars == <<session, storage, entryStep, authLoading, signIn>>
menuVars == <<menu, menuLoading, reloads>>
orderVars == <<basket, submitLoading, lastOrder, request, tried>>
vars == <<signInVars, menuVars, orderVars, tokenVars>>

NoSignIn == [awaits |-> "nothing"]
Await(what, u) == [awaits |-> what, user |-> u]
AwaitToken(l, u) == [awaits |-> "appToken", user |-> u, loop |-> l]

NotMade == [made |-> FALSE]

EmptyBasket == [d \in Dishes |-> 0]

Init ==
    /\ session = Nobody /\ storage = Nobody /\ entryStep = "landing"
    /\ authLoading = FALSE /\ signIn = [s \in SignIns |-> NoSignIn]
    /\ menu = FALSE /\ menuLoading = FALSE /\ reloads = 0
    /\ basket = EmptyBasket /\ submitLoading = FALSE /\ lastOrder = NoRequest
    /\ request = [r \in Requests |-> NotMade] /\ tried = NoRequest
    /\ TokenInit

-----------------------------------------------------------------------------
(* Sign-in                                                                 *)

ChooseMode ==
    /\ session = Nobody /\ entryStep = "landing"
    /\ entryStep' \in {"registered_credentials", "guest_name"}
    /\ UNCHANGED <<session, storage, authLoading, signIn, menuVars, orderVars, tokenVars>>

\* Back: resetToLanding.
GoBack ==
    /\ session = Nobody /\ entryStep \in {"registered_credentials", "guest_name"}
    /\ ~ authLoading
    /\ entryStep' = "landing"
    /\ UNCHANGED <<session, storage, authLoading, signIn, menuVars, orderVars, tokenVars>>

\* onLogin up to its first await.
OnLogin(s, u) ==
    /\ session = Nobody /\ entryStep = "registered_credentials" /\ ~ authLoading
    /\ signIn[s] = NoSignIn
    /\ signIn' = [signIn EXCEPT ![s] = Await("login", u)]
    /\ authLoading' = TRUE
    /\ UNCHANGED <<session, storage, entryStep, menuVars, orderVars, tokenVars>>

\* onGuestLogin up to its first await that takes time: getAppToken has a token
\* or a request for one, its own or one in flight.
OnGuestLogin(s, u) ==
    /\ session = Nobody /\ entryStep = "guest_name" /\ ~ authLoading
    /\ signIn[s] = NoSignIn
    /\ \/ /\ HasValidToken
          /\ signIn' = [signIn EXCEPT ![s] = Await("guest", u)]
          /\ UNCHANGED tokenVars
       \/ /\ ~ HasValidToken
          /\ \E l \in Loops :
                ForceTokenRefresh(l) /\ signIn' = [signIn EXCEPT ![s] = AwaitToken(l, u)]
          /\ UNCHANGED <<stored, expired, armed, refreshing>>
    /\ authLoading' = TRUE
    /\ UNCHANGED <<session, storage, entryStep, menuVars, orderVars>>

\* Faulty variant: the session is not written to sessionStorage.
CompleteAuthenticationUnsaved(s) ==
    /\ signIn[s].awaits \in {"login", "guest"}
    /\ session' = signIn[s].user /\ entryStep' = "main"
    /\ menuLoading' = TRUE
    /\ signIn' = [signIn EXCEPT ![s] = Await("menu", @.user)]
    /\ UNCHANGED <<storage, authLoading, menu, reloads, orderVars, tokenVars>>

\* login or createGuestUser answers: completeAuthentication up to its await,
\* whatever is on the screen by now.
CompleteAuthentication(s) ==
    /\ signIn[s].awaits \in {"login", "guest"}
    /\ session' = signIn[s].user /\ storage' = session' /\ entryStep' = "main"
    /\ menuLoading' = TRUE
    /\ signIn' = [signIn EXCEPT ![s] = Await("menu", @.user)]
    /\ UNCHANGED <<authLoading, menu, reloads, orderVars, tokenVars>>

SignInFails(s) ==
    /\ signIn[s].awaits \in {"login", "guest"}
    /\ signIn' = [signIn EXCEPT ![s] = NoSignIn]
    /\ authLoading' = FALSE
    /\ UNCHANGED <<session, storage, entryStep, menuVars, orderVars, tokenVars>>

\* fetchMenu answers or fails, which ends completeAuthentication and onLogin or
\* onGuestLogin with it.  The session stays either way.
SignInEndsWithMenu(s) ==
    /\ signIn[s].awaits = "menu"
    /\ menu' \in {menu, TRUE} /\ menuLoading' = FALSE
    /\ signIn' = [signIn EXCEPT ![s] = NoSignIn]
    /\ authLoading' = FALSE
    /\ UNCHANGED <<session, storage, entryStep, reloads, orderVars, tokenVars>>

\* Faulty variant: the submission is forgotten, too.
LogoutForgetting ==
    /\ session # Nobody
    /\ session' = Nobody /\ storage' = Nobody /\ entryStep' = "landing"
    /\ authLoading' = FALSE /\ submitLoading' = FALSE
    /\ menu' = FALSE /\ basket' = EmptyBasket /\ lastOrder' = NoRequest /\ tried' = NoRequest
    /\ UNCHANGED <<signIn, menuLoading, reloads, request, tokenVars>>

\* Calls under way go on, and menuLoading and submitLoading stay theirs.
Logout ==
    /\ session # Nobody
    /\ session' = Nobody /\ storage' = Nobody /\ entryStep' = "landing"
    /\ authLoading' = FALSE
    /\ menu' = FALSE /\ basket' = EmptyBasket /\ lastOrder' = NoRequest /\ tried' = NoRequest
    /\ UNCHANGED <<signIn, menuLoading, reloads, submitLoading, request, tokenVars>>

\* The page is loaded again: only sessionStorage is left, and the requests that
\* have been sent.
Reload ==
    /\ session' = storage
    /\ entryStep' = IF storage = Nobody THEN "landing" ELSE "main"
    /\ authLoading' = FALSE /\ signIn' = [s \in SignIns |-> NoSignIn]
    /\ menu' = FALSE /\ menuLoading' = FALSE /\ reloads' = 0
    /\ basket' = EmptyBasket /\ submitLoading' = FALSE /\ lastOrder' = NoRequest
    /\ request' = [r \in Requests |-> IF request[r].made THEN [request[r] EXCEPT !.open = FALSE]
                                                         ELSE NotMade]
    /\ tried' = NoRequest
    /\ ForgetTokens /\ inFlight' = NoLoop /\ loop' = [l \in Loops |-> Idle]
    /\ UNCHANGED storage

-----------------------------------------------------------------------------
(* Menu, basket, orders                                                    *)

ReloadMenu ==
    /\ session # Nobody /\ ~ menuLoading
    /\ reloads < MaxReloads
    /\ menuLoading' = TRUE /\ reloads' = reloads + 1
    /\ UNCHANGED <<signInVars, menu, orderVars, tokenVars>>

ReloadEnds ==
    /\ reloads > 0
    /\ menu' \in {menu, TRUE} /\ menuLoading' = FALSE /\ reloads' = reloads - 1
    /\ UNCHANGED <<signInVars, orderVars, tokenVars>>

\* Add of a menu item (upsertBasketLine), + and - of a line
\* (updateLineQuantity).
ChangeBasket(d, quantity) ==
    /\ session # Nobody
    /\ \/ menu /\ ~ menuLoading /\ quantity = basket[d] + 1
       \/ basket[d] > 0 /\ quantity \in {basket[d] - 1, basket[d] + 1}
    /\ quantity <= MaxQuantity
    /\ basket' = [basket EXCEPT ![d] = quantity]
    /\ tried' = NoRequest
    /\ UNCHANGED <<signInVars, menuVars, submitLoading, lastOrder, request, tokenVars>>

\* placeOrder up to its await; submitOrder makes a new request id.
PlaceOrder(r) ==
    /\ session # Nobody /\ basket # EmptyBasket /\ ~ submitLoading
    /\ request[r] = NotMade /\ \A q \in Requests : q < r => request[q].made
    /\ request' = [request EXCEPT ![r] = [made |-> TRUE, again |-> tried, open |-> TRUE, placed |-> FALSE]]
    /\ submitLoading' = TRUE
    /\ tried' = r
    /\ UNCHANGED <<signInVars, menuVars, basket, lastOrder, tokenVars>>

\* orders-service accepts a request, as soon or as late as it arrives.
OrdersServiceAccepts(r) ==
    /\ request[r].made /\ ~ request[r].placed
    /\ request' = [request EXCEPT ![r].placed = TRUE]
    /\ UNCHANGED <<signInVars, menuVars, basket, submitLoading, lastOrder, tried, tokenVars>>

\* placeOrder goes on with the answer, whoever is signed in by now.
OrderAnswered(r) ==
    /\ request[r].made /\ request[r].open /\ request[r].placed
    /\ request' = [request EXCEPT ![r].open = FALSE]
    /\ lastOrder' = r /\ basket' = EmptyBasket /\ tried' = NoRequest
    /\ submitLoading' = FALSE
    /\ UNCHANGED <<signInVars, menuVars, tokenVars>>

\* Refused, or the answer got lost.  The basket stays.
OrderFails(r) ==
    /\ request[r].made /\ request[r].open
    /\ request' = [request EXCEPT ![r].open = FALSE]
    /\ submitLoading' = FALSE
    /\ UNCHANGED <<signInVars, menuVars, basket, lastOrder, tried, tokenVars>>

-----------------------------------------------------------------------------
(* The application token                                                   *)

Waiting(l) == {s \in SignIns : signIn[s].awaits = "appToken" /\ signIn[s].loop = l}

\* onGuestLogin goes on with createGuestUser.
AcquireSucceeds(l) ==
    /\ \E t \in Tokens : Acquired(l, t)
    /\ signIn' = [s \in SignIns |-> IF s \in Waiting(l) THEN Await("guest", signIn[s].user)
                                                        ELSE signIn[s]]
    /\ UNCHANGED <<session, storage, entryStep, authLoading, menuVars, orderVars>>

\* Faulty variant: nobody is told that there will be no token.
AcquireFailsSilently(l) ==
    /\ TriesAgainLater(l) \/ GivesUp(l)
    /\ UNCHANGED <<signInVars, menuVars, orderVars>>

\* The last failure is one of the sign-ins that wait for the token.
AcquireFails(l) ==
    /\ \/ TriesAgainLater(l) /\ UNCHANGED <<authLoading, signIn>>
       \/ /\ GivesUp(l)
          /\ signIn' = [s \in SignIns |-> IF s \in Waiting(l) THEN NoSignIn ELSE signIn[s]]
          /\ authLoading' = (authLoading /\ Waiting(l) = {})
    /\ UNCHANGED <<session, storage, entryStep, menuVars, orderVars>>

TriesAgain(l) == RetryDelayEnds(l) /\ UNCHANGED <<signInVars, menuVars, orderVars>>

RefreshDue == RefreshTimerFires /\ UNCHANGED <<signInVars, menuVars, orderVars>>

TokenRunsOut == Expire(stored) /\ stored # NoToken /\ UNCHANGED <<signInVars, menuVars, orderVars>>

-----------------------------------------------------------------------------
SignInGoesOn(s) == CompleteAuthentication(s) \/ SignInFails(s) \/ SignInEndsWithMenu(s)

TokenGoesOn(l) == AcquireSucceeds(l) \/ AcquireFails(l) \/ TriesAgain(l)

Next ==
    \/ ChooseMode \/ GoBack \/ Logout \/ Reload
    \/ \E s \in SignIns :
          \/ \E u \in Registered : OnLogin(s, u)
          \/ \E u \in Guests : OnGuestLogin(s, u)
          \/ SignInGoesOn(s)
    \/ ReloadMenu \/ ReloadEnds
    \/ \E d \in Dishes, quantity \in 0..MaxQuantity : ChangeBasket(d, quantity)
    \/ \E r \in Requests :
          PlaceOrder(r) \/ OrdersServiceAccepts(r) \/ OrderAnswered(r) \/ OrderFails(r)
    \/ \E l \in Loops : TokenGoesOn(l)
    \/ RefreshDue \/ TokenRunsOut

Spec == Init /\ [][Next]_vars

Users == Registered \cup Guests

\* Types; and what is persisted is the session on the screen.
TypeOK ==
    /\ session \in Users \cup {Nobody} /\ storage = session
    /\ entryStep \in {"landing", "registered_credentials", "guest_name", "main"}
    /\ authLoading \in BOOLEAN
    /\ signIn \in [SignIns -> {NoSignIn} \cup [awaits : {"login", "guest", "menu"}, user : Users]
                              \cup [awaits : {"appToken"}, user : Guests, loop : Loops]]
    /\ menu \in BOOLEAN /\ menuLoading \in BOOLEAN /\ reloads \in 0..MaxReloads
    /\ basket \in [Dishes -> 0..MaxQuantity]
    /\ submitLoading \in BOOLEAN /\ lastOrder \in Requests \cup {NoRequest}
    /\ request \in [Requests -> {NotMade}
          \cup [made : {TRUE}, again : Requests \cup {NoRequest}, open : BOOLEAN, placed : BOOLEAN]]
    /\ tried \in Requests \cup {NoRequest}
    /\ TokenTypeOK

-----------------------------------------------------------------------------
\* "deduplicates concurrent token acquisition requests" (appToken.test.ts):
\* users-service is asked for one application token at a time, by guests,
\* refreshes and retries together.
OneTokenRequest == \A l \in Loops : loop[l] # Idle => inFlight = l

Open == {r \in Requests : request[r].made /\ request[r].open}

\* A flag that disables buttons is set only while a call is under way that will
\* reset it, through failures, logouts and overlapping sign-ins; and submitLoading
\* holds off every second order while the answer to the first is awaited, also
\* when somebody else has signed in meanwhile.
LoadingHasCause ==
    /\ authLoading => \E s \in SignIns : signIn[s] # NoSignIn
    /\ menuLoading => reloads > 0 \/ \E s \in SignIns : signIn[s].awaits = "menu"
    /\ Cardinality(Open) = IF submitLoading THEN 1 ELSE 0

\* "A client-generated identifier used in PUT order creation to make retries
\* idempotent" (domain-brain/glossary.md): submitting a basket again after an
\* error makes no second order of it.
RetriesAreIdempotent ==
    \A r \in Requests :
       request[r].made /\ request[r].placed /\ request[r].again # NoRequest =>
          ~ request[request[r].again].placed

-----------------------------------------------------------------------------
(* Liveness: an HTTP call is answered or fails, and a delay ends.          *)

FairSpec ==
    /\ Spec
    /\ \A s \in SignIns : WF_vars(SignInGoesOn(s))
    /\ \A l \in Loops : WF_vars(TokenGoesOn(l))

\* The sign-in forms, Back included, do not stay disabled: they are enabled again
\* by the end of a sign-in, with a session or an error, though the token of a guest
\* needs retries, or by a logout before that.
SignInEnds == authLoading ~> ~ authLoading
=============================================================================
