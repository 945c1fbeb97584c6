------------------------- MODULE OrdersClientProofs -------------------------
(***************************************************************************)
(* For any users, dishes, requests and numbers of concurrent sign-ins,     *)
(* loops and retries: the states of orders-client are typed, it asks for   *)
(* one application token at a time, and its flags have causes.             *)
(***************************************************************************)
EXTENDS OrdersClient, AppTokenProofs, FiniteSetTheorems

SignInStates ==
    {NoSignIn} \cup [awaits : {"login", "guest", "menu"}, user : Users]
               \cup [awaits : {"appToken"}, user : Guests, loop : Loops]

Made == [made : {TRUE}, again : Requests \cup {NoRequest}, open : BOOLEAN, placed : BOOLEAN]

RequestStates == {NotMade} \cup Made

SignInTypeOK ==
    /\ session \in Users \cup {Nobody} /\ storage = session
    /\ entryStep \in {"landing", "registered_credentials", "guest_name", "main"}
    /\ authLoading \in BOOLEAN
    /\ signIn \in [SignIns -> SignInStates]

MenuTypeOK == menu \in BOOLEAN /\ menuLoading \in BOOLEAN /\ reloads \in 0..MaxReloads

OrderTypeOK ==
    /\ basket \in [Dishes -> 0..MaxQuantity]
    /\ submitLoading \in BOOLEAN /\ lastOrder \in Requests \cup {NoRequest}
    /\ request \in [Requests -> RequestStates]
    /\ tried \in Requests \cup {NoRequest}

ClientTypeOK == SignInTypeOK /\ MenuTypeOK /\ OrderTypeOK

LEMMA SignInKinds ==
    /\ NoSignIn \in SignInStates /\ NoSignIn.awaits = "nothing"
    /\ \A what, u : /\ Await(what, u).awaits = what /\ Await(what, u).user = u
                    /\ what \in {"login", "guest", "menu"} /\ u \in Users => Await(what, u) \in SignInStates
    /\ \A l \in Loops, u \in Guests :
          AwaitToken(l, u) \in SignInStates /\ AwaitToken(l, u).awaits = "appToken"
BY DEF NoSignIn, SignInStates, Await, AwaitToken

\* Who awaits something has a user.
LEMMA SignInUsers ==
    ASSUME SignInTypeOK, NEW s \in SignIns, signIn[s].awaits # "nothing"
    PROVE  signIn[s].user \in Users
BY SignInKinds DEF SignInTypeOK, SignInStates, Users

LEMMA RequestKinds ==
    /\ NotMade \in RequestStates /\ ~ NotMade.made
    /\ Made \subseteq RequestStates
    /\ \A q \in RequestStates : q.made => q \in Made
    /\ \A q \in Made : q.made
<1>1. ~ NotMade.made
    BY DEF NotMade
<1>2. \A q \in RequestStates : q = NotMade \/ q \in Made
    BY DEF RequestStates
<1>3. \A q \in Made : q.made
    BY DEF Made
<1> QED
    BY <1>1, <1>2, <1>3, Zenon DEF RequestStates

LEMMA Updated ==
    ASSUME NEW q \in Made
    PROVE  [q EXCEPT !.open = FALSE] \in Made /\ [q EXCEPT !.placed = TRUE] \in Made
BY DEF Made

LEMMA Empty ==
    /\ EmptyBasket \in [Dishes -> 0..MaxQuantity]
    /\ 0 \in 0..MaxReloads
BY OrdersClientAssumption DEF EmptyBasket

-----------------------------------------------------------------------------
\* Every step of the client is one of the token manager, or none of it.
LEMMA StepOfManager ==
    ASSUME TokenInv, Next
    PROVE  TokenStep
<1> USE DEF TokenStep, LoopStep
<1>1. CASE ChooseMode \/ GoBack \/ Logout
    BY <1>1 DEF ChooseMode, GoBack, Logout
<1>2. CASE Reload
  <2>1. loop' \in [Loops -> {Idle, Fresh}] /\ inFlight' \in Loops \cup {NoLoop}
      BY <1>2 DEF Reload
  <2> QED
      BY <1>2, <2>1 DEF Reload, Forgets
<1>3. ASSUME NEW s \in SignIns, NEW u \in Registered, OnLogin(s, u) PROVE TokenStep
    BY <1>3 DEF OnLogin
<1>4. ASSUME NEW s \in SignIns, NEW u \in Guests, OnGuestLogin(s, u) PROVE TokenStep
    BY <1>4 DEF OnGuestLogin, Joins
<1>5. ASSUME NEW s \in SignIns, SignInGoesOn(s) PROVE TokenStep
    BY <1>5 DEF SignInGoesOn, CompleteAuthentication, SignInFails, SignInEndsWithMenu
<1>6. CASE ReloadMenu \/ ReloadEnds
    BY <1>6 DEF ReloadMenu, ReloadEnds
<1>7. ASSUME NEW d \in Dishes, NEW q \in 0..MaxQuantity, ChangeBasket(d, q) PROVE TokenStep
    BY <1>7 DEF ChangeBasket
<1>8. ASSUME NEW r \in Requests,
             PlaceOrder(r) \/ OrdersServiceAccepts(r) \/ OrderAnswered(r) \/ OrderFails(r)
      PROVE  TokenStep
    BY <1>8 DEF PlaceOrder, OrdersServiceAccepts, OrderAnswered, OrderFails
<1>9. ASSUME NEW l \in Loops, TokenGoesOn(l) PROVE TokenStep
    BY <1>9 DEF TokenGoesOn, AcquireSucceeds, AcquireFails, TriesAgain
<1>10. CASE RefreshDue
    BY <1>10 DEF RefreshDue
<1>11. CASE TokenRunsOut
  <2>1. Expire(stored) /\ stored \in Tokens
      BY <1>11 DEF TokenRunsOut, TokenInv, TokenTypeOK
  <2> QED
      BY <2>1
<1> QED
    BY <1>1, <1>2, <1>3, <1>4, <1>5, <1>6, <1>7, <1>8, <1>9, <1>10, <1>11 DEF Next

-----------------------------------------------------------------------------
(* Types                                                                   *)

LEMMA InitTyped == Init => ClientTypeOK
<1> SUFFICES ASSUME Init PROVE ClientTypeOK
    OBVIOUS
<1>1. SignInTypeOK
    BY SignInKinds DEF Init, SignInTypeOK
<1>2. OrderTypeOK
    BY RequestKinds, Empty DEF Init, OrderTypeOK
<1>3. MenuTypeOK
    BY Empty DEF Init, MenuTypeOK
<1> QED
    BY <1>1, <1>2, <1>3 DEF ClientTypeOK

\* The sign-in of a step, and the menu call that a sign-in makes.
LEMMA SignInTyped ==
    ASSUME ClientTypeOK, Next
    PROVE  SignInTypeOK'
<1> USE SignInKinds DEF ClientTypeOK, SignInTypeOK
<1>1. CASE ChooseMode \/ GoBack \/ Logout
    BY <1>1 DEF ChooseMode, GoBack, Logout
<1>2. CASE Reload
    BY <1>2 DEF Reload
<1>3. ASSUME NEW s \in SignIns, NEW u \in Registered, OnLogin(s, u) PROVE SignInTypeOK'
    BY <1>3 DEF OnLogin, Users
<1>4. ASSUME NEW s \in SignIns, NEW u \in Guests, OnGuestLogin(s, u) PROVE SignInTypeOK'
    BY <1>4 DEF OnGuestLogin, Users
<1>5. ASSUME NEW s \in SignIns, CompleteAuthentication(s) PROVE SignInTypeOK'
  <2>1. signIn[s].user \in Users
      BY <1>5, SignInUsers DEF CompleteAuthentication
  <2> QED
      BY <1>5, <2>1 DEF CompleteAuthentication
<1>6. ASSUME NEW s \in SignIns, SignInFails(s) \/ SignInEndsWithMenu(s) PROVE SignInTypeOK'
    BY <1>6 DEF SignInFails, SignInEndsWithMenu
<1>7. ASSUME NEW l \in Loops, AcquireSucceeds(l) PROVE SignInTypeOK'
  <2>1. \A s \in Waiting(l) : signIn[s].user \in Users
      BY SignInUsers DEF Waiting
  <2>2. signIn' \in [SignIns -> SignInStates]
      BY <1>7, <2>1 DEF AcquireSucceeds
  <2> QED
      BY <1>7, <2>2 DEF AcquireSucceeds
<1>8. ASSUME NEW l \in Loops, AcquireFails(l) \/ TriesAgain(l) PROVE SignInTypeOK'
    BY <1>8 DEF AcquireFails, TriesAgain, signInVars
<1>9. CASE UNCHANGED signInVars
    BY <1>9 DEF signInVars
<1> QED
    BY <1>1, <1>2, <1>3, <1>4, <1>5, <1>6, <1>7, <1>8, <1>9
    DEF Next, SignInGoesOn, TokenGoesOn, ReloadMenu, ReloadEnds, ChangeBasket, PlaceOrder,
        OrdersServiceAccepts, OrderAnswered, OrderFails, RefreshDue, TokenRunsOut

LEMMA MenuTyped ==
    ASSUME ClientTypeOK, Next
    PROVE  MenuTypeOK'
<1> USE DEF ClientTypeOK, MenuTypeOK
<1>1. CASE Logout \/ Reload
    BY <1>1, Empty DEF Logout, Reload
<1>2. CASE ReloadMenu \/ ReloadEnds
  <2>1. reloads' \in 0..MaxReloads
    <3>1. \/ reloads < MaxReloads /\ reloads' = reloads + 1
          \/ reloads > 0 /\ reloads' = reloads - 1
        BY <1>2 DEF ReloadMenu, ReloadEnds
    <3>2. reloads \in 0..MaxReloads /\ MaxReloads \in Nat
        BY OrdersClientAssumption
    <3> QED
        BY <3>1, <3>2
  <2>2. menu' \in BOOLEAN /\ menuLoading' \in BOOLEAN
      BY <1>2 DEF ReloadMenu, ReloadEnds
  <2> QED
      BY <2>1, <2>2
<1>3. ASSUME NEW s \in SignIns, CompleteAuthentication(s) \/ SignInEndsWithMenu(s) PROVE MenuTypeOK'
    BY <1>3 DEF CompleteAuthentication, SignInEndsWithMenu
<1>4. CASE UNCHANGED menuVars
    BY <1>4 DEF menuVars
<1> QED
    BY <1>1, <1>2, <1>3, <1>4
    DEF Next, ChooseMode, GoBack, OnLogin, OnGuestLogin, SignInGoesOn, SignInFails, ChangeBasket,
        PlaceOrder, OrdersServiceAccepts, OrderAnswered, OrderFails, TokenGoesOn, AcquireSucceeds,
        AcquireFails, TriesAgain, RefreshDue, TokenRunsOut

LEMMA OrderTyped ==
    ASSUME ClientTypeOK, Next
    PROVE  OrderTypeOK'
<1> USE RequestKinds, Empty DEF ClientTypeOK, OrderTypeOK
<1>1. CASE Logout
    BY <1>1 DEF Logout
<1>2. CASE Reload
  <2>1. \A r \in Requests : request[r].made => [request[r] EXCEPT !.open = FALSE] \in Made
      BY Updated
  <2>2. request' \in [Requests -> RequestStates]
      BY <1>2, <2>1 DEF Reload
  <2> QED
      BY <1>2, <2>2 DEF Reload
<1>3. ASSUME NEW d \in Dishes, NEW q \in 0..MaxQuantity, ChangeBasket(d, q) PROVE OrderTypeOK'
    BY <1>3 DEF ChangeBasket
<1>4. ASSUME NEW r \in Requests, PlaceOrder(r) PROVE OrderTypeOK'
  <2>1. [made |-> TRUE, again |-> tried, open |-> TRUE, placed |-> FALSE] \in Made
      BY DEF Made
  <2> QED
      BY <1>4, <2>1 DEF PlaceOrder
<1>5. ASSUME NEW r \in Requests, OrdersServiceAccepts(r) PROVE OrderTypeOK'
  <2>1. [request[r] EXCEPT !.placed = TRUE] \in Made
      BY <1>5, Updated DEF OrdersServiceAccepts
  <2> QED
      BY <1>5, <2>1 DEF OrdersServiceAccepts
<1>6. ASSUME NEW r \in Requests, OrderAnswered(r) PROVE OrderTypeOK'
  <2>1. [request[r] EXCEPT !.open = FALSE] \in Made
      BY <1>6, Updated DEF OrderAnswered
  <2> QED
      BY <1>6, <2>1 DEF OrderAnswered
<1>7. ASSUME NEW r \in Requests, OrderFails(r) PROVE OrderTypeOK'
  <2>1. [request[r] EXCEPT !.open = FALSE] \in Made
      BY <1>7, Updated DEF OrderFails
  <2> QED
      BY <1>7, <2>1 DEF OrderFails
<1>8. CASE UNCHANGED orderVars
    BY <1>8 DEF orderVars
<1> QED
    BY <1>1, <1>2, <1>3, <1>4, <1>5, <1>6, <1>7, <1>8
    DEF Next, ChooseMode, GoBack, OnLogin, OnGuestLogin, SignInGoesOn, CompleteAuthentication,
        SignInFails, SignInEndsWithMenu, ReloadMenu, ReloadEnds, TokenGoesOn, AcquireSucceeds,
        AcquireFails, TriesAgain, RefreshDue, TokenRunsOut

ClientInv == ClientTypeOK /\ TokenInv

LEMMA StepTyped == ClientInv /\ [Next]_vars => ClientInv'
<1> SUFFICES ASSUME ClientInv, [Next]_vars PROVE ClientInv'
    OBVIOUS
<1>1. CASE Next
  <2>1. TokenInv'
      BY <1>1, StepOfManager, TokenStepTyped DEF ClientInv
  <2> QED
      BY <1>1, <2>1, SignInTyped, MenuTyped, OrderTyped DEF ClientInv, ClientTypeOK
<1>2. CASE UNCHANGED vars
    BY <1>2
    DEF vars, signInVars, menuVars, orderVars, tokenVars, ClientInv, ClientTypeOK, SignInTypeOK,
        MenuTypeOK, OrderTypeOK, TokenInv, TokenTypeOK
<1> QED
    BY <1>1, <1>2

\* Every state of the client and of its token manager is typed, and the user of
\* sessionStorage is the one signed in.
THEOREM ClientTypeCorrect == Spec => []TypeOK
<1>1. Init => ClientInv
    BY InitTyped, TokenInitTyped DEF Init, ClientInv
<1>2. ClientInv => TypeOK
    BY DEF ClientInv, ClientTypeOK, SignInTypeOK, MenuTypeOK, OrderTypeOK, SignInStates,
           RequestStates, Made, TokenInv, TypeOK
<1> QED
    BY <1>1, <1>2, StepTyped, PTL DEF Spec

-----------------------------------------------------------------------------
(* One token request at a time                                             *)

LEMMA FreshIsBusy == Fresh # Idle
BY DEF Fresh, Idle

\* In orders-client no request in flight is ever forgotten: there is no clear.
LEMMA StepOneRequest ==
    ASSUME TokenInv, OneTokenRequest, [Next]_vars
    PROVE  OneTokenRequest'
<1> USE AppTokenAssumption DEF OneTokenRequest
<1>1. ASSUME NEW l \in Loops, ForceTokenRefresh(l) PROVE OneTokenRequest'
    BY <1>1 DEF ForceTokenRefresh, TokenInv, TokenTypeOK
<1>2. ASSUME NEW l \in Loops, loop[l].state = "calling", LoopEnds(l) PROVE OneTokenRequest'
  <2>1. loop[l] # Idle
      BY <1>2 DEF Idle
  <2> QED
      BY <1>2, <2>1 DEF LoopEnds, TokenInv, TokenTypeOK
<1>3. ASSUME NEW l \in Loops, TriesAgainLater(l) \/ RetryDelayEnds(l) PROVE OneTokenRequest'
  <2>1. loop[l] # Idle
      BY <1>3 DEF TriesAgainLater, RetryDelayEnds, Idle
  <2> QED
      BY <1>3, <2>1 DEF TriesAgainLater, RetryDelayEnds, TokenInv, TokenTypeOK
<1>4. CASE Reload
    BY <1>4 DEF Reload
<1>5. CASE UNCHANGED <<inFlight, loop>>
    BY <1>5
<1>6. CASE ChooseMode \/ GoBack \/ Logout \/ ReloadMenu \/ ReloadEnds \/ TokenRunsOut
    BY <1>5, <1>6
    DEF ChooseMode, GoBack, Logout, ReloadMenu, ReloadEnds, TokenRunsOut, Expire, tokenVars
<1>7. ASSUME NEW s \in SignIns,
             \/ \E u \in Registered : OnLogin(s, u)
             \/ \E u \in Guests : OnGuestLogin(s, u)
             \/ SignInGoesOn(s)
      PROVE  OneTokenRequest'
    BY <1>1, <1>5, <1>7
    DEF OnLogin, OnGuestLogin, SignInGoesOn, CompleteAuthentication, SignInFails,
        SignInEndsWithMenu, tokenVars
<1>8. ASSUME NEW d \in Dishes, NEW q \in 0..MaxQuantity, ChangeBasket(d, q) PROVE OneTokenRequest'
    BY <1>5, <1>8 DEF ChangeBasket, tokenVars
<1>9. ASSUME NEW r \in Requests,
             PlaceOrder(r) \/ OrdersServiceAccepts(r) \/ OrderAnswered(r) \/ OrderFails(r)
      PROVE  OneTokenRequest'
    BY <1>5, <1>9 DEF PlaceOrder, OrdersServiceAccepts, OrderAnswered, OrderFails, tokenVars
<1>10. ASSUME NEW l \in Loops, TokenGoesOn(l) PROVE OneTokenRequest'
    BY <1>2, <1>3, <1>10
    DEF TokenGoesOn, AcquireSucceeds, AcquireFails, TriesAgain, Acquired, GivesUp
<1>11. CASE RefreshDue
    BY <1>1, <1>11 DEF RefreshDue, RefreshTimerFires
<1>12. CASE UNCHANGED vars
    BY <1>5, <1>12 DEF vars, tokenVars
<1> QED
    BY <1>4, <1>6, <1>7, <1>8, <1>9, <1>10, <1>11, <1>12 DEF Next

\* appToken.ts asks for one token at a time, whoever wants one: there is no
\* second request while the promise of the first is pending.
THEOREM OneRequest == Spec => []OneTokenRequest
<1>1. Init => ClientInv /\ OneTokenRequest
    BY InitTyped, TokenInitTyped DEF Init, TokenInit, ClientInv, OneTokenRequest
<1>2. ClientInv /\ OneTokenRequest /\ [Next]_vars => (ClientInv /\ OneTokenRequest)'
    BY StepTyped, StepOneRequest DEF ClientInv
<1> QED
    BY <1>1, <1>2, PTL DEF Spec

-----------------------------------------------------------------------------
(* Flags                                                                   *)

AuthHasCause == authLoading => \E s \in SignIns : signIn[s] # NoSignIn

MenuHasCause == menuLoading => reloads > 0 \/ \E s \in SignIns : signIn[s].awaits = "menu"

\* The last part of LoadingHasCause without a cardinality.
OneOpen ==
    /\ submitLoading => \E r \in Requests : Open = {r}
    /\ ~ submitLoading => Open = {}

LEMMA StepAuth ==
    ASSUME ClientTypeOK, AuthHasCause, Next
    PROVE  AuthHasCause'
<1> USE SignInKinds DEF AuthHasCause, ClientTypeOK, SignInTypeOK
<1>1. ASSUME NEW s \in SignIns, signIn' \in [SignIns -> SignInStates], signIn'[s].awaits # "nothing"
      PROVE  AuthHasCause'
    BY <1>1
<1>2. ASSUME NEW s \in SignIns, NEW u, OnLogin(s, u) PROVE AuthHasCause'
    BY <1>2 DEF OnLogin
<1>3. ASSUME NEW s \in SignIns, NEW u \in Guests, OnGuestLogin(s, u) PROVE AuthHasCause'
  <2>1. PICK q : q.awaits # "nothing" /\ signIn' = [signIn EXCEPT ![s] = q]
      BY <1>3 DEF OnGuestLogin
  <2> QED
      BY <2>1
<1>4. ASSUME NEW s \in SignIns, CompleteAuthentication(s) PROVE AuthHasCause'
    BY <1>4 DEF CompleteAuthentication
<1>5. ASSUME NEW l \in Loops, AcquireSucceeds(l) PROVE AuthHasCause'
  <2>1. \A s \in SignIns : signIn[s] # NoSignIn => signIn'[s] # NoSignIn
      BY <1>5 DEF AcquireSucceeds
  <2> QED
      BY <1>5, <2>1 DEF AcquireSucceeds
<1>6. ASSUME NEW l \in Loops, AcquireFails(l) \/ TriesAgain(l) PROVE AuthHasCause'
    BY <1>6 DEF AcquireFails, TriesAgain, signInVars
<1>7. CASE authLoading' = FALSE
    BY <1>7
<1>8. CASE UNCHANGED <<authLoading, signIn>>
    BY <1>8
<1> QED
    BY <1>2, <1>3, <1>4, <1>5, <1>6, <1>7, <1>8
    DEF Next, ChooseMode, GoBack, Logout, Reload, SignInGoesOn, SignInFails, SignInEndsWithMenu,
        TokenGoesOn, ReloadMenu, ReloadEnds, ChangeBasket, PlaceOrder, OrdersServiceAccepts,
        OrderAnswered, OrderFails, RefreshDue, TokenRunsOut, signInVars

LEMMA StepMenu ==
    ASSUME ClientTypeOK, MenuHasCause, Next
    PROVE  MenuHasCause'
<1> USE SignInKinds DEF MenuHasCause, ClientTypeOK, SignInTypeOK
<1>1. ASSUME UNCHANGED <<menuLoading, reloads>>,
             \A s \in SignIns : signIn[s].awaits = "menu" => signIn'[s].awaits = "menu"
      PROVE  MenuHasCause'
    BY <1>1
<1>2. CASE ChooseMode \/ GoBack \/ Logout
    BY <1>1, <1>2 DEF ChooseMode, GoBack, Logout, menuVars
<1>3. ASSUME NEW s \in SignIns, NEW u, OnLogin(s, u) PROVE MenuHasCause'
    BY <1>1, <1>3 DEF OnLogin, menuVars
<1>4. ASSUME NEW s \in SignIns, NEW u \in Guests, OnGuestLogin(s, u) PROVE MenuHasCause'
  <2>1. PICK q : signIn[s] = NoSignIn /\ signIn' = [signIn EXCEPT ![s] = q]
      BY <1>4 DEF OnGuestLogin
  <2> QED
      BY <1>1, <1>4, <2>1 DEF OnGuestLogin, menuVars
<1>5. ASSUME NEW s \in SignIns, CompleteAuthentication(s) PROVE MenuHasCause'
    BY <1>5 DEF CompleteAuthentication
<1>6. ASSUME NEW s \in SignIns, SignInFails(s) PROVE MenuHasCause'
    BY <1>1, <1>6 DEF SignInFails, menuVars
<1>7. ASSUME NEW l \in Loops, TokenGoesOn(l) PROVE MenuHasCause'
    BY <1>1, <1>7
    DEF TokenGoesOn, AcquireSucceeds, AcquireFails, TriesAgain, Waiting, signInVars, menuVars
<1>8. CASE ReloadMenu
  <2>1. reloads' > 0
      BY <1>8 DEF ReloadMenu, MenuTypeOK
  <2> QED
      BY <2>1
<1>9. CASE menuLoading' = FALSE
    BY <1>9
<1>10. CASE UNCHANGED <<menuLoading, reloads, signIn>>
    BY <1>10
<1> QED
    BY <1>2, <1>3, <1>4, <1>5, <1>6, <1>7, <1>8, <1>9, <1>10
    DEF Next, Reload, SignInGoesOn, SignInEndsWithMenu, ReloadEnds, ChangeBasket, PlaceOrder,
        OrdersServiceAccepts, OrderAnswered, OrderFails, RefreshDue, TokenRunsOut, signInVars,
        menuVars

LEMMA StepOpen ==
    ASSUME ClientTypeOK, OneOpen, Next
    PROVE  OneOpen'
<1> USE RequestKinds DEF OneOpen, ClientTypeOK, OrderTypeOK
<1>1. CASE Reload
  <2>1. Open' = {}
      BY <1>1 DEF Reload, Open, Made
  <2> QED
      BY <1>1, <2>1 DEF Reload
<1>2. ASSUME NEW r \in Requests, PlaceOrder(r) PROVE OneOpen'
  <2>1. Open = {}
      BY <1>2 DEF PlaceOrder
  <2>2. Open' = {r}
      BY <1>2, <2>1 DEF PlaceOrder, Open
  <2> QED
      BY <1>2, <2>2 DEF PlaceOrder
<1>3. ASSUME NEW r \in Requests, OrdersServiceAccepts(r) PROVE OneOpen'
  <2>1. Open' = Open
      BY <1>3 DEF OrdersServiceAccepts, Open, Made
  <2> QED
      BY <1>3, <2>1 DEF OrdersServiceAccepts
<1>4. ASSUME NEW r \in Requests, OrderAnswered(r) \/ OrderFails(r) PROVE OneOpen'
  <2>1. r \in Open
      BY <1>4 DEF OrderAnswered, OrderFails, Open
  <2>2. Open = {r}
      BY <2>1
  <2>3. Open' = {}
    <3>1. request[r] \in Made /\ request' = [request EXCEPT ![r] = [@ EXCEPT !.open = FALSE]]
        BY <1>4 DEF OrderAnswered, OrderFails
    <3>2. ~ request'[r].open
        BY <3>1 DEF Made
    <3>3. \A q \in Requests \ {r} : request'[q] = request[q] /\ q \notin Open
        BY <2>2, <3>1
    <3> QED
        BY <3>2, <3>3 DEF Open
  <2> QED
      BY <1>4, <2>3 DEF OrderAnswered, OrderFails
<1>5. CASE UNCHANGED <<submitLoading, request>>
    BY <1>5 DEF Open
<1> QED
    BY <1>1, <1>2, <1>3, <1>4, <1>5
    DEF Next, ChooseMode, GoBack, Logout, OnLogin, OnGuestLogin, SignInGoesOn,
        CompleteAuthentication, SignInFails, SignInEndsWithMenu, TokenGoesOn, AcquireSucceeds,
        AcquireFails, TriesAgain, ReloadMenu, ReloadEnds, ChangeBasket, RefreshDue, TokenRunsOut,
        orderVars

FlagsInv == AuthHasCause /\ MenuHasCause /\ OneOpen

LEMMA FlagsHaveCause == FlagsInv => LoadingHasCause
<1> SUFFICES ASSUME FlagsInv PROVE LoadingHasCause
    OBVIOUS
<1>1. CASE submitLoading
  <2>1. PICK r \in Requests : Open = {r}
      BY <1>1 DEF FlagsInv, OneOpen
  <2>2. Cardinality(Open) = 1
      BY <2>1, FS_Singleton
  <2> QED
      BY <1>1, <2>2 DEF FlagsInv, AuthHasCause, MenuHasCause, LoadingHasCause
<1>2. CASE ~ submitLoading
  <2>1. Cardinality(Open) = 0
      BY <1>2, FS_EmptySet DEF FlagsInv, OneOpen
  <2> QED
      BY <1>2, <2>1 DEF FlagsInv, AuthHasCause, MenuHasCause, LoadingHasCause
<1> QED
    BY <1>1, <1>2

\* No flag that disables buttons outlives the calls that reset it, and while an
\* order waits for its answer no other is sent (placeOrder, App.tsx:179-194).
THEOREM LoadingCaused == Spec => []LoadingHasCause
<1>1. Init => ClientInv /\ FlagsInv
  <2> SUFFICES ASSUME Init PROVE ClientInv /\ FlagsInv
      OBVIOUS
  <2>1. Open = {}
      BY RequestKinds DEF Init, Open
  <2> QED
      BY <2>1, InitTyped, TokenInitTyped
      DEF Init, ClientInv, FlagsInv, AuthHasCause, MenuHasCause, OneOpen
<1>2. ClientInv /\ FlagsInv /\ [Next]_vars => (ClientInv /\ FlagsInv)'
  <2> SUFFICES ASSUME ClientInv, FlagsInv, [Next]_vars PROVE (ClientInv /\ FlagsInv)'
      OBVIOUS
  <2>1. CASE Next
      BY <2>1, StepTyped, StepAuth, StepMenu, StepOpen DEF ClientInv, FlagsInv
  <2>2. CASE UNCHANGED vars
    <3>1. FlagsInv'
        BY <2>2
        DEF vars, signInVars, menuVars, orderVars, FlagsInv, AuthHasCause, MenuHasCause, OneOpen, Open
    <3> QED
        BY <3>1, StepTyped
  <2> QED
      BY <2>1, <2>2
<1> QED
    BY <1>1, <1>2, FlagsHaveCause, PTL DEF Spec
=============================================================================
