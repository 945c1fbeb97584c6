-------------------------- MODULE StaffBoardProofs --------------------------
(***************************************************************************)
(* For any items, orders, number of concurrent calls and history of        *)
(* production-service: the board of staff-client is typed, a command is    *)
(* refused only when the details were stale, what is loaded after a command *)
(* was read after its effect and is of its order if the panel showed the   *)
(* selected one, and flags have causes.                                    *)
(***************************************************************************)
EXTENDS StaffBoard, TLAPS

HistoryTypeOK == history \in Seq([Items -> Statuses]) /\ Now \in 1..MaxVersion

ScreenTypeOK ==
    /\ signedIn \in BOOLEAN
    /\ shown \in 0..Now /\ boardLoading \in BOOLEAN
    /\ selected \in Orders \cup {None}
    /\ detail \in {NoDetail} \cup [order : Orders, version : Versions]
    /\ detailLoading \in BOOLEAN /\ detailError \in BOOLEAN
    /\ commandLoading \in Items \cup {None}

BoardTypeOK == HistoryTypeOK /\ ScreenTypeOK /\ call \in [Calls -> CallStates(Now)]

LEMMA Kinds ==
    ASSUME NEW n \in Nat
    PROVE  /\ NoCall \in CallStates(n) /\ NoCall.kind = "none"
           /\ BoardCalls(n) \cup DetailCalls(n) \cup CommandCalls(n) \subseteq CallStates(n)
           /\ \A q \in CallStates(n) :
                /\ q.kind = "none" => q = NoCall
                /\ q.kind = "board" => q \in BoardCalls(n)
                /\ q.kind = "detail" => q \in DetailCalls(n)
                /\ q.kind = "command" => q \in CommandCalls(n)
BY DEF CallStates, NoCall, BoardCalls, DetailCalls, CommandCalls, Causes

LEMMA NewCalls ==
    ASSUME NEW n \in Nat, NEW w \in Causes(n)
    PROVE  /\ BoardCall(w) \in CallStates(n)
           /\ \A o \in Orders : DetailCall(o, w) \in CallStates(n)
<1>1. BoardCall(w) \in BoardCalls(n)
    BY DEF BoardCall, BoardCalls, Outcomes
<1>2. \A o \in Orders : DetailCall(o, w) \in DetailCalls(n)
    BY DEF DetailCall, DetailCalls, Outcomes
<1> QED
    BY <1>1, <1>2 DEF CallStates

\* What was a call before more was appended to history still is one.
LEMMA CallsGrow ==
    ASSUME NEW n \in Nat, NEW m \in Nat, n <= m
    PROVE  CallStates(n) \subseteq CallStates(m)
<1>1. 0..n \subseteq 0..m /\ 1..n \subseteq 1..m
    OBVIOUS
<1>4. CommandCalls(n) \subseteq CommandCalls(m)
    BY <1>1 DEF CommandCalls
<1>5. Causes(n) \subseteq Causes(m)
    BY <1>4 DEF Causes
<1>2. BoardCalls(n) \subseteq BoardCalls(m)
    BY <1>1, <1>5 DEF BoardCalls
<1>3. DetailCalls(n) \subseteq DetailCalls(m)
    BY <1>1, <1>5 DEF DetailCalls
<1> QED
    BY <1>2, <1>3, <1>4 DEF CallStates

-----------------------------------------------------------------------------
(* History                                                                 *)

HistoryGrows ==
    /\ HistoryTypeOK'
    /\ Now <= Now'
    /\ \A v \in Versions : history'[v] = history[v]

LEMMA ExecuteAppends ==
    ASSUME HistoryTypeOK, NEW i \in Items, NEW c \in Commands, Execute(i, c)
    PROVE  HistoryGrows /\ Now' = Now + 1
<1>1. PICK to \in Statuses : history' = Append(history, [history[Now] EXCEPT ![i] = to])
    BY DEF Execute
<1>2. [history[Now] EXCEPT ![i] = to] \in [Items -> Statuses]
    BY DEF HistoryTypeOK, Now
<1> QED
    BY <1>1, <1>2, BoardAssumption DEF Execute, HistoryTypeOK, HistoryGrows, Versions, Now

LEMMA NothingAppended ==
    ASSUME HistoryTypeOK, UNCHANGED history
    PROVE  HistoryGrows
BY DEF HistoryTypeOK, HistoryGrows, Versions, Now

LEMMA StepHistory ==
    ASSUME BoardTypeOK, Next
    PROVE  HistoryGrows
<1> USE DEF BoardTypeOK
<1>1. ASSUME NEW s \in Calls, Serve(s) PROVE HistoryGrows
  <2>1. CASE UNCHANGED history
      BY <2>1, NothingAppended
  <2>2. CASE call[s].kind = "command" /\ Execute(call[s].item, call[s].command)
    <3>1. call[s] \in CommandCalls(Now)
        BY <2>2, Kinds DEF HistoryTypeOK
    <3>2. call[s].item \in Items /\ call[s].command \in Commands
        BY <3>1 DEF CommandCalls
    <3> QED
        BY <2>2, <3>2, ExecuteAppends
  <2> QED
      BY <1>1, <2>1, <2>2 DEF Serve
<1>2. ASSUME NEW i \in Items, NEW c \in Commands, OthersCommand(i, c) PROVE HistoryGrows
    BY <1>2, ExecuteAppends DEF OthersCommand
<1>3. CASE UNCHANGED history
    BY <1>3, NothingAppended
<1> QED
    BY <1>1, <1>2, <1>3
    DEF Next, SignIn, Poll, Logout, SelectOrder, SendItemCommand, Ends, BoardAnswers, BoardFails,
        DetailAnswers, DetailFails, CommandAnswers, CommandFails

-----------------------------------------------------------------------------
(* Types                                                                   *)

LEMMA InitTyped == Init => BoardTypeOK
<1> SUFFICES ASSUME Init PROVE BoardTypeOK
    OBVIOUS
<1>1. PICK first \in FirstVersions : history = <<first>>
    BY DEF Init
<1>2. HistoryTypeOK
    BY <1>1, BoardAssumption DEF HistoryTypeOK, Now
<1>3. NoCall \in CallStates(Now) /\ 0 \in 0..Now
    BY <1>2, Kinds DEF HistoryTypeOK
<1>4. ScreenTypeOK
    BY <1>3 DEF Init, ScreenTypeOK
<1>5. call \in [Calls -> CallStates(Now)]
    BY <1>3 DEF Init
<1> QED
    BY <1>2, <1>4, <1>5 DEF BoardTypeOK

\* A step that changes call s at most, to a call that is typed already.
LEMMA OneCall ==
    ASSUME BoardTypeOK, HistoryGrows, NEW s \in Calls, NEW q \in CallStates(Now'),
           call' = [call EXCEPT ![s] = q]
    PROVE  call' \in [Calls -> CallStates(Now')]
<1>1. CallStates(Now) \subseteq CallStates(Now')
    BY CallsGrow DEF HistoryGrows, BoardTypeOK, HistoryTypeOK
<1> QED
    BY <1>1 DEF BoardTypeOK

\* The answer of production-service to call s is q.
IsAnswer(s, q) ==
    /\ q \in CallStates(Now')
    /\ \E outcome \in {"ok", "refused"} : q = [call[s] EXCEPT !.outcome = outcome, !.served = Now']

LEMMA ServedAnswers ==
    ASSUME BoardTypeOK, HistoryGrows, NEW s \in Calls, Serve(s)
    PROVE  \E q : IsAnswer(s, q) /\ call' = [call EXCEPT ![s] = q]
<1> USE DEF BoardTypeOK, HistoryTypeOK
<1>1. Now \in Nat /\ Now' \in Nat
    BY DEF HistoryGrows
<1>2. PICK outcome \in {"ok", "refused"} :
          call' = [call EXCEPT ![s].outcome = outcome, ![s].served = Now']
  <2>1. CASE UNCHANGED history
    <3>1. Now' = Now
        BY <2>1 DEF Now
    <3>2. ~ Execute(call[s].item, call[s].command)
      <4>1. SUFFICES ASSUME Execute(call[s].item, call[s].command) PROVE FALSE
          OBVIOUS
      <4>2. PICK new : history' = Append(history, new)
          BY <4>1 DEF Execute
      <4> QED
          BY <2>1, <4>2
    <3> QED
        BY <2>1, <3>1, <3>2 DEF Serve
  <2>2. CASE call[s].kind = "command" /\ Execute(call[s].item, call[s].command)
             /\ call' = [call EXCEPT ![s].outcome = "ok", ![s].served = Now + 1]
    <3>1. call[s] \in CommandCalls(Now)
        BY <1>1, <2>2, Kinds
    <3>2. call[s].item \in Items /\ call[s].command \in Commands
        BY <3>1 DEF CommandCalls
    <3>3. Now' = Now + 1
        BY <2>2, <3>2, ExecuteAppends
    <3> QED
        BY <2>2, <3>3
  <2> QED
      BY <2>1, <2>2 DEF Serve
<1>3. call' = [call EXCEPT ![s] = [call[s] EXCEPT !.outcome = outcome, !.served = Now']]
    BY <1>2
<1>4. CallStates(Now) \subseteq CallStates(Now')
    BY <1>1, CallsGrow DEF HistoryGrows
<1>5. call[s] \in BoardCalls(Now') \cup DetailCalls(Now') \cup CommandCalls(Now')
    BY <1>4 DEF Serve, Pending, CallStates
<1>6. Now' \in 0..Now'
    BY <1>1
<1>7. [call[s] EXCEPT !.outcome = outcome, !.served = Now'] \in CallStates(Now')
    BY <1>2, <1>5, <1>6 DEF CallStates, BoardCalls, DetailCalls, CommandCalls, Outcomes
<1> QED
    BY <1>2, <1>3, <1>7 DEF IsAnswer

LEMMA StepCalls ==
    ASSUME BoardTypeOK, HistoryGrows, Next
    PROVE  call' \in [Calls -> CallStates(Now')]
<1> DEFINE N == Now
           M == Now'
<1> USE DEF BoardTypeOK, HistoryTypeOK
<1>1. N \in Nat /\ M \in Nat /\ N <= M /\ N >= 1
    BY DEF HistoryGrows
<1>2. CallStates(N) \subseteq CallStates(M)
    BY <1>1, CallsGrow
<1>0. /\ NoCall \in CallStates(M) /\ BoardCall(NoCall) \in CallStates(M)
      /\ \A o \in Orders : DetailCall(o, NoCall) \in CallStates(M)
  <2>1. NoCall \in Causes(M)
      BY DEF Causes
  <2> QED
      BY <1>1, <2>1, NewCalls DEF CallStates
<1>3. ASSUME NEW s \in Calls, LoadBoard(s) PROVE call' \in [Calls -> CallStates(M)]
    BY <1>0, <1>3, OneCall DEF LoadBoard
<1>4. ASSUME NEW o \in Orders, SelectOrder(o) PROVE call' \in [Calls -> CallStates(M)]
    BY <1>0, <1>4, OneCall DEF SelectOrder
<1>5. ASSUME NEW i \in Items, NEW c \in Commands, SendItemCommand(i, c)
      PROVE  call' \in [Calls -> CallStates(M)]
  <2>1. selected \in Orders /\ detail.version \in 1..N
      BY <1>5 DEF SendItemCommand, PanelShowsItems, ScreenTypeOK, Versions
  <2>2. CommandCall(i, c) \in CommandCalls(N)
      BY <1>1, <2>1 DEF CommandCall, CommandCalls, Outcomes
  <2> QED
      BY <1>1, <1>2, <1>5, <2>2, Kinds, OneCall DEF SendItemCommand
<1>6. ASSUME NEW s \in Calls, Serve(s) PROVE call' \in [Calls -> CallStates(M)]
  <2>1. PICK q : IsAnswer(s, q) /\ call' = [call EXCEPT ![s] = q]
      BY <1>6, ServedAnswers
  <2>2. q \in CallStates(M)
      BY <2>1 DEF IsAnswer
  <2> QED
      BY <2>1, <2>2, OneCall
<1>7. ASSUME NEW s \in Calls, BoardEnds(s) \/ CommandFails(s) PROVE call' \in [Calls -> CallStates(M)]
    BY <1>1, <1>7, Kinds, OneCall DEF BoardEnds, CommandFails
<1>8. ASSUME NEW s \in Calls, call[s].kind = "detail", DetailEnds(s)
      PROVE  call' \in [Calls -> CallStates(M)]
  <2>1. call[s].after \in Causes(M)
      BY <1>1, <1>2, <1>8, Kinds DEF DetailCalls
  <2> QED
      BY <1>1, <1>8, <2>1, NewCalls, Kinds, OneCall DEF DetailEnds
<1>9. ASSUME NEW s \in Calls, CommandAnswers(s) PROVE call' \in [Calls -> CallStates(M)]
  <2>1. call[s].kind = "command" /\ call[s] \in CallStates(M)
      BY <1>2, <1>9 DEF CommandAnswers, Is
  <2>2. call[s] \in CommandCalls(M)
      BY <1>1, <2>1, Kinds
  <2>3. call[s].order \in Orders /\ call[s] \in Causes(M)
      BY <2>2 DEF CommandCalls, Causes
  <2> QED
      BY <1>1, <1>9, <2>3, NewCalls, OneCall DEF CommandAnswers, AfterCommand
<1>10. CASE UNCHANGED call
    BY <1>2, <1>10
<1> QED
    BY <1>3, <1>4, <1>5, <1>6, <1>7, <1>8, <1>9, <1>10
    DEF Next, SignIn, Poll, Logout, OthersCommand, Ends, BoardAnswers, BoardFails,
        DetailAnswers, DetailFails, Is

\* How a step changes the calls: at most one of them, to one of these.
CallChange(s, q) ==
    \/ q = NoCall
    \/ q = BoardCall(NoCall)
    \/ \E o \in Orders : q = DetailCall(o, NoCall)
    \/ \E i \in Items, c \in Commands : q = CommandCall(i, c) /\ SendItemCommand(i, c)
    \/ IsAnswer(s, q) /\ Serve(s)
    \* onItemCommand goes on
    \/ Is(s, "command", "ok") /\ q = DetailCall(call[s].order, call[s])
    \/ call[s].kind = "detail" /\ call[s].after # NoCall /\ q = BoardCall(call[s].after)

CallChanges ==
    \/ UNCHANGED call
    \/ \E s \in Calls : \E q : call' = [call EXCEPT ![s] = q] /\ CallChange(s, q)

LEMMA StepChanges ==
    ASSUME BoardTypeOK, HistoryGrows, Next
    PROVE  CallChanges
<1> USE DEF BoardTypeOK, CallChanges, CallChange
<1>2. ASSUME NEW s \in Calls, LoadBoard(s) \/ BoardEnds(s) \/ CommandFails(s) PROVE CallChanges
    BY <1>2 DEF LoadBoard, BoardEnds, CommandFails
<1>3. ASSUME NEW o \in Orders, SelectOrder(o) PROVE CallChanges
    BY <1>3 DEF SelectOrder
<1>4. ASSUME NEW i \in Items, NEW c \in Commands, SendItemCommand(i, c) PROVE CallChanges
  <2>1. PICK s \in Calls : call' = [call EXCEPT ![s] = CommandCall(i, c)]
      BY <1>4 DEF SendItemCommand
  <2> QED
      BY <1>4, <2>1
<1>5. ASSUME NEW s \in Calls, Serve(s) PROVE CallChanges
    BY <1>5, ServedAnswers
<1>6. ASSUME NEW s \in Calls, call[s].kind = "detail", DetailEnds(s) PROVE CallChanges
    BY <1>6 DEF DetailEnds
<1>7. ASSUME NEW s \in Calls, CommandAnswers(s) PROVE CallChanges
    BY <1>7 DEF CommandAnswers, AfterCommand
<1>8. CASE UNCHANGED call
    BY <1>8
<1> QED
    BY <1>2, <1>3, <1>4, <1>5, <1>6, <1>7, <1>8
    DEF Next, SignIn, Poll, Logout, OthersCommand, Ends, BoardAnswers, BoardFails,
        DetailAnswers, DetailFails, Is

\* What was answered has been read at some moment.
Answered ==
    \A s \in Calls : call[s].kind # "none" /\ call[s].outcome # "pending" => call[s].served >= 1

LEMMA AnswerFields ==
    ASSUME BoardTypeOK, HistoryGrows, NEW s \in Calls, NEW q, IsAnswer(s, q), Serve(s)
    PROVE  /\ q.kind = call[s].kind /\ q.served = Now' /\ q.outcome \in {"ok", "refused"}
           /\ IsLoad(q) => q.after = call[s].after
           /\ q.kind = "detail" => q.order = call[s].order
           /\ q.kind = "command" => /\ q.item = call[s].item /\ q.command = call[s].command
                                    /\ q.seen = call[s].seen
<1>1. call[s] \in BoardCalls(Now) \cup DetailCalls(Now) \cup CommandCalls(Now)
    BY DEF Serve, Pending, CallStates, BoardTypeOK
<1> QED
    BY <1>1 DEF IsAnswer, IsLoad, BoardCalls, DetailCalls, CommandCalls

LEMMA StepAnswered ==
    ASSUME BoardTypeOK, HistoryGrows, Answered, CallChanges
    PROVE  Answered'
<1> USE DEF Answered, BoardTypeOK
<1>1. CASE UNCHANGED call
    BY <1>1
<1>2. ASSUME NEW s \in Calls, NEW q, call' = [call EXCEPT ![s] = q],
             q.kind = "none" \/ q.outcome = "pending" \/ q.served >= 1
      PROVE  Answered'
    BY <1>2
<1>3. ASSUME NEW s \in Calls, NEW q, IsAnswer(s, q), Serve(s) PROVE q.served >= 1
    BY <1>3, AnswerFields DEF HistoryGrows, HistoryTypeOK
<1> QED
    BY <1>1, <1>2, <1>3 DEF CallChanges, CallChange, NoCall, BoardCall, DetailCall, CommandCall

LEMMA StepScreen ==
    ASSUME BoardTypeOK, Answered, HistoryGrows, Next
    PROVE  ScreenTypeOK'
<1> USE DEF BoardTypeOK, HistoryTypeOK, ScreenTypeOK
<1>1. /\ 0..Now \subseteq 0..Now' /\ Versions \subseteq Versions'
      /\ 0 \in 0..Now' /\ Now \in Nat
    BY DEF HistoryGrows, Versions
<1>2. ASSUME NEW s \in Calls, call[s].kind \in {"board", "detail"}, call[s].outcome = "ok"
      PROVE  call[s].served \in 0..Now
    BY <1>1, <1>2, Kinds DEF BoardCalls, DetailCalls
<1>3. CASE SignIn \/ Poll
    BY <1>1, <1>3 DEF SignIn, Poll, LoadBoard, panel
<1>4. ASSUME NEW o \in Orders, SelectOrder(o) PROVE ScreenTypeOK'
    BY <1>1, <1>4 DEF SelectOrder
<1>5. ASSUME NEW i \in Items, NEW c \in Commands, SendItemCommand(i, c) PROVE ScreenTypeOK'
    BY <1>1, <1>5 DEF SendItemCommand, panel
<1>6. CASE Logout
    BY <1>1, <1>6 DEF Logout
<1>7. ASSUME NEW s \in Calls, BoardAnswers(s) PROVE ScreenTypeOK'
  <2>1. call[s].served \in 0..Now
      BY <1>2, <1>7 DEF BoardAnswers, Is
  <2> QED
      BY <1>1, <1>7, <2>1 DEF BoardAnswers, BoardEnds, panel
<1>8. ASSUME NEW s \in Calls, BoardFails(s) PROVE ScreenTypeOK'
    BY <1>1, <1>8 DEF BoardFails, BoardEnds, panel
<1>9. ASSUME NEW s \in Calls, DetailAnswers(s) PROVE ScreenTypeOK'
  <2>1. call[s].order \in Orders /\ call[s].served \in 0..Now /\ call[s].served >= 1
      BY <1>1, <1>9, Kinds DEF DetailAnswers, Is, DetailCalls, Answered
  <2>2. detail' \in [order : Orders, version : Versions']
    <3>1. call[s].served \in Versions'
        BY <1>1, <2>1 DEF Versions
    <3> QED
        BY <1>9, <2>1, <3>1 DEF DetailAnswers
  <2>3. boardLoading' \in BOOLEAN /\ detailLoading' \in BOOLEAN
      BY <1>9 DEF DetailAnswers, DetailEnds
  <2> QED
      BY <1>1, <1>9, <2>2, <2>3 DEF DetailAnswers
<1>10. ASSUME NEW s \in Calls, DetailFails(s) PROVE ScreenTypeOK'
  <2>1. boardLoading' \in BOOLEAN /\ detailLoading' \in BOOLEAN
      BY <1>10 DEF DetailFails, DetailEnds
  <2> QED
      BY <1>1, <1>10, <2>1 DEF DetailFails
<1>11. ASSUME NEW s \in Calls, CommandAnswers(s) PROVE ScreenTypeOK'
  <2>1. call[s].order \in Orders
      BY <1>1, <1>11, Kinds DEF CommandAnswers, Is, CommandCalls
  <2> QED
      BY <1>1, <1>11, <2>1 DEF CommandAnswers
<1>12. ASSUME NEW s \in Calls, CommandFails(s) PROVE ScreenTypeOK'
    BY <1>1, <1>12 DEF CommandFails, panel
<1>13. CASE UNCHANGED <<signedIn, shown, boardLoading, panel, commandLoading>>
    BY <1>1, <1>13 DEF panel
<1> QED
    BY <1>3, <1>4, <1>5, <1>6, <1>7, <1>8, <1>9, <1>10, <1>11, <1>12, <1>13
    DEF Next, OthersCommand, Serve, Ends

BoardInv == BoardTypeOK /\ Answered

LEMMA StepInv ==
    ASSUME BoardInv, Next
    PROVE  BoardInv' /\ HistoryGrows /\ CallChanges
<1>1. HistoryGrows
    BY StepHistory DEF BoardInv
<1>2. CallChanges
    BY <1>1, StepChanges DEF BoardInv
<1>3. BoardTypeOK'
    BY <1>1, StepScreen, StepCalls DEF BoardInv, BoardTypeOK, HistoryGrows
<1> QED
    BY <1>1, <1>2, <1>3, StepAnswered DEF BoardInv

LEMMA InitInv == Init => BoardInv
<1> SUFFICES ASSUME Init PROVE BoardInv
    OBVIOUS
<1>1. Answered
    BY DEF Init, Answered, NoCall
<1> QED
    BY <1>1, InitTyped DEF BoardInv

LEMMA Stutters ==
    ASSUME BoardInv, UNCHANGED vars
    PROVE  BoardInv'
BY DEF BoardInv, BoardTypeOK, HistoryTypeOK, ScreenTypeOK, Answered, Now, Versions, vars, panel

LEMMA BoardInvTyped == BoardInv => TypeOK
BY DEF BoardInv, BoardTypeOK, HistoryTypeOK, ScreenTypeOK, TypeOK

\* The screen shows versions that production-service has held, and each call is
\* one of the three of production/api.ts.
THEOREM BoardTypeCorrect == Spec => []TypeOK
<1>1. BoardInv /\ [Next]_vars => BoardInv'
    BY StepInv, Stutters
<1> QED
    BY <1>1, InitInv, BoardInvTyped, PTL DEF Spec

-----------------------------------------------------------------------------
(* Refusals                                                                *)

LEMMA OfferedIsLegal ==
    ASSUME NEW status \in Statuses, NEW c \in getAllowedActions(status)
    PROVE  \E to \in Statuses : <<status, c, to>> \in validTransitions
BY DEF getAllowedActions, Statuses, validTransitions

LegalAt(v, i, c) == \E to \in Statuses : <<history[v][i], c, to>> \in validTransitions

\* A command was offered by the details it was chosen from, and refused by the
\* state it met.
Offers ==
    \A s \in Calls : call[s].kind = "command" =>
       /\ LegalAt(call[s].seen, call[s].item, call[s].command)
       /\ call[s].outcome = "refused" => ~ LegalAt(call[s].served, call[s].item, call[s].command)

LEMMA SentIsOffered ==
    ASSUME BoardTypeOK, NEW i \in Items, NEW c \in Commands, SendItemCommand(i, c)
    PROVE  /\ CommandCall(i, c).seen \in Versions
           /\ LegalAt(CommandCall(i, c).seen, i, c)
<1>1. detail.version \in Versions
    BY DEF SendItemCommand, PanelShowsItems, BoardTypeOK, ScreenTypeOK
<1>2. ShownStatus(i) \in Statuses
    BY <1>1 DEF ShownStatus, BoardTypeOK, HistoryTypeOK, Versions, Now
<1>3. \E to \in Statuses : <<ShownStatus(i), c, to>> \in validTransitions
    BY <1>2, OfferedIsLegal DEF SendItemCommand
<1> QED
    BY <1>1, <1>3 DEF ShownStatus, LegalAt, CommandCall

LEMMA RefusedIsIllegal ==
    ASSUME BoardTypeOK, HistoryGrows, NEW s \in Calls, NEW q, IsAnswer(s, q), Serve(s),
           call' = [call EXCEPT ![s] = q], q.kind = "command", q.outcome = "refused"
    PROVE  ~ LegalAt(q.served, q.item, q.command)'
<1>1. q.kind = call[s].kind /\ q.item = call[s].item /\ q.command = call[s].command /\ q.served = Now'
    BY AnswerFields
<1>2. call'[s] = q
    BY DEF BoardTypeOK
<1>3. CASE ~ IsLegal(call[s].item, call[s].command) /\ UNCHANGED history
    BY <1>1, <1>3 DEF IsLegal, LegalAt, Now
<1>4. CASE call' = [call EXCEPT ![s].outcome = "ok", ![s].served = Now + 1]
    BY <1>2, <1>4, AnswerFields DEF BoardTypeOK, CallStates, Serve, Pending, CommandCalls, BoardCalls, DetailCalls
<1> QED
    BY <1>1, <1>3, <1>4 DEF Serve

LEMMA StepOffers ==
    ASSUME BoardTypeOK, HistoryGrows, Answered, Offers, CallChanges
    PROVE  Offers'
<1> USE DEF BoardTypeOK
<1>1. ASSUME NEW v \in Versions, NEW i \in Items, NEW c \in Commands
      PROVE  LegalAt(v, i, c)' <=> LegalAt(v, i, c)
    BY <1>1 DEF HistoryGrows, LegalAt
\* A call that this step leaves alone.
<1>2. ASSUME NEW s \in Calls, call'[s] = call[s], call[s].kind = "command"
      PROVE  /\ LegalAt(call[s].seen, call[s].item, call[s].command)'
             /\ call[s].outcome = "refused" => ~ LegalAt(call[s].served, call[s].item, call[s].command)'
  <2>1. call[s] \in CommandCalls(Now)
      BY <1>2, Kinds DEF HistoryTypeOK
  <2>2. /\ call[s].seen \in Versions /\ call[s].item \in Items /\ call[s].command \in Commands
        /\ call[s].outcome = "refused" => call[s].served \in Versions
      BY <1>2, <2>1 DEF CommandCalls, Answered, Versions, HistoryTypeOK
  <2> QED
      BY <1>1, <1>2, <2>2 DEF Offers
\* The call that it changes.
<1>3. ASSUME NEW s \in Calls, NEW q, call' = [call EXCEPT ![s] = q],
             q.kind = "command" => /\ LegalAt(q.seen, q.item, q.command)'
                                   /\ q.outcome = "refused" => ~ LegalAt(q.served, q.item, q.command)'
      PROVE  Offers'
    BY <1>2, <1>3 DEF Offers, LegalAt
<1>4. CASE UNCHANGED call
    BY <1>2, <1>4 DEF Offers, LegalAt
<1>5. ASSUME NEW s \in Calls, NEW i \in Items, NEW c \in Commands, SendItemCommand(i, c),
             call' = [call EXCEPT ![s] = CommandCall(i, c)]
      PROVE  Offers'
  <2>1. PICK q : q = CommandCall(i, c)
      OBVIOUS
  <2>2. /\ q.kind = "command" /\ q.item = i /\ q.command = c /\ q.outcome = "pending"
        /\ q.seen \in Versions /\ LegalAt(q.seen, i, c)
      BY <1>5, <2>1, SentIsOffered DEF CommandCall
  <2>3. LegalAt(q.seen, i, c)'
      BY <1>1, <2>2
  <2> QED
      BY <1>3, <1>5, <2>1, <2>2, <2>3
<1>6. ASSUME NEW s \in Calls, NEW q, IsAnswer(s, q), Serve(s), call' = [call EXCEPT ![s] = q]
      PROVE  Offers'
  <2>1. q.kind = "command" => LegalAt(q.seen, q.item, q.command)'
    <3>1. SUFFICES ASSUME q.kind = "command" PROVE LegalAt(q.seen, q.item, q.command)'
        OBVIOUS
    <3>2. call[s] \in CommandCalls(Now) /\ q.seen = call[s].seen /\ q.item = call[s].item
          /\ q.command = call[s].command
        BY <1>6, <3>1, AnswerFields, Kinds DEF HistoryTypeOK
    <3>3. call[s].seen \in Versions /\ call[s].item \in Items /\ call[s].command \in Commands
        BY <3>2 DEF CommandCalls, Versions
    <3>4. LegalAt(call[s].seen, call[s].item, call[s].command)
        BY <1>6, <3>1, AnswerFields DEF Offers
    <3> QED
        BY <1>1, <3>2, <3>3, <3>4 DEF LegalAt
  <2> QED
      BY <1>3, <1>6, <2>1, RefusedIsIllegal
<1> QED
    BY <1>3, <1>4, <1>5, <1>6 DEF CallChanges, CallChange, NoCall, BoardCall, DetailCall

\* The buttons of the client (getAllowedActions, App.tsx:134-145) and the command
\* table of production-service agree: a refusal means that the item has changed.
THEOREM OnlyStaleRefused == Spec => []RefusedOnlyWhenStale
<1>1. Init => Offers
    BY DEF Init, Offers, NoCall
<1>2. BoardInv /\ Offers /\ [Next]_vars => (BoardInv /\ Offers)'
  <2>1. ASSUME BoardInv, Offers, Next PROVE (BoardInv /\ Offers)'
      BY <2>1, StepInv, StepOffers DEF BoardInv
  <2>2. ASSUME BoardInv, Offers, UNCHANGED vars PROVE (BoardInv /\ Offers)'
      BY <2>2, Stutters DEF Offers, LegalAt, vars
  <2> QED
      BY <2>1, <2>2
<1>3. BoardInv /\ Offers => RefusedOnlyWhenStale
    BY DEF Offers, LegalAt, RefusedOnlyWhenStale, Is
<1> QED
    BY <1>1, <1>2, <1>3, InitInv, PTL DEF Spec

-----------------------------------------------------------------------------
(* What is loaded after a command                                          *)

\* A command that was answered has taken effect.
Executed(q) == q.kind = "command" /\ q.outcome = "ok" => TookEffect(q)

\* The loads of onItemCommand know their command: it took effect before them,
\* and the detail is of the order that was selected when it was given.
Follows(q) ==
    IsLoad(q) /\ q.after # NoCall =>
       /\ TookEffect(q.after)
       /\ q.kind = "detail" => q.order = q.after.order
       /\ q.outcome = "ok" => q.after.served <= q.served

ChainsFollow == \A s \in Calls : Executed(call[s]) /\ Follows(call[s])

\* Effects are kept: history only grows.
LEMMA EffectLasts ==
    ASSUME HistoryTypeOK, HistoryGrows, NEW c \in CommandCalls(Now), TookEffect(c)
    PROVE  TookEffect(c)'
<1>1. /\ c.served \in 2..Now' /\ c.served \in Versions /\ c.served - 1 \in Versions
    BY DEF HistoryTypeOK, HistoryGrows, TookEffect, Versions
<1>2. history'[c.served] = history[c.served] /\ history'[c.served - 1] = history[c.served - 1]
    BY <1>1 DEF HistoryGrows
<1> QED
    BY <1>1, <1>2 DEF TookEffect

\* The cause of a call is none, or a command call.
LEMMA CauseTyped ==
    ASSUME BoardTypeOK, NEW s \in Calls, IsLoad(call[s]), call[s].after # NoCall
    PROVE  call[s].after \in CommandCalls(Now)
<1>1. call[s] \in BoardCalls(Now) \cup DetailCalls(Now)
    BY Kinds DEF BoardTypeOK, HistoryTypeOK, IsLoad
<1>2. call[s].after \in Causes(Now)
    BY <1>1 DEF BoardCalls, DetailCalls
<1> QED
    BY <1>2 DEF Causes

\* A command that production-service executes moves its item.
LEMMA AnswerExecuted ==
    ASSUME BoardTypeOK, HistoryGrows, NEW s \in Calls, NEW q, IsAnswer(s, q), Serve(s),
           call' = [call EXCEPT ![s] = q]
    PROVE  Executed(q)'
<1> SUFFICES ASSUME q.kind = "command", q.outcome = "ok" PROVE TookEffect(q)'
    BY DEF Executed
<1>1. /\ call[s].kind = "command" /\ q.item = call[s].item /\ q.command = call[s].command
      /\ q.served = Now' /\ call'[s] = q
    BY AnswerFields DEF BoardTypeOK
<1>2. call[s] \in CommandCalls(Now)
    BY <1>1, Kinds DEF BoardTypeOK, HistoryTypeOK
<1>3. call[s].item \in Items /\ call[s].command \in Commands
    BY <1>2 DEF CommandCalls
<1>4. Execute(call[s].item, call[s].command)
  <2>1. CASE call' = [call EXCEPT ![s].outcome = "refused", ![s].served = Now]
    <3>1. call'[s].outcome = "refused"
        BY <1>2, <2>1 DEF BoardTypeOK, CommandCalls
    <3> QED
        BY <1>1, <3>1
  <2> QED
      BY <1>1, <2>1 DEF Serve
<1>5. PICK to \in Statuses :
          /\ <<history[Now][q.item], q.command, to>> \in validTransitions
          /\ history' = Append(history, [history[Now] EXCEPT ![q.item] = to])
    BY <1>1, <1>4 DEF Execute
<1>6. Now' = Now + 1 /\ Now \in Nat /\ Now >= 1
    BY <1>3, <1>4, ExecuteAppends DEF BoardTypeOK, HistoryTypeOK
<1>7. history[Now] \in [Items -> Statuses]
    BY DEF BoardTypeOK, HistoryTypeOK, Now
<1>8. history'[Now + 1][q.item] = to /\ history'[Now] = history[Now]
    BY <1>1, <1>3, <1>5, <1>6, <1>7 DEF BoardTypeOK, HistoryTypeOK, HistoryGrows, Versions, Now
<1>9. q.served \in 2..Now' /\ q.served - 1 = Now
    BY <1>1, <1>6
<1>10. <<history'[q.served - 1][q.item], q.command, history'[q.served][q.item]>> \in validTransitions
  <2>1. history'[q.served - 1] = history[Now]
      BY <1>8, <1>9
  <2>2. history'[q.served][q.item] = to
      BY <1>1, <1>6, <1>8
  <2> QED
      BY <1>5, <2>1, <2>2
<1> QED
    BY <1>9, <1>10 DEF TookEffect

LEMMA StepFollows ==
    ASSUME BoardTypeOK, HistoryGrows, ChainsFollow, CallChanges
    PROVE  ChainsFollow'
<1> USE DEF BoardTypeOK
\* The effects that a call knows of last.
<1>1. ASSUME NEW s \in Calls, NEW c \in CommandCalls(Now),
             \/ c = call[s] /\ call[s].kind = "command" /\ call[s].outcome = "ok"
             \/ c = call[s].after /\ IsLoad(call[s]) /\ call[s].after # NoCall
      PROVE  TookEffect(c)'
  <2>1. TookEffect(c)
      BY <1>1 DEF ChainsFollow, Executed, Follows
  <2> QED
      BY <2>1, EffectLasts
\* A call that this step leaves alone.
<1>2. ASSUME NEW s \in Calls, NEW q, q = call[s]
      PROVE  Executed(q)' /\ Follows(q)'
  <2>1. ASSUME q.kind = "command", q.outcome = "ok" PROVE TookEffect(q)'
    <3>1. q \in CommandCalls(Now)
        BY <1>2, <2>1, Kinds DEF HistoryTypeOK
    <3> QED
        BY <1>1, <1>2, <2>1, <3>1
  <2>2. ASSUME IsLoad(q), q.after # NoCall PROVE TookEffect(q.after)'
      BY <1>1, <1>2, <2>2, CauseTyped
  <2>3. Follows(q)
      BY <1>2 DEF ChainsFollow
  <2> QED
      BY <2>1, <2>2, <2>3 DEF Executed, Follows, IsLoad
<1>3. ASSUME NEW s \in Calls, NEW q, call' = [call EXCEPT ![s] = q], Executed(q)', Follows(q)'
      PROVE  ChainsFollow'
  <2>1. ASSUME NEW t \in Calls PROVE (Executed(call[t]) /\ Follows(call[t]))'
    <3>1. PICK p : p = call'[t] /\ Executed(p)' /\ Follows(p)'
        BY <1>2, <1>3
    <3> QED
        BY <3>1 DEF Executed, Follows, TookEffect, IsLoad
  <2> QED
      BY <2>1 DEF ChainsFollow
<1>4. CASE UNCHANGED call
  <2>1. ASSUME NEW t \in Calls PROVE (Executed(call[t]) /\ Follows(call[t]))'
    <3>1. PICK p : p = call'[t] /\ Executed(p)' /\ Follows(p)'
        BY <1>2, <1>4
    <3> QED
        BY <3>1 DEF Executed, Follows, TookEffect, IsLoad
  <2> QED
      BY <2>1 DEF ChainsFollow
<1>5. ASSUME NEW s \in Calls, NEW q, CallChange(s, q), call' = [call EXCEPT ![s] = q]
      PROVE  Executed(q)' /\ Follows(q)'
  <2>1. CASE q.kind \in {"none", "command"} /\ (q.kind = "none" \/ q.outcome = "pending")
      BY <2>1 DEF Executed, Follows, IsLoad
  <2>2. CASE IsLoad(q) /\ q.after = NoCall
      BY <2>2 DEF Executed, Follows, IsLoad
  <2>3. CASE Is(s, "command", "ok") /\ q = DetailCall(call[s].order, call[s])
    <3>1. /\ q.kind = "detail" /\ q.outcome = "pending" /\ q.order = call[s].order
          /\ q.after = call[s]
        BY <2>3 DEF DetailCall
    <3>2. call[s] \in CommandCalls(Now)
        BY <2>3, Kinds DEF HistoryTypeOK, Is
    <3>3. TookEffect(q.after)'
        BY <1>1, <2>3, <3>1, <3>2 DEF Is
    <3> QED
        BY <3>1, <3>3 DEF Executed, Follows, IsLoad
  <2>4. CASE call[s].kind = "detail" /\ call[s].after # NoCall /\ q = BoardCall(call[s].after)
    <3>1. q.kind = "board" /\ q.outcome = "pending" /\ q.after = call[s].after
        BY <2>4 DEF BoardCall
    <3>2. IsLoad(call[s])
        BY <2>4 DEF IsLoad
    <3>3. TookEffect(q.after)'
        BY <1>1, <2>4, <3>1, <3>2, CauseTyped
    <3> QED
        BY <3>1, <3>3 DEF Executed, Follows, IsLoad
  <2>5. CASE IsAnswer(s, q) /\ Serve(s)
    <3>1. Executed(q)'
        BY <1>5, <2>5, AnswerExecuted
    <3>2. Follows(q)'
      <4>1. SUFFICES ASSUME IsLoad(q), q.after # NoCall
                     PROVE  /\ TookEffect(q.after)'
                            /\ q.kind = "detail" => q.order = q.after.order
                            /\ q.after.served <= q.served
          BY DEF Follows, IsLoad
      <4>2. /\ q.kind = call[s].kind /\ q.after = call[s].after /\ q.served = Now'
            /\ q.kind = "detail" => q.order = call[s].order
          BY <2>5, <4>1, AnswerFields
      <4>3. IsLoad(call[s]) /\ call[s].after # NoCall
          BY <4>1, <4>2 DEF IsLoad
      <4>4. TookEffect(q.after)'
          BY <1>1, <4>2, <4>3, CauseTyped
      <4>5. q.after.served <= Now'
          BY <4>4 DEF TookEffect, HistoryGrows, HistoryTypeOK
      <4> QED
          BY <4>2, <4>3, <4>4, <4>5 DEF ChainsFollow, Follows
    <3> QED
        BY <3>1, <3>2
  <2> QED
      BY <1>5, <2>1, <2>2, <2>3, <2>4, <2>5
      DEF CallChange, NoCall, BoardCall, DetailCall, CommandCall, IsLoad
<1> QED
    BY <1>3, <1>4, <1>5 DEF CallChanges

\* The loads of onItemCommand (App.tsx:364-365) follow a command that has moved its
\* item and are read after that; the detail is of the item's order if the panel
\* showed the selected one.  Without that condition TLC refutes it.
THEOREM CommandSeen == Spec => []CommandIsSeen
<1>1. Init => ChainsFollow
    BY DEF Init, ChainsFollow, Executed, Follows, IsLoad, NoCall
<1>2. BoardInv /\ ChainsFollow /\ [Next]_vars => (BoardInv /\ ChainsFollow)'
  <2>1. ASSUME BoardInv, ChainsFollow, Next PROVE (BoardInv /\ ChainsFollow)'
      BY <2>1, StepInv, StepFollows DEF BoardInv
  <2>2. ASSUME BoardInv, ChainsFollow, UNCHANGED vars PROVE (BoardInv /\ ChainsFollow)'
      BY <2>2, Stutters DEF ChainsFollow, Executed, Follows, TookEffect, Now, vars
  <2> QED
      BY <2>1, <2>2
<1>3. ChainsFollow => CommandIsSeen
    BY DEF ChainsFollow, Follows, CommandIsSeen
<1> QED
    BY <1>1, <1>2, <1>3, InitInv, PTL DEF Spec

-----------------------------------------------------------------------------
(* Flags                                                                   *)

\* The call that belongs to the command whose buttons are disabled.
IsChain(q) == \/ q.kind = "command"
              \/ IsLoad(q) /\ q.after # NoCall

BoardCause == boardLoading => \E s \in Calls : call[s].kind = "board"
DetailCause == detailLoading => \E s \in Calls : call[s].kind = "detail"
CommandCause == commandLoading # None => \E s \in Calls : IsChain(call[s])

LEMMA NewCallKinds ==
    /\ NoCall.kind = "none"
    /\ \A w : BoardCall(w).kind = "board" /\ BoardCall(w).after = w
    /\ \A o, w : DetailCall(o, w).kind = "detail" /\ DetailCall(o, w).after = w
    /\ \A i, c : CommandCall(i, c).kind = "command"
BY DEF NoCall, BoardCall, DetailCall, CommandCall

\* A call starts in a free place and ends nothing.
LEMMA CausesStart ==
    ASSUME BoardTypeOK, SpinnersHaveCause, NEW s \in Calls, NEW q,
           call[s].kind = "none", call' = [call EXCEPT ![s] = q]
    PROVE  /\ boardLoading \/ q.kind = "board" => \E t \in Calls : call'[t].kind = "board"
           /\ detailLoading \/ q.kind = "detail" => \E t \in Calls : call'[t].kind = "detail"
           /\ commandLoading # None \/ q.kind = "command" => \E t \in Calls : IsChain(call'[t])
BY DEF BoardTypeOK, SpinnersHaveCause, IsChain, IsLoad

LEMMA StepCauses ==
    ASSUME BoardTypeOK, HistoryGrows, Answered, SpinnersHaveCause, Next
    PROVE  SpinnersHaveCause'
<1> USE NewCallKinds DEF BoardTypeOK
<1>1. SpinnersHaveCause' <=> (BoardCause /\ DetailCause /\ CommandCause)'
    BY DEF SpinnersHaveCause, BoardCause, DetailCause, CommandCause, IsChain
<1>2. BoardCause /\ DetailCause /\ CommandCause
    BY DEF SpinnersHaveCause, BoardCause, DetailCause, CommandCause, IsChain
<1> USE <1>1 DEF BoardCause, DetailCause, CommandCause
<1>3. ASSUME NEW s \in Calls, LoadBoard(s), UNCHANGED <<panel, commandLoading>>
      PROVE  SpinnersHaveCause'
    BY <1>3, CausesStart DEF LoadBoard, Free, panel
<1>4. ASSUME NEW o \in Orders, SelectOrder(o) PROVE SpinnersHaveCause'
  <2>1. PICK s \in Calls : call[s] = NoCall /\ call' = [call EXCEPT ![s] = DetailCall(o, NoCall)]
      BY <1>4 DEF SelectOrder, Free
  <2>2. PICK q : q = DetailCall(o, NoCall) /\ q.kind = "detail"
      OBVIOUS
  <2>3. /\ boardLoading => \E t \in Calls : call'[t].kind = "board"
        /\ \E t \in Calls : call'[t].kind = "detail"
        /\ commandLoading # None => \E t \in Calls : IsChain(call'[t])
      BY <2>1, <2>2, CausesStart
  <2> QED
      BY <1>4, <2>3 DEF SelectOrder
<1>5. ASSUME NEW i \in Items, NEW c \in Commands, SendItemCommand(i, c) PROVE SpinnersHaveCause'
  <2>1. PICK s \in Calls : call[s] = NoCall /\ call' = [call EXCEPT ![s] = CommandCall(i, c)]
      BY <1>5 DEF SendItemCommand, Free
  <2>2. PICK q : q = CommandCall(i, c) /\ q.kind = "command"
      OBVIOUS
  <2>3. /\ boardLoading => \E t \in Calls : call'[t].kind = "board"
        /\ detailLoading => \E t \in Calls : call'[t].kind = "detail"
        /\ \E t \in Calls : IsChain(call'[t])
      BY <2>1, <2>2, CausesStart
  <2> QED
      BY <1>5, <2>3 DEF SendItemCommand, panel
<1>6. CASE Logout
    BY <1>2, <1>6 DEF Logout
<1>7. ASSUME NEW s \in Calls, Serve(s) PROVE SpinnersHaveCause'
  <2>1. PICK q : IsAnswer(s, q) /\ call' = [call EXCEPT ![s] = q]
      BY <1>7, ServedAnswers
  <2>2. q.kind = call[s].kind /\ (IsLoad(q) => q.after = call[s].after)
      BY <1>7, <2>1, AnswerFields
  <2>3. \A t \in Calls : call'[t].kind = call[t].kind /\ (IsChain(call[t]) => IsChain(call'[t]))
      BY <2>1, <2>2 DEF IsChain, IsLoad
  <2> QED
      BY <1>2, <1>7, <2>3 DEF Serve, panel
<1>8. ASSUME NEW s \in Calls, call[s].kind = "board", BoardEnds(s),
             UNCHANGED <<detailLoading>>
      PROVE  SpinnersHaveCause'
  <2>1. call[s].after # NoCall \/ ~ IsChain(call[s])
      BY <1>8 DEF IsChain, IsLoad
  <2> QED
      BY <1>2, <1>8, <2>1 DEF BoardEnds
<1>9. ASSUME NEW s \in Calls, call[s].kind = "detail", DetailEnds(s), UNCHANGED commandLoading
      PROVE  SpinnersHaveCause'
  <2>1. CASE call[s].after # NoCall
    <3>1. call'[s].kind = "board" /\ IsChain(call'[s])
        BY <1>9, <2>1 DEF DetailEnds, IsChain, IsLoad
    <3> QED
        BY <1>9, <3>1 DEF DetailEnds
  <2>2. CASE call[s].after = NoCall
    <3>1. ~ IsChain(call[s])
        BY <1>9, <2>2 DEF IsChain, IsLoad
    <3> QED
        BY <1>2, <1>9, <2>2, <3>1 DEF DetailEnds
  <2> QED
      BY <2>1, <2>2
<1>10. ASSUME NEW s \in Calls, CommandAnswers(s) PROVE SpinnersHaveCause'
  <2>1. call[s].kind = "command" /\ call[s] # NoCall
      BY <1>10 DEF CommandAnswers, Is, NoCall
  <2>2. call'[s].kind = "detail" /\ IsChain(call'[s])
      BY <1>10, <2>1 DEF CommandAnswers, AfterCommand, IsChain, IsLoad
  <2>3. \A t \in Calls : call[t].kind = "board" => call'[t].kind = "board"
      BY <1>10, <2>1 DEF CommandAnswers
  <2> QED
      BY <1>2, <1>10, <2>2, <2>3 DEF CommandAnswers
<1>11. ASSUME NEW s \in Calls, CommandFails(s) PROVE SpinnersHaveCause'
    BY <1>2, <1>11 DEF CommandFails, panel
<1>12. ASSUME NEW i \in Items, NEW c \in Commands, OthersCommand(i, c) PROVE SpinnersHaveCause'
    BY <1>2, <1>12 DEF OthersCommand, panel
<1> QED
    BY <1>3, <1>4, <1>5, <1>6, <1>7, <1>8, <1>9, <1>10, <1>11, <1>12
    DEF Next, SignIn, Poll, Ends, BoardAnswers, BoardFails, DetailAnswers, DetailFails, Is, panel

\* Nothing says Loading, and no button stays disabled, without a call that ends
\* it (loadBoard, loadDetail, onItemCommand: their finally parts).
THEOREM SpinnersCaused == Spec => []SpinnersHaveCause
<1>1. Init => SpinnersHaveCause
    BY DEF Init, SpinnersHaveCause
<1>2. BoardInv /\ SpinnersHaveCause /\ [Next]_vars => (BoardInv /\ SpinnersHaveCause)'
  <2>1. ASSUME BoardInv, SpinnersHaveCause, Next PROVE (BoardInv /\ SpinnersHaveCause)'
      BY <2>1, StepInv, StepCauses DEF BoardInv
  <2>2. ASSUME BoardInv, SpinnersHaveCause, UNCHANGED vars PROVE (BoardInv /\ SpinnersHaveCause)'
      BY <2>2, Stutters DEF SpinnersHaveCause, vars, panel
  <2> QED
      BY <2>1, <2>2
<1> QED
    BY <1>1, <1>2, InitInv, PTL DEF Spec
=============================================================================
