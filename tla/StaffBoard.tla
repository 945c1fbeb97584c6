----------------------------- MODULE StaffBoard -----------------------------
(***************************************************************************)
(* The interactive board of staff-client: the polled list of orders, the   *)
(* detail panel of a selected order, and commands on its items, as calls to *)
(* production-service that are answered late, in any order, or not at all. *)
(* The session is that of StaffSession, reduced to signed in or not; the   *)
(* display board is the same loadBoard without details and commands.       *)
(*                                                                         *)
(* A call reads what production-service has at some moment between sending *)
(* and answer, so data is the number of a version: history is what         *)
(* production-service has held, and every client's command appends to it.  *)
(* A command is one step here, its transaction is in ProductionService; and *)
(* a board or a detail is read in one step, which listOrders and getOrder  *)
(* do in several statements (no property tells the difference).            *)
(* Texts of errors that enable nothing are left out.                       *)
(***************************************************************************)
EXTENDS ProductionDomain, Sequences

CONSTANTS
    Items, Orders, OrderOf,  \* the items of each order
    FirstVersions,           \* item statuses from which a behaviour may start (a bound)
    None,                    \* null
    Calls,                   \* 1..n: n calls may be under way at once (a bound)
    MaxVersion               \* bound on the length of history

ASSUME BoardAssumption ==
    /\ OrderOf \in [Items -> Orders]
    /\ FirstVersions \subseteq [Items -> Statuses]
    /\ None \notin Items \cup Orders
    /\ Calls \subseteq Nat
    /\ MaxVersion \in Nat \ {0}

VARIABLES
    history,        \* the rows of production-service: item statuses, the present ones last
    signedIn,       \* there is an interactive session
    shown,          \* orders: the version of the board on the screen, 0 for none
    boardLoading,
    selected,       \* selectedOrderId
    detail,         \* orderDetail: an order, and the version it shows
    detailLoading,
    detailError,
    commandLoading, \* the item whose buttons are disabled
    call            \* what each call under way asks for, and what it was answered

panel == <<selected, detail, detailLoading, detailError>>
vars == <<history, signedIn, shown, boardLoading, panel, commandLoading, call>>

Now == Len(history)

NoCall == [kind |-> "none"]
NoDetail == [order |-> None, version |-> 0]

\* outcome is what production-service makes of a call, served the version it
\* answered with, for a command the one it made.  after is the command call that
\* onItemCommand goes on from; NoCall, if the load has another cause.
Outcomes == {"pending", "ok", "refused"}
BoardCall(after) == [kind |-> "board", after |-> after, outcome |-> "pending", served |-> 0]
DetailCall(o, after) == [kind |-> "detail", order |-> o, after |-> after,
                         outcome |-> "pending", served |-> 0]
CommandCall(i, c) == [kind |-> "command", item |-> i, command |-> c, order |-> selected,
                      seen |-> detail.version, outcome |-> "pending", served |-> 0]

Init ==
    /\ \E first \in FirstVersions : history = <<first>>
    /\ signedIn = FALSE
    /\ shown = 0 /\ boardLoading = FALSE
    /\ selected = None /\ detail = NoDetail /\ detailLoading = FALSE /\ detailError = FALSE
    /\ commandLoading = None
    /\ call = [s \in Calls |-> NoCall]

Pending(s) == call[s] # NoCall /\ call[s].outcome = "pending"
Is(s, kind, outcome) == call[s].kind = kind /\ call[s].outcome = outcome

\* A new call takes the first free slot.
Free(s) == call[s] = NoCall /\ \A t \in Calls : t < s => call[t] # NoCall

-----------------------------------------------------------------------------
(* The user and the timers                                                 *)

\* loadBoard up to its await.
LoadBoard(s) ==
    /\ Free(s)
    /\ boardLoading' = TRUE
    /\ call' = [call EXCEPT ![s] = BoardCall(NoCall)]

\* A session appears and the poll effect loads the board.
SignIn ==
    /\ ~ signedIn
    /\ signedIn' = TRUE
    /\ \E s \in Calls : LoadBoard(s)
    /\ UNCHANGED <<history, shown, panel, commandLoading>>

\* The interval fires, or the user presses Refresh (only when ~ boardLoading).
Poll ==
    /\ signedIn
    /\ \E s \in Calls : LoadBoard(s)
    /\ UNCHANGED <<history, signedIn, shown, panel, commandLoading>>

\* A card of a lane is pressed: loadDetail up to its await.
SelectOrder(o) ==
    /\ signedIn /\ shown > 0
    /\ selected' = o /\ detailLoading' = TRUE /\ detailError' = FALSE
    /\ \E s \in Calls : Free(s) /\ call' = [call EXCEPT ![s] = DetailCall(o, NoCall)]
    /\ UNCHANGED <<history, signedIn, shown, boardLoading, detail, commandLoading>>

\* Faulty variant: a blocked item may be finished.
getAllowedActionsForBlocked(status) ==
    CASE status = "QUEUED"      -> {"pickup", "block"}
      [] status = "IN_PROGRESS" -> {"ready", "block"}
      [] status = "BLOCKED"     -> {"resume", "ready"}
      [] OTHER                  -> {}

getAllowedActions(status) ==
    CASE status = "QUEUED"      -> {"pickup", "block"}
      [] status = "IN_PROGRESS" -> {"ready", "block"}
      [] status = "BLOCKED"     -> {"resume"}
      [] OTHER                  -> {}

\* The panel shows items and buttons.  It does not ask whose items they are.
PanelShowsItems ==
    /\ signedIn /\ selected # None
    /\ ~ detailLoading /\ ~ detailError /\ detail # NoDetail

ShownStatus(i) == history[detail.version][i]

\* A button of item i is pressed: onItemCommand up to its first await.
SendItemCommand(i, c) ==
    /\ PanelShowsItems /\ OrderOf[i] = detail.order
    /\ c \in getAllowedActions(ShownStatus(i))
    /\ commandLoading # i
    /\ commandLoading' = i
    /\ \E s \in Calls : Free(s) /\ call' = [call EXCEPT ![s] = CommandCall(i, c)]
    /\ UNCHANGED <<history, signedIn, shown, boardLoading, panel>>

\* resetAllState.  Calls go on, and the loading flags are theirs.
Logout ==
    /\ signedIn
    /\ signedIn' = FALSE
    /\ shown' = 0 /\ selected' = None /\ detail' = NoDetail /\ detailError' = FALSE
    /\ UNCHANGED <<history, boardLoading, detailLoading, commandLoading, call>>

-----------------------------------------------------------------------------
(* production-service                                                      *)

\* When history is full, commands are only refused.
Execute(i, c) ==
    /\ Now < MaxVersion
    /\ \E to \in Statuses :
       /\ <<history[Now][i], c, to>> \in validTransitions
       /\ history' = Append(history, [history[Now] EXCEPT ![i] = to])

IsLegal(i, c) == \E to \in Statuses : <<history[Now][i], c, to>> \in validTransitions

\* Somebody else's command.
OthersCommand(i, c) ==
    /\ Execute(i, c)
    /\ UNCHANGED <<signedIn, shown, boardLoading, panel, commandLoading, call>>

\* production-service takes a call, and its answer is under way.
Serve(s) ==
    /\ Pending(s)
    /\ LET c == call[s] IN
       \/ /\ c.kind \in {"board", "detail"}
          /\ call' = [call EXCEPT ![s].outcome = "ok", ![s].served = Now]
          /\ UNCHANGED history
       \/ /\ c.kind = "command"
          /\ Execute(c.item, c.command)
          /\ call' = [call EXCEPT ![s].outcome = "ok", ![s].served = Now + 1]
       \/ /\ c.kind = "command" /\ ~ IsLegal(c.item, c.command)
          /\ call' = [call EXCEPT ![s].outcome = "refused", ![s].served = Now]
          /\ UNCHANGED history
    /\ UNCHANGED <<signedIn, shown, boardLoading, panel, commandLoading>>

-----------------------------------------------------------------------------
(* Answers                                                                 *)

\* The board call is over; onItemCommand ends with it.
BoardEnds(s) ==
    /\ boardLoading' = FALSE
    /\ commandLoading' = IF call[s].after # NoCall THEN None ELSE commandLoading
    /\ call' = [call EXCEPT ![s] = NoCall]

\* Faulty variant: an answer is dropped while another call for the board is
\* under way.
BoardAnswersOfLast(s) ==
    /\ Is(s, "board", "ok")
    /\ shown' = IF \E t \in Calls \ {s} : call[t].kind = "board" THEN shown ELSE call[s].served
    /\ BoardEnds(s)
    /\ UNCHANGED <<history, signedIn, panel>>

BoardAnswers(s) ==
    /\ Is(s, "board", "ok")
    /\ shown' = call[s].served
    /\ BoardEnds(s)
    /\ UNCHANGED <<history, signedIn, panel>>

\* Faulty variant: the flag is not reset after an error.
BoardFailsLoading(s) ==
    /\ call[s].kind = "board"
    /\ commandLoading' = IF call[s].after # NoCall THEN None ELSE commandLoading
    /\ call' = [call EXCEPT ![s] = NoCall]
    /\ UNCHANGED <<history, signedIn, shown, boardLoading, panel>>

BoardFails(s) ==
    /\ call[s].kind = "board"
    /\ BoardEnds(s)
    /\ UNCHANGED <<history, signedIn, shown, panel>>

\* The detail call is over, and onItemCommand goes on to load the board.
DetailEnds(s) ==
    /\ detailLoading' = FALSE
    /\ boardLoading' = (boardLoading \/ call[s].after # NoCall)
    /\ call' = [call EXCEPT ![s] = IF @.after # NoCall THEN BoardCall(@.after) ELSE NoCall]

\* Faulty variant: what is set is the order that is selected by now.
DetailAnswersForSelected(s) ==
    /\ Is(s, "detail", "ok")
    /\ detail' = [order |-> selected, version |-> call[s].served]
    /\ DetailEnds(s)
    /\ UNCHANGED <<history, signedIn, shown, selected, detailError, commandLoading>>

DetailAnswers(s) ==
    /\ Is(s, "detail", "ok")
    /\ detail' = [order |-> call[s].order, version |-> call[s].served]
    /\ DetailEnds(s)
    /\ UNCHANGED <<history, signedIn, shown, selected, detailError, commandLoading>>

\* loadDetail catches the error, so onItemCommand goes on all the same.
DetailFails(s) ==
    /\ call[s].kind = "detail"
    /\ detailError' = TRUE
    /\ DetailEnds(s)
    /\ UNCHANGED <<history, signedIn, shown, selected, detail, commandLoading>>

\* Faulty variant: a detail call for the order that is under way already is
\* taken for the one that should follow the command.
AfterCommandJoining(s) ==
    LET o == call[s].order
        same == {t \in Calls : call[t].kind = "detail" /\ call[t].order = o}
    IN  IF same = {} THEN DetailCall(o, call[s])
        ELSE [call[CHOOSE t \in same : TRUE] EXCEPT !.after = call[s]]

\* onItemCommand goes on with loadDetail(selectedOrderId).
AfterCommand(s) == DetailCall(call[s].order, call[s])

\* The order is the one selected when the button was pressed.
CommandAnswers(s) ==
    /\ Is(s, "command", "ok")
    /\ selected' = call[s].order /\ detailLoading' = TRUE /\ detailError' = FALSE
    /\ call' = [call EXCEPT ![s] = AfterCommand(s)]
    /\ UNCHANGED <<history, signedIn, shown, boardLoading, detail, commandLoading>>

\* A refusal (409), or an error, also of a command that was executed.
CommandFails(s) ==
    /\ call[s].kind = "command"
    /\ commandLoading' = None
    /\ call' = [call EXCEPT ![s] = NoCall]
    /\ UNCHANGED <<history, signedIn, shown, boardLoading, panel>>

\* A call ends; it may fail at any time.
Ends(s) ==
    \/ BoardAnswers(s) \/ DetailAnswers(s) \/ CommandAnswers(s)
    \/ BoardFails(s) \/ DetailFails(s) \/ CommandFails(s)

Next ==
    \/ SignIn \/ Poll \/ Logout
    \/ \E o \in Orders : SelectOrder(o)
    \/ \E i \in Items, c \in Commands : SendItemCommand(i, c) \/ OthersCommand(i, c)
    \/ \E s \in Calls : Serve(s) \/ Ends(s)

Spec == Init /\ [][Next]_vars

Versions == 1..Now

\* The calls there can be when production-service has held n versions.
CommandCalls(n) == [kind : {"command"}, item : Items, command : Commands, order : Orders,
                    seen : 1..n, outcome : Outcomes, served : 0..n]
Causes(n) == {NoCall} \cup CommandCalls(n)
BoardCalls(n) == [kind : {"board"}, after : Causes(n), outcome : Outcomes, served : 0..n]
DetailCalls(n) == [kind : {"detail"}, order : Orders, after : Causes(n), outcome : Outcomes, served : 0..n]
CallStates(n) == {NoCall} \cup BoardCalls(n) \cup DetailCalls(n) \cup CommandCalls(n)

TypeOK ==
    /\ history \in Seq([Items -> Statuses]) /\ Now \in 1..MaxVersion
    /\ signedIn \in BOOLEAN
    /\ shown \in 0..Now /\ boardLoading \in BOOLEAN
    /\ selected \in Orders \cup {None}
    /\ detail \in {NoDetail} \cup [order : Orders, version : Versions]
    /\ detailLoading \in BOOLEAN /\ detailError \in BOOLEAN
    /\ commandLoading \in Items \cup {None}
    /\ \A s \in Calls : call[s] \in CallStates(Now)

-----------------------------------------------------------------------------
\* The buttons of the client agree with the command table of production-
\* service: a command is refused only when its item has changed since the
\* details that offered it were read, never because it was offered wrongly.
RefusedOnlyWhenStale ==
    \A s \in Calls :
       Is(s, "command", "refused") =>
          history[call[s].served][call[s].item] # history[call[s].seen][call[s].item]

IsLoad(q) == q.kind \in {"board", "detail"}

\* Command call c made the step of history that it is recorded with.
TookEffect(c) ==
    /\ c.served \in 2..Now
    /\ <<history[c.served - 1][c.item], c.command, history[c.served][c.item]>> \in validTransitions

\* "execute a command -> board and detail refresh" (task-021 plan).  What
\* onItemCommand loads belongs to a command that has moved its item, and was read
\* after that step, whatever other calls for the same order were under way.
\* The detail is the one of the item's order if that order was selected when the
\* button was pressed.  It need not have been: while details of two orders are under
\* way the panel shows what is answered, which is not what is selected, and a
\* command given there reloads the other order; the sentence quoted is not kept then.
CommandIsSeen ==
    \A s \in Calls :
       LET load == call[s]
           cause == load.after
       IN  IsLoad(load) /\ load.after # NoCall /\ load.outcome = "ok" =>
              /\ TookEffect(cause) /\ cause.served <= load.served
              /\ load.kind = "detail" /\ cause.order = OrderOf[cause.item] =>
                    load.order = OrderOf[cause.item]

\* Nothing says Loading, and no button stays disabled, without a call that will
\* end it: through failures, overlapping calls and a logout in between.
SpinnersHaveCause ==
    /\ boardLoading => \E s \in Calls : call[s].kind = "board"
    /\ detailLoading => \E s \in Calls : call[s].kind = "detail"
    /\ commandLoading # None =>
          \E s \in Calls : \/ call[s].kind = "command"
                           \/ IsLoad(call[s]) /\ call[s].after # NoCall

-----------------------------------------------------------------------------
(* Liveness: calls end, and not every call for the board fails.  The       *)
(* interval fires whatever else is under way; that it may have to wait for *)
(* a free call is only the bound, hence strong fairness.                   *)

FairSpec ==
    /\ Spec
    /\ SF_vars(Poll)
    /\ \A s \in Calls : WF_vars(Ends(s))
    /\ SF_vars(\E s \in Calls : call[s].kind = "board" /\ Serve(s))
    /\ SF_vars(\E s \in Calls : BoardAnswers(s))

\* Polls may answer in any order and fail: once production-service rests, the
\* board comes to show its last state, and stays with it.
BoardSettles == <>[]signedIn => <>[](shown = Now)
=============================================================================
