--------------------------- MODULE OrderSubmission ---------------------------
(***************************************************************************)
(* PUT /api/v1/orders/{requestId}: OrdersController, OrderSubmissionService *)
(* and the part of OrderPersistence they use, as one MySQL transaction per *)
(* call.                                                                   *)
(*                                                                         *)
(* An attempt is one HTTP call.  A client that heard nothing makes another *)
(* one with the same request id, maybe while the first is still running.   *)
(* submitOrder is @Transactional and createOrder joins its transaction:    *)
(*   - orders and outbox hold committed rows; what an attempt has inserted *)
(*     follows from its phase, and a rollback just ends the attempt;       *)
(*   - an INSERT of a (user, requestId) that another transaction has       *)
(*     inserted waits until that one ends (uq_orders_user_request);        *)
(*   - a unique violation leaves createOrder as an exception and marks the *)
(*     joined transaction rollback-only, so that although submitOrder      *)
(*     catches it, its own commit fails.                                   *)
(*                                                                         *)
(* Left out as data: prices and totals, names, timestamps.  An order's id  *)
(* is the attempt that inserted it.  "Faulty variants" are the definition  *)
(* that follows them with a plausible bug and not part of the              *)
(* specification.                                                          *)
(***************************************************************************)
EXTENDS OrderDomain

CONSTANTS
    Users,
    RequestIds,
    Dishes,    \* item ids callers name
    Menu,      \* those menu-service knows
    Baskets,   \* the lists of lines callers send
    Attempts,
    Nobody     \* token validation yields no user

ASSUME SubmissionAssumption ==
    /\ Menu \subseteq Dishes
    /\ Baskets \subseteq Seq([item : Dishes, quantity : Nat])
    /\ Nobody \notin Users \cup Attempts
    /\ IsFiniteSet(Attempts)

VARIABLES
    orders,   \* orders and order_lines
    outbox,   \* order_outbox_events
    call,     \* the request of an attempt and the user its token belongs to
    phase,    \* how far the attempt has come
    answer    \* its HTTP response

vars == <<orders, outbox, call, phase, answer>>

Calls == [user : Users, requestId : RequestIds, lines : Baskets,
          token : Users \cup {Nobody}]

NoAnswer == [kind |-> "none"]
Refused(kind) == [kind |-> kind]
Accepted(o) == [kind |-> "accepted", order |-> o.id]

Init ==
    /\ orders = {}
    /\ outbox = {}
    /\ call \in [Attempts -> Calls]
    /\ phase = [a \in Attempts |-> "received"]
    /\ answer = [a \in Attempts |-> NoAnswer]

-----------------------------------------------------------------------------
\* The order an attempt inserts.
Draft(a) == [id |-> a, user |-> call[a].user, requestId |-> call[a].requestId,
             lines |-> call[a].lines]

\* Faulty variant: the user is not part of the key.
SameRequestOfAnyone(o, a) == o.requestId = call[a].requestId

SameRequest(o, a) == Key(o) = Key(call[a])

Respond(a, response) ==
    /\ phase' = [phase EXCEPT ![a] = "done"]
    /\ answer' = [answer EXCEPT ![a] = response]

Proceed(a, p) ==
    /\ phase' = [phase EXCEPT ![a] = p]
    /\ UNCHANGED answer

WellFormed(lines) == lines # <<>> /\ \A k \in DOMAIN lines : lines[k].quantity >= 1

\* Bean validation of the body, then the token (users-service failing makes
\* it invalid), then the user it belongs to.
ValidateRequest(a) ==
    /\ phase[a] = "received"
    /\ LET c == call[a]
       IN  \/ ~ WellFormed(c.lines) /\ Respond(a, Refused("badRequest"))
           \/ WellFormed(c.lines) /\ Respond(a, Refused("unauthorized"))
           \/ /\ WellFormed(c.lines)
              /\ c.token \notin {Nobody, c.user}
              /\ Respond(a, Refused("forbidden"))
           \/ WellFormed(c.lines) /\ c.token = c.user /\ Proceed(a, "valid")
    /\ UNCHANGED <<orders, outbox, call>>

\* findOrderByUserIdAndRequestId: the first read of the transaction.
FindExisting(a) ==
    /\ phase[a] = "valid"
    /\ \/ \E o \in orders : SameRequest(o, a) /\ Respond(a, Accepted(o))
       \/ (\A o \in orders : ~ SameRequest(o, a)) /\ Proceed(a, "absent")
    /\ UNCHANGED <<orders, outbox, call>>

\* resolveMenuItems fails closed: without a service token, without an answer
\* or with an unknown item the call is refused.
ResolveMenu(a) ==
    /\ phase[a] = "absent"
    /\ \/ /\ \A k \in DOMAIN call[a].lines : call[a].lines[k].item \in Menu
          /\ Proceed(a, "resolved")
       \/ Respond(a, Refused("badRequest"))
    /\ UNCHANGED <<orders, outbox, call>>

\* Faulty variant: a call that has failed is never rolled back.
KeyLockedByDead(a) ==
    \E b \in Attempts \ {a} :
        /\ phase[b] \in {"inserted", "written"} \/ answer[b].kind = "error"
        /\ Key(call[b]) = Key(call[a])

\* Another transaction has inserted the same key and not ended yet.
KeyLocked(a) ==
    \E b \in Attempts \ {a} :
        /\ phase[b] \in {"inserted", "written"}
        /\ Key(call[b]) = Key(call[a])

\* Faulty variant: no unique constraint.
InsertOrderUnchecked(a) ==
    /\ phase[a] = "resolved"
    /\ Proceed(a, "inserted")
    /\ UNCHANGED <<orders, outbox, call>>

\* Faulty variant: a key somebody is inserting counts as taken.
InsertOrderImpatient(a) ==
    /\ phase[a] = "resolved"
    /\ Proceed(a, IF KeyLocked(a) \/ \E o \in orders : SameRequest(o, a)
                    THEN "duplicate" ELSE "inserted")
    /\ UNCHANGED <<orders, outbox, call>>

\* createOrder: INSERT INTO orders and its lines, or DuplicateKeyException.
InsertOrder(a) ==
    /\ phase[a] = "resolved"
    /\ ~ KeyLocked(a)
    /\ Proceed(a, IF \E o \in orders : SameRequest(o, a)
                    THEN "duplicate" ELSE "inserted")
    /\ UNCHANGED <<orders, outbox, call>>

\* The exception is caught and the order looked up again, in the snapshot of
\* FindExisting, which has none.  Whatever submitOrder returns, committing a
\* rollback-only transaction throws UnexpectedRollbackException: HTTP 500.
RollBackDuplicate(a) ==
    /\ phase[a] = "duplicate"
    /\ Respond(a, Refused("rolledBack"))
    /\ UNCHANGED <<orders, outbox, call>>

\* Faulty variant: the events are written in a transaction of their own.
InsertOutboxEventsApart(a) ==
    /\ phase[a] = "inserted"
    /\ Proceed(a, "written")
    /\ outbox' = outbox \cup EventsFor(Draft(a), a)
    /\ UNCHANGED <<orders, call>>

\* insertOutboxEvents
InsertOutboxEvents(a) ==
    /\ phase[a] = "inserted"
    /\ Proceed(a, "written")
    /\ UNCHANGED <<orders, outbox, call>>

\* The commit makes order, lines and events visible.  The response may get
\* lost on its way.
Commit(a) ==
    /\ phase[a] = "written"
    /\ orders' = orders \cup {Draft(a)}
    /\ outbox' = outbox \cup EventsFor(Draft(a), a)
    /\ Respond(a, Accepted(Draft(a))) \/ Respond(a, Refused("error"))
    /\ UNCHANGED call

\* A statement fails, the attempt loses a deadlock or waits too long for a
\* lock, or the process stops: rollback.
Fail(a) ==
    /\ phase[a] # "done"
    /\ Respond(a, Refused("error"))
    /\ UNCHANGED <<orders, outbox, call>>

Step(a) ==
    \/ ValidateRequest(a)
    \/ FindExisting(a)
    \/ ResolveMenu(a)
    \/ InsertOrder(a)
    \/ RollBackDuplicate(a)
    \/ InsertOutboxEvents(a)
    \/ Commit(a)

Next == \E a \in Attempts : Step(a) \/ Fail(a)

Spec == Init /\ [][Next]_vars

\* A request thread runs to its end; InnoDB grants a waiting insert in turn.
FairSpec == Spec /\ \A a \in Attempts : WF_vars(Step(a)) /\ SF_vars(InsertOrder(a))

-----------------------------------------------------------------------------
Phases == {"received", "valid", "absent", "resolved", "duplicate", "inserted",
           "written", "done"}

OrderRows == [id : Attempts, user : Users, requestId : RequestIds, lines : Baskets]

EventRows == [eventId : Attempts \X (Nat \X Nat), order : Attempts,
              line : Nat \ {0}, unit : Nat \ {0},
              total : {TotalItemCount(lines) : lines \in Baskets}]

Answers == {NoAnswer}
           \cup [kind : {"badRequest", "unauthorized", "forbidden", "error", "rolledBack"}]
           \cup [kind : {"accepted"}, order : Attempts]

\* Every row and every answer is of its declared type.
TypeOK ==
    /\ orders \subseteq OrderRows
    /\ outbox \subseteq EventRows
    /\ call \in [Attempts -> Calls]
    /\ phase \in [Attempts -> Phases]
    /\ answer \in [Attempts -> Answers]

-----------------------------------------------------------------------------
(* Safety.                                                                 *)

\* However often and however concurrently a client repeats a request, there
\* is at most one order for it.
OneOrderPerRequest == \A o, p \in orders : Key(o) = Key(p) => o = p

\* Every unit of every order is asked for by exactly one event, and no event
\* belongs to an order that was rolled back.
OneEventPerUnit ==
    /\ \A o \in orders : \A u \in Units(o.lines) :
          \E e \in outbox : \A f \in outbox :
              f = e <=> f.order = o.id /\ f.line = u[1] /\ f.unit = u[2]
    /\ \A e \in outbox : \E o \in orders :
          e.order = o.id /\ <<e.line, e.unit>> \in Units(o.lines)

\* The total an event carries is the number of events of its order.
TotalsAreRight ==
    \A e \in outbox : e.total = Cardinality({f \in outbox : f.order = e.order})

\* Whoever is told of an order asked for it, in the name of its own token,
\* and the order is there.
AnswersAreTrue ==
    \A a \in Attempts : answer[a].kind = "accepted" =>
        /\ call[a].token = call[a].user
        /\ \E o \in orders : o.id = answer[a].order /\ Key(o) = Key(call[a])

\* A call is turned away as a duplicate only when the order exists, so that
\* the next try finds it.
LosersHaveAWinner ==
    \A a \in Attempts : answer[a].kind = "rolledBack" =>
        \E o \in orders : SameRequest(o, a)

\* "Handles races between repeated requests with the same request id"
\* (OrderSubmissionService.kt): losing the race is no error for the caller.
RacesAreHandled == \A a \in Attempts : answer[a].kind # "rolledBack"

\* Every call is answered: nobody waits for ever for another's key.
EveryCallIsAnswered ==
    \A a \in Attempts : phase[a] = "received" ~> phase[a] = "done"

-----------------------------------------------------------------------------
(* Refinement: calls that overlap, fail and are repeated implement the     *)
(* register of orders.                                                     *)

Told(a) == IF answer[a].kind = "accepted" THEN answer[a].order ELSE Nobody

Intake == INSTANCE OrderIntake
            WITH Orders <- OrderRows, Untold <- Nobody,
                 placed <- orders, requested <- outbox,
                 told <- [a \in Attempts |-> Told(a)]

ImplementsIntake == Intake!Spec
=============================================================================
