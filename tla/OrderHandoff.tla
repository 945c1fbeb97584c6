---------------------------- MODULE OrderHandoff ----------------------------
(***************************************************************************)
(* From an accepted order to production items: the outbox of orders-service *)
(* (OrderOutboxPublisher), the exchange and queue that production-service  *)
(* declares when it starts (rabbitmq/client.go), and its consumer.  The    *)
(* module joins two others at what they promise: Accept is the commit of   *)
(* OrderSubmission (an order with one event per unit), Consume the commit  *)
(* of ProductionService (an event takes effect once).                      *)
(*                                                                         *)
(* RabbitTemplate.send returns when the message is written to the          *)
(* connection; there are no publisher confirms and mandatory is not set.   *)
(* So it also returns when the broker drops the message, because the       *)
(* exchange or the binding does not exist or the connection breaks.        *)
(*                                                                         *)
(* "Faulty variants" are the definition that follows them with a plausible *)
(* bug and not part of the specification.                                  *)
(***************************************************************************)
EXTENDS OrderDomain

CONSTANTS
    Orders,        \* the orders that may be accepted
    Times,         \* values of created_at, numbers
    BatchSize,     \* app.outbox.publisher.batch-size
    Declared,      \* what earlier starts of production-service may have declared
    Lossless       \* TRUE: no connection breaks with messages under way

Events == UNION {EventsFor(o, o.id) : o \in Orders}

ASSUME HandoffAssumption ==
    /\ IsFiniteSet(Events)
    /\ Times \subseteq Nat
    /\ BatchSize \in Nat \ {0}
    /\ Declared \subseteq {"none", "exchange", "bound"}
    /\ Lossless \in BOOLEAN

VARIABLES
    accepted,   \* committed orders
    createdAt,  \* created_at of their outbox rows
    published,  \* events whose row has published_at
    running,    \* publishPendingEvents is running
    batch,      \* what it has read and not yet dealt with
    sent,       \* the event it has sent and not yet marked, if any
    topology,   \* what production-service has declared on the broker
    queued,     \* events with a copy in the queue
    processed   \* events production-service has turned into items

publisherVars == <<running, batch, sent>>
vars == <<accepted, createdAt, published, publisherVars, topology, queued, processed>>

Init ==
    /\ accepted = {}
    /\ createdAt = [e \in Events |-> 0]
    /\ published = {}
    /\ running = FALSE /\ batch = {} /\ sent = {}
    /\ topology \in Declared
    /\ queued = {}
    /\ processed = {}

-----------------------------------------------------------------------------
(* orders-service                                                          *)

\* An order commits together with its events.  The rows are inserted before
\* that, so they may be older than rows committed earlier.
Accept(o) ==
    /\ o \notin accepted
    /\ accepted' = accepted \cup {o}
    /\ \E t \in [EventsFor(o, o.id) -> Times] :
          createdAt' = [e \in Events |-> IF e \in DOMAIN t THEN t[e] ELSE createdAt[e]]
    /\ UNCHANGED <<published, publisherVars, topology, queued, processed>>

Pending == UNION {EventsFor(o, o.id) : o \in accepted} \ published

\* ORDER BY created_at: S may be read before T.
NotAfter(S, T) == \A e \in S, f \in T : createdAt[e] <= createdAt[f]

\* Faulty variant: no LIMIT.
FetchAll ==
    /\ ~ running
    /\ Pending # {}
    /\ running' = TRUE /\ batch' = Pending /\ sent' = {}
    /\ UNCHANGED <<accepted, createdAt, published, topology, queued, processed>>

\* The scheduled method starts: findUnpublishedOutboxEvents reads the oldest
\* rows, rows of one time in any order.
FetchBatch ==
    /\ ~ running
    /\ \E B \in SUBSET Pending \ {{}} :
          /\ Cardinality(B) <= BatchSize
          /\ Cardinality(B) = BatchSize \/ B = Pending
          /\ NotAfter(B, Pending \ B)
          /\ batch' = B
    /\ running' = TRUE /\ sent' = {}
    /\ UNCHANGED <<accepted, createdAt, published, topology, queued, processed>>

\* The loop has come to event e.
AtEvent(e) == running /\ sent = {} /\ e \in batch /\ NotAfter({e}, batch)

\* send returns: the message is queued or, when there is nothing to route it
\* or the connection breaks, lost.
Send(e) ==
    /\ AtEvent(e)
    /\ \/ /\ topology = "bound"
          /\ queued' = queued \cup {e}
       \/ /\ topology # "bound" \/ ~ Lossless
          /\ queued' = queued
    /\ sent' = {e}
    /\ UNCHANGED <<accepted, createdAt, published, running, batch, topology, processed>>

\* Faulty variant: the row is marked after the exception too.
SendFailsMarking(e) ==
    /\ AtEvent(e)
    /\ published' = published \cup {e}
    /\ batch' = batch \ {e}
    /\ UNCHANGED <<accepted, createdAt, running, sent, topology, queued, processed>>

\* send throws AmqpException: logged, on to the next event.
SendFails(e) ==
    /\ AtEvent(e)
    /\ batch' = batch \ {e}
    /\ UNCHANGED <<accepted, createdAt, published, running, sent, topology, queued, processed>>

\* Faulty variant: the update matches no row.
MarkNothing ==
    /\ sent # {}
    /\ batch' = batch \ sent /\ sent' = {}
    /\ UNCHANGED <<accepted, createdAt, published, running, topology, queued, processed>>

\* markOutboxEventPublished
MarkPublished ==
    /\ sent # {}
    /\ published' = published \cup sent
    /\ batch' = batch \ sent /\ sent' = {}
    /\ UNCHANGED <<accepted, createdAt, running, topology, queued, processed>>

EndBatch ==
    /\ running /\ batch = {}
    /\ running' = FALSE
    /\ UNCHANGED <<accepted, createdAt, published, batch, sent, topology, queued, processed>>

\* The database fails, whose exceptions are not caught, or the process stops;
\* the next run reads the outbox again.  With nothing left of the batch that is
\* the same as EndBatch.
PublisherStops ==
    /\ running /\ batch # {}
    /\ running' = FALSE /\ batch' = {} /\ sent' = {}
    /\ UNCHANGED <<accepted, createdAt, published, topology, queued, processed>>

-----------------------------------------------------------------------------
(* production-service                                                      *)

\* EnsureTopology: the exchange, then the queue and its binding, all durable.
\* A start that fails in between leaves the process to be started again.
DeclareTopology ==
    /\ topology # "bound"
    /\ topology' = IF topology = "none" THEN "exchange" ELSE "bound"
    /\ UNCHANGED <<accepted, createdAt, published, publisherVars, queued, processed>>

\* HandleMessage commits.  A copy stays in the queue if there were two or the
\* acknowledgement does not arrive.
Consume(e) ==
    /\ e \in queued
    /\ processed' = processed \cup {e}
    /\ queued' \in {queued, queued \ {e}}
    /\ UNCHANGED <<accepted, createdAt, published, publisherVars, topology>>

-----------------------------------------------------------------------------
Publish == FetchBatch \/ (\E e \in batch : Send(e)) \/ MarkPublished \/ EndBatch

Next ==
    \/ \E o \in Orders : Accept(o)
    \/ Publish
    \/ \E e \in batch : SendFails(e)
    \/ PublisherStops
    \/ DeclareTopology
    \/ \E e \in Events : Consume(e)

Spec == Init /\ [][Next]_vars

\* Types, and a batch no longer than the limit.
TypeOK ==
    /\ accepted \subseteq Orders
    /\ createdAt \in [Events -> Nat]
    /\ published \subseteq Events
    /\ running \in BOOLEAN
    /\ batch \subseteq Events /\ Cardinality(batch) <= BatchSize
    /\ sent \subseteq batch
    /\ topology \in {"none", "exchange", "bound"}
    /\ queued \subseteq Events
    /\ processed \subseteq Events

\* "Accepted orders are handed off to production through RabbitMQ with
\* at-least-once delivery semantics" (domain-brain/invariants.md): an event
\* marked as published is in the queue or has been processed, whatever failed
\* in between.
AtLeastOnce == published \subseteq queued \cup processed

\* The same under two conditions that the code leaves to its surroundings:
\* production-service has declared its queue before the first order, and no
\* connection breaks with messages under way, since without publisher confirms
\* such a message is marked all the same.
AtLeastOnceWhenBound == Lossless /\ topology = "bound" => []AtLeastOnce

-----------------------------------------------------------------------------
(* Liveness: @Scheduled starts the next run when one has ended, and the    *)
(* consumer takes what is queued.  Outages of broker and database last any *)
(* number of failures but not for ever.                                    *)

OutagesEnd == <>[][~ (\E e \in batch : SendFails(e)) /\ ~ PublisherStops]_vars

FairSpec ==
    /\ Spec
    /\ WF_vars(Publish)
    /\ \A e \in Events : WF_vars(Consume(e))
    /\ OutagesEnd

Made(o) == {<<e.line, e.unit>> : e \in {f \in processed : f.order = o.id}}

\* The queue exists and nothing of order o has been sent yet.
InTime(o) ==
    /\ o \in accepted
    /\ topology = "bound"
    /\ EventsFor(o, o.id) \cap (published \cup sent) = {}

\* Every unit of an order that is accepted or still unsent when production-
\* service has declared its queue is made in the end, if no connection breaks
\* with messages under way: though send throws, database and process fail any
\* number of times before.  "background publishing retries until the production
\* events are delivered" (domain-brain/edge-cases.md) has no such condition.
EveryUnitIsMade == Lossless => \A o \in Orders : InTime(o) ~> Made(o) = Units(o.lines)

\* The publisher gets through its backlog, whatever there is to receive it:
\* with a limit and failures in between, no row is passed over for ever.
BacklogIsPublished ==
    \A o \in Orders : o \in accepted ~> EventsFor(o, o.id) \subseteq published
=============================================================================
