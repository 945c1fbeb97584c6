-------------------------- MODULE ProductionService --------------------------
(***************************************************************************)
(* The core of production-service: the RabbitMQ consumer that turns item   *)
(* requests into production items (internal/consumer, internal/rabbitmq)   *)
(* and the staff commands that move them (internal/api), both as MySQL     *)
(* transactions taken statement by statement.                              *)
(*                                                                         *)
(* A transaction runs at InnoDB's default REPEATABLE READ:                 *)
(*   - the variables of the first group below are the COMMITTED rows;      *)
(*     what a transaction has written is in its own record until it        *)
(*     commits, and a rollback or a crash just drops the record;           *)
(*   - the only plain SELECT of a transaction that reads items is          *)
(*     CountItemsByStatus, so it reads the rows committed at that moment   *)
(*     and the transaction's own writes;                                   *)
(*   - UPDATE, upsert and SELECT ... FOR UPDATE read the latest row and    *)
(*     lock it until the transaction ends; who needs a locked row waits.   *)
(*                                                                         *)
(* Left out as data: timestamps, names, station keys, the order's own      *)
(* version column (written, never compared).  Definitions called a "faulty *)
(* variant" are not part of the specification: each is the definition that *)
(* follows it with a plausible bug, and shows that a property can fail.    *)
(***************************************************************************)
EXTENDS ProductionDomain, Sequences

CONSTANTS
    Orders,      \* order ids
    Items,       \* source item keys: (order_id, line_number, unit_sequence)
    Events,      \* event ids of production.item.requested.v1 messages
    Staff,       \* staff members, each with at most one command in flight
    OrderOf,     \* the order of an item
    ItemOf,      \* the item an event asks for
    NoStaff,     \* claimed_by_user_id IS NULL
    MaxCopies,   \* bound: copies of one event the broker may hold
    MaxVersion   \* bound: commands stop once an item has this version

ASSUME ConstantsAssumption ==
    /\ IsFiniteSet(Items)
    /\ OrderOf \in [Items -> Orders]
    /\ ItemOf \in [Events -> Items]
    /\ NoStaff \notin Staff
    /\ MaxCopies \in Nat
    /\ MaxVersion \in Nat

VARIABLES
    \* committed rows
    orderRow,      \* production_orders
    itemStatus,    \* production_items.status, "none" when there is no row
    itemVersion,   \* production_items.version
    claimedBy,     \* production_items.claimed_by_user_id
    blockedReason, \* production_items.blocked_reason IS NOT NULL
    processed,     \* processed_events
    itemOutbox,    \* production_event_outbox rows of an item, in id order
    orderOutbox,   \* its order.ready rows of an order, in id order
    \* the broker and the transactions in flight
    queue,         \* copies of an event waiting in the queue
    consumer,      \* the consumer's unacknowledged delivery, if any
    request        \* the command each staff member is running, if any

rows == <<orderRow, itemStatus, itemVersion, claimedBy, blockedReason,
          processed, itemOutbox, orderOutbox>>
vars == <<rows, queue, consumer, request>>

NoOrderRow ==
    [status |-> "none", total |-> 0, ready |-> 0, blocked |-> 0,
     readyAt |-> FALSE]
NoDelivery == [phase |-> "none"]
NoRequest  == [phase |-> "none"]

ItemsOf(o) == {i \in Items : OrderOf[i] = o}

\* An empty database, no command running, and messages that orders-service
\* has put in the queue, each at least once; one the consumer never takes is
\* also one that was never published.
Init ==
    /\ orderRow = [o \in Orders |-> NoOrderRow]
    /\ itemStatus = [i \in Items |-> "none"]
    /\ itemVersion = [i \in Items |-> 0]
    /\ claimedBy = [i \in Items |-> NoStaff]
    /\ blockedReason = [i \in Items |-> FALSE]
    /\ processed = {}
    /\ itemOutbox = [i \in Items |-> <<>>]
    /\ orderOutbox = [o \in Orders |-> <<>>]
    /\ queue \in [Events -> 0..MaxCopies]
    /\ consumer = NoDelivery
    /\ request = [s \in Staff |-> NoRequest]

-----------------------------------------------------------------------------
(* Row locks.                                                              *)

\* Faulty variant: SELECT without FOR UPDATE.
ItemLockedNever(i) == FALSE

\* A command locks its item from SELECT ... FOR UPDATE to its end.
ItemLocked(i) == \E s \in Staff : request[s].phase # "none" /\ request[s].item = i

\* The consumer locks the order from the upsert to its end, a command from
\* UpdateOrderStatus to its end.
OrderLocked(o) ==
    \/ /\ consumer.phase \in {"upserted", "counted"}
       /\ OrderOf[ItemOf[consumer.event]] = o
    \/ \E s \in Staff : /\ request[s].phase = "derived"
                        /\ OrderOf[request[s].item] = o

\* Faulty variant: the duplicate-key branch forgets to count the new item.
UpsertedOrderRowOnce(row) ==
    [row EXCEPT !.total = IF row.status = "none" THEN 1 ELSE @]

\* The upsert: total_item_count starts at 1 and grows by one per new event.
UpsertedOrderRow(row) == [row EXCEPT !.total = @ + 1]

\* Faulty variant: ready_at is cleared when the order is no longer READY.
UpdatedOrderRowClearing(row, counts) ==
    [row EXCEPT !.status  = DeriveOrderStatus(counts),
                !.ready   = counts["READY"],
                !.blocked = counts["BLOCKED"],
                !.readyAt = DeriveOrderStatus(counts) = "READY"]

\* UpdateOrderStatus: the row after writing the status derived from counts;
\* ready_at is set on READY and never cleared.
UpdatedOrderRow(row, counts) ==
    [row EXCEPT !.status  = DeriveOrderStatus(counts),
                !.ready   = counts["READY"],
                !.blocked = counts["BLOCKED"],
                !.readyAt = @ \/ DeriveOrderStatus(counts) = "READY"]

-----------------------------------------------------------------------------
(* The consumer: one delivery at a time (Qos 1), handled synchronously.    *)

ConsumerAt(p) == consumer.phase = p

\* basic.deliver: any copy may come next (redeliveries and concurrent
\* publishers do not keep the queue's order).
Deliver(e) ==
    /\ ConsumerAt("none")
    /\ queue[e] > 0
    /\ queue' = [queue EXCEPT ![e] = @ - 1]
    /\ consumer' = [phase |-> "delivered", event |-> e, counts |-> NoCounts]
    /\ UNCHANGED <<rows, request>>

\* Faulty variant: RowsAffected of the INSERT IGNORE is not looked at.
InsertProcessedEventBlind ==
    /\ ConsumerAt("delivered")
    /\ consumer' = [consumer EXCEPT !.phase = "recorded"]
    /\ UNCHANGED <<rows, queue, request>>

\* INSERT IGNORE INTO processed_events: a duplicate commits at once and goes
\* on to be acknowledged.
InsertProcessedEvent ==
    /\ ConsumerAt("delivered")
    /\ consumer' = [consumer EXCEPT !.phase =
                       IF consumer.event \in processed THEN "committed"
                                                       ELSE "recorded"]
    /\ UNCHANGED <<rows, queue, request>>

\* Faulty variant: the order's row is not locked before the count.
UpsertProductionOrderUnlocked ==
    /\ ConsumerAt("recorded")
    /\ consumer' = [consumer EXCEPT !.phase = "upserted"]
    /\ UNCHANGED <<rows, queue, request>>

\* INSERT ... ON DUPLICATE KEY UPDATE: takes the order's row lock.
UpsertProductionOrder ==
    /\ ConsumerAt("recorded")
    /\ ~ OrderLocked(OrderOf[ItemOf[consumer.event]])
    /\ consumer' = [consumer EXCEPT !.phase = "upserted"]
    /\ UNCHANGED <<rows, queue, request>>

\* Faulty variant: REPLACE instead of INSERT IGNORE.
StatusWithReplaced(i) == [itemStatus EXCEPT ![i] = "QUEUED"]

\* The items as the consumer's transaction sees them after
\* InsertProductionItem (INSERT IGNORE on the unique source key).
StatusWithInserted(i) ==
    [itemStatus EXCEPT ![i] = IF @ = "none" THEN "QUEUED" ELSE @]

\* InsertProductionItem, then CountItemsByStatus.
InsertAndCount ==
    LET i == ItemOf[consumer.event]
    IN  /\ ConsumerAt("upserted")
        /\ consumer' = [consumer EXCEPT
                          !.phase = "counted",
                          !.counts = ItemStatusCounts(ItemsOf(OrderOf[i]),
                                                      StatusWithInserted(i))]
        /\ UNCHANGED <<rows, queue, request>>

\* UpdateOrderStatus, the item.queued outbox row when the item is new, and
\* the commit, which makes all of the transaction's rows visible.
CommitItemRequested ==
    LET i   == ItemOf[consumer.event]
        o   == OrderOf[i]
        new == itemStatus[i] = "none"
    IN  /\ ConsumerAt("counted")
        /\ processed' = processed \cup {consumer.event}
        /\ orderRow' = [orderRow EXCEPT ![o] =
                          UpdatedOrderRow(UpsertedOrderRow(@), consumer.counts)]
        /\ itemStatus' = StatusWithInserted(i)
        /\ itemVersion' = IF new THEN [itemVersion EXCEPT ![i] = 1] ELSE itemVersion
        /\ itemOutbox' = IF new
                           THEN [itemOutbox EXCEPT ![i] = Append(@, "item.queued")]
                           ELSE itemOutbox
        /\ consumer' = [consumer EXCEPT !.phase = "committed"]
        /\ UNCHANGED <<claimedBy, blockedReason, orderOutbox, queue, request>>

Ack ==
    /\ ConsumerAt("committed")
    /\ consumer' = NoDelivery
    /\ UNCHANGED <<rows, queue, request>>

\* Faulty variant: nack without requeue.
ConsumerFailsDropping ==
    /\ consumer # NoDelivery
    /\ consumer' = NoDelivery
    /\ UNCHANGED <<rows, queue, request>>

\* The handler returns an error (nack with requeue), the connection to the
\* broker is lost, or the process stops: an open transaction is rolled back
\* and the unacknowledged message goes back to the queue.
ConsumerFails ==
    /\ consumer # NoDelivery
    /\ queue' = [queue EXCEPT ![consumer.event] = @ + 1]
    /\ consumer' = NoDelivery
    /\ UNCHANGED <<rows, request>>

-----------------------------------------------------------------------------
(* A staff command: POST /api/v1/production/items/{itemId}/{command}.      *)

RequestAt(s, p) == request[s].phase = p

\* SELECT ... FOR UPDATE, then ValidateTransition on the row just read.  An
\* unknown item (404) or a command the table does not allow (409) ends the
\* transaction with nothing changed, so it is no step of the model.  The
\* caller may name the version it expects; by default it is the one read.
GetItemByID(s, i) ==
    /\ RequestAt(s, "none")
    /\ itemStatus[i] # "none"
    /\ ~ ItemLocked(i)
    /\ itemVersion[i] < MaxVersion
    /\ \E t \in validTransitions, expected \in 1..MaxVersion, reason \in BOOLEAN :
          /\ t[1] = itemStatus[i]
          /\ reason => t[2] = "block"
          /\ request' = [request EXCEPT ![s] =
                           [phase |-> "validated", item |-> i, command |-> t[2],
                            newStatus |-> t[3], expected |-> expected,
                            reason |-> reason, counts |-> NoCounts]]
    /\ UNCHANGED <<rows, queue, consumer>>

\* UPDATE ... WHERE id = ? AND version = ?: a version mismatch is a 409 and a
\* rollback.
UpdateItemStatus(s) ==
    /\ RequestAt(s, "validated")
    /\ request' = [request EXCEPT ![s] =
                     IF itemVersion[@.item] = @.expected
                       THEN [@ EXCEPT !.phase = "updated"]
                       ELSE NoRequest]
    /\ UNCHANGED <<rows, queue, consumer>>

\* Faulty variant: the count also sees what other commands have not committed.
CountItemsByStatusDirty(s) ==
    /\ RequestAt(s, "updated")
    /\ LET r     == request[s]
           dirty == [i \in Items |->
                       IF \E u \in Staff : /\ request[u].phase \notin {"none", "validated"}
                                           /\ request[u].item = i
                         THEN (CHOOSE q \in {request[u] : u \in Staff} :
                                 /\ q.phase \notin {"none", "validated"}
                                 /\ q.item = i).newStatus
                         ELSE itemStatus[i]]
       IN  request' = [request EXCEPT
                         ![s].phase = "counted",
                         ![s].counts = ItemStatusCounts(ItemsOf(OrderOf[r.item]), dirty)]
    /\ UNCHANGED <<rows, queue, consumer>>

\* Faulty variant: the items are counted before the item is updated.
CountItemsByStatusEarly(s) ==
    /\ RequestAt(s, "updated")
    /\ request' = [request EXCEPT
                     ![s].phase = "counted",
                     ![s].counts =
                        ItemStatusCounts(ItemsOf(OrderOf[request[s].item]), itemStatus)]
    /\ UNCHANGED <<rows, queue, consumer>>

\* SELECT status, COUNT(*): the snapshot of this transaction.
CountItemsByStatus(s) ==
    /\ RequestAt(s, "updated")
    /\ LET r == request[s]
       IN  request' = [request EXCEPT
                         ![s].phase = "counted",
                         ![s].counts =
                            ItemStatusCounts(ItemsOf(OrderOf[r.item]),
                              [itemStatus EXCEPT ![r.item] = r.newStatus])]
    /\ UNCHANGED <<rows, queue, consumer>>

\* Faulty variant: issued on another connection, the update also needs the
\* item its own transaction has locked.
UpdateOrderStatusOutside(s) ==
    /\ RequestAt(s, "counted")
    /\ ~ ItemLocked(request[s].item)
    /\ request' = [request EXCEPT ![s].phase = "derived"]
    /\ UNCHANGED <<rows, queue, consumer>>

\* UPDATE production_orders: waits for the order's row lock, writes what was
\* counted before.
UpdateOrderStatus(s) ==
    /\ RequestAt(s, "counted")
    /\ ~ OrderLocked(OrderOf[request[s].item])
    /\ request' = [request EXCEPT ![s].phase = "derived"]
    /\ UNCHANGED <<rows, queue, consumer>>

\* Faulty variant: the key is made from the new status alone.
RoutingKeyOfStatus(command) ==
    CASE command \in {"pickup", "resume"} -> "item.in_progress"
      [] command = "block" -> "item.blocked"
      [] command = "ready" -> "item.ready"

\* Faulty variant: the status is not lowered.
RoutingKeyRaw(command) ==
    CASE command \in {"pickup", "resume"} -> "item.IN_PROGRESS"
      [] command = "block" -> "item.BLOCKED"
      [] command = "ready" -> "item.READY"

RoutingKey(command) ==
    CASE command = "pickup" -> "item.in_progress"
      [] command = "resume" -> "item.resumed"
      [] command = "block"  -> "item.blocked"
      [] command = "ready"  -> "item.ready"

\* The outbox rows and the commit.  order.ready carries the counted ready
\* items and the total of the order row the transaction has locked.
CommitCommand(s) ==
    LET r == request[s]
        i == r.item
        o == OrderOf[i]
    IN  /\ RequestAt(s, "derived")
        /\ itemStatus' = [itemStatus EXCEPT ![i] = r.newStatus]
        /\ itemVersion' = [itemVersion EXCEPT ![i] = @ + 1]
        /\ claimedBy' = [claimedBy EXCEPT ![i] = IF r.command = "pickup" THEN s ELSE @]
        /\ blockedReason' = [blockedReason EXCEPT ![i] =
                               r.newStatus # "IN_PROGRESS" /\ (@ \/ r.reason)]
        /\ orderRow' = [orderRow EXCEPT ![o] = UpdatedOrderRow(@, r.counts)]
        /\ itemOutbox' = [itemOutbox EXCEPT ![i] = Append(@, RoutingKey(r.command))]
        /\ orderOutbox' = IF DeriveOrderStatus(r.counts) = "READY"
                            THEN [orderOutbox EXCEPT ![o] =
                                    Append(@, [ready |-> r.counts["READY"],
                                               total |-> orderRow[o].total])]
                            ELSE orderOutbox
        /\ request' = [request EXCEPT ![s] = NoRequest]
        /\ UNCHANGED <<processed, queue, consumer>>

\* A failing statement or commit, a lock wait timeout, a cancelled request
\* context or the end of the process: the transaction is rolled back.
CommandFails(s) ==
    /\ ~ RequestAt(s, "none")
    /\ request' = [request EXCEPT ![s] = NoRequest]
    /\ UNCHANGED <<rows, queue, consumer>>

-----------------------------------------------------------------------------
HandleMessage ==
    \/ InsertProcessedEvent
    \/ UpsertProductionOrder
    \/ InsertAndCount
    \/ CommitItemRequested
    \/ Ack

CommandStep(s) ==
    \/ UpdateItemStatus(s)
    \/ CountItemsByStatus(s)
    \/ UpdateOrderStatus(s)
    \/ CommitCommand(s)

Next ==
    \/ \E e \in Events : Deliver(e)
    \/ HandleMessage
    \/ ConsumerFails
    \/ \E s \in Staff :
          \/ \E i \in Items : GetItemByID(s, i)
          \/ CommandStep(s)
          \/ CommandFails(s)

Spec == Init /\ [][Next]_vars

-----------------------------------------------------------------------------
(* Type correctness.                                                       *)

Counts == [Statuses -> Nat]

OrderRows == [status : Statuses \cup {"none"}, total : Nat, ready : Nat,
              blocked : Nat, readyAt : BOOLEAN]

Deliveries == [phase : {"delivered", "recorded", "upserted", "counted", "committed"},
               event : Events, counts : Counts]

Requests == [phase : {"validated", "updated", "counted", "derived"},
             item : Items, command : Commands, newStatus : Statuses,
             expected : Nat, reason : BOOLEAN, counts : Counts]

RoutingKeys == {"item.queued", "item.in_progress", "item.resumed",
                "item.blocked", "item.ready"}

\* Every row, message and transaction record is of its declared type.
TypeOK ==
    /\ orderRow \in [Orders -> OrderRows]
    /\ itemStatus \in [Items -> Statuses \cup {"none"}]
    /\ itemVersion \in [Items -> Nat]
    /\ claimedBy \in [Items -> Staff \cup {NoStaff}]
    /\ blockedReason \in [Items -> BOOLEAN]
    /\ processed \in SUBSET Events
    /\ itemOutbox \in [Items -> Seq(RoutingKeys)]
    /\ orderOutbox \in [Orders -> Seq([ready : Nat, total : Nat])]
    /\ queue \in [Events -> Nat]
    /\ consumer \in {NoDelivery} \cup Deliveries
    /\ request \in [Staff -> {NoRequest} \cup Requests]

-----------------------------------------------------------------------------
(* Safety.                                                                 *)

\* The status an order should have, from the committed rows of its items.
DerivedStatus(o) == DeriveOrderStatus(ItemStatusCounts(ItemsOf(o), itemStatus))

Materialised(i) == itemStatus[i] # "none"

\* However often an event is delivered, retried or interrupted, it is counted
\* once: an item has a row exactly when an event for it was processed, an
\* order row appears with its first item, and total_item_count is the number
\* of processed events of the order.
ExactlyOnceIntake ==
    /\ \A i \in Items : Materialised(i) <=> \E e \in processed : ItemOf[e] = i
    /\ \A o \in Orders :
         /\ orderRow[o].total = Cardinality({e \in processed : OrderOf[ItemOf[e]] = o})
         /\ orderRow[o].status = "none" <=> \A i \in ItemsOf(o) : ~ Materialised(i)

\* What a command read under its row lock still holds when it acts on it: the
\* item has the status the transition was validated from and, once the
\* conditional update has matched, the expected version; no two commands work
\* on the same item.
ReadRowsAreCurrent ==
    \A s \in Staff :
        LET r == request[s]
        IN  ~ RequestAt(s, "none") =>
              /\ <<itemStatus[r.item], r.command, r.newStatus>> \in validTransitions
              /\ ~ RequestAt(s, "validated") => itemVersion[r.item] = r.expected
              /\ \A u \in Staff \ {s} :
                    ~ RequestAt(u, "none") => request[u].item # r.item

\* The status an item event announces.
Announces(key) ==
    CASE key = "item.queued"  -> "QUEUED"
      [] key = "item.blocked" -> "BLOCKED"
      [] key = "item.ready"   -> "READY"
      [] OTHER                -> "IN_PROGRESS"

\* The outbox of an item tells its whole life: one row per version, the last
\* one announcing the item's status, whatever was rolled back meanwhile.
OutboxTellsTheItem ==
    \A i \in Items :
        /\ Len(itemOutbox[i]) = itemVersion[i]
        /\ Materialised(i) =>
              /\ itemVersion[i] > 0
              /\ itemStatus[i] = Announces(itemOutbox[i][itemVersion[i]])
        /\ ~ Materialised(i) => itemVersion[i] = 0

\* Of several staff members who pick an item up only one succeeds: at most
\* one pickup is announced, exactly when the item is claimed.
ClaimedOnce ==
    \A i \in Items :
        LET pickups == {k \in DOMAIN itemOutbox[i] : itemOutbox[i][k] = "item.in_progress"}
        IN  /\ \A k, l \in pickups : k = l
            /\ claimedBy[i] # NoStaff <=> pickups # {}

\* Every order.ready event is true of the items it counted, and stays so: at
\* least that many items of the order are READY, and it never counts more
\* items than the order has.
AnnouncedItemsAreReady ==
    \A o \in Orders : \A k \in DOMAIN orderOutbox[o] :
        LET event == orderOutbox[o][k]
        IN  /\ event.ready <= Cardinality({i \in ItemsOf(o) : itemStatus[i] = "READY"})
            /\ event.ready <= event.total
            /\ event.ready > 0

\* An order is announced again only after it has grown: successive
\* order.ready events count more and more ready items, however the commands
\* that wrote them overlapped.
AnnouncementsGrow ==
    \A o \in Orders : \A k, l \in DOMAIN orderOutbox[o] :
        k < l => orderOutbox[o][k].ready < orderOutbox[o][l].ready

\* ready_at is set exactly for the orders that were announced, and an order
\* shown READY shows the count of its latest announcement.  Only a command
\* announces, so this takes that orders-service asks for a unit once: a second
\* event for a unit lets UpdateOrderStatus of the consumer be the one that
\* finds a finished order READY.
ReadyIsAnnounced ==
    \A o \in Orders :
        LET n == Len(orderOutbox[o])
        IN  /\ orderRow[o].readyAt <=> n > 0
            /\ orderRow[o].status = "READY" =>
                  /\ n > 0
                  /\ orderRow[o].ready = orderOutbox[o][n].ready

\* With a single item there is nothing to race with: the order always shows
\* the status of its item.
SingleUnitOrderExact ==
    \A o \in Orders : \A i \in ItemsOf(o) :
        ItemsOf(o) = {i} => orderRow[o].status = itemStatus[i]

-----------------------------------------------------------------------------
(* Action properties.                                                      *)

\* READY and a claim are for ever, and an item never loses its row.
NothingIsUndone ==
    [][\A i \in Items :
          /\ itemStatus[i] = "READY" => itemStatus'[i] = "READY"
          /\ claimedBy[i] # NoStaff => claimedBy'[i] = claimedBy[i]
          /\ Materialised(i) => itemStatus'[i] # "none"]_vars

\* The consumer counts under the order's row lock, so whatever the staff does
\* meanwhile the row it commits is exact.
ConsumerWritesExactStatus ==
    [][processed' # processed =>
          LET o      == OrderOf[ItemOf[consumer.event]]
              counts == ItemStatusCounts(ItemsOf(o), itemStatus')
          IN  /\ orderRow'[o].status = DeriveOrderStatus(counts)
              /\ orderRow'[o].ready = counts["READY"]
              /\ orderRow'[o].blocked = counts["BLOCKED"]]_vars

-----------------------------------------------------------------------------
(* What the repository's documents say, and the code does not do.          *)

\* Nothing is waiting or running: every event was processed and acknowledged
\* and no command is in flight.
Settled ==
    /\ consumer = NoDelivery
    /\ \A e \in Events : queue[e] = 0 /\ e \in processed
    /\ \A s \in Staff : RequestAt(s, "none")

\* When all items of an order are READY the order is marked READY and
\* announced (domain-brain/flows/order-production.md, step 12), at the latest
\* once nothing is running any more.
AllReadyOrderIsReady ==
    Settled =>
        \A o \in Orders :
            ItemsOf(o) # {} /\ (\A i \in ItemsOf(o) : itemStatus[i] = "READY")
                => orderRow[o].status = "READY" /\ orderOutbox[o] # <<>>

-----------------------------------------------------------------------------
(* Liveness.  The consumer loop takes the next delivery whenever it is free *)
(* and goes on with the one it has; an outage of the database or the broker *)
(* fails deliveries any number of times but not for ever.  InnoDB serves    *)
(* those who wait for a row lock in turn, so a step that waits for the      *)
(* order's lock is strongly fair.  Nothing obliges the staff to act.        *)

Fairness ==
    /\ WF_vars(\E e \in Events : Deliver(e))
    /\ WF_vars(HandleMessage)
    /\ SF_vars(UpsertProductionOrder)
    /\ \A s \in Staff : SF_vars(CommandStep(s))

OutagesEnd == <>[][~ ConsumerFails]_vars

FairSpec == Spec /\ Fairness /\ OutagesEnd

\* Every queued request becomes an item, through any number of failed
\* deliveries and however often commands take the order's lock.
EveryRequestMaterialises ==
    \A e \in Events : queue[e] > 0 ~> Materialised(ItemOf[e])

\* No command waits for ever: the locks of commands and consumer are always
\* taken in an order that lets somebody finish.
EveryCommandEnds ==
    \A s \in Staff : ~ RequestAt(s, "none") ~> RequestAt(s, "none")

-----------------------------------------------------------------------------
(* Refinement: seen through its committed rows, the service does what      *)
(* ItemLifecycle promises.                                                 *)

Lifecycle == INSTANCE ItemLifecycle
                WITH status <- itemStatus, announced <- itemOutbox

ImplementsLifecycle == Lifecycle!Spec
=============================================================================
