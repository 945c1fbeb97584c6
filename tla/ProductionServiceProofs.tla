----------------------- MODULE ProductionServiceProofs -----------------------
(***************************************************************************)
(* Machine-checked proofs about ProductionService, for every set of        *)
(* orders, items, events and staff members.                                *)
(***************************************************************************)
EXTENDS ProductionService, FiniteSetTheorems, TLAPS

-----------------------------------------------------------------------------
(* The operators the actions are built from.                               *)

\* Counting the items of an order yields a number for every status.
LEMMA CountsType ==
    ASSUME NEW o \in Orders, NEW f
    PROVE  ItemStatusCounts(ItemsOf(o), f) \in Counts
<1>1. \A s \in Statuses : Cardinality({i \in ItemsOf(o) : f[i] = s}) \in Nat
  <2> TAKE s \in Statuses
  <2>1. {i \in ItemsOf(o) : f[i] = s} \subseteq Items
    BY DEF ItemsOf
  <2>2. IsFiniteSet({i \in ItemsOf(o) : f[i] = s})
    BY <2>1, FS_Subset, ConstantsAssumption
  <2> QED
    BY <2>2, FS_CardinalityType
<1> QED
  BY <1>1 DEF ItemStatusCounts, Counts

\* The derived status is one of the five statuses.
LEMMA DeriveType ==
    ASSUME NEW c \in Counts
    PROVE  DeriveOrderStatus(c) \in Statuses
BY DEF DeriveOrderStatus, Statuses, Counts

\* Writing counts into an order row gives an order row.
LEMMA UpdatedRowType ==
    ASSUME NEW row \in OrderRows, NEW c \in Counts
    PROVE  UpdatedOrderRow(row, c) \in OrderRows
<1>1. DeriveOrderStatus(c) \in Statuses
  BY DeriveType
<1>2. c["READY"] \in Nat /\ c["BLOCKED"] \in Nat
  BY DEF Counts, Statuses
<1> QED
  BY <1>1, <1>2 DEF UpdatedOrderRow, OrderRows

LEMMA UpsertedRowType ==
    ASSUME NEW row \in OrderRows
    PROVE  UpsertedOrderRow(row) \in OrderRows
BY DEF UpsertedOrderRow, OrderRows

LEMMA NoCountsType == NoCounts \in Counts
BY DEF NoCounts, Counts

\* A transition of the table is made by a command and leads to a status.
LEMMA TransitionType ==
    ASSUME NEW t \in validTransitions
    PROVE  t[1] \in Statuses /\ t[2] \in Commands /\ t[3] \in Statuses
BY DEF validTransitions, Statuses, Commands

LEMMA RoutingKeyType ==
    ASSUME NEW c \in Commands
    PROVE  RoutingKey(c) \in RoutingKeys
BY DEF Commands, RoutingKey, RoutingKeys

-----------------------------------------------------------------------------
(* Type correctness.                                                       *)

LEMMA TypeInit == Init => TypeOK
BY ConstantsAssumption
   DEF Init, TypeOK, NoOrderRow, OrderRows, NoRequest, NoDelivery

LEMMA TypeDeliver ==
    ASSUME TypeOK, NEW e \in Events, Deliver(e)
    PROVE  TypeOK'
BY NoCountsType DEF TypeOK, Deliver, rows, ConsumerAt, Deliveries

\* A delivery in progress is of the declared type.
LEMMA DeliveryType ==
    ASSUME TypeOK, consumer.phase # "none"
    PROVE  consumer \in Deliveries
BY DEF TypeOK, NoDelivery

\* A command in progress is of the declared type.
LEMMA RequestType ==
    ASSUME TypeOK, NEW s \in Staff, request[s].phase # "none"
    PROVE  request[s] \in Requests
BY DEF TypeOK, NoRequest

LEMMA TypeHandleMessage ==
    ASSUME TypeOK, HandleMessage
    PROVE  TypeOK'
<1> DEFINE i == ItemOf[consumer.event]
           o == OrderOf[i]
<1>1. consumer \in Deliveries
  BY DeliveryType DEF HandleMessage, InsertProcessedEvent, UpsertProductionOrder,
       InsertAndCount, CommitItemRequested, Ack, ConsumerAt
<1>2. i \in Items /\ o \in Orders /\ consumer.event \in Events /\ consumer.counts \in Counts
  BY <1>1, ConstantsAssumption DEF Deliveries
<1>3. CASE InsertProcessedEvent
  BY <1>1, <1>3 DEF TypeOK, InsertProcessedEvent, Deliveries, rows
<1>4. CASE UpsertProductionOrder
  BY <1>1, <1>4 DEF TypeOK, UpsertProductionOrder, Deliveries, rows
<1>5. CASE InsertAndCount
  <2>1. ItemStatusCounts(ItemsOf(o), StatusWithInserted(i)) \in Counts
    BY <1>2, CountsType
  <2> QED
    BY <1>1, <1>5, <2>1 DEF TypeOK, InsertAndCount, Deliveries, rows
<1>6. CASE CommitItemRequested
  <2>1. orderRow' \in [Orders -> OrderRows]
    <3>1. UpdatedOrderRow(UpsertedOrderRow(orderRow[o]), consumer.counts) \in OrderRows
      BY <1>2, UpsertedRowType, UpdatedRowType DEF TypeOK
    <3> QED
      BY <1>6, <3>1 DEF TypeOK, CommitItemRequested
  <2>2. itemStatus' \in [Items -> Statuses \cup {"none"}]
    BY <1>2, <1>6 DEF TypeOK, CommitItemRequested, StatusWithInserted, Statuses
  <2>3. itemVersion' \in [Items -> Nat]
    BY <1>2, <1>6 DEF TypeOK, CommitItemRequested
  <2>4. itemOutbox' \in [Items -> Seq(RoutingKeys)]
    <3>1. Append(itemOutbox[i], "item.queued") \in Seq(RoutingKeys)
      BY <1>2 DEF TypeOK, RoutingKeys
    <3> QED
      BY <1>2, <1>6, <3>1 DEF TypeOK, CommitItemRequested
  <2>5. processed' \in SUBSET Events
    BY <1>2, <1>6 DEF TypeOK, CommitItemRequested
  <2>6. consumer' \in Deliveries
    BY <1>1, <1>6 DEF CommitItemRequested, Deliveries
  <2> QED
    BY <1>6, <2>1, <2>2, <2>3, <2>4, <2>5, <2>6 DEF TypeOK, CommitItemRequested
<1>7. CASE Ack
  BY <1>7 DEF TypeOK, Ack, rows
<1> QED
  BY <1>3, <1>4, <1>5, <1>6, <1>7 DEF HandleMessage

LEMMA TypeConsumerFails ==
    ASSUME TypeOK, ConsumerFails
    PROVE  TypeOK'
BY DEF TypeOK, ConsumerFails, rows, NoDelivery, Deliveries

LEMMA TypeGetItem ==
    ASSUME TypeOK, NEW s \in Staff, NEW i \in Items, GetItemByID(s, i)
    PROVE  TypeOK'
<1>1. PICK t \in validTransitions, expected \in 1..MaxVersion, reason \in BOOLEAN :
         request' = [request EXCEPT ![s] =
                       [phase |-> "validated", item |-> i, command |-> t[2],
                        newStatus |-> t[3], expected |-> expected,
                        reason |-> reason, counts |-> NoCounts]]
  BY DEF GetItemByID
<1>2. expected \in Nat
  BY ConstantsAssumption
<1>3. [phase |-> "validated", item |-> i, command |-> t[2],
       newStatus |-> t[3], expected |-> expected,
       reason |-> reason, counts |-> NoCounts] \in Requests
  BY <1>2, TransitionType, NoCountsType DEF Requests
<1>4. request' \in [Staff -> {NoRequest} \cup Requests]
  BY <1>1, <1>3 DEF TypeOK
<1> QED
  BY <1>4 DEF TypeOK, GetItemByID, rows

LEMMA TypeCommandStep ==
    ASSUME TypeOK, NEW s \in Staff, CommandStep(s)
    PROVE  TypeOK'
<1> DEFINE r == request[s]
           i == r.item
           o == OrderOf[i]
<1>1. r \in Requests
  BY RequestType DEF CommandStep, UpdateItemStatus, CountItemsByStatus,
       UpdateOrderStatus, CommitCommand, RequestAt
<1>2. i \in Items /\ o \in Orders /\ r.counts \in Counts /\ r.newStatus \in Statuses
      /\ r.command \in Commands /\ r.reason \in BOOLEAN
  BY <1>1, ConstantsAssumption DEF Requests
<1>3. CASE UpdateItemStatus(s)
  <2>1. request' \in [Staff -> {NoRequest} \cup Requests]
    <3>1. [r EXCEPT !.phase = "updated"] \in Requests
      BY <1>1 DEF Requests
    <3> QED
      BY <1>3, <3>1 DEF TypeOK, UpdateItemStatus
  <2> QED
    BY <1>3, <2>1 DEF TypeOK, UpdateItemStatus, rows
<1>4. CASE CountItemsByStatus(s)
  <2> DEFINE c == ItemStatusCounts(ItemsOf(o), [itemStatus EXCEPT ![i] = r.newStatus])
  <2>1. c \in Counts
    BY <1>2, CountsType
  <2>2. [[r EXCEPT !.phase = "counted"] EXCEPT !.counts = c] \in Requests
    BY <1>1, <2>1 DEF Requests
  <2> HIDE DEF c
  <2>3. request' = [request EXCEPT ![s] = [[r EXCEPT !.phase = "counted"] EXCEPT !.counts = c]]
    BY <1>4 DEF CountItemsByStatus, c, TypeOK
  <2>4. request' \in [Staff -> {NoRequest} \cup Requests]
    BY <2>2, <2>3 DEF TypeOK
  <2> QED
    BY <1>4, <2>4 DEF TypeOK, CountItemsByStatus, rows
<1>5. CASE UpdateOrderStatus(s)
  <2>1. request' \in [Staff -> {NoRequest} \cup Requests]
    <3>1. [r EXCEPT !.phase = "derived"] \in Requests
      BY <1>1 DEF Requests
    <3> QED
      BY <1>5, <3>1 DEF TypeOK, UpdateOrderStatus
  <2> QED
    BY <1>5, <2>1 DEF TypeOK, UpdateOrderStatus, rows
<1>6. CASE CommitCommand(s)
  <2>1. orderRow' \in [Orders -> OrderRows]
    BY <1>2, <1>6, UpdatedRowType DEF TypeOK, CommitCommand
  <2>2. itemStatus' \in [Items -> Statuses \cup {"none"}]
    BY <1>2, <1>6 DEF TypeOK, CommitCommand
  <2>3. itemVersion' \in [Items -> Nat]
    BY <1>2, <1>6 DEF TypeOK, CommitCommand
  <2>4. claimedBy' \in [Items -> Staff \cup {NoStaff}]
    BY <1>2, <1>6 DEF TypeOK, CommitCommand
  <2>5. blockedReason' \in [Items -> BOOLEAN]
    BY <1>2, <1>6 DEF TypeOK, CommitCommand
  <2>6. itemOutbox' \in [Items -> Seq(RoutingKeys)]
    <3>1. Append(itemOutbox[i], RoutingKey(r.command)) \in Seq(RoutingKeys)
      BY <1>2, RoutingKeyType DEF TypeOK
    <3> QED
      BY <1>6, <3>1 DEF TypeOK, CommitCommand
  <2>7. orderOutbox' \in [Orders -> Seq([ready : Nat, total : Nat])]
    <3> DEFINE event == [ready |-> r.counts["READY"], total |-> orderRow[o].total]
    <3>1. event \in [ready : Nat, total : Nat]
      BY <1>2 DEF TypeOK, Counts, Statuses, OrderRows
    <3>2. Append(orderOutbox[o], event) \in Seq([ready : Nat, total : Nat])
      BY <1>2, <3>1 DEF TypeOK
    <3> QED
      BY <1>6, <3>2 DEF TypeOK, CommitCommand
  <2>8. request' \in [Staff -> {NoRequest} \cup Requests]
    BY <1>6 DEF TypeOK, CommitCommand
  <2> QED
    BY <1>6, <2>1, <2>2, <2>3, <2>4, <2>5, <2>6, <2>7, <2>8 DEF TypeOK, CommitCommand
<1> QED
  BY <1>3, <1>4, <1>5, <1>6 DEF CommandStep

LEMMA TypeCommandFails ==
    ASSUME TypeOK, NEW s \in Staff, CommandFails(s)
    PROVE  TypeOK'
BY DEF TypeOK, CommandFails, rows

LEMMA TypeNext == TypeOK /\ [Next]_vars => TypeOK'
<1> SUFFICES ASSUME TypeOK, [Next]_vars PROVE TypeOK'
  OBVIOUS
<1>1. CASE UNCHANGED vars
  BY <1>1 DEF TypeOK, vars, rows
<1> QED
  BY <1>1, TypeDeliver, TypeHandleMessage, TypeConsumerFails, TypeGetItem,
     TypeCommandStep, TypeCommandFails DEF Next

\* Every row, message and transaction record always has its declared type.
THEOREM TypeCorrect == Spec => []TypeOK
BY TypeInit, TypeNext, PTL DEF Spec

-----------------------------------------------------------------------------
(* Row locks on items: what a command read is still there when it acts.    *)

\* The fields of a typed command and delivery.
LEMMA ActiveRequest ==
    ASSUME TypeOK, NEW s \in Staff, request[s].phase # "none"
    PROVE  /\ request[s].item \in Items
           /\ request[s].command \in Commands
           /\ request[s].newStatus \in Statuses
           /\ request[s].counts \in Counts
           /\ OrderOf[request[s].item] \in Orders
<1>1. request[s] \in Requests
  BY RequestType
<1> QED
  BY <1>1, ConstantsAssumption DEF Requests

LEMMA ActiveDelivery ==
    ASSUME TypeOK, consumer.phase # "none"
    PROVE  /\ consumer.event \in Events
           /\ ItemOf[consumer.event] \in Items
           /\ OrderOf[ItemOf[consumer.event]] \in Orders
           /\ consumer.counts \in Counts
<1>1. consumer \in Deliveries
  BY DeliveryType
<1> QED
  BY <1>1, ConstantsAssumption DEF Deliveries

LEMMA ReadRowsNext ==
    ASSUME TypeOK, ReadRowsAreCurrent, [Next]_vars
    PROVE  ReadRowsAreCurrent'
<1> USE DEF ReadRowsAreCurrent, RequestAt
<1>1. ASSUME UNCHANGED <<itemStatus, itemVersion, request>>
      PROVE  ReadRowsAreCurrent'
  BY <1>1
<1>2. ASSUME NEW s \in Staff, NEW i \in Items, GetItemByID(s, i)
      PROVE  ReadRowsAreCurrent'
  <2>1. PICK t \in validTransitions, expected \in 1..MaxVersion, reason \in BOOLEAN :
           /\ t[1] = itemStatus[i]
           /\ request' = [request EXCEPT ![s] =
                            [phase |-> "validated", item |-> i, command |-> t[2],
                             newStatus |-> t[3], expected |-> expected,
                             reason |-> reason, counts |-> NoCounts]]
    BY <1>2 DEF GetItemByID
  <2>2. t = <<t[1], t[2], t[3]>>
    BY DEF validTransitions
  <2>3. \A u \in Staff : request[u].phase # "none" => request[u].item # i
    BY <1>2 DEF GetItemByID, ItemLocked
  <2>4. UNCHANGED <<itemStatus, itemVersion>>
    BY <1>2 DEF GetItemByID, rows
  <2>5. /\ request'[s].phase = "validated"
        /\ request'[s].item = i
        /\ request'[s].command = t[2]
        /\ request'[s].newStatus = t[3]
        /\ \A u \in Staff \ {s} : request'[u] = request[u]
    BY <2>1 DEF TypeOK
  <2> QED
    BY <2>1, <2>2, <2>3, <2>4, <2>5
<1>3. ASSUME NEW s \in Staff, UpdateItemStatus(s)
      PROVE  ReadRowsAreCurrent'
  <2>1. /\ request'[s] = NoRequest \/ /\ request'[s] = [request[s] EXCEPT !.phase = "updated"]
                                      /\ itemVersion[request[s].item] = request[s].expected
        /\ \A u \in Staff \ {s} : request'[u] = request[u]
    BY <1>3 DEF UpdateItemStatus, TypeOK
  <2>2. request[s] \in Requests
    BY <1>3, RequestType DEF UpdateItemStatus
  <2>3. UNCHANGED <<itemStatus, itemVersion>>
    BY <1>3 DEF UpdateItemStatus, rows
  <2> QED
    BY <1>3, <2>1, <2>2, <2>3 DEF UpdateItemStatus, NoRequest, Requests
<1>4. ASSUME NEW s \in Staff, CountItemsByStatus(s) \/ UpdateOrderStatus(s)
      PROVE  ReadRowsAreCurrent'
  <2>1. request[s] \in Requests /\ request[s].phase \notin {"none", "validated"}
    BY <1>4, RequestType DEF CountItemsByStatus, UpdateOrderStatus
  <2>2. /\ request'[s].phase \in {"counted", "derived"}
        /\ request'[s].item = request[s].item
        /\ request'[s].command = request[s].command
        /\ request'[s].newStatus = request[s].newStatus
        /\ request'[s].expected = request[s].expected
    <3>1. CASE CountItemsByStatus(s)
      BY <2>1, <3>1 DEF CountItemsByStatus, TypeOK, Requests
    <3>2. CASE UpdateOrderStatus(s)
      BY <2>1, <3>2 DEF UpdateOrderStatus, TypeOK, Requests
    <3> QED
      BY <1>4, <3>1, <3>2
  <2>3. \A u \in Staff \ {s} : request'[u] = request[u]
    BY <1>4 DEF CountItemsByStatus, UpdateOrderStatus, TypeOK
  <2>4. UNCHANGED <<itemStatus, itemVersion>>
    BY <1>4 DEF CountItemsByStatus, UpdateOrderStatus, rows
  <2> QED
    BY <2>1, <2>2, <2>3, <2>4
<1>5. ASSUME NEW s \in Staff, CommitCommand(s)
      PROVE  ReadRowsAreCurrent'
  <2>1. request'[s] = NoRequest /\ \A u \in Staff \ {s} : request'[u] = request[u]
    BY <1>5 DEF CommitCommand, TypeOK
  <2>2. \A j \in Items : j # request[s].item =>
           itemStatus'[j] = itemStatus[j] /\ itemVersion'[j] = itemVersion[j]
    BY <1>5 DEF CommitCommand, TypeOK
  <2>3. \A u \in Staff \ {s} : request[u].phase # "none" =>
           request[u].item # request[s].item /\ request[u].item \in Items
    BY <1>5, ActiveRequest DEF CommitCommand
  <2> QED
    BY <2>1, <2>2, <2>3 DEF NoRequest
<1>6. ASSUME NEW s \in Staff, CommandFails(s)
      PROVE  ReadRowsAreCurrent'
  BY <1>6 DEF CommandFails, NoRequest, TypeOK, rows
<1>7. CASE CommitItemRequested
  <2> DEFINE i == ItemOf[consumer.event]
  <2>1. i \in Items
    BY <1>7, ActiveDelivery DEF CommitItemRequested, ConsumerAt
  <2>2. \A s \in Staff : request[s].phase # "none" =>
           request[s].item \in Items /\ itemStatus[request[s].item] # "none"
    BY ActiveRequest DEF validTransitions
  <2>3. \A j \in Items : itemStatus[j] # "none" =>
           itemStatus'[j] = itemStatus[j] /\ itemVersion'[j] = itemVersion[j]
    BY <1>7, <2>1 DEF CommitItemRequested, StatusWithInserted, TypeOK
  <2>4. request' = request
    BY <1>7 DEF CommitItemRequested
  <2> QED
    BY <2>2, <2>3, <2>4
<1> QED
  BY <1>1, <1>2, <1>3, <1>4, <1>5, <1>6, <1>7
     DEF Next, vars, rows, Deliver, HandleMessage, InsertProcessedEvent,
         UpsertProductionOrder, InsertAndCount, Ack, ConsumerFails, CommandStep

\* What a command validated and the version it matched stay true until it
\* commits, however commands, consumer and failures interleave.
THEOREM ReadRowsCurrent == Spec => []ReadRowsAreCurrent
<1>1. Init => ReadRowsAreCurrent
  BY DEF Init, ReadRowsAreCurrent, RequestAt, NoRequest
<1> QED
  BY <1>1, TypeCorrect, ReadRowsNext, PTL DEF Spec

-----------------------------------------------------------------------------
(* The committed rows implement the item lifecycle.                        *)

\* An item nobody has picked up is claimed by nobody.
UnclaimedUntilPickup ==
    \A i \in Items : itemStatus[i] \in {"none", "QUEUED"} => claimedBy[i] = NoStaff

\* A step either leaves the rows of the items alone, or adds an item, or is
\* the commit of a command.
LEMMA ItemRowsChange ==
    ASSUME [Next]_vars
    PROVE  \/ UNCHANGED <<itemStatus, claimedBy, itemOutbox, itemVersion>>
           \/ CommitItemRequested
           \/ \E s \in Staff : CommitCommand(s)
BY DEF Next, vars, rows, Deliver, HandleMessage, InsertProcessedEvent,
       UpsertProductionOrder, InsertAndCount, Ack, ConsumerFails, CommandStep,
       GetItemByID, UpdateItemStatus, CountItemsByStatus, UpdateOrderStatus,
       CommandFails

\* The commit of an item request is a Request step of the lifecycle or, when
\* the item exists, no step at all.
LEMMA CommitItemRequestedRefines ==
    ASSUME TypeOK, UnclaimedUntilPickup, CommitItemRequested
    PROVE  Lifecycle!Next \/ UNCHANGED Lifecycle!vars
<1> DEFINE i == ItemOf[consumer.event]
<1>1. i \in Items
  BY ActiveDelivery DEF CommitItemRequested, ConsumerAt
<1>2. CASE itemStatus[i] = "none"
  <2>1. Lifecycle!Request(i)
    BY <1>1, <1>2 DEF CommitItemRequested, StatusWithInserted, TypeOK,
         Lifecycle!Request, Lifecycle!Move
  <2> QED
    BY <1>1, <2>1 DEF Lifecycle!Next
<1>3. CASE itemStatus[i] # "none"
  <2>1. UNCHANGED <<itemStatus, claimedBy, itemOutbox>>
    BY <1>1, <1>3 DEF CommitItemRequested, StatusWithInserted, TypeOK
  <2> QED
    BY <2>1 DEF Lifecycle!vars
<1> QED
  BY <1>2, <1>3

\* The commit of a command is the lifecycle step of that command.
LEMMA CommitCommandRefines ==
    ASSUME TypeOK, ReadRowsAreCurrent, UnclaimedUntilPickup,
           NEW s \in Staff, CommitCommand(s)
    PROVE  Lifecycle!Next
<1> DEFINE r == request[s]
           i == r.item
<1>1. i \in Items /\ r.phase # "none"
  BY ActiveRequest DEF CommitCommand, RequestAt
<1>2. <<itemStatus[i], r.command, r.newStatus>> \in validTransitions
  BY <1>1 DEF ReadRowsAreCurrent, RequestAt
<1>3. /\ itemStatus' = [itemStatus EXCEPT ![i] = r.newStatus]
      /\ claimedBy' = [claimedBy EXCEPT ![i] = IF r.command = "pickup" THEN s ELSE @]
      /\ itemOutbox' = [itemOutbox EXCEPT ![i] = Append(@, RoutingKey(r.command))]
  BY DEF CommitCommand
<1>4. r.command # "pickup" => claimedBy' = claimedBy
  BY <1>1, <1>3 DEF TypeOK
<1> HIDE DEF r, i
<1>5. CASE r.command = "pickup"
  <2>1. itemStatus[i] = "QUEUED" /\ r.newStatus = "IN_PROGRESS"
    BY <1>2, <1>5 DEF validTransitions
  <2>2. Lifecycle!Pickup(i, s)
    BY <1>1, <1>3, <1>5, <2>1
       DEF RoutingKey, UnclaimedUntilPickup, Lifecycle!Pickup, Lifecycle!Move
  <2> QED
    BY <1>1, <2>2 DEF Lifecycle!Next
<1>6. CASE r.command = "block"
  <2>1. itemStatus[i] \in {"QUEUED", "IN_PROGRESS"} /\ r.newStatus = "BLOCKED"
    BY <1>2, <1>6 DEF validTransitions
  <2>2. Lifecycle!Block(i)
    BY <1>3, <1>4, <1>6, <2>1 DEF RoutingKey, Lifecycle!Block, Lifecycle!Move
  <2> QED
    BY <1>1, <2>2 DEF Lifecycle!Next
<1>7. CASE r.command = "resume"
  <2>1. itemStatus[i] = "BLOCKED" /\ r.newStatus = "IN_PROGRESS"
    BY <1>2, <1>7 DEF validTransitions
  <2>2. Lifecycle!Resume(i)
    BY <1>3, <1>4, <1>7, <2>1 DEF RoutingKey, Lifecycle!Resume, Lifecycle!Move
  <2> QED
    BY <1>1, <2>2 DEF Lifecycle!Next
<1>8. CASE r.command = "ready"
  <2>1. itemStatus[i] = "IN_PROGRESS" /\ r.newStatus = "READY"
    BY <1>2, <1>8 DEF validTransitions
  <2>2. Lifecycle!Finish(i)
    BY <1>3, <1>4, <1>8, <2>1 DEF RoutingKey, Lifecycle!Finish, Lifecycle!Move
  <2> QED
    BY <1>1, <2>2 DEF Lifecycle!Next
<1> QED
  BY <1>2, <1>5, <1>6, <1>7, <1>8 DEF validTransitions

\* Every step of the service is a step of the lifecycle or changes nothing
\* the lifecycle shows.
LEMMA LifecycleStep ==
    ASSUME TypeOK, ReadRowsAreCurrent, UnclaimedUntilPickup, [Next]_vars
    PROVE  [Lifecycle!Next]_(Lifecycle!vars)
BY ItemRowsChange, CommitItemRequestedRefines, CommitCommandRefines DEF Lifecycle!vars

LEMMA UnclaimedNext ==
    ASSUME TypeOK, ReadRowsAreCurrent, UnclaimedUntilPickup, [Next]_vars
    PROVE  UnclaimedUntilPickup'
<1> USE DEF UnclaimedUntilPickup
<1>1. CASE UNCHANGED <<itemStatus, claimedBy, itemOutbox, itemVersion>>
  BY <1>1
<1>2. CASE CommitItemRequested
  BY <1>2, ActiveDelivery
     DEF CommitItemRequested, ConsumerAt, StatusWithInserted, TypeOK
<1>3. ASSUME NEW s \in Staff, CommitCommand(s) PROVE UnclaimedUntilPickup'
  <2>1. request[s].newStatus \notin {"none", "QUEUED"}
    BY <1>3 DEF CommitCommand, RequestAt, ReadRowsAreCurrent, validTransitions
  <2> QED
    BY <1>3, <2>1 DEF CommitCommand, TypeOK
<1> QED
  BY <1>1, <1>2, <1>3, ItemRowsChange

THEOREM Unclaimed == Spec => []UnclaimedUntilPickup
<1>1. Init => UnclaimedUntilPickup
  BY DEF Init, UnclaimedUntilPickup
<1> QED
  BY <1>1, TypeCorrect, ReadRowsCurrent, UnclaimedNext, PTL DEF Spec

\* Seen through its committed rows, production-service with its overlapping
\* transactions, rollbacks and redeliveries implements the atomic lifecycle.
THEOREM LifecycleImplemented == Spec => ImplementsLifecycle
<1>1. Init => Lifecycle!Init
  BY DEF Init, Lifecycle!Init
<1> QED
  BY <1>1, TypeCorrect, ReadRowsCurrent, Unclaimed, LifecycleStep, PTL
     DEF Spec, ImplementsLifecycle, Lifecycle!Spec

\* A committing transaction neither takes back READY nor a claim nor a row.
LEMMA CommitItemRequestedKeeps ==
    ASSUME TypeOK, CommitItemRequested, NEW i \in Items
    PROVE  /\ itemStatus[i] # "none" => itemStatus'[i] = itemStatus[i]
           /\ claimedBy' = claimedBy
<1> DEFINE j == ItemOf[consumer.event]
<1>1. itemStatus' = [itemStatus EXCEPT ![j] = IF @ = "none" THEN "QUEUED" ELSE @]
  BY DEF CommitItemRequested, StatusWithInserted
<1>2. j \in Items
  BY ActiveDelivery DEF CommitItemRequested, ConsumerAt
<1>3. claimedBy' = claimedBy
  BY DEF CommitItemRequested
<1> HIDE DEF j
<1> QED
  BY <1>1, <1>2, <1>3 DEF TypeOK

LEMMA CommitCommandKeeps ==
    ASSUME TypeOK, ReadRowsAreCurrent, UnclaimedUntilPickup,
           NEW s \in Staff, CommitCommand(s), NEW i \in Items
    PROVE  /\ itemStatus[i] = "READY" => itemStatus'[i] = "READY"
           /\ claimedBy[i] # NoStaff => claimedBy'[i] = claimedBy[i]
           /\ itemStatus[i] # "none" => itemStatus'[i] # "none"
<1> DEFINE r == request[s]
           j == r.item
<1>1. j \in Items /\ r.phase # "none"
  BY ActiveRequest DEF CommitCommand, RequestAt
<1>2. <<itemStatus[j], r.command, r.newStatus>> \in validTransitions
  BY <1>1 DEF ReadRowsAreCurrent, RequestAt
<1>3. /\ itemStatus' = [itemStatus EXCEPT ![j] = r.newStatus]
      /\ claimedBy' = [claimedBy EXCEPT ![j] = IF r.command = "pickup" THEN s ELSE @]
  BY DEF CommitCommand
<1> HIDE DEF r, j
<1>4. /\ itemStatus[j] # "READY"
      /\ r.newStatus # "none"
      /\ r.command = "pickup" => itemStatus[j] = "QUEUED"
  BY <1>2 DEF validTransitions
<1>5. r.command = "pickup" => claimedBy[j] = NoStaff
  BY <1>1, <1>4 DEF UnclaimedUntilPickup
<1>6. CASE i = j
  BY <1>1, <1>3, <1>4, <1>5, <1>6 DEF TypeOK
<1>7. CASE i # j
  BY <1>1, <1>3, <1>7 DEF TypeOK
<1> QED
  BY <1>6, <1>7

\* READY and a claim are for ever and no item disappears.
THEOREM NothingUndone == Spec => NothingIsUndone
<1> DEFINE Kept ==
      \A i \in Items :
          /\ itemStatus[i] = "READY" => itemStatus'[i] = "READY"
          /\ claimedBy[i] # NoStaff => claimedBy'[i] = claimedBy[i]
          /\ Materialised(i) => itemStatus'[i] # "none"
<1>1. ASSUME TypeOK, ReadRowsAreCurrent, UnclaimedUntilPickup, [Next]_vars
      PROVE  Kept
  <2>1. CASE UNCHANGED <<itemStatus, claimedBy, itemOutbox, itemVersion>>
    BY <2>1 DEF Materialised
  <2>2. CASE CommitItemRequested
    BY <1>1, <2>2, CommitItemRequestedKeeps DEF Materialised
  <2>3. ASSUME NEW s \in Staff, CommitCommand(s) PROVE Kept
    BY <1>1, <2>3, CommitCommandKeeps DEF Materialised
  <2> QED
    BY <1>1, <2>1, <2>2, <2>3, ItemRowsChange
<1>2. ASSUME TypeOK, ReadRowsAreCurrent, UnclaimedUntilPickup, [Next]_vars
      PROVE  [Kept]_vars
  BY <1>1, <1>2
<1> QED
  BY <1>2, TypeCorrect, ReadRowsCurrent, Unclaimed, PTL DEF Spec, NothingIsUndone

-----------------------------------------------------------------------------
(* The outbox of an item and its claim.                                    *)

\* Every command announces the status its transition leads to; only pickup
\* announces item.in_progress.
LEMMA TransitionAnnounced ==
    ASSUME NEW t \in validTransitions
    PROVE  /\ Announces(RoutingKey(t[2])) = t[3]
           /\ t[3] \notin {"none", "QUEUED"}
           /\ RoutingKey(t[2]) = "item.in_progress" <=> t[2] = "pickup"
           /\ t[2] = "pickup" => t[1] = "QUEUED"
BY DEF validTransitions, RoutingKey, Announces

\* Appending adds one element at the end and keeps the others.
LEMMA AppendFacts ==
    ASSUME NEW S, NEW q \in Seq(S), NEW x \in S
    PROVE  /\ Append(q, x) \in Seq(S)
           /\ Len(Append(q, x)) = Len(q) + 1
           /\ DOMAIN Append(q, x) = DOMAIN q \cup {Len(q) + 1}
           /\ Len(q) + 1 \notin DOMAIN q
           /\ Append(q, x)[Len(q) + 1] = x
           /\ \A k \in DOMAIN q : Append(q, x)[k] = q[k]
<1>1. /\ Append(q, x) \in Seq(S)
      /\ Len(Append(q, x)) = Len(q) + 1
      /\ Len(q) \in Nat
      /\ DOMAIN q = 1..Len(q)
  OBVIOUS
<1>2. DOMAIN Append(q, x) = 1..(Len(q) + 1)
  BY <1>1
<1>3. /\ 1..(Len(q) + 1) = (1..Len(q)) \cup {Len(q) + 1}
      /\ Len(q) + 1 \notin 1..Len(q)
  BY <1>1
<1>4. /\ Append(q, x)[Len(q) + 1] = x
      /\ \A k \in 1..Len(q) : Append(q, x)[k] = q[k]
  OBVIOUS
<1> QED
  BY <1>1, <1>2, <1>3, <1>4

LEMMA ElementType ==
    ASSUME NEW S, NEW q \in Seq(S), NEW k \in DOMAIN q
    PROVE  q[k] \in S
OBVIOUS

\* What the commit of a command does to its item, with the triple of the
\* command table it was validated from.
LEMMA CommitCommandItem ==
    ASSUME TypeOK, ReadRowsAreCurrent, NEW s \in Staff, CommitCommand(s)
    PROVE  \E i \in Items, t \in validTransitions :
              /\ i = request[s].item
              /\ t[1] = itemStatus[i]
              /\ t[2] = request[s].command
              /\ t[3] = request[s].newStatus
              /\ itemStatus' = [itemStatus EXCEPT ![i] = t[3]]
              /\ itemVersion' = [itemVersion EXCEPT ![i] = @ + 1]
              /\ claimedBy' = [claimedBy EXCEPT ![i] = IF t[2] = "pickup" THEN s ELSE @]
              /\ itemOutbox' = [itemOutbox EXCEPT ![i] = Append(@, RoutingKey(t[2]))]
<1>1. request[s].item \in Items /\ request[s].phase # "none"
  BY ActiveRequest DEF CommitCommand, RequestAt
<1>2. <<itemStatus[request[s].item], request[s].command, request[s].newStatus>>
         \in validTransitions
  BY <1>1 DEF ReadRowsAreCurrent, RequestAt
<1> QED
  BY <1>1, <1>2 DEF CommitCommand

\* What the commit of an item request does to the items: nothing when the
\* item exists.
LEMMA CommitItemRequestedItem ==
    ASSUME TypeOK, CommitItemRequested
    PROVE  \E i \in Items :
              /\ i = ItemOf[consumer.event]
              /\ claimedBy' = claimedBy
              /\ IF itemStatus[i] = "none"
                   THEN /\ itemStatus' = [itemStatus EXCEPT ![i] = "QUEUED"]
                        /\ itemVersion' = [itemVersion EXCEPT ![i] = 1]
                        /\ itemOutbox' = [itemOutbox EXCEPT ![i] = Append(@, "item.queued")]
                   ELSE UNCHANGED <<itemStatus, itemVersion, itemOutbox>>
<1>1. ItemOf[consumer.event] \in Items
  BY ActiveDelivery DEF CommitItemRequested, ConsumerAt
<1> QED
  BY <1>1 DEF CommitItemRequested, StatusWithInserted, TypeOK

LEMMA OutboxNext ==
    ASSUME TypeOK, ReadRowsAreCurrent, OutboxTellsTheItem, [Next]_vars
    PROVE  OutboxTellsTheItem'
<1> USE DEF OutboxTellsTheItem, Materialised
<1>1. CASE UNCHANGED <<itemStatus, claimedBy, itemOutbox, itemVersion>>
  BY <1>1
<1>2. CASE CommitItemRequested
  <2>1. PICK i \in Items :
           IF itemStatus[i] = "none"
             THEN /\ itemStatus' = [itemStatus EXCEPT ![i] = "QUEUED"]
                  /\ itemVersion' = [itemVersion EXCEPT ![i] = 1]
                  /\ itemOutbox' = [itemOutbox EXCEPT ![i] = Append(@, "item.queued")]
             ELSE UNCHANGED <<itemStatus, itemVersion, itemOutbox>>
    BY <1>2, CommitItemRequestedItem
  <2>2. CASE itemStatus[i] = "none"
    <3>1. /\ itemStatus'[i] = "QUEUED"
          /\ itemVersion'[i] = 1
          /\ itemOutbox'[i] = Append(itemOutbox[i], "item.queued")
          /\ \A j \in Items \ {i} : /\ itemStatus'[j] = itemStatus[j]
                                    /\ itemVersion'[j] = itemVersion[j]
                                    /\ itemOutbox'[j] = itemOutbox[j]
      BY <2>1, <2>2 DEF TypeOK
    <3>2. itemOutbox[i] \in Seq(RoutingKeys) /\ Len(itemOutbox[i]) = 0
      BY <2>2 DEF TypeOK
    <3>3. Len(itemOutbox'[i]) = 1 /\ itemOutbox'[i][1] = "item.queued"
      BY <3>1, <3>2, AppendFacts DEF RoutingKeys
    <3> QED
      BY <3>1, <3>3 DEF Announces
  <2>3. CASE itemStatus[i] # "none"
    BY <2>1, <2>3
  <2> QED
    BY <2>2, <2>3
<1>3. ASSUME NEW s \in Staff, CommitCommand(s) PROVE OutboxTellsTheItem'
  <2>1. PICK i \in Items, t \in validTransitions :
           /\ t[1] = itemStatus[i]
           /\ itemStatus' = [itemStatus EXCEPT ![i] = t[3]]
           /\ itemVersion' = [itemVersion EXCEPT ![i] = @ + 1]
           /\ itemOutbox' = [itemOutbox EXCEPT ![i] = Append(@, RoutingKey(t[2]))]
    BY <1>3, CommitCommandItem
  <2>2. /\ itemStatus'[i] = t[3]
        /\ itemVersion'[i] = itemVersion[i] + 1
        /\ itemOutbox'[i] = Append(itemOutbox[i], RoutingKey(t[2]))
        /\ \A j \in Items \ {i} : /\ itemStatus'[j] = itemStatus[j]
                                  /\ itemVersion'[j] = itemVersion[j]
                                  /\ itemOutbox'[j] = itemOutbox[j]
    BY <2>1 DEF TypeOK
  <2>3. itemOutbox[i] \in Seq(RoutingKeys) /\ RoutingKey(t[2]) \in RoutingKeys
    BY TransitionType, RoutingKeyType DEF TypeOK
  <2>4. /\ Len(itemOutbox'[i]) = itemVersion'[i]
        /\ itemVersion'[i] > 0
        /\ itemOutbox'[i][itemVersion'[i]] = RoutingKey(t[2])
    BY <2>2, <2>3, AppendFacts DEF TypeOK
  <2>5. Announces(RoutingKey(t[2])) = t[3] /\ t[3] # "none"
    BY TransitionAnnounced
  <2> QED
    BY <2>2, <2>4, <2>5
<1> QED
  BY <1>1, <1>2, <1>3, ItemRowsChange

\* The outbox of an item has one row per version, and the last one announces
\* its status, whatever overlapped, failed or was delivered again.
THEOREM OutboxTells == Spec => []OutboxTellsTheItem
<1>1. Init => OutboxTellsTheItem
  BY DEF Init, OutboxTellsTheItem, Materialised
<1> QED
  BY <1>1, TypeCorrect, ReadRowsCurrent, OutboxNext, PTL DEF Spec

\* Where an item announces that it was picked up.
Pickups(i) == {k \in DOMAIN itemOutbox[i] : itemOutbox[i][k] = "item.in_progress"}

\* An appended key adds a pickup only when it announces one.
LEMMA PickupsAppend ==
    ASSUME TypeOK, NEW i \in Items, NEW key \in RoutingKeys,
           itemOutbox'[i] = Append(itemOutbox[i], key)
    PROVE  Pickups(i)' = IF key = "item.in_progress"
                           THEN Pickups(i) \cup {Len(itemOutbox[i]) + 1}
                           ELSE Pickups(i)
<1>1. itemOutbox[i] \in Seq(RoutingKeys)
  BY DEF TypeOK
<1>2. /\ DOMAIN itemOutbox'[i] = DOMAIN itemOutbox[i] \cup {Len(itemOutbox[i]) + 1}
      /\ Len(itemOutbox[i]) + 1 \notin DOMAIN itemOutbox[i]
      /\ itemOutbox'[i][Len(itemOutbox[i]) + 1] = key
      /\ \A k \in DOMAIN itemOutbox[i] : itemOutbox'[i][k] = itemOutbox[i][k]
  BY <1>1, AppendFacts
<1> QED
  BY <1>2 DEF Pickups

LEMMA ClaimedNext ==
    ASSUME TypeOK, ReadRowsAreCurrent, UnclaimedUntilPickup, ClaimedOnce, [Next]_vars
    PROVE  ClaimedOnce'
<1> DEFINE Fine(i) == /\ \A k, l \in Pickups(i) : k = l
                      /\ claimedBy[i] # NoStaff <=> Pickups(i) # {}
<1>0. /\ ClaimedOnce <=> \A i \in Items : Fine(i)
      /\ ClaimedOnce' <=> \A i \in Items : Fine(i)'
  BY DEF ClaimedOnce, Pickups
<1>1. CASE UNCHANGED <<itemStatus, claimedBy, itemOutbox, itemVersion>>
  BY <1>1 DEF ClaimedOnce
<1>2. CASE CommitItemRequested
  <2>1. PICK i \in Items :
           /\ claimedBy' = claimedBy
           /\ \/ itemOutbox' = itemOutbox
              \/ itemOutbox' = [itemOutbox EXCEPT ![i] = Append(@, "item.queued")]
    BY <1>2, CommitItemRequestedItem
  <2>2. ASSUME NEW j \in Items PROVE Pickups(j)' = Pickups(j)
    <3>1. CASE itemOutbox'[j] = itemOutbox[j]
      BY <3>1 DEF Pickups
    <3>2. CASE itemOutbox'[j] = Append(itemOutbox[j], "item.queued")
      BY <3>2, PickupsAppend DEF RoutingKeys
    <3> QED
      BY <2>1, <3>1, <3>2 DEF TypeOK
  <2> QED
    BY <1>0, <2>1, <2>2
<1>3. ASSUME NEW s \in Staff, CommitCommand(s) PROVE ClaimedOnce'
  <2>1. PICK i \in Items, t \in validTransitions :
           /\ t[1] = itemStatus[i]
           /\ claimedBy' = [claimedBy EXCEPT ![i] = IF t[2] = "pickup" THEN s ELSE @]
           /\ itemOutbox' = [itemOutbox EXCEPT ![i] = Append(@, RoutingKey(t[2]))]
    BY <1>3, CommitCommandItem
  <2>2. ASSUME NEW j \in Items, j # i PROVE Fine(j)'
    <3>1. claimedBy'[j] = claimedBy[j] /\ itemOutbox'[j] = itemOutbox[j]
      BY <2>1, <2>2 DEF TypeOK
    <3> QED
      BY <1>0, <3>1 DEF Pickups
  <2>3. /\ itemOutbox'[i] = Append(itemOutbox[i], RoutingKey(t[2]))
        /\ RoutingKey(t[2]) \in RoutingKeys
    BY <2>1, TransitionType, RoutingKeyType DEF TypeOK
  <2>4. CASE t[2] = "pickup"
    <3>1. Pickups(i) = {}
      BY <1>0, <2>1, <2>4, TransitionAnnounced DEF UnclaimedUntilPickup
    <3>2. Pickups(i)' = {Len(itemOutbox[i]) + 1}
      BY <2>3, <2>4, <3>1, PickupsAppend, TransitionAnnounced
    <3>3. claimedBy'[i] # NoStaff
      BY <2>1, <2>4, ConstantsAssumption DEF TypeOK
    <3> QED
      BY <1>0, <2>2, <3>2, <3>3
  <2>5. CASE t[2] # "pickup"
    <3>1. Pickups(i)' = Pickups(i)
      BY <2>3, <2>5, PickupsAppend, TransitionAnnounced
    <3>2. claimedBy'[i] = claimedBy[i]
      BY <2>1, <2>5 DEF TypeOK
    <3> QED
      BY <1>0, <2>2, <3>1, <3>2
  <2> QED
    BY <2>4, <2>5
<1> QED
  BY <1>1, <1>2, <1>3, ItemRowsChange

\* However many staff members try, an item is picked up at most once, and it
\* is claimed exactly when a pickup was announced.
THEOREM Claimed == Spec => []ClaimedOnce
<1>1. Init => ClaimedOnce
  BY DEF Init, ClaimedOnce
<1> QED
  BY <1>1, TypeCorrect, ReadRowsCurrent, Unclaimed, ClaimedNext, PTL DEF Spec
=============================================================================
