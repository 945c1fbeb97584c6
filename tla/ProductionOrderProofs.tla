------------------------ MODULE ProductionOrderProofs ------------------------
(***************************************************************************)
(* Machine-checked proofs about the order rows and announcements of        *)
(* ProductionService: what the transactions in flight may rely on (the     *)
(* order's row lock, a count that is as old as its snapshot), and from     *)
(* that what is true of the rows they commit.                              *)
(***************************************************************************)
EXTENDS ProductionServiceProofs

-----------------------------------------------------------------------------
(* What one step may change.                                               *)

\* The committed rows change only at the two commits.
LEMMA RowsChange ==
    ASSUME [Next]_vars
    PROVE  \/ UNCHANGED rows
           \/ CommitItemRequested
           \/ \E s \in Staff : CommitCommand(s)
BY DEF Next, vars, rows, Deliver, HandleMessage, InsertProcessedEvent,
       UpsertProductionOrder, InsertAndCount, Ack, ConsumerFails, CommandStep,
       GetItemByID, UpdateItemStatus, CountItemsByStatus, UpdateOrderStatus,
       CommandFails

\* The items as the transaction of command r sees them after its update.
WithOwnWrite(r) == [itemStatus EXCEPT ![r.item] = r.newStatus]

\* How a delivery gets past the check of processed_events, to the order's
\* lock and to its counts.
LEMMA ConsumerChange ==
    ASSUME TypeOK, [Next]_vars, consumer'.phase \in {"recorded", "upserted", "counted"}
    PROVE  \/ consumer' = consumer
           \/ /\ consumer'.phase = "recorded"
              /\ consumer'.event \notin processed
              /\ UNCHANGED <<rows, request>>
           \/ /\ consumer.phase = "recorded"
              /\ consumer'.phase = "upserted"
              /\ consumer'.event = consumer.event
              /\ ~ OrderLocked(OrderOf[ItemOf[consumer.event]])
              /\ UNCHANGED <<rows, request>>
           \/ /\ consumer.phase = "upserted"
              /\ consumer'.phase = "counted"
              /\ consumer'.event = consumer.event
              /\ consumer'.counts =
                    ItemStatusCounts(ItemsOf(OrderOf[ItemOf[consumer.event]]),
                                     StatusWithInserted(ItemOf[consumer.event]))
              /\ UNCHANGED <<rows, request>>
<1>1. ASSUME NEW e \in Events, Deliver(e) PROVE FALSE
  BY <1>1 DEF Deliver
<1>2. ASSUME HandleMessage PROVE consumer \in Deliveries
  BY <1>2, DeliveryType DEF HandleMessage, InsertProcessedEvent, UpsertProductionOrder,
       InsertAndCount, CommitItemRequested, Ack, ConsumerAt
<1>3. CASE InsertProcessedEvent
  <2>1. consumer \in Deliveries
    BY <1>2, <1>3 DEF HandleMessage
  <2> QED
    BY <1>3, <2>1 DEF InsertProcessedEvent, Deliveries
<1>4. CASE UpsertProductionOrder
  <2>1. consumer \in Deliveries
    BY <1>2, <1>4 DEF HandleMessage
  <2> QED
    BY <1>4, <2>1 DEF UpsertProductionOrder, Deliveries, ConsumerAt
<1>5. CASE InsertAndCount
  <2>1. consumer \in Deliveries
    BY <1>2, <1>5 DEF HandleMessage
  <2>2. PICK c : c = ItemStatusCounts(ItemsOf(OrderOf[ItemOf[consumer.event]]),
                                      StatusWithInserted(ItemOf[consumer.event]))
    OBVIOUS
  <2>3. /\ consumer' = [consumer EXCEPT !.phase = "counted", !.counts = c]
        /\ consumer.phase = "upserted"
        /\ UNCHANGED <<rows, request>>
    BY <1>5, <2>2 DEF InsertAndCount, ConsumerAt
  <2> QED
    BY <2>1, <2>2, <2>3 DEF Deliveries
<1>6. CASE CommitItemRequested
  <2>1. consumer \in Deliveries
    BY <1>2, <1>6 DEF HandleMessage
  <2> QED
    BY <1>6, <2>1 DEF CommitItemRequested, Deliveries
<1>7. CASE Ack \/ ConsumerFails
  BY <1>7 DEF Ack, ConsumerFails, NoDelivery
<1>8. CASE UNCHANGED consumer
  BY <1>8
<1> QED
  BY <1>1, <1>3, <1>4, <1>5, <1>6, <1>7, <1>8
     DEF Next, vars, HandleMessage, CommandStep, GetItemByID, UpdateItemStatus,
         CountItemsByStatus, UpdateOrderStatus, CommitCommand, CommandFails

\* A command has its counts from the snapshot it took, and the order's lock
\* from the moment it found it free.
LEMMA RequestChange ==
    ASSUME TypeOK, [Next]_vars, NEW s \in Staff,
           request'[s].phase \in {"counted", "derived"}
    PROVE  \/ request'[s] = request[s]
           \/ /\ request[s].phase \in {"updated", "counted"}
              /\ request'[s].item = request[s].item
              /\ request'[s].newStatus = request[s].newStatus
              /\ \/ /\ request[s].phase = "updated"
                    /\ request'[s].phase = "counted"
                    /\ request'[s].counts =
                          ItemStatusCounts(ItemsOf(OrderOf[request[s].item]),
                                           WithOwnWrite(request[s]))
                 \/ /\ request[s].phase = "counted"
                    /\ request'[s].phase = "derived"
                    /\ request'[s].counts = request[s].counts
                    /\ ~ OrderLocked(OrderOf[request[s].item])
              /\ \A u \in Staff \ {s} : request'[u] = request[u]
              /\ UNCHANGED <<rows, consumer>>
<1>1. ASSUME NEW u \in Staff, NEW i \in Items, GetItemByID(u, i)
      PROVE  request'[s] = request[s]
  <2>1. PICK t \in validTransitions, expected \in 1..MaxVersion, reason \in BOOLEAN :
           request' = [request EXCEPT ![u] =
                         [phase |-> "validated", item |-> i, command |-> t[2],
                          newStatus |-> t[3], expected |-> expected,
                          reason |-> reason, counts |-> NoCounts]]
    BY <1>1 DEF GetItemByID
  <2>2. request'[u].phase = "validated" \/ u # s
    BY <2>1 DEF TypeOK
  <2> QED
    BY <2>1, <2>2 DEF TypeOK
<1>2. ASSUME NEW u \in Staff, UpdateItemStatus(u)
      PROVE  request'[s] = request[s]
  <2>1. /\ request'[u] = NoRequest \/ request'[u] = [request[u] EXCEPT !.phase = "updated"]
        /\ \A v \in Staff \ {u} : request'[v] = request[v]
    BY <1>2 DEF UpdateItemStatus, TypeOK
  <2>2. request[u] \in Requests
    BY <1>2, RequestType DEF UpdateItemStatus, RequestAt
  <2>3. request'[u].phase \in {"none", "updated"}
    BY <2>1, <2>2 DEF NoRequest, Requests
  <2> QED
    BY <2>1, <2>3
<1>3. ASSUME NEW u \in Staff, CommitCommand(u) \/ CommandFails(u)
      PROVE  request'[s] = request[s]
  BY <1>3 DEF CommitCommand, CommandFails, NoRequest, TypeOK
<1>4. ASSUME NEW u \in Staff, CountItemsByStatus(u), u # s
      PROVE  request'[s] = request[s]
  BY <1>4 DEF CountItemsByStatus, TypeOK
<1>5. ASSUME NEW u \in Staff, UpdateOrderStatus(u), u # s
      PROVE  request'[s] = request[s]
  BY <1>5 DEF UpdateOrderStatus, TypeOK
<1>6. CASE CountItemsByStatus(s)
  <2>1. PICK c : c = ItemStatusCounts(ItemsOf(OrderOf[request[s].item]),
                                      WithOwnWrite(request[s]))
    OBVIOUS
  <2>2. /\ request[s].phase = "updated"
        /\ request' = [request EXCEPT ![s] = [request[s] EXCEPT !.phase = "counted", !.counts = c]]
        /\ UNCHANGED <<rows, consumer>>
    BY <1>6, <2>1 DEF CountItemsByStatus, RequestAt, WithOwnWrite, TypeOK
  <2>3. request[s] \in Requests
    BY <2>2, RequestType
  <2>4. request'[s] = [request[s] EXCEPT !.phase = "counted", !.counts = c]
    BY <2>2 DEF TypeOK
  <2>5. \A u \in Staff \ {s} : request'[u] = request[u]
    BY <2>2 DEF TypeOK
  <2>6. /\ request'[s].phase = "counted"
        /\ request'[s].counts = c
        /\ request'[s].item = request[s].item
        /\ request'[s].newStatus = request[s].newStatus
    BY <2>3, <2>4 DEF Requests
  <2> QED
    BY <2>1, <2>2, <2>5, <2>6
<1>7. CASE UpdateOrderStatus(s)
  <2>1. /\ request[s].phase = "counted"
        /\ request' = [request EXCEPT ![s] = [request[s] EXCEPT !.phase = "derived"]]
        /\ ~ OrderLocked(OrderOf[request[s].item])
        /\ UNCHANGED <<rows, consumer>>
    BY <1>7 DEF UpdateOrderStatus, RequestAt, TypeOK
  <2>2. request[s] \in Requests
    BY <2>1, RequestType
  <2>3. /\ request'[s] = [request[s] EXCEPT !.phase = "derived"]
        /\ \A u \in Staff \ {s} : request'[u] = request[u]
    BY <2>1 DEF TypeOK
  <2>4. /\ request'[s].phase = "derived"
        /\ request'[s].counts = request[s].counts
        /\ request'[s].item = request[s].item
        /\ request'[s].newStatus = request[s].newStatus
    BY <2>2, <2>3 DEF Requests
  <2> QED
    BY <2>1, <2>3, <2>4
<1>8. CASE UNCHANGED request
  BY <1>8
<1> QED
  BY <1>1, <1>2, <1>3, <1>4, <1>5, <1>6, <1>7, <1>8
     DEF Next, vars, Deliver, HandleMessage, InsertProcessedEvent,
         UpsertProductionOrder, InsertAndCount, CommitItemRequested, Ack,
         ConsumerFails, CommandStep

-----------------------------------------------------------------------------
(* The order's row lock.                                                   *)

ConsumerHolds(o) ==
    /\ consumer.phase \in {"upserted", "counted"}
    /\ OrderOf[ItemOf[consumer.event]] = o

CommandHolds(s, o) ==
    /\ request[s].phase = "derived"
    /\ OrderOf[request[s].item] = o

\* At most one transaction holds the lock of an order.
OrderLockExclusive ==
    \A o \in Orders : \A s \in Staff :
        CommandHolds(s, o) => /\ ~ ConsumerHolds(o)
                              /\ \A u \in Staff : CommandHolds(u, o) => u = s

LEMMA OrderLockNext ==
    ASSUME TypeOK, OrderLockExclusive, [Next]_vars
    PROVE  OrderLockExclusive'
<1> SUFFICES ASSUME NEW o \in Orders, NEW s \in Staff, CommandHolds(s, o)'
             PROVE  /\ ~ ConsumerHolds(o)'
                    /\ \A u \in Staff : CommandHolds(u, o)' => u = s
  BY DEF OrderLockExclusive
<1>1. ASSUME NEW u \in Staff, CommandHolds(u, o)'
      PROVE  \/ CommandHolds(u, o) /\ request'[u] = request[u]
             \/ /\ ~ OrderLocked(o)
                /\ \A v \in Staff \ {u} : request'[v] = request[v]
                /\ consumer' = consumer
  BY <1>1, RequestChange DEF CommandHolds
<1>2. ASSUME ConsumerHolds(o)'
      PROVE  \/ ConsumerHolds(o)
             \/ ~ OrderLocked(o) /\ request' = request
  BY <1>2, ConsumerChange DEF ConsumerHolds
<1>3. OrderLocked(o) <=> ConsumerHolds(o) \/ \E u \in Staff : CommandHolds(u, o)
  BY DEF OrderLocked, ConsumerHolds, CommandHolds
<1>4. ~ ConsumerHolds(o)'
  <2>1. CASE CommandHolds(s, o)
    BY <1>2, <1>3, <2>1 DEF OrderLockExclusive
  <2>2. CASE ~ OrderLocked(o) /\ consumer' = consumer
    BY <1>3, <2>2 DEF ConsumerHolds
  <2> QED
    BY <1>1, <2>1, <2>2
<1>5. ASSUME NEW u \in Staff, CommandHolds(u, o)', u # s
      PROVE  FALSE
  <2>1. CASE CommandHolds(s, o) /\ CommandHolds(u, o)
    BY <1>5, <2>1 DEF OrderLockExclusive
  <2>2. CASE ~ OrderLocked(o) /\ \A v \in Staff \ {u} : request'[v] = request[v]
    BY <1>3, <1>5, <2>2 DEF CommandHolds
  <2>3. CASE ~ OrderLocked(o) /\ \A v \in Staff \ {s} : request'[v] = request[v]
    BY <1>3, <1>5, <2>3 DEF CommandHolds
  <2> QED
    BY <1>1, <1>5, <2>1, <2>2, <2>3
<1> QED
  BY <1>4, <1>5

\* Of consumer and commands, at most one is between its write of an order's
\* row and its commit.
THEOREM OrderLock == Spec => []OrderLockExclusive
<1>1. Init => OrderLockExclusive
  BY DEF Init, OrderLockExclusive, CommandHolds, NoRequest
<1> QED
  BY <1>1, TypeCorrect, OrderLockNext, PTL DEF Spec

-----------------------------------------------------------------------------
(* Exactly-once intake.                                                    *)

\* The fields UpdateOrderStatus writes, and the one it leaves.
LEMMA UpdatedRowFields ==
    ASSUME NEW row \in OrderRows, NEW c \in Counts
    PROVE  /\ UpdatedOrderRow(row, c).status = DeriveOrderStatus(c)
           /\ UpdatedOrderRow(row, c).ready = c["READY"]
           /\ UpdatedOrderRow(row, c).blocked = c["BLOCKED"]
           /\ UpdatedOrderRow(row, c).total = row.total
           /\ UpdatedOrderRow(row, c).readyAt <=>
                 row.readyAt \/ DeriveOrderStatus(c) = "READY"
BY DEF UpdatedOrderRow, OrderRows

LEMMA UpsertedRowFields ==
    ASSUME NEW row \in OrderRows
    PROVE  /\ UpsertedOrderRow(row).total = row.total + 1
           /\ UpsertedOrderRow(row).readyAt <=> row.readyAt
BY DEF UpsertedOrderRow, OrderRows

\* Past the check of processed_events, the event in hand is new until it is
\* committed: nobody else records events.
DeliveryIsNew ==
    consumer.phase \in {"recorded", "upserted", "counted"} =>
        consumer.event \notin processed

LEMMA DeliveryIsNewNext ==
    ASSUME TypeOK, DeliveryIsNew, [Next]_vars
    PROVE  DeliveryIsNew'
<1> SUFFICES ASSUME consumer'.phase \in {"recorded", "upserted", "counted"}
             PROVE  consumer'.event \notin processed'
  BY DEF DeliveryIsNew
<1>1. CASE UNCHANGED rows
  BY <1>1, ConsumerChange DEF DeliveryIsNew, rows
<1>2. CASE CommitItemRequested
  <2>1. consumer \in Deliveries
    BY <1>2, DeliveryType DEF CommitItemRequested, ConsumerAt
  <2>2. consumer'.phase = "committed"
    BY <1>2, <2>1 DEF CommitItemRequested, Deliveries
  <2> QED
    BY <2>2
<1>3. ASSUME NEW s \in Staff, CommitCommand(s)
      PROVE  consumer'.event \notin processed'
  BY <1>3 DEF DeliveryIsNew, CommitCommand
<1> QED
  BY <1>1, <1>2, <1>3, RowsChange

\* The processed events of an order.
ProcessedOf(o) == {e \in processed : OrderOf[ItemOf[e]] = o}

IntakeInv ==
    /\ DeliveryIsNew
    /\ IsFiniteSet(processed)
    /\ ExactlyOnceIntake

\* The commit of a new event: one more processed event and one more in the
\* total of its order.
LEMMA IntakeCommit ==
    ASSUME TypeOK, IntakeInv, CommitItemRequested
    PROVE  IsFiniteSet(processed') /\ ExactlyOnceIntake'
<1> DEFINE e == consumer.event
           i == ItemOf[e]
           p == OrderOf[i]
<1>1. e \in Events /\ i \in Items /\ p \in Orders /\ consumer.counts \in Counts
  BY ActiveDelivery DEF CommitItemRequested, ConsumerAt
<1>2. e \notin processed /\ processed' = processed \cup {e}
  BY DEF IntakeInv, DeliveryIsNew, CommitItemRequested, ConsumerAt
<1>3. IsFiniteSet(processed')
  BY <1>2, FS_AddElement DEF IntakeInv
<1>4. itemStatus'[i] # "none" /\ \A j \in Items \ {i} : itemStatus'[j] = itemStatus[j]
  BY <1>1 DEF CommitItemRequested, StatusWithInserted, TypeOK
<1>5. /\ orderRow'[p] = UpdatedOrderRow(UpsertedOrderRow(orderRow[p]), consumer.counts)
      /\ \A o \in Orders \ {p} : orderRow'[o] = orderRow[o]
  BY <1>1 DEF CommitItemRequested, TypeOK
<1>6. orderRow[p] \in OrderRows
  BY <1>1 DEF TypeOK
<1>7. orderRow'[p].total = orderRow[p].total + 1 /\ orderRow'[p].status \in Statuses
  BY <1>1, <1>5, <1>6, UpsertedRowType, UpsertedRowFields, UpdatedRowFields, DeriveType
<1> HIDE DEF e, i, p
<1>8. \A j \in Items : Materialised(j)' <=> \E f \in processed' : ItemOf[f] = j
  <2>1. \A j \in Items : Materialised(j) <=> \E f \in processed : ItemOf[f] = j
    BY DEF IntakeInv, ExactlyOnceIntake
  <2>2. ItemOf[e] = i
    BY DEF i
  <2> QED
    BY <1>2, <1>4, <2>1, <2>2 DEF Materialised
<1>9. \A o \in Orders : orderRow'[o].total = Cardinality(ProcessedOf(o)')
  <2> TAKE o \in Orders
  <2>1. orderRow[o].total = Cardinality(ProcessedOf(o))
    BY DEF IntakeInv, ExactlyOnceIntake, ProcessedOf
  <2>2. OrderOf[ItemOf[e]] = p
    BY DEF p, i
  <2>3. CASE o = p
    <3>1. ProcessedOf(o)' = ProcessedOf(o) \cup {e} /\ e \notin ProcessedOf(o)
      BY <1>2, <2>2, <2>3 DEF ProcessedOf
    <3>2. IsFiniteSet(ProcessedOf(o))
      BY FS_Subset DEF IntakeInv, ProcessedOf
    <3>3. Cardinality(ProcessedOf(o) \cup {e}) = Cardinality(ProcessedOf(o)) + 1
      BY <3>1, <3>2, FS_AddElement
    <3> QED
      BY <1>7, <2>1, <2>3, <3>1, <3>3
  <2>4. CASE o # p
    <3>1. ProcessedOf(o)' = ProcessedOf(o)
      BY <1>2, <2>2, <2>4 DEF ProcessedOf
    <3> QED
      BY <1>5, <2>1, <2>4, <3>1
  <2> QED
    BY <2>3, <2>4
<1>10. \A o \in Orders : orderRow'[o].status = "none" <=>
                            \A j \in ItemsOf(o) : ~ Materialised(j)'
  <2> TAKE o \in Orders
  <2>1. orderRow[o].status = "none" <=> \A j \in ItemsOf(o) : ~ Materialised(j)
    BY DEF IntakeInv, ExactlyOnceIntake
  <2>2. i \in ItemsOf(p)
    BY <1>1 DEF ItemsOf, p
  <2>3. CASE o = p
    BY <1>4, <1>7, <2>2, <2>3 DEF Materialised, Statuses
  <2>4. CASE o # p
    <3>1. i \notin ItemsOf(o) /\ ItemsOf(o) \subseteq Items
      BY <2>4 DEF ItemsOf, p
    <3> QED
      BY <1>4, <1>5, <2>1, <2>4, <3>1 DEF Materialised
  <2> QED
    BY <2>3, <2>4
<1> QED
  BY <1>3, <1>8, <1>9, <1>10 DEF ExactlyOnceIntake, ProcessedOf

\* A command neither adds events or items nor makes an order row disappear.
LEMMA IntakeCommand ==
    ASSUME TypeOK, ReadRowsAreCurrent, ExactlyOnceIntake,
           NEW s \in Staff, CommitCommand(s)
    PROVE  ExactlyOnceIntake'
<1> DEFINE i == request[s].item
           p == OrderOf[i]
           c == request[s].counts
<1>1. i \in Items /\ p \in Orders /\ c \in Counts
  BY ActiveRequest DEF CommitCommand, RequestAt
<1>2. Materialised(i) /\ \A j \in Items : Materialised(j)' <=> Materialised(j)
  <2>1. PICK k \in Items, t \in validTransitions :
           /\ k = i
           /\ t[1] = itemStatus[k]
           /\ itemStatus' = [itemStatus EXCEPT ![k] = t[3]]
    BY CommitCommandItem
  <2>2. t[1] # "none" /\ t[3] # "none"
    BY DEF validTransitions
  <2> QED
    BY <2>1, <2>2 DEF Materialised, TypeOK
<1>3. processed' = processed
  BY DEF CommitCommand
<1>4. /\ orderRow'[p] = UpdatedOrderRow(orderRow[p], c)
      /\ \A o \in Orders \ {p} : orderRow'[o] = orderRow[o]
      /\ orderRow[p] \in OrderRows
  BY <1>1 DEF CommitCommand, TypeOK
<1>5. orderRow'[p].total = orderRow[p].total /\ orderRow'[p].status \in Statuses
  BY <1>1, <1>4, UpdatedRowFields, DeriveType
<1>6. i \in ItemsOf(p)
  BY <1>1 DEF ItemsOf
<1> HIDE DEF i, p, c
<1>7. \A j \in Items : Materialised(j)' <=> \E f \in processed' : ItemOf[f] = j
  BY <1>2, <1>3 DEF ExactlyOnceIntake
<1>8. ASSUME NEW o \in Orders
      PROVE  /\ orderRow'[o].total = Cardinality({f \in processed' : OrderOf[ItemOf[f]] = o})
             /\ orderRow'[o].status = "none" <=> \A j \in ItemsOf(o) : ~ Materialised(j)'
  <2>1. ItemsOf(o) \subseteq Items
    BY DEF ItemsOf
  <2>2. CASE o = p
    BY <1>2, <1>3, <1>5, <1>6, <2>1, <2>2 DEF ExactlyOnceIntake, Statuses
  <2>3. CASE o # p
    BY <1>2, <1>3, <1>4, <2>1, <2>3 DEF ExactlyOnceIntake
  <2> QED
    BY <2>2, <2>3
<1> QED
  BY <1>7, <1>8 DEF ExactlyOnceIntake

LEMMA IntakeNext ==
    ASSUME TypeOK, ReadRowsAreCurrent, IntakeInv, [Next]_vars
    PROVE  IntakeInv'
<1>1. DeliveryIsNew'
  BY DeliveryIsNewNext DEF IntakeInv
<1>2. CASE UNCHANGED rows
  BY <1>1, <1>2 DEF IntakeInv, ExactlyOnceIntake, Materialised, rows
<1>3. CASE CommitItemRequested
  BY <1>1, <1>3, IntakeCommit DEF IntakeInv
<1>4. ASSUME NEW s \in Staff, CommitCommand(s) PROVE IntakeInv'
  <2>1. processed' = processed
    BY <1>4 DEF CommitCommand
  <2> QED
    BY <1>1, <1>4, <2>1, IntakeCommand DEF IntakeInv
<1> QED
  BY <1>2, <1>3, <1>4, RowsChange

THEOREM Intake == Spec => []IntakeInv
<1>1. Init => IntakeInv
  BY FS_EmptySet
     DEF Init, IntakeInv, DeliveryIsNew, NoDelivery, ExactlyOnceIntake,
         Materialised, NoOrderRow, ItemsOf
<1> QED
  BY <1>1, TypeCorrect, ReadRowsCurrent, IntakeNext, PTL DEF Spec

\* Through any number of redeliveries, retries and interruptions every event
\* is counted once.
THEOREM CountedOnce == Spec => []ExactlyOnceIntake
<1>1. IntakeInv => ExactlyOnceIntake
  BY DEF IntakeInv
<1> QED
  BY <1>1, Intake, PTL

-----------------------------------------------------------------------------
(* Counts: what the snapshot of a transaction says of its order's items.   *)

\* Counts depend only on the statuses of the items counted.
LEMMA CountsAgree ==
    ASSUME NEW S, NEW f, NEW g, \A i \in S : f[i] = g[i]
    PROVE  ItemStatusCounts(S, f) = ItemStatusCounts(S, g)
<1>1. \A s : {i \in S : f[i] = s} = {i \in S : g[i] = s}
  OBVIOUS
<1> QED
  BY <1>1 DEF ItemStatusCounts

\* An item is counted under its status.
LEMMA CountPositive ==
    ASSUME NEW o \in Orders, NEW f, NEW i \in ItemsOf(o), f[i] \in Statuses
    PROVE  ItemStatusCounts(ItemsOf(o), f)[f[i]] > 0
<1> DEFINE S == {j \in ItemsOf(o) : f[j] = f[i]}
<1>1. i \in S /\ S \subseteq Items
  BY DEF ItemsOf
<1>2. IsFiniteSet(S)
  BY <1>1, FS_Subset, ConstantsAssumption
<1>3. Cardinality(S) \in Nat /\ Cardinality(S) # 0
  BY <1>1, <1>2, FS_CardinalityType, FS_EmptySet
<1>4. ItemStatusCounts(ItemsOf(o), f)[f[i]] = Cardinality(S)
  BY DEF ItemStatusCounts
<1> QED
  BY <1>3, <1>4

\* READY is derived from nothing but READY items (and cancelled ones).
LEMMA DerivedReady ==
    ASSUME NEW c \in Counts, DeriveOrderStatus(c) = "READY"
    PROVE  /\ c["READY"] > 0
           /\ c["QUEUED"] = 0 /\ c["IN_PROGRESS"] = 0 /\ c["BLOCKED"] = 0
<1>1. /\ c["QUEUED"] \in Nat /\ c["IN_PROGRESS"] \in Nat /\ c["BLOCKED"] \in Nat
      /\ c["READY"] \in Nat /\ c["CANCELLED"] \in Nat
  BY DEF Counts, Statuses
<1> QED
  BY <1>1 DEF DeriveOrderStatus

\* While one item of the order is seen in work, READY is not derived.
LEMMA NotReadyYet ==
    ASSUME NEW o \in Orders, NEW f, NEW i \in ItemsOf(o),
           f[i] \in {"QUEUED", "IN_PROGRESS", "BLOCKED"}
    PROVE  DeriveOrderStatus(ItemStatusCounts(ItemsOf(o), f)) # "READY"
<1>1. ItemStatusCounts(ItemsOf(o), f) \in Counts
  BY CountsType
<1>2. ItemStatusCounts(ItemsOf(o), f)[f[i]] > 0
  BY CountPositive DEF Statuses
<1> QED
  BY <1>1, <1>2, DerivedReady

\* The items of an order that are READY in a view of the items.
ReadyItems(o, status) == {i \in ItemsOf(o) : status[i] = "READY"}

LEMMA ReadyItemsFinite ==
    ASSUME NEW o \in Orders, NEW status
    PROVE  /\ IsFiniteSet(ReadyItems(o, status))
           /\ Cardinality(ReadyItems(o, status)) \in Nat
           /\ ItemStatusCounts(ItemsOf(o), status)["READY"] = Cardinality(ReadyItems(o, status))
<1>1. ReadyItems(o, status) \subseteq Items
  BY DEF ReadyItems, ItemsOf
<1>2. IsFiniteSet(ReadyItems(o, status))
  BY <1>1, FS_Subset, ConstantsAssumption
<1>3. ItemStatusCounts(ItemsOf(o), status)["READY"] = Cardinality(ReadyItems(o, status))
  BY DEF ItemStatusCounts, ReadyItems, Statuses
<1> QED
  BY <1>2, <1>3, FS_CardinalityType

\* The more items a view shows READY, the more it counts.
LEMMA ReadyItemsGrow ==
    ASSUME NEW o \in Orders, NEW f, NEW g,
           \A i \in ItemsOf(o) : f[i] = "READY" => g[i] = "READY"
    PROVE  Cardinality(ReadyItems(o, f)) <= Cardinality(ReadyItems(o, g))
<1>1. ReadyItems(o, f) \subseteq ReadyItems(o, g)
  BY DEF ReadyItems
<1> QED
  BY <1>1, ReadyItemsFinite, FS_Subset

\* READY is not taken back by any step.
LEMMA ReadyStays ==
    ASSUME TypeOK, ReadRowsAreCurrent, UnclaimedUntilPickup, [Next]_vars,
           NEW i \in Items, itemStatus[i] = "READY"
    PROVE  itemStatus'[i] = "READY"
BY ItemRowsChange, CommitItemRequestedKeeps, CommitCommandKeeps

\* The item of a command is in work until the command commits.
LEMMA InWork ==
    ASSUME TypeOK, ReadRowsAreCurrent, NEW s \in Staff, request[s].phase # "none"
    PROVE  /\ request[s].item \in Items
           /\ request[s].item \in ItemsOf(OrderOf[request[s].item])
           /\ OrderOf[request[s].item] \in Orders
           /\ itemStatus[request[s].item] \in {"QUEUED", "IN_PROGRESS", "BLOCKED"}
           /\ request[s].newStatus \in {"IN_PROGRESS", "BLOCKED", "READY"}
<1>1. <<itemStatus[request[s].item], request[s].command, request[s].newStatus>>
         \in validTransitions
  BY DEF ReadRowsAreCurrent, RequestAt
<1>2. request[s].item \in Items /\ OrderOf[request[s].item] \in Orders
  BY ActiveRequest
<1> QED
  BY <1>1, <1>2 DEF validTransitions, ItemsOf

-----------------------------------------------------------------------------
(* Announcements.                                                          *)

HasCounted(s) == request[s].phase \in {"counted", "derived"}

\* The command in flight will write order.ready when it commits.
WillAnnounce(s) == HasCounted(s) /\ DeriveOrderStatus(request[s].counts) = "READY"

\* A count grows old while its transaction waits, but READY is for ever: it
\* stays a lower bound of what is READY with the command's own item.
CountsAreLowerBounds ==
    \A s \in Staff : HasCounted(s) =>
        request[s].counts["READY"] <=
            Cardinality(ReadyItems(OrderOf[request[s].item], WithOwnWrite(request[s])))

\* Of the commands that overlap on an order at most one saw all items READY:
\* the item of any other was in work in its snapshot.
OneAnnouncer ==
    \A s, u \in Staff :
        /\ WillAnnounce(s)
        /\ WillAnnounce(u)
        /\ OrderOf[request[s].item] = OrderOf[request[u].item]
        => s = u

\* What it will announce is more than what was announced before.
NextIsLarger ==
    \A s \in Staff : WillAnnounce(s) =>
        LET o == OrderOf[request[s].item]
        IN  \A k \in DOMAIN orderOutbox[o] :
                orderOutbox[o][k].ready < request[s].counts["READY"]

LEMMA CountsAreLowerBoundsNext ==
    ASSUME TypeOK, ReadRowsAreCurrent, UnclaimedUntilPickup, CountsAreLowerBounds,
           [Next]_vars
    PROVE  CountsAreLowerBounds'
<1> SUFFICES ASSUME NEW s \in Staff, HasCounted(s)'
             PROVE  request'[s].counts["READY"] <=
                       Cardinality(ReadyItems(OrderOf[request'[s].item], WithOwnWrite(request[s])'))
  BY DEF CountsAreLowerBounds, ReadyItems, ItemsOf
<1>1. TypeOK'
  BY TypeNext
<1>2. PICK r : r = request'[s]
  OBVIOUS
<1>3. r.item \in Items /\ OrderOf[r.item] \in Orders /\ r.counts["READY"] \in Nat
  <2>1. request'[s] \in Requests
    BY <1>1 DEF TypeOK, HasCounted, NoRequest
  <2> QED
    BY <1>2, <2>1, ConstantsAssumption DEF Requests, Counts, Statuses
<1>4. PICK f : f = [itemStatus EXCEPT ![r.item] = r.newStatus]
  OBVIOUS
<1>5. PICK g : g = [itemStatus' EXCEPT ![r.item] = r.newStatus]
  OBVIOUS
<1>6. WithOwnWrite(request[s])' = g
  BY <1>2, <1>5 DEF WithOwnWrite
<1>7. r.counts["READY"] <= Cardinality(ReadyItems(OrderOf[r.item], f))
  <2>1. CASE request'[s] = request[s]
    BY <1>2, <1>4, <2>1 DEF CountsAreLowerBounds, HasCounted, WithOwnWrite
  <2>2. CASE /\ request'[s].item = request[s].item
             /\ request'[s].newStatus = request[s].newStatus
             /\ request'[s].counts = ItemStatusCounts(ItemsOf(OrderOf[request[s].item]),
                                                      WithOwnWrite(request[s]))
    BY <1>2, <1>3, <1>4, <2>2, ReadyItemsFinite DEF WithOwnWrite
  <2>3. CASE /\ request[s].phase = "counted"
             /\ request'[s].item = request[s].item
             /\ request'[s].newStatus = request[s].newStatus
             /\ request'[s].counts = request[s].counts
    BY <1>2, <1>4, <2>3 DEF CountsAreLowerBounds, HasCounted, WithOwnWrite
  <2> QED
    BY <2>1, <2>2, <2>3, RequestChange DEF HasCounted
<1>8. \A i \in Items : f[i] = "READY" => g[i] = "READY"
  BY <1>1, <1>4, <1>5, ReadyStays DEF TypeOK
<1>9. Cardinality(ReadyItems(OrderOf[r.item], f)) <= Cardinality(ReadyItems(OrderOf[r.item], g))
  BY <1>3, <1>8, ReadyItemsGrow DEF ItemsOf
<1>10. /\ Cardinality(ReadyItems(OrderOf[r.item], f)) \in Nat
       /\ Cardinality(ReadyItems(OrderOf[r.item], g)) \in Nat
  BY <1>3, ReadyItemsFinite
<1>11. r.counts["READY"] <= Cardinality(ReadyItems(OrderOf[r.item], g))
  BY <1>3, <1>7, <1>9, <1>10
<1> QED
  BY <1>2, <1>6, <1>11

\* A command that counts while another one works on an item of its order
\* sees that item in work.
LEMMA SeesTheOther ==
    ASSUME TypeOK, ReadRowsAreCurrent, NEW s \in Staff, NEW u \in Staff, s # u,
           request[s].phase # "none", request[u].phase # "none",
           OrderOf[request[s].item] = OrderOf[request[u].item]
    PROVE  DeriveOrderStatus(ItemStatusCounts(ItemsOf(OrderOf[request[s].item]),
                                              WithOwnWrite(request[s]))) # "READY"
<1> DEFINE i == request[u].item
           f == WithOwnWrite(request[s])
<1>1. i # request[s].item
  BY DEF ReadRowsAreCurrent, RequestAt
<1>2. /\ i \in ItemsOf(OrderOf[request[s].item])
      /\ OrderOf[request[s].item] \in Orders
      /\ i \in Items
      /\ itemStatus[i] \in {"QUEUED", "IN_PROGRESS", "BLOCKED"}
  BY InWork
<1>3. f[i] = itemStatus[i]
  BY <1>1, <1>2 DEF WithOwnWrite, TypeOK
<1> HIDE DEF i, f
<1>4. DeriveOrderStatus(ItemStatusCounts(ItemsOf(OrderOf[request[s].item]), f)) # "READY"
  BY <1>2, <1>3, NotReadyYet
<1> QED
  BY <1>4 DEF f

\* Whoever is about to announce was so before, or counts in this step.
LEMMA WillAnnounceChange ==
    ASSUME TypeOK, [Next]_vars, NEW s \in Staff, WillAnnounce(s)'
    PROVE  \/ request'[s] = request[s] /\ WillAnnounce(s)
           \/ /\ request'[s].item = request[s].item
              /\ \A u \in Staff \ {s} : request'[u] = request[u]
              /\ UNCHANGED <<rows, consumer>>
              /\ \/ WillAnnounce(s) /\ request'[s].counts = request[s].counts
                 \/ /\ request[s].phase = "updated"
                    /\ request'[s].counts =
                          ItemStatusCounts(ItemsOf(OrderOf[request[s].item]),
                                           WithOwnWrite(request[s]))
                    /\ DeriveOrderStatus(request'[s].counts) = "READY"
<1>1. request'[s].phase \in {"counted", "derived"}
      /\ DeriveOrderStatus(request'[s].counts) = "READY"
  BY DEF WillAnnounce, HasCounted
<1>2. CASE request'[s] = request[s]
  BY <1>1, <1>2 DEF WillAnnounce, HasCounted
<1>3. CASE request'[s] # request[s]
  BY <1>1, <1>3, RequestChange DEF WillAnnounce, HasCounted
<1> QED
  BY <1>2, <1>3

LEMMA OneAnnouncerNext ==
    ASSUME TypeOK, ReadRowsAreCurrent, OneAnnouncer, [Next]_vars
    PROVE  OneAnnouncer'
<1> SUFFICES ASSUME NEW s \in Staff, NEW u \in Staff, s # u,
                    WillAnnounce(s)', WillAnnounce(u)',
                    OrderOf[request'[s].item] = OrderOf[request'[u].item]
             PROVE  FALSE
  BY DEF OneAnnouncer
<1>1. ASSUME NEW v \in Staff, NEW w \in Staff, v # w,
             WillAnnounce(v)', WillAnnounce(w)',
             OrderOf[request'[v].item] = OrderOf[request'[w].item],
             ~ WillAnnounce(v)
      PROVE  FALSE
  <2>1. /\ request'[v].item = request[v].item
        /\ request'[w] = request[w]
        /\ request[v].phase = "updated"
        /\ DeriveOrderStatus(ItemStatusCounts(ItemsOf(OrderOf[request[v].item]),
                                              WithOwnWrite(request[v]))) = "READY"
    BY <1>1, WillAnnounceChange
  <2>2. request[w].phase # "none"
    BY <1>1, <2>1 DEF WillAnnounce, HasCounted
  <2> QED
    BY <1>1, <2>1, <2>2, SeesTheOther
<1>2. WillAnnounce(s) /\ WillAnnounce(u)
  BY <1>1
<1>3. request'[s].item = request[s].item /\ request'[u].item = request[u].item
  BY WillAnnounceChange
<1> QED
  BY <1>2, <1>3 DEF OneAnnouncer

\* An order.ready event carries two numbers.
LEMMA AnnouncementType ==
    ASSUME TypeOK, NEW o \in Orders, NEW k \in DOMAIN orderOutbox[o]
    PROVE  orderOutbox[o][k].ready \in Nat /\ orderOutbox[o][k].total \in Nat
<1>1. orderOutbox[o] \in Seq([ready : Nat, total : Nat])
  BY DEF TypeOK
<1>2. orderOutbox[o][k] \in [ready : Nat, total : Nat]
  BY <1>1, ElementType
<1> QED
  BY <1>2

\* What is announced is counted by a command that saw its own item, and so
\* every item of its order, READY.
LEMMA FreshCountIsLarger ==
    ASSUME TypeOK, ReadRowsAreCurrent, AnnouncedItemsAreReady,
           NEW s \in Staff, request[s].phase # "none",
           NEW o \in Orders, o = OrderOf[request[s].item],
           NEW c, c = ItemStatusCounts(ItemsOf(o), WithOwnWrite(request[s])),
           DeriveOrderStatus(c) = "READY",
           NEW k \in DOMAIN orderOutbox[o]
    PROVE  orderOutbox[o][k].ready < c["READY"]
<1> DEFINE i == request[s].item
           f == WithOwnWrite(request[s])
           old == ReadyItems(o, itemStatus)
<1>1. /\ i \in Items /\ i \in ItemsOf(o)
      /\ itemStatus[i] \in {"QUEUED", "IN_PROGRESS", "BLOCKED"}
      /\ request[s].newStatus \in {"IN_PROGRESS", "BLOCKED", "READY"}
  BY InWork
<1>2. f[i] = request[s].newStatus /\ \A j \in Items \ {i} : f[j] = itemStatus[j]
  BY <1>1 DEF WithOwnWrite, TypeOK
<1> HIDE DEF i, f
<1>3. c = ItemStatusCounts(ItemsOf(o), f)
  BY DEF f
<1>4. f[i] = "READY"
  BY <1>1, <1>2, <1>3, NotReadyYet
<1>5. ReadyItems(o, f) = old \cup {i} /\ i \notin old
  BY <1>1, <1>2, <1>4 DEF ReadyItems, ItemsOf
<1>6. IsFiniteSet(old) /\ Cardinality(old) \in Nat /\ c["READY"] = Cardinality(ReadyItems(o, f))
  BY <1>3, ReadyItemsFinite
<1> HIDE DEF old
<1>7. c["READY"] = Cardinality(old) + 1
  BY <1>5, <1>6, FS_AddElement
<1>8. orderOutbox[o][k].ready <= Cardinality(old)
  BY DEF AnnouncedItemsAreReady, ReadyItems, old
<1>9. orderOutbox[o][k].ready \in Nat
  BY AnnouncementType
<1> QED
  BY <1>6, <1>7, <1>8, <1>9

\* The announcements of an order change only with the commit of a command
\* that announces, by one event at the end.
LEMMA OutboxChange ==
    ASSUME TypeOK, [Next]_vars, NEW o \in Orders, orderOutbox'[o] # orderOutbox[o]
    PROVE  \E s \in Staff :
              /\ CommitCommand(s)
              /\ WillAnnounce(s)
              /\ o = OrderOf[request[s].item]
              /\ request'[s] = NoRequest
              /\ Len(orderOutbox[o]) \in Nat
              /\ Len(orderOutbox'[o]) = Len(orderOutbox[o]) + 1
              /\ DOMAIN orderOutbox[o] = 1..Len(orderOutbox[o])
              /\ DOMAIN orderOutbox'[o] = DOMAIN orderOutbox[o] \cup {Len(orderOutbox'[o])}
              /\ \A k \in DOMAIN orderOutbox[o] : orderOutbox'[o][k] = orderOutbox[o][k]
              /\ orderOutbox'[o][Len(orderOutbox'[o])].ready = request[s].counts["READY"]
              /\ orderOutbox'[o][Len(orderOutbox'[o])].total = orderRow[o].total
<1> DEFINE R == [ready : Nat, total : Nat]
<1>1. PICK s \in Staff : CommitCommand(s)
  BY RowsChange DEF rows, CommitItemRequested
<1>2. request'[s] = NoRequest
  BY <1>1 DEF CommitCommand, TypeOK
<1>3. OrderOf[request[s].item] \in Orders /\ request[s].counts \in Counts
  BY <1>1, ActiveRequest DEF CommitCommand, RequestAt
<1>4. o = OrderOf[request[s].item] /\ DeriveOrderStatus(request[s].counts) = "READY"
  BY <1>1, <1>3 DEF CommitCommand, TypeOK
<1>5. WillAnnounce(s)
  BY <1>1, <1>4 DEF WillAnnounce, HasCounted, CommitCommand, RequestAt
<1>6. PICK e : e = [ready |-> request[s].counts["READY"], total |-> orderRow[o].total]
  OBVIOUS
<1>7. orderOutbox'[o] = Append(orderOutbox[o], e)
  BY <1>1, <1>3, <1>4, <1>6 DEF CommitCommand, TypeOK
<1>8. e \in R /\ orderOutbox[o] \in Seq(R)
  BY <1>3, <1>6 DEF TypeOK, OrderRows, Counts, Statuses
<1> HIDE DEF R
<1>9. PICK q, z : q = orderOutbox[o] /\ z = orderOutbox'[o]
  OBVIOUS
<1>10. /\ Len(q) \in Nat /\ DOMAIN q = 1..Len(q)
       /\ Len(z) = Len(q) + 1
       /\ DOMAIN z = DOMAIN q \cup {Len(q) + 1}
       /\ z[Len(q) + 1] = e
       /\ \A k \in DOMAIN q : z[k] = q[k]
  BY <1>7, <1>8, <1>9, AppendFacts
<1>11. /\ DOMAIN z = DOMAIN q \cup {Len(z)}
       /\ z[Len(z)].ready = request[s].counts["READY"]
       /\ z[Len(z)].total = orderRow[o].total
  BY <1>6, <1>10
<1>12. /\ CommitCommand(s)
       /\ WillAnnounce(s)
       /\ o = OrderOf[request[s].item]
       /\ request'[s] = NoRequest
  BY <1>1, <1>2, <1>4, <1>5
<1> QED
  BY <1>9, <1>10, <1>11, <1>12

LEMMA NextIsLargerNext ==
    ASSUME TypeOK, ReadRowsAreCurrent, OneAnnouncer, NextIsLarger,
           AnnouncedItemsAreReady, [Next]_vars
    PROVE  NextIsLarger'
<1> SUFFICES ASSUME NEW s \in Staff, WillAnnounce(s)',
                    NEW o, o = OrderOf[request'[s].item],
                    NEW k \in DOMAIN orderOutbox'[o]
             PROVE  orderOutbox'[o][k].ready < request'[s].counts["READY"]
  BY DEF NextIsLarger
<1>1. o \in Orders
  <2>1. TypeOK'
    BY TypeNext
  <2>2. request'[s] \in Requests
    BY <2>1 DEF TypeOK, WillAnnounce, HasCounted, NoRequest
  <2> QED
    BY <2>2, ConstantsAssumption DEF Requests
<1>2. CASE request'[s] = request[s] /\ WillAnnounce(s)
  <2>1. orderOutbox'[o] = orderOutbox[o]
    <3> SUFFICES ASSUME orderOutbox'[o] # orderOutbox[o] PROVE FALSE
      OBVIOUS
    <3>1. PICK u \in Staff : /\ WillAnnounce(u)
                             /\ o = OrderOf[request[u].item]
                             /\ request'[u] = NoRequest
      BY <1>1, OutboxChange
    <3>2. u = s
      BY <1>2, <3>1 DEF OneAnnouncer
    <3> QED
      BY <1>2, <3>1, <3>2 DEF WillAnnounce, HasCounted, NoRequest
  <2> QED
    BY <1>2, <2>1 DEF NextIsLarger
<1>3. CASE /\ request'[s].item = request[s].item
           /\ UNCHANGED rows
           /\ WillAnnounce(s)
           /\ request'[s].counts = request[s].counts
  BY <1>3 DEF NextIsLarger, rows
<1>4. CASE /\ request'[s].item = request[s].item
           /\ UNCHANGED rows
           /\ request[s].phase = "updated"
           /\ request'[s].counts = ItemStatusCounts(ItemsOf(OrderOf[request[s].item]),
                                                    WithOwnWrite(request[s]))
           /\ DeriveOrderStatus(request'[s].counts) = "READY"
  <2>1. orderOutbox' = orderOutbox
    BY <1>4 DEF rows
  <2> QED
    BY <1>1, <1>4, <2>1, FreshCountIsLarger
<1> QED
  BY <1>2, <1>3, <1>4, WillAnnounceChange

\* The total of an order counts at least its items: every item comes from a
\* processed event, and no event asks for two.
LEMMA TotalCoversItems ==
    ASSUME TypeOK, IntakeInv, NEW o \in Orders
    PROVE  Cardinality({i \in ItemsOf(o) : Materialised(i)}) <= orderRow[o].total
<1> DEFINE T == {i \in ItemsOf(o) : Materialised(i)}
           S == {e \in processed : OrderOf[ItemOf[e]] = o}
           f == [e \in S |-> ItemOf[e]]
<1>1. IsFiniteSet(S)
  BY FS_Subset DEF IntakeInv
<1>2. \A e \in S : f[e] \in T
  <2> TAKE e \in S
  <2>1. ItemOf[e] \in Items
    BY ConstantsAssumption DEF TypeOK
  <2>2. Materialised(ItemOf[e])
    BY <2>1 DEF IntakeInv, ExactlyOnceIntake
  <2> QED
    BY <2>1, <2>2 DEF ItemsOf
<1>3. \A i \in T : \E e \in S : f[e] = i
  BY DEF IntakeInv, ExactlyOnceIntake, ItemsOf
<1>4. f \in Surjection(S, T)
  BY <1>2, <1>3 DEF Surjection
<1>5. Cardinality(T) <= Cardinality(S)
  BY <1>1, <1>4, FS_Surjection
<1>6. orderRow[o].total = Cardinality(S)
  BY DEF IntakeInv, ExactlyOnceIntake
<1> QED
  BY <1>5, <1>6

\* What the commit of an announcing command announces.
LEMMA NewAnnouncement ==
    ASSUME TypeOK, ReadRowsAreCurrent, IntakeInv, CountsAreLowerBounds,
           NEW s \in Staff, CommitCommand(s), WillAnnounce(s),
           NEW o \in Orders, o = OrderOf[request[s].item]
    PROVE  /\ request[s].counts["READY"] \in Nat
           /\ request[s].counts["READY"] > 0
           /\ request[s].counts["READY"] <= Cardinality(ReadyItems(o, itemStatus'))
           /\ request[s].counts["READY"] <= orderRow[o].total
<1> DEFINE c == request[s].counts
           i == request[s].item
           T == {j \in ItemsOf(o) : Materialised(j)}
<1>1. /\ i \in Items /\ i \in ItemsOf(o) /\ c \in Counts
      /\ itemStatus[i] \in {"QUEUED", "IN_PROGRESS", "BLOCKED"}
  BY InWork, ActiveRequest DEF WillAnnounce, HasCounted
<1>2. c["READY"] \in Nat /\ c["READY"] > 0
  BY <1>1, DerivedReady DEF WillAnnounce, Counts, Statuses
<1>3. itemStatus' = WithOwnWrite(request[s])
  BY DEF CommitCommand, WithOwnWrite
<1>4. c["READY"] <= Cardinality(ReadyItems(o, itemStatus'))
  BY <1>3 DEF CountsAreLowerBounds, WillAnnounce
<1>5. ReadyItems(o, itemStatus') \subseteq T
  <2>1. ASSUME NEW j \in ItemsOf(o), itemStatus'[j] = "READY" PROVE Materialised(j)
    <3>1. j \in Items
      BY DEF ItemsOf
    <3>2. j # i => itemStatus[j] = "READY"
      BY <1>3, <2>1, <3>1 DEF WithOwnWrite, TypeOK
    <3> QED
      BY <1>1, <3>2 DEF Materialised
  <2> QED
    BY <2>1 DEF ReadyItems
<1>6. IsFiniteSet(T)
  BY FS_Subset, ConstantsAssumption DEF ItemsOf
<1>7. /\ Cardinality(ReadyItems(o, itemStatus')) <= Cardinality(T)
      /\ Cardinality(ReadyItems(o, itemStatus')) \in Nat
      /\ Cardinality(T) \in Nat
  BY <1>5, <1>6, FS_Subset, FS_CardinalityType
<1>8. Cardinality(T) <= orderRow[o].total /\ orderRow[o].total \in Nat
  BY TotalCoversItems DEF TypeOK, OrderRows
<1>9. c["READY"] <= orderRow[o].total
  BY <1>2, <1>4, <1>7, <1>8
<1> QED
  BY <1>2, <1>4, <1>9

LEMMA AnnouncedItemsAreReadyNext ==
    ASSUME TypeOK, ReadRowsAreCurrent, UnclaimedUntilPickup, IntakeInv,
           CountsAreLowerBounds, AnnouncedItemsAreReady, [Next]_vars
    PROVE  AnnouncedItemsAreReady'
<1> SUFFICES ASSUME NEW o \in Orders, NEW k \in DOMAIN orderOutbox'[o]
             PROVE  /\ orderOutbox'[o][k].ready <= Cardinality(ReadyItems(o, itemStatus'))
                    /\ orderOutbox'[o][k].ready <= orderOutbox'[o][k].total
                    /\ orderOutbox'[o][k].ready > 0
  BY DEF AnnouncedItemsAreReady, ReadyItems, ItemsOf
<1>1. ASSUME NEW l \in DOMAIN orderOutbox[o], orderOutbox'[o][k] = orderOutbox[o][l]
      PROVE  /\ orderOutbox'[o][k].ready <= Cardinality(ReadyItems(o, itemStatus'))
             /\ orderOutbox'[o][k].ready <= orderOutbox'[o][k].total
             /\ orderOutbox'[o][k].ready > 0
  <2>1. /\ orderOutbox[o][l].ready <= Cardinality(ReadyItems(o, itemStatus))
        /\ orderOutbox[o][l].ready <= orderOutbox[o][l].total
        /\ orderOutbox[o][l].ready > 0
    BY DEF AnnouncedItemsAreReady, ReadyItems
  <2>2. Cardinality(ReadyItems(o, itemStatus)) <= Cardinality(ReadyItems(o, itemStatus'))
    BY ReadyStays, ReadyItemsGrow DEF ItemsOf
  <2>3. /\ Cardinality(ReadyItems(o, itemStatus)) \in Nat
        /\ Cardinality(ReadyItems(o, itemStatus')) \in Nat
    BY ReadyItemsFinite
  <2>4. orderOutbox[o][l].ready \in Nat
    BY AnnouncementType
  <2> QED
    BY <1>1, <2>1, <2>2, <2>3, <2>4
<1>2. CASE orderOutbox'[o] = orderOutbox[o]
  BY <1>1, <1>2
<1>3. CASE orderOutbox'[o] # orderOutbox[o]
  <2>1. PICK s \in Staff :
           /\ CommitCommand(s)
           /\ WillAnnounce(s)
           /\ o = OrderOf[request[s].item]
           /\ DOMAIN orderOutbox'[o] = DOMAIN orderOutbox[o] \cup {Len(orderOutbox'[o])}
           /\ \A l \in DOMAIN orderOutbox[o] : orderOutbox'[o][l] = orderOutbox[o][l]
           /\ orderOutbox'[o][Len(orderOutbox'[o])].ready = request[s].counts["READY"]
           /\ orderOutbox'[o][Len(orderOutbox'[o])].total = orderRow[o].total
    BY <1>3, OutboxChange
  <2>2. /\ request[s].counts["READY"] > 0
        /\ request[s].counts["READY"] <= Cardinality(ReadyItems(o, itemStatus'))
        /\ request[s].counts["READY"] <= orderRow[o].total
    BY <2>1, NewAnnouncement
  <2>3. CASE k \in DOMAIN orderOutbox[o]
    BY <1>1, <2>1, <2>3
  <2>4. CASE k = Len(orderOutbox'[o])
    BY <2>1, <2>2, <2>4
  <2> QED
    BY <2>1, <2>3, <2>4
<1> QED
  BY <1>2, <1>3

LEMMA AnnouncementsGrowNext ==
    ASSUME TypeOK, NextIsLarger, AnnouncementsGrow, [Next]_vars
    PROVE  AnnouncementsGrow'
<1> SUFFICES ASSUME NEW o \in Orders,
                    NEW k \in DOMAIN orderOutbox'[o], NEW l \in DOMAIN orderOutbox'[o],
                    k < l
             PROVE  orderOutbox'[o][k].ready < orderOutbox'[o][l].ready
  BY DEF AnnouncementsGrow
<1>1. CASE orderOutbox'[o] = orderOutbox[o]
  BY <1>1 DEF AnnouncementsGrow
<1>2. CASE orderOutbox'[o] # orderOutbox[o]
  <2> DEFINE n == Len(orderOutbox[o])
  <2>1. PICK s \in Staff :
           /\ WillAnnounce(s)
           /\ o = OrderOf[request[s].item]
           /\ n \in Nat
           /\ Len(orderOutbox'[o]) = n + 1
           /\ DOMAIN orderOutbox[o] = 1..n
           /\ DOMAIN orderOutbox'[o] = DOMAIN orderOutbox[o] \cup {Len(orderOutbox'[o])}
           /\ \A j \in DOMAIN orderOutbox[o] : orderOutbox'[o][j] = orderOutbox[o][j]
           /\ orderOutbox'[o][Len(orderOutbox'[o])].ready = request[s].counts["READY"]
    BY <1>2, OutboxChange
  <2>2. DOMAIN orderOutbox'[o] = DOMAIN orderOutbox[o] \cup {n + 1}
    BY <2>1
  <2>3. k \in DOMAIN orderOutbox[o]
    BY <2>1, <2>2
  <2>4. CASE l \in DOMAIN orderOutbox[o]
    BY <2>1, <2>3, <2>4 DEF AnnouncementsGrow
  <2>5. CASE l = n + 1
    <3>1. orderOutbox[o][k].ready < request[s].counts["READY"]
      BY <2>1, <2>3 DEF NextIsLarger
    <3> QED
      BY <2>1, <2>3, <2>5, <3>1
  <2> QED
    BY <2>2, <2>4, <2>5
<1> QED
  BY <1>1, <1>2

\* What holds of counts in flight and announcements together.
AnnounceInv ==
    /\ CountsAreLowerBounds
    /\ OneAnnouncer
    /\ NextIsLarger
    /\ AnnouncedItemsAreReady
    /\ AnnouncementsGrow

THEOREM Announcing == Spec => []AnnounceInv
<1>1. Init => AnnounceInv
  BY DEF Init, AnnounceInv, CountsAreLowerBounds, OneAnnouncer, NextIsLarger,
         AnnouncedItemsAreReady, AnnouncementsGrow, WillAnnounce, HasCounted, NoRequest
<1>2. TypeOK /\ ReadRowsAreCurrent /\ UnclaimedUntilPickup /\ IntakeInv /\ AnnounceInv
      /\ [Next]_vars => AnnounceInv'
  BY CountsAreLowerBoundsNext, OneAnnouncerNext, NextIsLargerNext,
     AnnouncedItemsAreReadyNext, AnnouncementsGrowNext DEF AnnounceInv
<1> QED
  BY <1>1, <1>2, TypeCorrect, ReadRowsCurrent, Unclaimed, Intake, PTL DEF Spec

\* Every order.ready event was true when it was written and stays true.
THEOREM AnnouncedReady == Spec => []AnnouncedItemsAreReady
<1>1. AnnounceInv => AnnouncedItemsAreReady
  BY DEF AnnounceInv
<1> QED
  BY <1>1, Announcing, PTL

\* An order is announced again only with more ready items, although the
\* commands count in snapshots of their own.
THEOREM Growing == Spec => []AnnouncementsGrow
<1>1. AnnounceInv => AnnouncementsGrow
  BY DEF AnnounceInv
<1> QED
  BY <1>1, Announcing, PTL

-----------------------------------------------------------------------------
(* The consumer counts under the order's lock.                             *)

\* The counts of the consumer's transaction do not grow old: while it holds
\* the lock of the order no command of that order commits.
ConsumerCountsExact ==
    consumer.phase = "counted" =>
        LET i == ItemOf[consumer.event]
        IN  consumer.counts = ItemStatusCounts(ItemsOf(OrderOf[i]), StatusWithInserted(i))

LEMMA ConsumerCountsExactNext ==
    ASSUME TypeOK, OrderLockExclusive, ConsumerCountsExact, [Next]_vars
    PROVE  ConsumerCountsExact'
<1> DEFINE j == ItemOf[consumer'.event]
<1> SUFFICES ASSUME consumer'.phase = "counted"
             PROVE  consumer'.counts =
                       ItemStatusCounts(ItemsOf(OrderOf[j]),
                                        [itemStatus' EXCEPT ![j] = IF @ = "none" THEN "QUEUED" ELSE @])
  BY DEF ConsumerCountsExact, ItemStatusCounts, ItemsOf, StatusWithInserted
<1>1. CASE /\ consumer'.event = consumer.event
           /\ consumer'.counts = ItemStatusCounts(ItemsOf(OrderOf[ItemOf[consumer.event]]),
                                                  StatusWithInserted(ItemOf[consumer.event]))
           /\ UNCHANGED rows
  BY <1>1 DEF StatusWithInserted, rows
<1>2. CASE consumer' = consumer /\ UNCHANGED rows
  BY <1>2 DEF ConsumerCountsExact, StatusWithInserted, rows
<1>3. CASE CommitItemRequested
  <2>1. consumer \in Deliveries
    BY <1>3, DeliveryType DEF CommitItemRequested, ConsumerAt
  <2>2. consumer'.phase = "committed"
    BY <1>3, <2>1 DEF CommitItemRequested, Deliveries
  <2> QED
    BY <2>2
<1>4. ASSUME NEW s \in Staff, CommitCommand(s), consumer' = consumer
      PROVE  consumer'.counts =
                ItemStatusCounts(ItemsOf(OrderOf[j]),
                                 [itemStatus' EXCEPT ![j] = IF @ = "none" THEN "QUEUED" ELSE @])
  <2>1. j \in Items /\ OrderOf[j] \in Orders /\ j = ItemOf[consumer.event]
    BY <1>4, ActiveDelivery
  <2>2. CommandHolds(s, OrderOf[request[s].item]) /\ OrderOf[request[s].item] \in Orders
    BY <1>4, ActiveRequest DEF CommitCommand, RequestAt, CommandHolds
  <2>3. OrderOf[request[s].item] # OrderOf[j]
    BY <1>4, <2>1, <2>2 DEF OrderLockExclusive, ConsumerHolds
  <2>4. \A i \in ItemsOf(OrderOf[j]) : itemStatus'[i] = itemStatus[i]
    BY <1>4, <2>3 DEF CommitCommand, TypeOK, ItemsOf
  <2>5. PICK f, g : /\ f = [itemStatus EXCEPT ![j] = IF @ = "none" THEN "QUEUED" ELSE @]
                    /\ g = [itemStatus' EXCEPT ![j] = IF @ = "none" THEN "QUEUED" ELSE @]
    OBVIOUS
  <2>6. TypeOK'
    BY TypeNext
  <2>7. \A i \in ItemsOf(OrderOf[j]) : f[i] = g[i]
    <3> TAKE i \in ItemsOf(OrderOf[j])
    <3>1. i \in Items
      BY DEF ItemsOf
    <3>2. /\ f[i] = IF i = j /\ itemStatus[j] = "none" THEN "QUEUED" ELSE itemStatus[i]
          /\ g[i] = IF i = j /\ itemStatus'[j] = "none" THEN "QUEUED" ELSE itemStatus'[i]
      BY <2>1, <2>5, <2>6, <3>1 DEF TypeOK
    <3> QED
      BY <2>4, <3>2
  <2>8. consumer.counts = ItemStatusCounts(ItemsOf(OrderOf[j]), f)
    BY <1>4, <2>1, <2>5 DEF ConsumerCountsExact, StatusWithInserted
  <2>9. consumer.counts = ItemStatusCounts(ItemsOf(OrderOf[j]), g)
    BY <2>7, <2>8, CountsAgree
  <2> QED
    BY <1>4, <2>5, <2>9
<1>5. \A s \in Staff : CommitCommand(s) => consumer' = consumer
  BY DEF CommitCommand
<1>6. CASE UNCHANGED rows
  BY <1>1, <1>2, <1>6, ConsumerChange
<1> QED
  BY <1>3, <1>4, <1>5, <1>6, RowsChange

THEOREM ConsumerExact == Spec => []ConsumerCountsExact
<1>1. Init => ConsumerCountsExact
  BY DEF Init, ConsumerCountsExact, NoDelivery
<1> QED
  BY <1>1, TypeCorrect, OrderLock, ConsumerCountsExactNext, PTL DEF Spec

\* What the consumer commits: the row of the order is derived from the rows
\* of its items as they are after the commit.
LEMMA CommitIsExact ==
    ASSUME TypeOK, ConsumerCountsExact, CommitItemRequested
    PROVE  LET o == OrderOf[ItemOf[consumer.event]]
               c == ItemStatusCounts(ItemsOf(o), itemStatus')
           IN  /\ o \in Orders
               /\ c \in Counts
               /\ consumer.counts = c
               /\ orderRow'[o].status = DeriveOrderStatus(c)
               /\ orderRow'[o].ready = c["READY"]
               /\ orderRow'[o].blocked = c["BLOCKED"]
               /\ orderRow'[o].readyAt <=> orderRow[o].readyAt \/ DeriveOrderStatus(c) = "READY"
               /\ \A p \in Orders \ {o} : orderRow'[p] = orderRow[p]
<1> DEFINE i == ItemOf[consumer.event]
           o == OrderOf[i]
<1>1. i \in Items /\ o \in Orders /\ consumer.counts \in Counts
  BY ActiveDelivery DEF CommitItemRequested, ConsumerAt
<1>2. itemStatus' = StatusWithInserted(i)
  BY DEF CommitItemRequested
<1>3. PICK c : c = ItemStatusCounts(ItemsOf(o), itemStatus')
  OBVIOUS
<1>4. consumer.counts = c
  BY <1>2, <1>3 DEF ConsumerCountsExact, CommitItemRequested, ConsumerAt
<1>5. PICK row : row = UpsertedOrderRow(orderRow[o])
  OBVIOUS
<1>6. row \in OrderRows /\ (row.readyAt <=> orderRow[o].readyAt)
  BY <1>1, <1>5, UpsertedRowType, UpsertedRowFields DEF TypeOK
<1>7. orderRow'[o] = UpdatedOrderRow(row, c) /\ \A p \in Orders \ {o} : orderRow'[p] = orderRow[p]
  BY <1>1, <1>4, <1>5 DEF CommitItemRequested, TypeOK
<1>8. /\ orderRow'[o].status = DeriveOrderStatus(c)
      /\ orderRow'[o].ready = c["READY"]
      /\ orderRow'[o].blocked = c["BLOCKED"]
      /\ orderRow'[o].readyAt <=> row.readyAt \/ DeriveOrderStatus(c) = "READY"
  BY <1>1, <1>4, <1>6, <1>7, UpdatedRowFields
<1> QED
  BY <1>1, <1>3, <1>4, <1>6, <1>7, <1>8

\* Events are recorded by the consumer's commit alone, and the order row it
\* writes is exact, whatever the staff did since it counted.
THEOREM ConsumerExactStatus == Spec => ConsumerWritesExactStatus
<1> DEFINE Exact ==
      processed' # processed =>
          LET o      == OrderOf[ItemOf[consumer.event]]
              counts == ItemStatusCounts(ItemsOf(o), itemStatus')
          IN  /\ orderRow'[o].status = DeriveOrderStatus(counts)
              /\ orderRow'[o].ready = counts["READY"]
              /\ orderRow'[o].blocked = counts["BLOCKED"]
<1>1. ASSUME TypeOK, ConsumerCountsExact, [Next]_vars PROVE Exact
  <2>1. ASSUME processed' # processed PROVE CommitItemRequested
    BY <1>1, <2>1, RowsChange DEF rows, CommitCommand
  <2> QED
    BY <1>1, <2>1, CommitIsExact
<1>2. ASSUME TypeOK, ConsumerCountsExact, [Next]_vars PROVE [Exact]_vars
  BY <1>1, <1>2
<1> QED
  BY <1>2, TypeCorrect, ConsumerExact, PTL DEF Spec, ConsumerWritesExactStatus

-----------------------------------------------------------------------------
(* Orders of one unit.                                                     *)

\* What the commit of a command writes to the row of its order.
LEMMA CommitCommandOrder ==
    ASSUME TypeOK, NEW s \in Staff, CommitCommand(s)
    PROVE  LET o == OrderOf[request[s].item]
               c == request[s].counts
           IN  /\ o \in Orders
               /\ c \in Counts
               /\ orderRow'[o].status = DeriveOrderStatus(c)
               /\ orderRow'[o].ready = c["READY"]
               /\ orderRow'[o].readyAt <=> orderRow[o].readyAt \/ DeriveOrderStatus(c) = "READY"
               /\ \A p \in Orders \ {o} : orderRow'[p] = orderRow[p]
               /\ \A p \in Orders \ {o} : orderOutbox'[p] = orderOutbox[p]
               /\ DeriveOrderStatus(c) # "READY" => orderOutbox' = orderOutbox
<1> DEFINE o == OrderOf[request[s].item]
           c == request[s].counts
<1>1. o \in Orders /\ c \in Counts
  BY ActiveRequest DEF CommitCommand, RequestAt
<1>2. /\ orderRow'[o] = UpdatedOrderRow(orderRow[o], c)
      /\ \A p \in Orders \ {o} : orderRow'[p] = orderRow[p]
      /\ orderRow[o] \in OrderRows
  BY <1>1 DEF CommitCommand, TypeOK
<1>3. \A p \in Orders \ {o} : orderOutbox'[p] = orderOutbox[p]
  BY <1>1 DEF CommitCommand, TypeOK
<1>4. DeriveOrderStatus(c) # "READY" => orderOutbox' = orderOutbox
  BY DEF CommitCommand
<1> HIDE DEF o, c
<1>5. /\ orderRow'[o].status = DeriveOrderStatus(c)
      /\ orderRow'[o].ready = c["READY"]
      /\ orderRow'[o].readyAt <=> orderRow[o].readyAt \/ DeriveOrderStatus(c) = "READY"
  BY <1>1, <1>2, UpdatedRowFields
<1> QED
  BY <1>1, <1>2, <1>3, <1>4, <1>5 DEF o, c

\* The status derived from one item is its status.
LEMMA SingleItemStatus ==
    ASSUME NEW o \in Orders, NEW i, ItemsOf(o) = {i}, NEW f, f[i] \in Statuses
    PROVE  DeriveOrderStatus(ItemStatusCounts(ItemsOf(o), f)) = f[i]
<1> DEFINE c == ItemStatusCounts(ItemsOf(o), f)
<1>1. ASSUME NEW s \in Statuses PROVE c[s] = IF s = f[i] THEN 1 ELSE 0
  <2>1. c[s] = Cardinality({j \in {i} : f[j] = s})
    BY DEF ItemStatusCounts
  <2>2. CASE s = f[i]
    <3>1. {j \in {i} : f[j] = s} = {i}
      BY <2>2
    <3> QED
      BY <2>1, <2>2, <3>1, FS_Singleton
  <2>3. CASE s # f[i]
    <3>1. {j \in {i} : f[j] = s} = {}
      BY <2>3
    <3> QED
      BY <2>1, <2>3, <3>1, FS_EmptySet
  <2> QED
    BY <2>2, <2>3
<1> HIDE DEF c
<1>2. DeriveOrderStatus(c) = f[i]
  BY <1>1 DEF DeriveOrderStatus, Statuses
<1> QED
  BY <1>2 DEF c

\* A command on the only item of its order has derived the status it sets.
SingleCounts ==
    \A s \in Staff :
        /\ HasCounted(s)
        /\ ItemsOf(OrderOf[request[s].item]) = {request[s].item}
        => DeriveOrderStatus(request[s].counts) = request[s].newStatus

LEMMA SingleCountsNext ==
    ASSUME TypeOK, ReadRowsAreCurrent, SingleCounts, [Next]_vars
    PROVE  SingleCounts'
<1> SUFFICES ASSUME NEW s \in Staff, HasCounted(s)',
                    ItemsOf(OrderOf[request'[s].item]) = {request'[s].item}
             PROVE  DeriveOrderStatus(request'[s].counts) = request'[s].newStatus
  BY DEF SingleCounts, ItemsOf
<1>1. CASE request'[s] = request[s]
  BY <1>1 DEF SingleCounts, HasCounted
<1>2. CASE /\ request[s].phase = "counted"
           /\ request'[s].item = request[s].item
           /\ request'[s].newStatus = request[s].newStatus
           /\ request'[s].counts = request[s].counts
  BY <1>2 DEF SingleCounts, HasCounted
<1>3. CASE /\ request[s].phase = "updated"
           /\ request'[s].item = request[s].item
           /\ request'[s].newStatus = request[s].newStatus
           /\ request'[s].counts = ItemStatusCounts(ItemsOf(OrderOf[request[s].item]),
                                                    WithOwnWrite(request[s]))
  <2>1. /\ request[s].item \in Items
        /\ OrderOf[request[s].item] \in Orders
        /\ request[s].newStatus \in Statuses
    BY <1>3, InWork DEF Statuses
  <2>2. PICK f : f = WithOwnWrite(request[s])
    OBVIOUS
  <2>3. f[request[s].item] = request[s].newStatus
    BY <2>1, <2>2 DEF WithOwnWrite, TypeOK
  <2> QED
    BY <1>3, <2>1, <2>2, <2>3, SingleItemStatus
<1> QED
  BY <1>1, <1>2, <1>3, RequestChange DEF HasCounted

LEMMA SingleUnitNext ==
    ASSUME TypeOK, ReadRowsAreCurrent, ConsumerCountsExact, SingleCounts,
           SingleUnitOrderExact, [Next]_vars
    PROVE  SingleUnitOrderExact'
<1> SUFFICES ASSUME NEW o \in Orders, NEW i \in ItemsOf(o), ItemsOf(o) = {i}
             PROVE  orderRow'[o].status = itemStatus'[i]
  BY DEF SingleUnitOrderExact, ItemsOf
<1>1. i \in Items /\ OrderOf[i] = o
  BY DEF ItemsOf
<1>2. CASE UNCHANGED rows
  BY <1>2 DEF SingleUnitOrderExact, rows
<1>3. CASE CommitItemRequested
  <2>1. PICK j \in Items :
           /\ j = ItemOf[consumer.event]
           /\ IF itemStatus[j] = "none"
                THEN itemStatus' = [itemStatus EXCEPT ![j] = "QUEUED"]
                ELSE itemStatus' = itemStatus
    BY <1>3, CommitItemRequestedItem
  <2>2. CASE o = OrderOf[j]
    <3>1. j = i
      BY <2>2 DEF ItemsOf
    <3>2. orderRow'[o].status = DeriveOrderStatus(ItemStatusCounts(ItemsOf(o), itemStatus'))
      BY <1>3, <2>1, <2>2, CommitIsExact
    <3>3. itemStatus'[i] \in Statuses
      BY <1>1, <2>1, <3>1 DEF TypeOK, Statuses
    <3> QED
      BY <3>2, <3>3, SingleItemStatus
  <2>3. CASE o # OrderOf[j]
    <3>1. orderRow'[o] = orderRow[o]
      BY <1>3, <2>1, <2>3, CommitIsExact
    <3>2. itemStatus'[i] = itemStatus[i]
      BY <1>1, <2>1, <2>3 DEF TypeOK
    <3> QED
      BY <3>1, <3>2 DEF SingleUnitOrderExact
  <2> QED
    BY <2>2, <2>3
<1>4. ASSUME NEW s \in Staff, CommitCommand(s)
      PROVE  orderRow'[o].status = itemStatus'[i]
  <2>1. request[s].item \in Items /\ HasCounted(s)
        /\ itemStatus' = [itemStatus EXCEPT ![request[s].item] = request[s].newStatus]
    BY <1>4, ActiveRequest DEF CommitCommand, RequestAt, HasCounted
  <2>2. CASE o = OrderOf[request[s].item]
    <3>1. request[s].item = i
      BY <2>1, <2>2 DEF ItemsOf
    <3>2. orderRow'[o].status = request[s].newStatus
      BY <1>4, <2>1, <2>2, <3>1, CommitCommandOrder DEF SingleCounts
    <3> QED
      BY <1>1, <2>1, <3>1, <3>2 DEF TypeOK
  <2>3. CASE o # OrderOf[request[s].item]
    <3>1. orderRow'[o] = orderRow[o]
      BY <1>4, <2>3, CommitCommandOrder
    <3>2. itemStatus'[i] = itemStatus[i]
      BY <1>1, <2>1, <2>3 DEF TypeOK
    <3> QED
      BY <3>1, <3>2 DEF SingleUnitOrderExact
  <2> QED
    BY <2>2, <2>3
<1> QED
  BY <1>2, <1>3, <1>4, RowsChange

\* The order of a single unit always shows the status of that unit: what two
\* commands can do to the row of a larger order needs two items.
THEOREM SingleUnitExact == Spec => []SingleUnitOrderExact
<1>1. Init => SingleCounts /\ SingleUnitOrderExact
  BY DEF Init, SingleCounts, HasCounted, NoRequest, SingleUnitOrderExact, NoOrderRow, ItemsOf
<1>2. /\ TypeOK /\ ReadRowsAreCurrent /\ ConsumerCountsExact
      /\ SingleCounts /\ SingleUnitOrderExact
      /\ [Next]_vars
      => SingleCounts' /\ SingleUnitOrderExact'
  BY SingleCountsNext, SingleUnitNext
<1> QED
  BY <1>1, <1>2, TypeCorrect, ReadRowsCurrent, ConsumerExact, PTL DEF Spec

-----------------------------------------------------------------------------
(* READY and its announcement.                                             *)

\* No unit is requested under two event ids.  orders-service makes one event
\* per unit (OneEventPerUnit of OrderSubmission); a unit requested twice
\* could find its order READY and write that without an announcement.
OneEventPerItem == \A e, f \in Events : ItemOf[e] = ItemOf[f] => e = f

\* With one event per unit, a new event brings a new item, and the order it
\* joins is not READY.
LEMMA NewItemNotReady ==
    ASSUME TypeOK, OneEventPerItem, IntakeInv, ConsumerCountsExact, CommitItemRequested
    PROVE  LET o == OrderOf[ItemOf[consumer.event]]
           IN  /\ orderRow'[o].status # "READY"
               /\ orderRow'[o].readyAt <=> orderRow[o].readyAt
<1> DEFINE i == ItemOf[consumer.event]
           o == OrderOf[i]
<1>1. consumer.event \in Events /\ i \in Items /\ o \in Orders
  BY ActiveDelivery DEF CommitItemRequested, ConsumerAt
<1>2. consumer.event \notin processed
  BY DEF IntakeInv, DeliveryIsNew, CommitItemRequested, ConsumerAt
<1>3. ~ Materialised(i)
  <2>1. Materialised(i) <=> \E e \in processed : ItemOf[e] = i
    BY <1>1 DEF IntakeInv, ExactlyOnceIntake
  <2>2. \A e \in processed : ItemOf[e] = i => e = consumer.event
    BY <1>1 DEF OneEventPerItem, TypeOK
  <2> QED
    BY <1>2, <2>1, <2>2
<1>4. itemStatus'[i] = "QUEUED"
  BY <1>1, <1>3 DEF CommitItemRequested, StatusWithInserted, Materialised, TypeOK
<1>5. DeriveOrderStatus(ItemStatusCounts(ItemsOf(o), itemStatus')) # "READY"
  BY <1>1, <1>4, NotReadyYet DEF ItemsOf
<1> QED
  BY <1>5, CommitIsExact

LEMMA ReadyIsAnnouncedNext ==
    ASSUME TypeOK, OneEventPerItem, IntakeInv, ConsumerCountsExact, ReadyIsAnnounced,
           [Next]_vars
    PROVE  ReadyIsAnnounced'
<1> SUFFICES ASSUME NEW o \in Orders
             PROVE  /\ orderRow'[o].readyAt <=> Len(orderOutbox'[o]) > 0
                    /\ orderRow'[o].status = "READY" =>
                          /\ Len(orderOutbox'[o]) > 0
                          /\ orderRow'[o].ready = orderOutbox'[o][Len(orderOutbox'[o])].ready
  BY DEF ReadyIsAnnounced
<1>1. CASE orderRow'[o] = orderRow[o] /\ orderOutbox'[o] = orderOutbox[o]
  BY <1>1 DEF ReadyIsAnnounced
<1>2. CASE UNCHANGED rows
  BY <1>1, <1>2 DEF rows
<1>3. CASE CommitItemRequested
  <2>1. orderOutbox' = orderOutbox
    BY <1>3 DEF CommitItemRequested
  <2>2. CASE o = OrderOf[ItemOf[consumer.event]]
    BY <1>3, <2>1, <2>2, NewItemNotReady DEF ReadyIsAnnounced
  <2>3. CASE o # OrderOf[ItemOf[consumer.event]]
    BY <1>1, <1>3, <2>1, <2>3, CommitIsExact
  <2> QED
    BY <2>2, <2>3
<1>4. ASSUME NEW s \in Staff, CommitCommand(s), o = OrderOf[request[s].item],
             DeriveOrderStatus(request[s].counts) = "READY"
      PROVE  /\ orderRow'[o].readyAt
             /\ Len(orderOutbox'[o]) > 0
             /\ orderRow'[o].ready = orderOutbox'[o][Len(orderOutbox'[o])].ready
  <2> DEFINE R == [ready : Nat, total : Nat]
  <2>1. /\ request[s].counts \in Counts
        /\ orderRow'[o].ready = request[s].counts["READY"]
        /\ orderRow'[o].readyAt
    BY <1>4, CommitCommandOrder
  <2>2. PICK q, e : /\ q = orderOutbox[o]
                    /\ e = [ready |-> request[s].counts["READY"], total |-> orderRow[o].total]
    OBVIOUS
  <2>3. orderOutbox'[o] = Append(q, e)
    BY <1>4, <2>2 DEF CommitCommand, TypeOK
  <2>4. q \in Seq(R) /\ e \in R
    BY <2>1, <2>2 DEF TypeOK, OrderRows, Counts, Statuses
  <2>5. Len(Append(q, e)) = Len(q) + 1 /\ Append(q, e)[Len(q) + 1] = e /\ Len(q) \in Nat
    BY <2>4, AppendFacts
  <2> QED
    BY <2>1, <2>2, <2>3, <2>5
<1>5. ASSUME NEW s \in Staff, CommitCommand(s), o = OrderOf[request[s].item],
             DeriveOrderStatus(request[s].counts) # "READY"
      PROVE  /\ orderRow'[o].readyAt <=> orderRow[o].readyAt
             /\ orderRow'[o].status # "READY"
             /\ orderOutbox' = orderOutbox
  BY <1>5, CommitCommandOrder
<1>6. ASSUME NEW s \in Staff, CommitCommand(s), o # OrderOf[request[s].item]
      PROVE  orderRow'[o] = orderRow[o] /\ orderOutbox'[o] = orderOutbox[o]
  BY <1>6, CommitCommandOrder
<1>7. ASSUME NEW s \in Staff, CommitCommand(s)
      PROVE  /\ orderRow'[o].readyAt <=> Len(orderOutbox'[o]) > 0
             /\ orderRow'[o].status = "READY" =>
                   /\ Len(orderOutbox'[o]) > 0
                   /\ orderRow'[o].ready = orderOutbox'[o][Len(orderOutbox'[o])].ready
  BY <1>1, <1>4, <1>5, <1>6, <1>7 DEF ReadyIsAnnounced
<1> QED
  BY <1>2, <1>3, <1>7, RowsChange

\* With one event per unit, an order has a ready time exactly when it was
\* announced, and while it shows READY it shows what was announced last.
THEOREM ReadyAnnounced ==
    ASSUME OneEventPerItem
    PROVE  Spec => []ReadyIsAnnounced
<1>1. Init => ReadyIsAnnounced
  BY DEF Init, ReadyIsAnnounced, NoOrderRow
<1>2. TypeOK /\ IntakeInv /\ ConsumerCountsExact /\ ReadyIsAnnounced /\ [Next]_vars
      => ReadyIsAnnounced'
  BY OneEventPerItem, ReadyIsAnnouncedNext
<1> QED
  BY <1>1, <1>2, TypeCorrect, Intake, ConsumerExact, PTL DEF Spec

-----------------------------------------------------------------------------
(* Overlapping commands are the only way an order can miss READY.          *)

\* At most one command at a time is in flight on the items of an order.
CommandsApart ==
    \A s, u \in Staff :
        /\ ~ RequestAt(s, "none")
        /\ ~ RequestAt(u, "none")
        /\ OrderOf[request[s].item] = OrderOf[request[u].item]
        => s = u

\* All items of the order that have arrived are READY in a view of the items.
AllReady(o, status) ==
    /\ \A i \in ItemsOf(o) : status[i] \in {"none", "READY"}
    /\ \E i \in ItemsOf(o) : status[i] = "READY"

\* Whoever finishes the last item has counted that it is the last.
LastOneSeesIt ==
    \A s \in Staff :
        HasCounted(s) /\ AllReady(OrderOf[request[s].item], WithOwnWrite(request[s]))
            => WillAnnounce(s)

\* An order whose items are all READY shows it and was announced.
AllReadyIsShown ==
    \A o \in Orders : AllReady(o, itemStatus) =>
        orderRow[o].status = "READY" /\ Len(orderOutbox[o]) > 0

LEMMA AllReadyDerived ==
    ASSUME NEW o \in Orders, NEW f, AllReady(o, f)
    PROVE  DeriveOrderStatus(ItemStatusCounts(ItemsOf(o), f)) = "READY"
<1>1. PICK c \in Counts : c = ItemStatusCounts(ItemsOf(o), f)
  BY CountsType
<1>2. c["READY"] > 0
  BY <1>1, CountPositive DEF AllReady, Statuses
<1>3. ASSUME NEW s \in Statuses \ {"READY"}
      PROVE  c[s] = 0
  <2>1. {i \in ItemsOf(o) : f[i] = s} = {}
    BY <1>3 DEF AllReady, Statuses
  <2>2. c[s] = Cardinality({i \in ItemsOf(o) : f[i] = s})
    BY <1>1 DEF ItemStatusCounts
  <2> QED
    BY <2>1, <2>2, FS_EmptySet
<1>4. /\ c["QUEUED"] = 0 /\ c["IN_PROGRESS"] = 0 /\ c["BLOCKED"] = 0
      /\ c["READY"] \in Nat /\ c["CANCELLED"] \in Nat
  BY <1>3 DEF Counts, Statuses
<1>5. DeriveOrderStatus(c) = "READY"
  BY <1>2, <1>4 DEF DeriveOrderStatus
<1> QED
  BY <1>1, <1>5

LEMMA AllReadyAgree ==
    ASSUME NEW o, NEW f, NEW g, \A i \in ItemsOf(o) : f[i] = g[i], AllReady(o, g)
    PROVE  AllReady(o, f)
BY DEF AllReady

LEMMA LastOneSeesItNext ==
    ASSUME TypeOK, ReadRowsAreCurrent, CommandsApart, LastOneSeesIt, [Next]_vars
    PROVE  LastOneSeesIt'
<1> SUFFICES ASSUME NEW s \in Staff, HasCounted(s)',
                    AllReady(OrderOf[request'[s].item], WithOwnWrite(request[s])')
             PROVE  DeriveOrderStatus(request'[s].counts) = "READY"
  BY DEF LastOneSeesIt, WillAnnounce, AllReady, ItemsOf
<1>1. TypeOK'
  BY TypeNext
<1>2. PICK r : r = request'[s]
  OBVIOUS
<1>3. PICK o : o = OrderOf[r.item]
  OBVIOUS
<1>4. r.item \in Items /\ o \in Orders
  <2>1. request'[s] \in Requests
    BY <1>1 DEF TypeOK, HasCounted, NoRequest
  <2> QED
    BY <1>2, <1>3, <2>1, ConstantsAssumption DEF Requests
<1>5. PICK f : f = [itemStatus EXCEPT ![r.item] = r.newStatus]
  OBVIOUS
<1>6. PICK g : g = [itemStatus' EXCEPT ![r.item] = r.newStatus]
  OBVIOUS
<1>7. AllReady(o, g)
  BY <1>2, <1>3, <1>6 DEF WithOwnWrite
<1>8. /\ \A i \in Items : f[i] = IF i = r.item THEN r.newStatus ELSE itemStatus[i]
      /\ \A i \in Items : g[i] = IF i = r.item THEN r.newStatus ELSE itemStatus'[i]
  BY <1>1, <1>5, <1>6 DEF TypeOK
<1>9. ASSUME request'[s] = request[s] PROVE \A i \in ItemsOf(o) : f[i] = g[i]
  <2>1. CASE UNCHANGED rows
    BY <1>8, <2>1 DEF rows, ItemsOf
  <2>2. CASE CommitItemRequested
    <3>1. PICK j \in Items :
             IF itemStatus[j] = "none"
               THEN itemStatus' = [itemStatus EXCEPT ![j] = "QUEUED"]
               ELSE itemStatus' = itemStatus
      BY <2>2, CommitItemRequestedItem
    <3>2. itemStatus[r.item] # "none"
      BY <1>2, <1>9, InWork DEF HasCounted
    <3>3. j \in ItemsOf(o) /\ itemStatus[j] = "none" => g[j] = "QUEUED"
      BY <1>8, <3>1, <3>2 DEF TypeOK
    <3>4. j \in ItemsOf(o) => itemStatus[j] # "none"
      BY <1>7, <3>3 DEF AllReady
    <3>5. \A i \in ItemsOf(o) : itemStatus'[i] = itemStatus[i]
      BY <3>1, <3>4 DEF TypeOK, ItemsOf
    <3> QED
      BY <1>8, <3>5 DEF ItemsOf
  <2>3. ASSUME NEW u \in Staff, CommitCommand(u)
        PROVE  \A i \in ItemsOf(o) : f[i] = g[i]
    <3>1. request'[u] = NoRequest /\ ~ RequestAt(u, "none")
      BY <2>3 DEF CommitCommand, TypeOK, RequestAt
    <3>2. u # s /\ ~ RequestAt(s, "none")
      BY <1>9, <3>1 DEF HasCounted, NoRequest, RequestAt
    <3>3. OrderOf[request[u].item] # o
      BY <1>2, <1>3, <1>9, <3>1, <3>2 DEF CommandsApart
    <3>4. \A i \in ItemsOf(o) : itemStatus'[i] = itemStatus[i]
      BY <2>3, <3>3 DEF CommitCommand, TypeOK, ItemsOf
    <3> QED
      BY <1>8, <3>4 DEF ItemsOf
  <2> QED
    BY <2>1, <2>2, <2>3, RowsChange
<1>10. ASSUME request'[s] = request[s] PROVE DeriveOrderStatus(request'[s].counts) = "READY"
  <2>1. AllReady(o, f)
    BY <1>7, <1>9, <1>10, AllReadyAgree
  <2> QED
    BY <1>2, <1>3, <1>5, <1>10, <2>1 DEF LastOneSeesIt, HasCounted, WithOwnWrite, WillAnnounce
<1>11. ASSUME request'[s] # request[s] PROVE DeriveOrderStatus(request'[s].counts) = "READY"
  <2>1. /\ request[s].phase \in {"updated", "counted"}
        /\ request'[s].item = request[s].item
        /\ request'[s].newStatus = request[s].newStatus
        /\ UNCHANGED rows
        /\ \/ request'[s].counts =
                 ItemStatusCounts(ItemsOf(OrderOf[request[s].item]), WithOwnWrite(request[s]))
           \/ /\ request[s].phase = "counted"
              /\ request'[s].counts = request[s].counts
    BY <1>11, RequestChange DEF HasCounted
  <2>2. WithOwnWrite(request[s]) = f
    BY <1>2, <1>5, <2>1 DEF WithOwnWrite
  <2>3. f = g
    BY <1>5, <1>6, <2>1 DEF rows
  <2>4. AllReady(o, f)
    BY <1>7, <2>3
  <2>5. CASE request'[s].counts = ItemStatusCounts(ItemsOf(o), f)
    BY <1>4, <2>4, <2>5, AllReadyDerived
  <2>6. CASE request[s].phase = "counted" /\ request'[s].counts = request[s].counts
    BY <1>2, <1>3, <2>1, <2>2, <2>4, <2>6 DEF LastOneSeesIt, HasCounted, WillAnnounce
  <2> QED
    BY <1>2, <1>3, <2>1, <2>2, <2>5, <2>6
<1> QED
  BY <1>10, <1>11

LEMMA AllReadyIsShownNext ==
    ASSUME TypeOK, ReadRowsAreCurrent, ConsumerCountsExact, LastOneSeesIt,
           AllReadyIsShown, [Next]_vars
    PROVE  AllReadyIsShown'
<1> SUFFICES ASSUME NEW o \in Orders, AllReady(o, itemStatus')
             PROVE  orderRow'[o].status = "READY" /\ Len(orderOutbox'[o]) > 0
  BY DEF AllReadyIsShown, AllReady, ItemsOf
<1>1. CASE UNCHANGED rows
  BY <1>1 DEF AllReadyIsShown, rows
<1>2. CASE CommitItemRequested
  <2>1. PICK j \in Items :
           /\ j = ItemOf[consumer.event]
           /\ IF itemStatus[j] = "none"
                THEN itemStatus' = [itemStatus EXCEPT ![j] = "QUEUED"]
                ELSE itemStatus' = itemStatus
    BY <1>2, CommitItemRequestedItem
  <2>2. j \in ItemsOf(o) => itemStatus[j] # "none"
    BY <2>1 DEF AllReady, TypeOK
  <2>3. \A i \in ItemsOf(o) : itemStatus[i] = itemStatus'[i]
    BY <2>1, <2>2 DEF TypeOK, ItemsOf
  <2>4. AllReady(o, itemStatus)
    BY <2>3, AllReadyAgree
  <2>5. orderRow[o].status = "READY" /\ Len(orderOutbox[o]) > 0
    BY <2>4 DEF AllReadyIsShown
  <2>6. orderOutbox' = orderOutbox
    BY <1>2 DEF CommitItemRequested
  <2>7. orderRow'[o].status = "READY"
    <3>1. DeriveOrderStatus(ItemStatusCounts(ItemsOf(o), itemStatus')) = "READY"
      BY AllReadyDerived
    <3> QED
      BY <1>2, <2>5, <3>1, CommitIsExact
  <2> QED
    BY <2>5, <2>6, <2>7
<1>3. ASSUME NEW s \in Staff, CommitCommand(s), o = OrderOf[request[s].item]
      PROVE  orderRow'[o].status = "READY" /\ Len(orderOutbox'[o]) > 0
  <2>1. itemStatus' = WithOwnWrite(request[s])
    BY <1>3 DEF CommitCommand, WithOwnWrite
  <2>2. AllReady(o, WithOwnWrite(request[s]))
    BY <2>1
  <2>3. HasCounted(s)
    BY <1>3 DEF CommitCommand, RequestAt, HasCounted
  <2>4. DeriveOrderStatus(request[s].counts) = "READY"
    BY <1>3, <2>2, <2>3 DEF LastOneSeesIt, WillAnnounce
  <2>5. orderRow'[o].status = "READY" /\ request[s].counts \in Counts
    BY <1>3, <2>4, CommitCommandOrder
  <2>6. PICK q, e : /\ q = orderOutbox[o]
                    /\ e = [ready |-> request[s].counts["READY"], total |-> orderRow[o].total]
    OBVIOUS
  <2>7. orderOutbox'[o] = Append(q, e)
    BY <1>3, <2>4, <2>6 DEF CommitCommand, TypeOK
  <2>8. q \in Seq([ready : Nat, total : Nat]) /\ e \in [ready : Nat, total : Nat]
    BY <2>5, <2>6 DEF TypeOK, OrderRows, Counts, Statuses
  <2>9. Len(Append(q, e)) = Len(q) + 1 /\ Len(q) \in Nat
    BY <2>8, AppendFacts
  <2> QED
    BY <2>5, <2>7, <2>9
<1>4. ASSUME NEW s \in Staff, CommitCommand(s), o # OrderOf[request[s].item]
      PROVE  orderRow'[o].status = "READY" /\ Len(orderOutbox'[o]) > 0
  <2>1. orderRow'[o] = orderRow[o] /\ orderOutbox'[o] = orderOutbox[o]
    BY <1>4, CommitCommandOrder
  <2>2. \A i \in ItemsOf(o) : itemStatus[i] = itemStatus'[i]
    BY <1>4 DEF CommitCommand, TypeOK, ItemsOf
  <2>3. AllReady(o, itemStatus)
    BY <2>2, AllReadyAgree
  <2> QED
    BY <2>1, <2>3 DEF AllReadyIsShown
<1> QED
  BY <1>1, <1>2, <1>3, <1>4, RowsChange

\* What the documents promise of a finished order holds in every behaviour in
\* which the commands on one order do not overlap, whatever the consumer does
\* meanwhile: CountItemsByStatus before UpdateOrderStatus loses READY only to
\* another command in between.
THEOREM OnlyWriteSkewHidesReady ==
    Spec /\ []CommandsApart => []AllReadyOrderIsReady
<1> DEFINE Inv == LastOneSeesIt /\ AllReadyIsShown
<1>1. Init => Inv
  BY DEF Init, LastOneSeesIt, AllReadyIsShown, HasCounted, NoRequest, AllReady, ItemsOf
<1>2. TypeOK /\ ReadRowsAreCurrent /\ ConsumerCountsExact /\ CommandsApart /\ Inv
      /\ [Next]_vars => Inv'
  BY LastOneSeesItNext, AllReadyIsShownNext
<1>3. Inv => AllReadyOrderIsReady
  <2> SUFFICES ASSUME AllReadyIsShown, NEW o \in Orders, ItemsOf(o) # {},
                      \A i \in ItemsOf(o) : itemStatus[i] = "READY"
               PROVE  orderRow[o].status = "READY" /\ orderOutbox[o] # <<>>
    BY DEF AllReadyOrderIsReady
  <2>1. AllReady(o, itemStatus)
    BY DEF AllReady
  <2>2. orderRow[o].status = "READY" /\ Len(orderOutbox[o]) > 0
    BY <2>1 DEF AllReadyIsShown
  <2>3. Len(<<>>) = 0
    OBVIOUS
  <2> QED
    BY <2>2, <2>3
<1> HIDE DEF Inv
<1> QED
  BY <1>1, <1>2, <1>3, TypeCorrect, ReadRowsCurrent, ConsumerExact, PTL DEF Spec
=============================================================================
