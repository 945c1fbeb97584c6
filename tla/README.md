# Agentic restaurant: models and proofs

TLA+ specifications of the way of an order through this repository, from the
browser of a guest to the board of the kitchen, the TLC configurations that check them on small instances, and theorems that TLAPS
proves for every instance.

1. [The system](#1-the-system)
2. [Inventory](#2-inventory)
3. [Modules](#3-modules)
4. [Runs](#4-runs)
5. [Fairness](#5-fairness)
6. [Proofs](#6-proofs)
7. [What the code does not do](#7-what-the-code-does-not-do)
8. [Not modelled](#8-not-modelled)
9. [Plan](#9-plan)

## 1. The system

Guests order dishes in a React client; the kitchen works on them through a
staff board. An order takes this way:

    orders-client --PUT--> orders-service --outbox--> RabbitMQ --> production-service --outbox--> RabbitMQ
                              |  |                                     ^
                  users-service  menu-service              staff-client (board, commands)

- **orders-service** (Kotlin) stores an order, its lines and one outbox event per
  *unit* of every line in one MySQL transaction; a timer publishes the outbox.
- **production-service** (Go) consumes `production.item.requested.v1`, keeps one
  production item per unit and one production order per order, serves the board
  and the staff commands, and publishes its own outbox.
- **users-service** (Kotlin) issues tokens: guest logins, staff logins, and a pool
  of application users for the clients.
- **menu-service** (Java) is a read-only catalogue that orders-service asks.
- **orders-client**, **staff-client** (React) keep tokens, a basket and a polled
  board in component state.

## 2. Inventory

| component | state it keeps | operations | interacts with | what is hard | what makes it correct |
|---|---|---|---|---|---|
| production rules (`internal/domain`) | none | `DeriveOrderStatus`, `ValidateTransition` | both handlers | – | the table the lifecycle rests on |
| production consumer (`internal/consumer`, `internal/rabbitmq`) | `production_orders`, `production_items`, `processed_events`, `production_event_outbox` | `HandleMessage`: dedupe, upsert order, insert item, recount, outbox; ack or nack | RabbitMQ, MySQL, commands (rows) | redelivery, crash between commit and ack, row locks against commands | each event takes effect once; the row it writes is exact |
| staff commands (`internal/api`) | the same rows | pickup, block, resume, ready | MySQL, consumer (rows) | overlapping transactions, snapshot reads, optimistic version, rollback at any statement | one winner per item; no half command; order status follows items |
| board queries (`internal/api`) | none | list, display list, details | MySQL | several reads without a transaction | a card is consistent |
| production outbox (`internal/outbox`) | `published_at` | poll, publish, mark | RabbitMQ | publish without mark, failed publish in a batch | at least once, order per item |
| start-up (`cmd`, `rabbitmq/client.go`) | exchange, queue, bindings | declare | RabbitMQ | messages sent before anything is bound | nothing published is lost |
| order submission (`OrderSubmissionService`, `OrderPersistence`) | `orders`, `order_lines`, `order_outbox` | submit | users-service, menu-service, MySQL | concurrent retries of one request id, caught unique violation in a joined transaction | one order per request id, one event per unit, all or nothing |
| order outbox (`OrderOutboxPublisher`) | `published_at` | scheduled publish | RabbitMQ | crash between send and mark, exchange not declared yet | at least once |
| service tokens (`StartupAuthClient`, twice) | current token | acquire with backoff, refresh | users-service | retry, refresh racing use | a valid token eventually |
| application pool (`AuthService`, `JdbcUserRepository`) | pool users, last use | acquire | MySQL | concurrent acquisition, reclaim by idleness | bounded pool, one owner per slot |
| guests and archival (`GuestArchivalJob`) | guest users | create, archive | MySQL | archival racing a live session | no live guest archived |
| login, validation, JWT | none | login, validate | all services | – | – |
| menu catalogue | items (read-only) | lookup | orders-service | – | unknown ids are refused |
| clients of other services | none | lookup, validate | – | timeouts | fail closed |
| orders-client | user, menu, basket, submission; `sessionStorage`; application token | sign-in of users and guests, menu, basket, submit, logout, page load | users-, menu- and orders-service | lost and late answers, fresh request id per attempt, callbacks after a logout | no double order, no form disabled for ever, one token request at a time |
| staff-client, session and display mode | view, session, poll timer; `sessionStorage`; application token | login, display mode, back, exit, page load, token refresh | users-service | late answers, timers that captured an old session | board, poll and stored session agree |
| staff-client, board and commands | list of orders, details, loading flags | poll, select, command and the loads after it | production-service | overlapping calls, stale details, partial failure | shows the last state; a command is refused only when the details were stale |
| ui-common-libs, compose, scripts | none | – | – | – | – |

The hazards, each at its line and with the properties aimed at it, are in
`PROJECT.json`.

## 3. Modules

### `ProductionDomain`

The rules of `internal/domain` as operators: `validTransitions` is the command
table as a set of triples (from, command, to), `DeriveOrderStatus` the status
from the counts, `ItemStatusCounts` the grouped count of
`Store.CountItemsByStatus`. `validTransitionsReopen` is a faulty variant.

### `ProductionService`

Consumer and staff commands as MySQL transactions, one action per statement that
locks, reads or commits.

| variable | code |
|---|---|
| `orderRow` | `production_orders`: status, total, ready and blocked counts, `ready_at` |
| `itemStatus`, `itemVersion`, `claimedBy`, `blockedReason` | `production_items`; `"none"` means no row |
| `processed` | `processed_events` |
| `itemOutbox`, `orderOutbox` | `production_event_outbox` in id order, per aggregate |
| `queue` | copies of each event in `production.item.requested.v1` |
| `consumer` | the unacknowledged delivery and how far `HandleMessage` got |
| `request` | the command each staff member runs and how far `commandHandler` got |

The first three lines are committed rows. What a transaction has written is in
`consumer` or `request` until its commit, so a rollback or the end of the process
drops the record and nothing else. The end of the process is the failure of the
delivery and of every command in flight, each an action of its own.

*Isolation.* The data source sets no isolation level, so InnoDB's REPEATABLE READ
holds. The only plain `SELECT` of items in a transaction is `CountItemsByStatus`;
it is the transaction's first consistent read, so its snapshot is the rows
committed at that moment plus the transaction's own writes (`InsertAndCount`,
`CountItemsByStatus`). `SELECT ... FOR UPDATE`, `UPDATE` and the upsert act on the
latest row and hold its lock to the end (`ItemLocked`, `OrderLocked`). The
`INSERT IGNORE` of an existing item meets only the record of the unique index,
which a command never locks.

*Consumer.* `Deliver` → `InsertProcessedEvent` → `UpsertProductionOrder` →
`InsertAndCount` → `CommitItemRequested` → `Ack`; `ConsumerFails` from any of
them. A known event jumps from `InsertProcessedEvent` to `Ack`, as the handler's
early commit does. `Deliver` takes any copy: redeliveries and several publishers
do not keep the queue's order.

*Commands.* `GetItemByID` (with `ValidateTransition`) → `UpdateItemStatus` (a
version mismatch ends the command) → `CountItemsByStatus` → `UpdateOrderStatus`
→ `CommitCommand`; `CommandFails` from any of them. A refused command (404, 409
for the transition) changes nothing and is a stutter. The model lets a caller
expect any version.

*Data left out.* Timestamps, names, station keys and the order's own `version`
(written, never compared). `ready_at` and `blocked_reason` are kept as "is set".

*Faulty variants.* `InsertProcessedEventBlind`, `CountItemsByStatusDirty` and the
like are not part of the specification. Each is the definition below it with a
plausible bug; substituting it breaks the property it is meant for.

### `ItemLifecycle`

What staff and the receivers of item events may rely on: an item is requested,
picked up by one person, blocked, resumed and finished, each in one atomic step
that also announces it. `ProductionService` implements it
(`ImplementsLifecycle`): a commit is one lifecycle step, everything else none.
It says nothing of orders, because their status is *not* atomic with the items'
(section 7).

### `OrderDomain`

What an accepted order asks production for, shared by the two order modules:
`Units` (line number and unit sequence), `EventsFor` (one event per unit, with the
order's `TotalItemCount`), `Key` (the unique constraint on user and request id).

### `OrderSubmission`

`PUT /api/v1/orders/{requestId}`: an *attempt* is one HTTP call, and any number of
attempts carry the same request id, at once or one after the other.

| variable | code |
|---|---|
| `orders` | committed `orders` and `order_lines` |
| `outbox` | committed `order_outbox_events` |
| `call` | body, path and token owner of an attempt |
| `phase` | how far `submitOrder` has come in its transaction |
| `answer` | the HTTP response; `rolledBack` is the 500 of `UnexpectedRollbackException` |

`ValidateRequest` (bean validation, token, user) → `FindExisting` → `ResolveMenu`
→ `InsertOrder` → `InsertOutboxEvents` → `Commit`, or `RollBackDuplicate` after
`InsertOrder`; `Fail` from any phase is a failing statement, a lost deadlock or
the end of the process. What an attempt has inserted follows from its phase, so a
rollback needs no undo. `KeyLocked` is the wait of an `INSERT` for another
transaction that holds the same unique key. The lookup in the `catch` block reads
the snapshot of `FindExisting`, and `createOrder` has marked the joined
transaction rollback-only, so its result is lost either way. Users-service and
menu-service appear as the answers the clients turn them into: both fail closed.

### `OrderIntake`

The promise of `OrderSubmission` to its callers: a register in which the first
order placed under a key stays the only one, and which asks for all units in the
step that places the order (`ImplementsIntake`).

### `OrderHandoff`

From the commit of an order to its production items. It joins the two parts above
at what they promise: `Accept` is `Place` of `OrderIntake`, `Consume` is the
commit of `HandleMessage`, once per event.

| variable | code |
|---|---|
| `accepted`, `createdAt` | committed orders; `created_at` of their outbox rows |
| `published` | rows with `published_at` |
| `running`, `batch`, `sent` | a run of `publishPendingEvents`: rows still to do, and the one sent but not marked |
| `topology` | what `EnsureTopology` has declared; durable, so it only grows |
| `queued` | events with at least one copy in the queue |
| `processed` | events with a committed row in `processed_events` |

`FetchBatch` takes the oldest pending rows; rows of one time come in any order.
`Send` also succeeds when the message is lost: `rabbitTemplate.send` has neither
publisher confirms nor the mandatory flag. `SendFails` is the caught
`AmqpException`, `PublisherStops` an exception of the database, which is not
caught, or the end of the process. A copy that `Consume` leaves in the queue
stands for a second copy and for a lost acknowledgement. The constant `Declared`
says what earlier starts of production-service may have left on the broker:
nothing, the exchange only, or all of it.

### `AppToken`

`features/auth/appToken.ts`, of which each client has a copy: the token it keeps,
its refresh timer, and `requestTokenWithRetry` as a *loop* with its attempts.
The clients extend the module and add what awaits a loop.

| variable | code |
|---|---|
| `stored`, `armed` | `displayToken` or `appToken`; `refreshTimer` |
| `inFlight` | `inFlightRequest`, the promise a second caller joins |
| `loop` | every `requestTokenWithRetry` under way: attempt, calling or delaying |
| `refreshing` | loops whose result a `refreshToken` awaits |
| `expired` | tokens users-service no longer accepts |

Only staff-client has `clearDisplayToken` (`ClearToken`), which forgets a request
in flight and does not cancel it: two loops may run, the `finally` of the first
clears the promise of the second, and a late answer stores a token again.

In the three client modules a step is one handler up to its `await`, or what follows
an `await`, together with the render and the effects it causes: JavaScript runs that
much without interruption. An answer may come at any time and in any order, every
call may fail, and there is no clock: an armed timer may fire and a token may run
out at any moment, as in a browser that delays the timers of a background tab.

### `StaffSession`

Who uses staff-client and in which mode.

| variable | code (`staff-client/src/App.tsx`) |
|---|---|
| `view`, `session`, `displayError` | the component's states |
| `storage` | the persisted session of `features/auth/session.ts`: interactive with its token, display without |
| `login` | the login under way (`authLoading`) |
| `entering` | loops that an `enterDisplayMode` awaits |
| `poll` | the session the interval of the poll effect has captured |

`ChooseInteractive`, `ChooseDisplay`, `SubmitLogin`, `LoginSucceeds`,
`LoginFails`, `GoBackToLanding`, `ResetAllState` (Logout, Exit) and `Reload` (the page
is loaded again: `computeInitialState` and the effect that re-enters display mode)
are the handlers; `AcquireSucceeds`, `AcquireFails`, `TriesAgain`, `RefreshDue` join
them to `AppToken`. `PollEffect` belongs to every step: the effect with its
dependencies `isBoardView` and `session?.accessToken`.

### `StaffBoard`

The interactive board, for the session of `StaffSession` reduced to signed in or
not. Of production-service only its rows matter here: `history` is the sequence of item
statuses it has held, each legal by the `validTransitions` of `ProductionDomain`, and a
call is served with the version of some moment between its sending and its answer.
A command is one step (its statements are in `ProductionService`), and so is the
reading of a board or a detail, which `listOrders` and `getOrder` do in several
statements: versions cannot tell the difference, and the mixture is among the
hazards without a property.

| variable | code |
|---|---|
| `shown`, `boardLoading` | `orders` (by version), `boardLoading` |
| `selected`, `detail`, `detailLoading`, `detailError` | the details panel |
| `commandLoading` | the item whose buttons are disabled |
| `call` | each `fetch` under way and what follows it |

`onItemCommand` is a chain: `SendItemCommand` → `CommandAnswers`, which loads the
details of the order selected *when the button was pressed*, which need not be the
order on the panel (section 7) → `DetailAnswers` or
`DetailFails` (`loadDetail` catches) → `BoardAnswers` or `BoardFails`. `CommandFails` also
stands for a command that was executed and whose answer was lost. Polls, selections
and chains overlap in all ways. A load of a chain keeps in `after` the command call it
follows. `OthersCommand` is another member of the staff.

### `OrdersClient`

orders-client from the landing page to the confirmation.

| variable | code (`orders-client/src/App.tsx`) |
|---|---|
| `session`, `storage` | token, user and mode, which change together; `sessionStorage` |
| `entryStep`, `authLoading` | the component's states |
| `signIn` | each `onLogin` or `onGuestLogin` under way and what it awaits |
| `menu`, `menuLoading`, `reloads` | whether there are menu items; `reloadMenu` calls under way |
| `basket`, `submitLoading`, `lastOrder` | the component's states |
| `request` | each request id made by `submitOrder`, whether its answer is awaited, and whether orders-service placed it |
| `tried` | the request the basket, as it is, was last sent with (history) |

A sign-in of a user awaits `login` and the menu, that of a guest the application
token (its own request or one in flight), `createGuestUser` and the menu.
Of orders-service there is one step: `OrdersServiceAccepts` may happen at any time after
`PlaceOrder`, also after `OrderFails`, the logout or a page load, which is all that the
client can know of it. What it promises for one request id is `OrderIntake`.

### `MC*` and `*Proofs`

The instances for TLC and the theorems (section 6).

## 4. Runs

| run | instance | shows |
|---|---|---|
| `production_safety` | 1 order, 2 units, 2 events, 2 staff | the guarantees below, through failures and redelivery at every statement, and refinement of `ItemLifecycle` |
| `production_single_unit` | 1 unit, 2 events for it, 2 copies of each, 2 staff, fair | the unique source key keeps one item and one `item.queued`; the outbox tells every version of it; the order always shows its item's status; every request becomes an item and every command ends |
| `production_write_skew` | 2 units | section 7 |
| `order` | 3 attempts, 2 users, 1 request id, 2 bodies, fair | the guarantees below, refinement of `OrderIntake`, and every call is answered |
| `order_race` | 2 attempts | section 7 |
| `handoff` | 2 orders, 3 units, batches of 2, queue declared or not yet, fair | while no connection breaks with messages under way (`Lossless = TRUE`): nothing marked published is lost if the queue existed from the start, and what is sent once the queue exists is made. Without conditions: the backlog is published |
| `handoff_startup` | the same, nothing declared | section 7 |
| `staff_session` | 2 staff, 3 tokens, 2 loops, 2 retries, fair | screen, poll and stored session agree, the refresh goes on, the loading screen of display mode ends |
| `staff_display_token` | the same | section 7 |
| `staff_board` | 2 orders of one item, one anywhere in its life; 2 calls at once; 1 command takes effect, fair | the guarantees below, and the board settles on the last state |
| `orders_client` | a user and a guest, 2 sign-ins and 2 loops at once, 2 retries, 2 requests, fair | one token request at a time, flags have causes, a disabled sign-in form is enabled again |
| `orders_client_retry` | the same with one sign-in, one loop, one retry | section 7 |

Guarantees of `production_safety`:

- `ExactlyOnceIntake`: items, order rows and totals follow exactly the set of
  processed events.
- `ReadRowsAreCurrent`: what a command read under its lock holds until it acts.
- `ClaimedOnce`: at most one pickup per item is announced, exactly when it is claimed
  (not by whom: the outbox rows of the model do not say).
- `AnnouncedItemsAreReady`, `AnnouncementsGrow`: `order.ready` is true when
  written and later, and is repeated only with a larger count.
- `ReadyIsAnnounced`: `ready_at` and READY orders go with an announcement.
- `NothingIsUndone`: READY, claims and rows are never taken back.
- `ConsumerWritesExactStatus`: the row the consumer commits is exact.

Guarantees of `order`:

- `OneOrderPerRequest`: a request has at most one order, however often and
  however concurrently it is repeated.
- `OneEventPerUnit`, `TotalsAreRight`: the outbox asks exactly once for every unit
  of every committed order, and each event carries their number.
- `AnswersAreTrue`: who is told of an order asked for it under its own token, and
  the order is committed.
- `LosersHaveAWinner`: who is turned away as a duplicate finds the order next time.

Guarantees of `handoff`. `AtLeastOnceWhenBound` and `EveryUnitIsMade` state the
condition `Lossless`, and the configuration sets it: no connection breaks with messages under way. In the
code such a message is lost for good, since there are no publisher confirms
(section 7). With `Lossless = FALSE` both formulas are true of anything: they promise
nothing for connections that lose messages.

- `AtLeastOnceWhenBound`: under `Lossless`, with the queue declared before the first
  order, a row marked published is queued or processed, through sends that throw,
  failing marks, and stops of the publisher between send and mark.
- `EveryUnitIsMade`: under `Lossless`, every unit not yet sent when the queue exists
  becomes a production item, through any number of those failures.
- `BacklogIsPublished`: the publisher passes over no row for ever. It says nothing of
  what is lost and needs no `Lossless`.

Guarantees of the clients:

- `BoardFollowsSession`, `StorageFollowsSession` (`staff_session`): whatever answers come
  late, the board on the screen is the one of the session's mode, the interval asks with
  that session's token, and a page load brings that board back. Logins, display
  entries, exits and clears overlap; no old interval survives.
- `RefreshGoesOn`: a client that holds a token has its refresh due or under way, also
  after failed retries and after a clear with a request in flight.
- `DisplayWaitEnds`: the loading screen ends with the board or with an error and Back.
- `RefusedOnlyWhenStale` (`staff_board`): client and server agree on the command table, so
  a refusal always means that the item changed since its details were read.
- `CommandIsSeen`: what `onItemCommand` loads follows a command that has moved its item
  and was read after that step, although polls and other selections are under way.
  The detail is the one of the commanded item's order *if* that order was selected
  when the button was pressed; otherwise see section 7.
- `SpinnersHaveCause`, `LoadingHasCause`: no flag that disables buttons outlives the calls
  that reset it, through failures, logouts and overlapping chains; and a second
  order is held off while the answer to the first is awaited.
- `BoardSettles`: once production-service rests, the board comes to show its last
  state and stays with it, although older answers may overtake newer ones meanwhile.
- `OneTokenRequest` (`orders_client`): sign-ins of guests, refreshes and retries share one
  request. staff-client does not have this property, because it clears.
- `SignInEnds`: a disabled sign-in form is enabled again.

*Bounds of production.* Races need two transactions on one order: two items and two staff
members give command/command, command/consumer and same-item races. Orders share
no row except the event log, so one order suffices. `MaxCopies` = 1 already
gives any number of redeliveries, since `ConsumerFails` puts a copy back;
2 adds copies that wait side by side. `MaxVersion` = 4 covers pickup, block, resume
or ready, and all their two-item overlaps; 5 in the single-unit run adds repeated
blocking. Staff members are interchangeable, so the safety runs use symmetry; the
liveness run does not. `CHECK_DEADLOCK FALSE`: the system may be idle, with every
event handled and every version at its bound.

*Bounds of orders.* Three attempts are a winner, a loser that races it and a repeat
after either has ended; with two users the same request id means two keys. The
bodies are one that passes, with a line of two units, and one that validation
refuses; a missing or foreign token, an unknown user and failing lookups come from
the actions. Two orders of together three units and a batch of two make the publisher
leave rows behind; two values of `created_at` give every order and every tie. These
systems end when every call is answered and every event published, so deadlock is not
checked.

*Bounds of the clients.* Two loops are a request forgotten by a clear and the one that
replaces it; a third would need a second clear before the first loop has ended and
meets the same code. Three tokens are the stored one, the one the session keeps, and
a new one; tokens may be used again once both are gone. Two retries are a failure
that is retried and the last. Two calls of the board are enough for
every overtaking of one answer by another; the first item starts in any status, so
that a history of two versions passes every command once, and a third command could
only be refused. Two sign-ins are the one left behind by a logout and the next. Two
requests are an order and its repetition. A client may be idle, with the bounded
commands and requests used up, so deadlock is not checked.

## 5. Fairness

`Fairness` is what the code's scheduling gives:

- weak fairness of `Deliver` and of the handler's steps: `consumeLoop` blocks on
  its channel and runs `HandleMessage` to its end;
- strong fairness of `UpsertProductionOrder` and of a command's steps: they may
  wait for the order's row lock, which InnoDB hands out in the order of requests,
  so one who waits is not passed over for ever;
- `OutagesEnd`: the consumer fails any number of times but not for ever. A message
  that always fails is requeued for ever by the code, and nothing can be promised;
- nothing is assumed of the staff, and commands may fail for ever.

`EveryCommandEnds` under these is freedom from lock cycles. A command locks its item and
then the order. The consumer locks the order first, by its upsert, and then inserts
the item; it waits for no command there, because the row is new, or its
`INSERT IGNORE` meets the record of the unique index, which commands never lock. So
nobody waits for an item while it holds an order.

`FairSpec` of `OrderSubmission`: a request thread runs to its end, and InnoDB
grants a key to waiting inserts in turn (strong fairness of `InsertOrder`). `FairSpec`
of `OrderHandoff`: `@Scheduled` starts the next run when one has ended (weak fairness
of `Publish`), the consumer takes what is queued, and outages end. Nothing is assumed
of the start of production-service; `EveryUnitIsMade` begins when it has declared
its queue.

The clients: an HTTP call is answered or fails and the delay of a retry ends (weak
fairness of what follows each `await`), nothing is assumed of which. Nothing is assumed
of users, timers of tokens, or the moment an answer comes. `DisplayWaitEnds` adds that
the page is not loaded again for ever, since each load starts the wait anew.
`BoardSettles` adds that the interval goes on and that not every call for the board
fails; `Poll` is strongly fair only because it may have to wait for a free slot of
`Calls`, which is a bound of the model and not of the browser.

## 6. Proofs

`ProductionServiceProofs`, for all sets of orders, items, events and staff and all
bounds, assuming only `ConstantsAssumption` (items are finitely many, every item
has an order, every event an item, `NoStaff` is nobody):

| theorem | property | argument |
|---|---|---|
| `TypeCorrect` | `TypeOK` | inductive; the lemmas type the counts (finite subsets), the row updates and the command table |
| `ReadRowsCurrent` | `ReadRowsAreCurrent` | inductive with `TypeOK`: a row changes only at commits, a commit of the consumer changes only rows that did not exist, and a command's commit only the item it has locked |
| `Unclaimed` | – | an item never picked up has no claim; needed below |
| `LifecycleImplemented` | `ImplementsLifecycle` | `ItemRowsChange` leaves two actions that touch item rows; `ReadRowsAreCurrent` gives the triple of the command table at the commit, `UnclaimedUntilPickup` the guard of Pickup |
| `NothingUndone` | `NothingIsUndone` | the same two actions, with the same two invariants |
| `OutboxTells` | `OutboxTellsTheItem` | inductive with `TypeOK` and `ReadRowsAreCurrent`: every commit that moves an item appends what announces its new status (`TransitionAnnounced`) |
| `Claimed` | `ClaimedOnce` | a pickup starts from QUEUED, and by `UnclaimedUntilPickup` such an item has neither claim nor pickup in its outbox |

`ProductionOrderProofs`, about the order rows, from the same assumption:

| theorem | property | argument |
|---|---|---|
| `OrderLock` | – (`OrderLockExclusive`) | inductive: who takes the lock of an order found it free |
| `CountedOnce` | `ExactlyOnceIntake` | with `DeliveryIsNew`: an event past the check of `processed_events` stays new until its commit, because one delivery is handled at a time; so a commit adds one to the cardinality of the processed events and one to the total |
| `AnnouncedReady` | `AnnouncedItemsAreReady` | part of `AnnounceInv`, below |
| `Growing` | `AnnouncementsGrow` | part of `AnnounceInv`, below |
| `ConsumerExactStatus` | `ConsumerWritesExactStatus` | with `ConsumerCountsExact`: no command of the order commits while the consumer has the lock, so its counts do not grow old |
| `SingleUnitExact` | `SingleUnitOrderExact` | with `SingleCounts`: with one item the snapshot of a command is what it has locked |
| `ReadyAnnounced` | `ReadyIsAnnounced` | assumes `OneEventPerItem`; then the consumer's commit adds a QUEUED item and derives no READY (`NewItemNotReady`) |
| `OnlyWriteSkewHidesReady` | – (`AllReadyOrderIsReady`) | assumes `[]CommandsApart`; with `LastOneSeesIt` and `AllReadyIsShown` |

`AnnounceInv` says what a command knows although its count is older than its lock. The
count of READY items is a lower bound for ever, since READY is never taken back
(`CountsAreLowerBounds`). A command that counts while another one works on an item of
the order sees that item in work, so that of all that overlap at most one has counted
everything READY (`OneAnnouncer`). Who does counts its own item too, which was in work
when the last announcement was made, and so counts more (`NextIsLarger`). None of
the three is one of the checked properties, and `AnnouncedItemsAreReady` and
`AnnouncementsGrow` are not inductive without them.

Two theorems of this module have a hypothesis beyond the constants. `OneEventPerItem` (no unit is
requested under two event ids) is what `OneEventPerUnit` promises of orders-service;
without it `ReadyIsAnnounced` is false (section 7). `CommandsApart` (no two commands in
flight on one order) is false of the system in general, and that is the point: the
theorem says that the overlap of commands refuted by `production_write_skew` is the
only way for a finished order to miss READY. Failures, redelivery and the consumer
cannot cause it, and one command at a time per order would be enough to repair it.
`OnlyOverlapIsRolledBack`, below, says the same of `order_race`.

`OrderSubmissionProofs`, for all users, request ids, dishes, baskets and any number
of attempts (finitely many), from `SubmissionAssumption`:

| theorem | property | argument |
|---|---|---|
| `SubmissionTypeCorrect` | `TypeOK` | inductive |
| `OneOrder` | `OneOrderPerRequest` | with `KeysAreHeld`: an attempt that has inserted holds its key alone, and no committed order has it |
| `OneEvent` | `OneEventPerUnit` | with `OutboxFollowsOrders`: the outbox is the union of `EventsFor` over the committed orders, of which at most one has an attempt's id |
| `TotalsRight` | `TotalsAreRight` | `TotalCountsUnits`: the fold over the lines counts the units; with `OutboxFollowsOrders` and a bijection from units to events |
| `Losers` | `LosersHaveAWinner` | with `DuplicatesHaveAWinner`: a caught duplicate has an order, and orders are never removed |
| `OnlyOverlapIsRolledBack` | – (`RacesAreHandled`) | assumes `[]CallsApart` (calls with one key do not overlap after their lookup); with `AbsenceLasts`: what `FindExisting` did not find is still absent at the insert |
| `TrueAnswers` | `AnswersAreTrue` | with `UnderWay`: who has passed validation asks under its own token |
| `IntakeImplemented` | `ImplementsIntake` | a commit is `Place`, whose guard `KeysAreHeld` gives; finding an order is `Tell`; the rest stutters |

`OrderHandoffProofs`, for all orders with finitely many units and all batch sizes,
from `HandoffAssumption`:

| theorem | property | argument |
|---|---|---|
| `HandoffTypeCorrect` | `TypeOK` | inductive; the limit of a batch needs cardinalities of finite sets |
| `HandedOff` | `AtLeastOnceWhenBound` | under `Lossless`, which the property states; with `SentHasArrived`: the queue has existed from the start, and what is sent or marked is queued or processed |

`AppTokenProofs` holds what every step of the token manager keeps (`TokenStepTyped`,
`TokenStepRefreshes`), for both clients. `StaffSessionProofs`, for all staff, tokens,
concurrent loops and retries, from `AppTokenAssumption` and `StaffAssumption`:

| theorem | property | argument |
|---|---|---|
| `SessionTypeCorrect` | `TypeOK` | inductive as `SessionInv`; a waiting loop has a retry left |
| `BoardFollows` | `BoardFollowsSession` | `EffectSuffices`: the effect's two dependencies notice every change of session, because no login token is an application token |
| `StorageFollows` | `StorageFollowsSession` | with the types: what is stored is nothing, the mark of display mode, or an interactive session |
| `RefreshForEver` | `RefreshGoesOn` | every step that takes the timer away joins a refresh, and every refresh that ends arms it |

`StaffBoardProofs`, for all items, orders, calls at once and histories of any length, from
`BoardAssumption`:

| theorem | property | argument |
|---|---|---|
| `BoardTypeCorrect` | `TypeOK` | with `Answered` (an answer is of some version) and `HistoryGrows` (versions are never rewritten) |
| `OnlyStaleRefused` | `RefusedOnlyWhenStale` | with `Offers`: a command is legal in the version it was chosen from and illegal in the one that refused it; `OfferedIsLegal` compares the two tables |
| `CommandSeen` | `CommandIsSeen` | with `ChainsFollow`: an answered command has made a step of history that moved its item (`AnswerExecuted`) and stays there (`EffectLasts`), a load of its chain is served later, and its detail is of the order selected at the command |
| `SpinnersCaused` | `SpinnersHaveCause` | inductive: a call starts in a free place, and a chain ends with its flag |

`OrdersClientProofs`, for all users, dishes, requests, sign-ins, loops and retries, from
`AppTokenAssumption` and `OrdersClientAssumption`:

| theorem | property | argument |
|---|---|---|
| `ClientTypeCorrect` | `TypeOK` | inductive, in three parts (sign-in, menu, orders) and `TokenInv` |
| `OneRequest` | `OneTokenRequest` | a loop that ends is the one in flight, because orders-client never clears |
| `LoadingCaused` | `LoadingHasCause` | with `OneOpen`: the requests that await an answer are none or one, as `submitLoading` says |

`TotalCountsUnits` is an induction over data without a rule of induction, whose parameter
no installed prover can instantiate. `TotalItemCount` is the value of a function chosen
to satisfy a recursive equation over the sets of lines (`TotalUnfolded`). Counting units
satisfies the equation (`CountSolves`), and nothing else does: among the sets on which
two solutions differ, strict inclusion has a minimal one, which is not empty, and
without one of its lines it would be a smaller one (`OneSolution`).

Every invariant and action property that a passing run checks is now a theorem. Only
model-checked are the liveness properties, which are out of the prover's reach:
`EveryRequestMaterialises`, `EveryCommandEnds`, `EveryCallIsAnswered`,
`EveryUnitIsMade`, `BacklogIsPublished`, `DisplayWaitEnds`, `BoardSettles` and `SignInEnds`. So are the five refutations of section 7.

## 7. What the code does not do

Five statements of the repository's documents and comments are refuted by runs:

- `AllReadyOrderIsReady` (`production_write_skew`): two commands that finish the
  last two items at once each count the other as unfinished. Both derive
  IN_PROGRESS, and nothing later corrects it: the order is never READY nor announced.
- `RacesAreHandled` (`order_race`): the loser of two calls with one request id gets
  HTTP 500. `createOrder` joins the transaction of `submitOrder` and its exception
  marks that rollback-only before it is caught.
- `AtLeastOnce` (`handoff_startup`): only production-service declares exchange and
  queue, and orders-service does not wait for it. What is sent before is dropped by
  the broker and marked published.
- `DisplayTokenIsFresh` (`staff_display_token`): the display session keeps the token of
  its entry, and the poll asks with that copy. The refresh renews only the variable of
  the token manager, so the display board fails when the first token runs out.
- `RetriesAreIdempotent` (`orders_client_retry`): `submitOrder` of orders-client makes a new
  request id per call, so pressing Submit again after a lost answer is a second
  order. The request id protects from repetitions that keep it; no client makes them.

Behaviour met on the way that the models contain, without a run of its own:

- A command counts before it locks the order (`handlers.go:311`, `324`), so an item the
  consumer adds in between is missing from the status it writes.
- Neither handler looks at the event's `totalItemCount` (`handlers.go:374`): `order.ready`
  is announced when the units that have arrived are ready, and again with later ones.
- A display token that comes late takes over the screen of somebody who has signed in
  meanwhile (`staff-client App.tsx:250`).
- While the details of two orders are under way, the panel shows the first to be
  answered, which need not be the one selected (`staff-client App.tsx:347`). A command
  given there acts on an item of the order shown, and `onItemCommand` then loads the
  selected order: "execute a command → board and detail refresh" (the plan of task-021)
  is not kept, since the detail of the item's order is not loaded. `CommandIsSeen`
  without its condition `cause.order = OrderOf[cause.item]` is violated by
  `StaffBoard.cfg` in twelve states: select A, select B, A answers, press a button of A.
- A connection that breaks after `rabbitTemplate.send` has returned loses the message,
  and line 37 of `OrderOutboxPublisher` marks its row: the row does not stay pending
  and nothing retries, though `domain-brain/edge-cases.md:49` says "the outbox record
  stays pending, and background publishing retries until the production events are
  delivered". `HandoffStartup.cfg` with `Declared = {"bound"}` and `Lossless = FALSE`
  violates `AtLeastOnce` in five states.
- The basket is cleared by the answer, with what was added meanwhile, and also when
  another user has signed in (`orders-client App.tsx:188`).
- `Logout` enables the sign-in form while the menu of the last sign-in is awaited; two
  sign-ins can race and the later answer wins (`orders-client App.tsx:199`).
- When the menu fails after a sign-in, the error belongs to a screen that is gone
  (`orders-client App.tsx:120`).

- A second event id for a unit that exists would make the consumer, which recounts
  under the lock, the one that finds an order READY after a write skew: it sets the status
  and `ready_at`, but writes no `order.ready` (`handler.go` has no such row). orders-service
  makes one event per unit, so this needs another publisher.

What does hold instead: `SingleUnitOrderExact`, `ConsumerWritesExactStatus`,
`AnnouncedItemsAreReady`, `AnnouncementsGrow`; `LosersHaveAWinner`,
`OneOrderPerRequest`; `AtLeastOnceWhenBound`, while no connection breaks with messages
under way; `BoardFollowsSession`, `StorageFollowsSession`, `BoardSettles`,
`RefusedOnlyWhenStale`, `LoadingHasCause`.

## 8. Not modelled

Infrastructure (configuration, health, logging, ids), authentication middleware,
JWT and password hashing, `ui-common-libs` and the layout of both clients (tabs, text
size, folded lanes, sorting), tooling: no state that the properties tell apart.
The token pool, guests and their archival, the token clients of the services, the
outbox publisher and the board queries of production-service are in the plan; the
display board is the `LoadBoard` of `StaffBoard` without details and commands.

## 9. Plan

Done: `ProductionDomain`, `ProductionService`, `ItemLifecycle`; `OrderDomain`,
`OrderSubmission`, `OrderIntake`, `OrderHandoff`; their proofs; `AppToken`,
`StaffSession`, `StaffBoard`, `OrdersClient`; their proofs.

1. `ProductionOutbox`: batch of production-service's publisher, failed publish,
   failed mark; order of the events of an item, at least once. The records are those
   of `itemOutbox` and `orderOutbox`.
2. `AppTokenPool` (acquisition, reclaim by idleness, concurrent counts),
   `GuestLifecycle` (archival against a live session) and `TokenRefresh` (retry,
   refresh timer): three parts of users-service and its clients that meet at the
   tokens. They are small and share `users`, so one module composes them and one
   configuration checks them, with `AppToken` as the client that acquires.
3. The board queries as reader steps over the rows of `ProductionService`.
