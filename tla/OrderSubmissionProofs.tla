------------------------ MODULE OrderSubmissionProofs ------------------------
(***************************************************************************)
(* Machine-checked proofs about OrderSubmission, for every set of users,   *)
(* request ids, dishes, baskets and attempts.                              *)
(***************************************************************************)
EXTENDS OrderSubmission, SequenceTheorems, FiniteSetTheorems,
        WellFoundedInduction, TLAPS

-----------------------------------------------------------------------------
(* The operators the actions are built from.                               *)

\* A unit is a line number and a sequence number, both counted from one.
LEMMA UnitsType ==
    ASSUME NEW lines \in Baskets, NEW u \in Units(lines)
    PROVE  /\ u[1] \in DOMAIN lines
           /\ u[1] \in Nat \ {0}
           /\ u[2] \in Nat \ {0}
           /\ u = <<u[1], u[2]>>
<1>1. lines \in Seq([item : Dishes, quantity : Nat])
  BY SubmissionAssumption
<1>2. PICK k \in DOMAIN lines : u \in {k} \X (1..lines[k].quantity)
  BY DEF Units
<1>3. /\ Len(lines) \in Nat
      /\ DOMAIN lines = 1..Len(lines)
      /\ lines \in [1..Len(lines) -> [item : Dishes, quantity : Nat]]
  BY <1>1, LenProperties
<1>4. lines[k] \in [item : Dishes, quantity : Nat]
  BY <1>3
<1>5. lines[k].quantity \in Nat /\ k \in Nat \ {0}
  BY <1>3, <1>4
<1> QED
  BY <1>2, <1>5

\* The key of an attempt's order is the key of its call.
LEMMA DraftKey ==
    ASSUME TypeOK, NEW a \in Attempts
    PROVE  /\ Draft(a) \in OrderRows
           /\ Draft(a).id = a
           /\ Draft(a).lines \in Baskets
           /\ Key(Draft(a)) = Key(call[a])
BY DEF TypeOK, Draft, OrderRows, Calls, Key

LEMMA EventsType ==
    ASSUME NEW o \in OrderRows, NEW a \in Attempts
    PROVE  EventsFor(o, a) \subseteq EventRows
<1> SUFFICES ASSUME NEW u \in Units(o.lines)
             PROVE  [eventId |-> <<a, u>>, order |-> o.id, line |-> u[1],
                     unit |-> u[2], total |-> TotalItemCount(o.lines)] \in EventRows
  BY DEF EventsFor
<1>1. o.lines \in Baskets /\ o.id \in Attempts
  BY DEF OrderRows
<1>2. TotalItemCount(o.lines) \in {TotalItemCount(lines) : lines \in Baskets}
  BY <1>1
<1> HIDE DEF TotalItemCount
<1>3. u[1] \in Nat \ {0} /\ u[2] \in Nat \ {0} /\ u \in Nat \X Nat
  BY <1>1, UnitsType
<1> QED
  BY <1>1, <1>2, <1>3 DEF EventRows

-----------------------------------------------------------------------------
(* What a step does to the committed rows and the answers.                 *)

\* A step other than Commit keeps the tables and moves one attempt.
LEMMA OnlyCommitWrites ==
    ASSUME [Next]_vars
    PROVE  \/ UNCHANGED <<orders, outbox>>
           \/ \E a \in Attempts : Commit(a)
BY DEF Next, Step, ValidateRequest, FindExisting, ResolveMenu, InsertOrder,
       RollBackDuplicate, InsertOutboxEvents, Fail, vars

LEMMA CallsAreKept ==
    ASSUME [Next]_vars
    PROVE  call' = call
BY DEF Next, Step, ValidateRequest, FindExisting, ResolveMenu, InsertOrder,
       RollBackDuplicate, InsertOutboxEvents, Commit, Fail, vars

-----------------------------------------------------------------------------
(* Type correctness.                                                       *)

LEMMA SubmissionTypeInit == Init => TypeOK
BY DEF Init, TypeOK, Phases, Answers

LEMMA RespondType ==
    ASSUME TypeOK, NEW a \in Attempts, NEW response \in Answers, Respond(a, response)
    PROVE  /\ phase' \in [Attempts -> Phases]
           /\ answer' \in [Attempts -> Answers]
BY DEF TypeOK, Respond, Phases

LEMMA ProceedType ==
    ASSUME TypeOK, NEW a \in Attempts, NEW p \in Phases, Proceed(a, p)
    PROVE  /\ phase' \in [Attempts -> Phases]
           /\ answer' \in [Attempts -> Answers]
BY DEF TypeOK, Proceed

LEMMA RefusedType ==
    /\ Refused("badRequest") \in Answers
    /\ Refused("unauthorized") \in Answers
    /\ Refused("forbidden") \in Answers
    /\ Refused("error") \in Answers
    /\ Refused("rolledBack") \in Answers
BY DEF Refused, Answers

LEMMA AcceptedType ==
    ASSUME NEW o \in OrderRows
    PROVE  Accepted(o) \in Answers
BY DEF Accepted, Answers, OrderRows

LEMMA SubmissionTypeNext ==
    ASSUME TypeOK, [Next]_vars
    PROVE  TypeOK'
<1> USE RefusedType
<1>1. CASE UNCHANGED vars
  BY <1>1 DEF TypeOK, vars
<1>2. ASSUME NEW a \in Attempts, ValidateRequest(a) PROVE TypeOK'
  <2>1. phase' \in [Attempts -> Phases] /\ answer' \in [Attempts -> Answers]
    <3>1. "valid" \in Phases
      BY DEF Phases
    <3> QED
      BY <1>2, <3>1, RespondType, ProceedType DEF ValidateRequest
  <2> QED
    BY <1>2, <2>1 DEF ValidateRequest, TypeOK
<1>3. ASSUME NEW a \in Attempts, FindExisting(a) PROVE TypeOK'
  <2>1. phase' \in [Attempts -> Phases] /\ answer' \in [Attempts -> Answers]
    <3>1. \A o \in orders : Accepted(o) \in Answers
      BY AcceptedType DEF TypeOK
    <3>2. "absent" \in Phases
      BY DEF Phases
    <3> QED
      BY <1>3, <3>1, <3>2, RespondType, ProceedType DEF FindExisting
  <2> QED
    BY <1>3, <2>1 DEF FindExisting, TypeOK
<1>4. ASSUME NEW a \in Attempts, ResolveMenu(a) PROVE TypeOK'
  <2>1. phase' \in [Attempts -> Phases] /\ answer' \in [Attempts -> Answers]
    <3>1. "resolved" \in Phases
      BY DEF Phases
    <3> QED
      BY <1>4, <3>1, RespondType, ProceedType DEF ResolveMenu
  <2> QED
    BY <1>4, <2>1 DEF ResolveMenu, TypeOK
<1>5. ASSUME NEW a \in Attempts, InsertOrder(a) PROVE TypeOK'
  <2>1. phase' \in [Attempts -> Phases] /\ answer' \in [Attempts -> Answers]
    <3>1. "duplicate" \in Phases /\ "inserted" \in Phases
      BY DEF Phases
    <3> QED
      BY <1>5, <3>1, ProceedType DEF InsertOrder
  <2> QED
    BY <1>5, <2>1 DEF InsertOrder, TypeOK
<1>6. ASSUME NEW a \in Attempts, RollBackDuplicate(a) PROVE TypeOK'
  BY <1>6, RespondType DEF RollBackDuplicate, TypeOK
<1>7. ASSUME NEW a \in Attempts, InsertOutboxEvents(a) PROVE TypeOK'
  <2>1. "written" \in Phases
    BY DEF Phases
  <2> QED
    BY <1>7, <2>1, ProceedType DEF InsertOutboxEvents, TypeOK
<1>8. ASSUME NEW a \in Attempts, Commit(a) PROVE TypeOK'
  <2>1. Draft(a) \in OrderRows /\ EventsFor(Draft(a), a) \subseteq EventRows
    BY DraftKey, EventsType
  <2>2. phase' \in [Attempts -> Phases] /\ answer' \in [Attempts -> Answers]
    BY <1>8, <2>1, AcceptedType, RespondType DEF Commit
  <2> QED
    BY <1>8, <2>1, <2>2 DEF Commit, TypeOK
<1>9. ASSUME NEW a \in Attempts, Fail(a) PROVE TypeOK'
  BY <1>9, RespondType DEF Fail, TypeOK
<1> QED
  BY <1>1, <1>2, <1>3, <1>4, <1>5, <1>6, <1>7, <1>8, <1>9 DEF Next, Step

\* Type correctness.
THEOREM SubmissionTypeCorrect == Spec => []TypeOK
BY SubmissionTypeInit, SubmissionTypeNext, PTL DEF Spec

-----------------------------------------------------------------------------
(* One order per request.                                                  *)

\* An attempt that has inserted its order is the only one to have done so
\* under its key, and no committed order has that key.
Inserted(a) == phase[a] \in {"inserted", "written"}

KeysAreHeld ==
    \A a \in Attempts : Inserted(a) =>
        /\ \A o \in orders : ~ SameRequest(o, a)
        /\ \A b \in Attempts \ {a} : Inserted(b) => Key(call[b]) # Key(call[a])

\* Only the insert puts an attempt among those that hold a key.
LEMMA HoldersAreKept ==
    ASSUME TypeOK, [Next]_vars, ~ \E a \in Attempts : InsertOrder(a),
           NEW b \in Attempts, Inserted(b)'
    PROVE  Inserted(b)
<1> USE DEF Inserted, TypeOK
<1>1. ASSUME NEW a \in Attempts, NEW response, Respond(a, response)
      PROVE  Inserted(b)
  BY <1>1 DEF Respond
<1>2. ASSUME NEW a \in Attempts, NEW p \in {"valid", "absent", "resolved"}, Proceed(a, p)
      PROVE  Inserted(b)
  BY <1>2 DEF Proceed
<1>3. ASSUME NEW a \in Attempts, InsertOutboxEvents(a)
      PROVE  Inserted(b)
  BY <1>3 DEF InsertOutboxEvents, Proceed
<1> QED
  BY <1>1, <1>2, <1>3
     DEF Next, Step, ValidateRequest, FindExisting, ResolveMenu,
         RollBackDuplicate, Commit, Fail, vars

LEMMA KeysAreHeldNext ==
    ASSUME TypeOK, KeysAreHeld, [Next]_vars
    PROVE  KeysAreHeld'
<1>1. call' = call
  BY CallsAreKept
<1>2. CASE \E a \in Attempts : InsertOrder(a)
  <2>1. PICK a \in Attempts : InsertOrder(a)
    BY <1>2
  <2>2. orders' = orders
    BY <2>1 DEF InsertOrder
  <2>3. \A b \in Attempts \ {a} : Inserted(b)' <=> Inserted(b)
    BY <2>1 DEF InsertOrder, Proceed, Inserted, TypeOK
  <2>4. Inserted(a)' => ~ \E o \in orders : SameRequest(o, a)
    BY <2>1 DEF InsertOrder, Proceed, Inserted, TypeOK
  <2>5. \A b \in Attempts \ {a} : Inserted(b) => Key(call[b]) # Key(call[a])
    BY <2>1 DEF InsertOrder, KeyLocked, Inserted
  <2> QED
    BY <1>1, <2>2, <2>3, <2>4, <2>5 DEF KeysAreHeld, SameRequest
<1>3. CASE ~ \E a \in Attempts : InsertOrder(a)
  <2>1. \A b \in Attempts : Inserted(b)' => Inserted(b)
    BY <1>3, HoldersAreKept
  <2>2. CASE UNCHANGED <<orders, outbox>>
    BY <1>1, <2>1, <2>2 DEF KeysAreHeld, SameRequest
  <2>3. ASSUME NEW a \in Attempts, Commit(a) PROVE KeysAreHeld'
    <3>1. orders' = orders \cup {Draft(a)} /\ Inserted(a) /\ ~ Inserted(a)'
      BY <2>3 DEF Commit, Inserted, Respond, TypeOK
    <3>2. \A b \in Attempts \ {a} : Inserted(b) => ~ SameRequest(Draft(a), b)
      BY <3>1, DraftKey DEF KeysAreHeld, SameRequest
    <3> QED
      BY <1>1, <2>1, <3>1, <3>2 DEF KeysAreHeld, SameRequest
  <2> QED
    BY <2>2, <2>3, OnlyCommitWrites
<1> QED
  BY <1>2, <1>3

LEMMA OneOrderNext ==
    ASSUME TypeOK, KeysAreHeld, OneOrderPerRequest, [Next]_vars
    PROVE  OneOrderPerRequest'
<1>1. CASE UNCHANGED <<orders, outbox>>
  BY <1>1 DEF OneOrderPerRequest
<1>2. ASSUME NEW a \in Attempts, Commit(a) PROVE OneOrderPerRequest'
  <2>1. orders' = orders \cup {Draft(a)}
    BY <1>2 DEF Commit
  <2>2. \A o \in orders : Key(o) # Key(Draft(a))
    BY <1>2, DraftKey DEF Commit, KeysAreHeld, Inserted, SameRequest
  <2> QED
    BY <2>1, <2>2 DEF OneOrderPerRequest
<1> QED
  BY <1>1, <1>2, OnlyCommitWrites

THEOREM KeysHeld == Spec => []KeysAreHeld
<1>1. Init => KeysAreHeld
  BY DEF Init, KeysAreHeld, Inserted
<1> QED
  BY <1>1, KeysAreHeldNext, SubmissionTypeCorrect, PTL DEF Spec

\* However calls overlap, fail and are repeated, a request has one order.
THEOREM OneOrder == Spec => []OneOrderPerRequest
<1>1. Init => OneOrderPerRequest
  BY DEF Init, OneOrderPerRequest
<1> QED
  BY <1>1, OneOrderNext, SubmissionTypeCorrect, KeysHeld, PTL DEF Spec

-----------------------------------------------------------------------------
(* One event per unit.                                                     *)

\* The outbox is exactly what the committed orders ask for, each order being
\* the one its attempt has committed.
OutboxFollowsOrders ==
    /\ \A o \in orders : phase[o.id] = "done"
    /\ \A o, p \in orders : o.id = p.id => o = p
    /\ outbox = UNION {EventsFor(o, o.id) : o \in orders}

\* An attempt that has ended takes no further step.
LEMMA DoneForEver ==
    ASSUME TypeOK, [Next]_vars, NEW a \in Attempts, phase[a] = "done"
    PROVE  phase'[a] = "done" /\ answer'[a] = answer[a]
<1>1. ASSUME NEW b \in Attempts, NEW response, phase[b] # "done", Respond(b, response)
      PROVE  phase'[a] = "done" /\ answer'[a] = answer[a]
  BY <1>1 DEF Respond, TypeOK
<1>2. ASSUME NEW b \in Attempts, NEW p, phase[b] # "done", Proceed(b, p)
      PROVE  phase'[a] = "done" /\ answer'[a] = answer[a]
  BY <1>2 DEF Proceed, TypeOK
<1> QED
  BY <1>1, <1>2
     DEF Next, Step, ValidateRequest, FindExisting, ResolveMenu, InsertOrder,
         RollBackDuplicate, InsertOutboxEvents, Commit, Fail, vars

LEMMA OutboxFollowsOrdersNext ==
    ASSUME TypeOK, OutboxFollowsOrders, [Next]_vars
    PROVE  OutboxFollowsOrders'
<1>1. \A o \in orders : o.id \in Attempts
  BY DEF TypeOK, OrderRows
<1>2. \A o \in orders : phase'[o.id] = "done"
  BY <1>1, DoneForEver DEF OutboxFollowsOrders
<1>3. CASE UNCHANGED <<orders, outbox>>
  BY <1>2, <1>3 DEF OutboxFollowsOrders
<1>4. ASSUME NEW a \in Attempts, Commit(a) PROVE OutboxFollowsOrders'
  <2> DEFINE d == Draft(a)
  <2>1. /\ orders' = orders \cup {d}
        /\ outbox' = outbox \cup EventsFor(d, a)
        /\ phase[a] = "written" /\ phase'[a] = "done"
    BY <1>4 DEF Commit, Respond, TypeOK
  <2>2. d.id = a
    BY DEF Draft
  <2>3. \A o \in orders : o.id # a
    BY <2>1 DEF OutboxFollowsOrders
  <2>4. outbox' = UNION {EventsFor(o, o.id) : o \in orders'}
    <3> HIDE DEF d
    <3> QED
      BY <2>1, <2>2 DEF OutboxFollowsOrders
  <2> HIDE DEF d
  <2> QED
    BY <1>2, <2>1, <2>2, <2>3, <2>4 DEF OutboxFollowsOrders
<1> QED
  BY <1>3, <1>4, OnlyCommitWrites

\* Two events of one order are the same if they ask for the same unit.
LEMMA EventOfUnit ==
    ASSUME TypeOK, OutboxFollowsOrders
    PROVE  OneEventPerUnit
<1> DEFINE Event(o, u) == [eventId |-> <<o.id, u>>, order |-> o.id, line |-> u[1],
                           unit |-> u[2], total |-> TotalItemCount(o.lines)]
<1>1. \A e : e \in outbox <=> \E o \in orders : \E u \in Units(o.lines) : e = Event(o, u)
  BY DEF OutboxFollowsOrders, EventsFor
<1>2. \A o \in orders : o.lines \in Baskets
  BY DEF TypeOK, OrderRows
<1>3. \A o \in orders : \A u \in Units(o.lines) :
        /\ Event(o, u).order = o.id
        /\ Event(o, u).line = u[1]
        /\ Event(o, u).unit = u[2]
        /\ u = <<u[1], u[2]>>
  BY <1>2, UnitsType
<1>4. \A o, p \in orders : o.id = p.id => o = p
  BY DEF OutboxFollowsOrders
<1> HIDE DEF Event
<1>5. ASSUME NEW o \in orders, NEW u \in Units(o.lines)
      PROVE  \E e \in outbox : \A f \in outbox :
                f = e <=> f.order = o.id /\ f.line = u[1] /\ f.unit = u[2]
  <2>1. Event(o, u) \in outbox
    BY <1>1
  <2>2. ASSUME NEW f \in outbox, f.order = o.id, f.line = u[1], f.unit = u[2]
        PROVE  f = Event(o, u)
    <3>1. PICK p \in orders : \E v \in Units(p.lines) : f = Event(p, v)
      BY <1>1
    <3>2. PICK v \in Units(p.lines) : f = Event(p, v)
      BY <3>1
    <3>3. p = o
      BY <1>3, <1>4, <2>2, <3>2
    <3>4. v = u
      BY <1>3, <2>2, <3>2, <3>3
    <3> QED
      BY <3>2, <3>3, <3>4
  <2> QED
    BY <1>3, <2>1, <2>2
<1>6. ASSUME NEW e \in outbox
      PROVE  \E o \in orders : e.order = o.id /\ <<e.line, e.unit>> \in Units(o.lines)
  BY <1>1, <1>3
<1> QED
  BY <1>5, <1>6 DEF OneEventPerUnit

THEOREM OutboxFollows == Spec => []OutboxFollowsOrders
<1>1. Init => OutboxFollowsOrders
  BY DEF Init, OutboxFollowsOrders
<1> QED
  BY <1>1, OutboxFollowsOrdersNext, SubmissionTypeCorrect, PTL DEF Spec

\* Whatever fails or is repeated, the outbox asks exactly once for every unit
\* of every committed order and for nothing else.
THEOREM OneEvent == Spec => []OneEventPerUnit
BY SubmissionTypeCorrect, OutboxFollows, EventOfUnit, PTL

-----------------------------------------------------------------------------
(* The total of an order.  TotalItemCount is a fold over the lines: the sum  *)
(* is the one function that satisfies its recursive equation, and counting   *)
(* units satisfies it.                                                       *)

\* What the sum over the lines is defined as: any line first, then the rest.
AnyOf(s) == CHOOSE k \in s : TRUE

SumStep(lines, sum) ==
    [s \in SUBSET DOMAIN lines |->
        IF s = {} THEN 0 ELSE lines[AnyOf(s)].quantity + sum[s \ {AnyOf(s)}]]

LEMMA TotalUnfolded ==
    ASSUME NEW lines
    PROVE  TotalItemCount(lines) =
              (CHOOSE sum : sum = SumStep(lines, sum))[DOMAIN lines]
BY DEF TotalItemCount, MapThenSumSet, MapThenFoldSet, SumStep, AnyOf

\* The units of some of the lines.
UnitsOf(lines, s) == UNION {{k} \X (1..lines[k].quantity) : k \in s}

\* What the sum needs of a basket.
Quantities(lines) ==
    /\ IsFiniteSet(DOMAIN lines)
    /\ \A k \in DOMAIN lines : lines[k].quantity \in Nat

LEMMA BasketQuantities ==
    ASSUME NEW lines \in Seq([item : Dishes, quantity : Nat])
    PROVE  Quantities(lines)
<1>1. /\ Len(lines) \in Nat
      /\ DOMAIN lines = 1..Len(lines)
      /\ lines \in [1..Len(lines) -> [item : Dishes, quantity : Nat]]
  BY LenProperties
<1>2. IsFiniteSet(1..Len(lines))
  BY <1>1, FS_Interval
<1> QED
  BY <1>1, <1>2 DEF Quantities

LEMMA LineUnits ==
    ASSUME NEW k, NEW n \in Nat
    PROVE  IsFiniteSet({k} \X (1..n)) /\ Cardinality({k} \X (1..n)) = n
<1>1. IsFiniteSet({k}) /\ Cardinality({k}) = 1
  BY FS_Singleton
<1>2. IsFiniteSet(1..n) /\ Cardinality(1..n) = n
  BY FS_Interval
<1>3. /\ IsFiniteSet({k} \X (1..n))
      /\ Cardinality({k} \X (1..n)) = Cardinality({k}) * Cardinality(1..n)
  BY <1>1, <1>2, FS_Product
<1> QED
  BY <1>1, <1>2, <1>3

LEMMA UnitsOfFinite ==
    ASSUME NEW lines, Quantities(lines), NEW s \in SUBSET DOMAIN lines
    PROVE  IsFiniteSet(UnitsOf(lines, s))
<1> DEFINE f == [k \in s |-> {k} \X (1..lines[k].quantity)]
           T == {{k} \X (1..lines[k].quantity) : k \in s}
<1>1. f \in Surjection(s, T)
  BY DEF Surjection
<1>2. IsFiniteSet(s)
  BY FS_Subset DEF Quantities
<1>3. IsFiniteSet(T)
  BY <1>1, <1>2, FS_Surjection
<1>4. \A U \in T : IsFiniteSet(U)
  BY LineUnits DEF Quantities
<1> QED
  BY <1>3, <1>4, FS_UNION DEF UnitsOf

\* Taking a line away takes as many units away as its quantity says.
LEMMA UnitsOfStep ==
    ASSUME NEW lines, Quantities(lines), NEW s \in SUBSET DOMAIN lines, NEW k \in s
    PROVE  Cardinality(UnitsOf(lines, s)) =
              lines[k].quantity + Cardinality(UnitsOf(lines, s \ {k}))
<1> DEFINE L == {k} \X (1..lines[k].quantity)
           R == UnitsOf(lines, s \ {k})
<1>1. IsFiniteSet(L) /\ Cardinality(L) = lines[k].quantity /\ lines[k].quantity \in Nat
  BY LineUnits DEF Quantities
<1>2. IsFiniteSet(R) /\ Cardinality(R) \in Nat
  <2>1. s \ {k} \in SUBSET DOMAIN lines
    OBVIOUS
  <2> QED
    BY <2>1, UnitsOfFinite, FS_CardinalityType
<1>3. UnitsOf(lines, s) = L \cup R
  BY DEF UnitsOf
<1>4. L \cap R = {}
  BY DEF UnitsOf
<1>5. Cardinality(L \cup R) = Cardinality(L) + Cardinality(R) - Cardinality(L \cap R)
  BY <1>1, <1>2, FS_Union
<1>6. Cardinality(L \cap R) = 0
  BY <1>4, FS_EmptySet
<1> HIDE DEF L, R
<1>7. Cardinality(L \cup R) = lines[k].quantity + Cardinality(R)
  BY <1>1, <1>2, <1>5, <1>6
<1> QED
  BY <1>3, <1>7 DEF R

\* Counting the units is a solution of the sum's equation ...
LEMMA CountSolves ==
    ASSUME NEW lines, Quantities(lines),
           NEW g, g = [s \in SUBSET DOMAIN lines |-> Cardinality(UnitsOf(lines, s))]
    PROVE  g = SumStep(lines, g)
<1>1. ASSUME NEW s \in SUBSET DOMAIN lines, s = {}
      PROVE  g[s] = 0
  <2>1. UnitsOf(lines, s) = {}
    BY <1>1 DEF UnitsOf
  <2> QED
    BY <2>1, FS_EmptySet
<1>2. ASSUME NEW s \in SUBSET DOMAIN lines, s # {}
      PROVE  g[s] = lines[AnyOf(s)].quantity + g[s \ {AnyOf(s)}]
  <2>1. PICK k : k = AnyOf(s)
    OBVIOUS
  <2>2. k \in s
    BY <1>2, <2>1 DEF AnyOf
  <2>3. s \ {k} \in SUBSET DOMAIN lines
    OBVIOUS
  <2> QED
    BY <2>1, <2>2, <2>3, UnitsOfStep
<1> QED
  BY <1>1, <1>2 DEF SumStep

\* ... and the only one: a smallest set on which two solutions differ would
\* have a smaller one.
LEMMA OneSolution ==
    ASSUME NEW lines, Quantities(lines), NEW f, NEW g,
           f = SumStep(lines, f), g = SumStep(lines, g)
    PROVE  f[DOMAIN lines] = g[DOMAIN lines]
<1> DEFINE D == DOMAIN lines
           T == {s \in SUBSET D : f[s] # g[s]}
<1>1. /\ \A s \in SUBSET D : f[s] = IF s = {} THEN 0 ELSE lines[AnyOf(s)].quantity + f[s \ {AnyOf(s)}]
      /\ \A s \in SUBSET D : g[s] = IF s = {} THEN 0 ELSE lines[AnyOf(s)].quantity + g[s \ {AnyOf(s)}]
  BY DEF SumStep
<1>2. SUFFICES ASSUME T # {} PROVE FALSE
  OBVIOUS
<1>3. IsWellFoundedOn(StrictSubsetOrdering(D), SUBSET D)
  <2>1. FiniteSubsetsOf(D) = SUBSET D
    BY FS_FiniteSubsetsOfFinite DEF Quantities
  <2> QED
    BY <2>1, FS_StrictSubsetOrderingWellFounded
<1>4. PICK s \in T : \A t \in T : <<t, s>> \notin StrictSubsetOrdering(D)
  <2>1. T \subseteq SUBSET D
    OBVIOUS
  <2> HIDE DEF T, D
  <2> QED
    BY <1>2, <1>3, <2>1, WFMin
<1>5. PICK k : k = AnyOf(s)
  OBVIOUS
<1>6. s # {}
  BY <1>1, <1>4
<1>7. k \in s
  BY <1>5, <1>6 DEF AnyOf
<1>8. <<s \ {k}, s>> \in StrictSubsetOrdering(D)
  BY <1>4, <1>7 DEF StrictSubsetOrdering
<1>9. f[s \ {k}] = g[s \ {k}]
  BY <1>4, <1>8
<1> QED
  BY <1>1, <1>4, <1>5, <1>6, <1>9

\* So total is the number of the units.
LEMMA TotalCountsUnits ==
    ASSUME NEW lines, Quantities(lines)
    PROVE  IsFiniteSet(Units(lines)) /\ TotalItemCount(lines) = Cardinality(Units(lines))
<1> DEFINE g == [s \in SUBSET DOMAIN lines |-> Cardinality(UnitsOf(lines, s))]
           f == CHOOSE sum : sum = SumStep(lines, sum)
<1>1. g = SumStep(lines, g)
  <2> HIDE DEF g
  <2>1. g = [s \in SUBSET DOMAIN lines |-> Cardinality(UnitsOf(lines, s))]
    BY DEF g
  <2> QED
    BY <2>1, CountSolves
<1>2. f = SumStep(lines, f)
  <2> HIDE DEF g
  <2> QED
    BY <1>1
<1>3. f[DOMAIN lines] = g[DOMAIN lines]
  <2> HIDE DEF f, g
  <2> QED
    BY <1>1, <1>2, OneSolution
<1>4. UnitsOf(lines, DOMAIN lines) = Units(lines)
  BY DEF Units, UnitsOf
<1>5. IsFiniteSet(Units(lines))
  BY <1>4, UnitsOfFinite
<1>6. g[DOMAIN lines] = Cardinality(Units(lines))
  BY <1>4
<1>7. TotalItemCount(lines) = f[DOMAIN lines]
  BY TotalUnfolded
<1> QED
  BY <1>3, <1>5, <1>6, <1>7

\* The events of an order are as many as its units, and each says so.
LEMMA TotalsFollow ==
    ASSUME TypeOK, OutboxFollowsOrders
    PROVE  TotalsAreRight
<1> SUFFICES ASSUME NEW e \in outbox
             PROVE  e.total = Cardinality({f \in outbox : f.order = e.order})
  BY DEF TotalsAreRight
<1>1. PICK o \in orders : e \in EventsFor(o, o.id)
  BY DEF OutboxFollowsOrders
<1> DEFINE Event(u) == [eventId |-> <<o.id, u>>, order |-> o.id, line |-> u[1],
                        unit |-> u[2], total |-> TotalItemCount(o.lines)]
           event == [u \in Units(o.lines) |-> Event(u)]
<1>2. e.total = TotalItemCount(o.lines) /\ e.order = o.id
  BY <1>1 DEF EventsFor
<1>3. {f \in outbox : f.order = o.id} = EventsFor(o, o.id)
  <2>1. \A p \in orders : \A f \in EventsFor(p, p.id) : f.order = p.id
    BY DEF EventsFor
  <2> QED
    BY <2>1 DEF OutboxFollowsOrders
<1>4. event \in Bijection(Units(o.lines), EventsFor(o, o.id))
  <2>1. EventsFor(o, o.id) = {Event(u) : u \in Units(o.lines)}
    BY DEF EventsFor
  <2>2. \A u, v \in Units(o.lines) : Event(u) = Event(v) => u = v
    <3> TAKE u, v \in Units(o.lines)
    <3>1. Event(u).eventId = <<o.id, u>> /\ Event(v).eventId = <<o.id, v>>
      OBVIOUS
    <3> HIDE DEF Event
    <3> QED
      BY <3>1
  <2> HIDE DEF Event
  <2> QED
    BY <2>1, <2>2 DEF Bijection, Injection, Surjection, IsInjective
<1>5. Quantities(o.lines)
  <2>1. o.lines \in Seq([item : Dishes, quantity : Nat])
    BY SubmissionAssumption DEF TypeOK, OrderRows
  <2> QED
    BY <2>1, BasketQuantities
<1>6. IsFiniteSet(Units(o.lines)) /\ TotalItemCount(o.lines) = Cardinality(Units(o.lines))
  BY <1>5, TotalCountsUnits
<1>7. ExistsBijection(Units(o.lines), EventsFor(o, o.id))
  BY <1>4 DEF ExistsBijection
<1>8. Cardinality(EventsFor(o, o.id)) = Cardinality(Units(o.lines))
  BY <1>6, <1>7, FS_Bijection
<1> QED
  BY <1>2, <1>3, <1>6, <1>8

\* Every event of an order carries the number of its order's events, however
\* many lines and units the order has.
THEOREM TotalsRight == Spec => []TotalsAreRight
BY SubmissionTypeCorrect, OutboxFollows, TotalsFollow, PTL

-----------------------------------------------------------------------------
(* Losing a race.                                                          *)

DuplicatesHaveAWinner ==
    \A a \in Attempts : phase[a] = "duplicate" => \E o \in orders : SameRequest(o, a)

LEMMA LosersNext ==
    ASSUME TypeOK, DuplicatesHaveAWinner, LosersHaveAWinner, [Next]_vars
    PROVE  DuplicatesHaveAWinner' /\ LosersHaveAWinner'
<1>1. call' = call
  BY CallsAreKept
<1>2. orders \subseteq orders'
  BY OnlyCommitWrites DEF Commit
<1>3. ASSUME NEW a \in Attempts, phase'[a] = "duplicate"
      PROVE  phase[a] = "duplicate" \/ \E o \in orders : SameRequest(o, a)
  <2>1. ASSUME NEW b \in Attempts, NEW response, Respond(b, response)
        PROVE  phase[a] = "duplicate"
    BY <1>3, <2>1 DEF Respond, TypeOK
  <2>2. ASSUME NEW b \in Attempts,
               NEW p \in {"valid", "absent", "resolved", "written"}, Proceed(b, p)
        PROVE  phase[a] = "duplicate"
    BY <1>3, <2>2 DEF Proceed, TypeOK
  <2>3. ASSUME NEW b \in Attempts, InsertOrder(b)
        PROVE  phase[a] = "duplicate" \/ \E o \in orders : SameRequest(o, a)
    BY <1>3, <2>3 DEF InsertOrder, Proceed, TypeOK
  <2> QED
    BY <1>3, <2>1, <2>2, <2>3
       DEF Next, Step, ValidateRequest, FindExisting, ResolveMenu,
           RollBackDuplicate, InsertOutboxEvents, Commit, Fail, vars
<1>4. ASSUME NEW a \in Attempts, answer'[a].kind = "rolledBack"
      PROVE  answer[a].kind = "rolledBack" \/ phase[a] = "duplicate"
  <2>1. ASSUME NEW b \in Attempts, NEW response, Respond(b, response),
               response.kind # "rolledBack"
        PROVE  answer[a].kind = "rolledBack"
    BY <1>4, <2>1 DEF Respond, TypeOK
  <2>2. ASSUME NEW b \in Attempts, RollBackDuplicate(b)
        PROVE  answer[a].kind = "rolledBack" \/ phase[a] = "duplicate"
    BY <1>4, <2>2 DEF RollBackDuplicate, Respond, TypeOK
  <2> QED
    BY <1>4, <2>1, <2>2
       DEF Next, Step, ValidateRequest, FindExisting, ResolveMenu, InsertOrder, Proceed,
           InsertOutboxEvents, Commit, Fail, Refused, Accepted, vars
<1> QED
  BY <1>1, <1>2, <1>3, <1>4 DEF DuplicatesHaveAWinner, LosersHaveAWinner, SameRequest

\* Nobody is turned away as a duplicate of an order that is not there.
THEOREM Losers == Spec => []LosersHaveAWinner
<1>1. Init => DuplicatesHaveAWinner /\ LosersHaveAWinner
  BY DEF Init, DuplicatesHaveAWinner, LosersHaveAWinner, NoAnswer
<1> QED
  BY <1>1, LosersNext, SubmissionTypeCorrect, PTL DEF Spec

-----------------------------------------------------------------------------
(* True answers.                                                           *)

\* An attempt under way has no answer yet and, once validated, a token of the
\* user it names.
UnderWay ==
    \A a \in Attempts : phase[a] # "done" =>
        /\ answer[a] = NoAnswer
        /\ phase[a] # "received" => call[a].token = call[a].user

LEMMA UnderWayNext ==
    ASSUME TypeOK, UnderWay, [Next]_vars
    PROVE  UnderWay'
<1>1. call' = call
  BY CallsAreKept
<1>2. ASSUME NEW b \in Attempts, NEW response, Respond(b, response)
      PROVE  UnderWay'
  BY <1>1, <1>2 DEF Respond, TypeOK, UnderWay
<1>3. ASSUME NEW b \in Attempts, NEW p, Proceed(b, p), phase[b] # "done",
             phase[b] = "received" => call[b].token = call[b].user
      PROVE  UnderWay'
  BY <1>1, <1>3 DEF Proceed, TypeOK, UnderWay
<1>4. CASE UNCHANGED vars
  BY <1>4 DEF vars, UnderWay
<1> QED
  BY <1>2, <1>3, <1>4
     DEF Next, Step, ValidateRequest, FindExisting, ResolveMenu, InsertOrder,
         RollBackDuplicate, InsertOutboxEvents, Commit, Fail

\* The attempts told of an order: by Commit of their own, by FindExisting of
\* one that is there.
LEMMA NewAnswers ==
    ASSUME TypeOK, [Next]_vars
    PROVE  \/ \A a \in Attempts : answer'[a].kind = "accepted" => answer'[a] = answer[a]
           \/ \E a \in Attempts : Commit(a) \/ FindExisting(a)
<1>1. ASSUME NEW b \in Attempts, NEW response, Respond(b, response),
             response.kind # "accepted"
      PROVE  \A a \in Attempts : answer'[a].kind = "accepted" => answer'[a] = answer[a]
  BY <1>1 DEF Respond, TypeOK
<1> QED
  BY <1>1 DEF Next, Step, ValidateRequest, ResolveMenu, InsertOrder, Proceed,
              RollBackDuplicate, InsertOutboxEvents, Fail, Refused, vars

LEMMA AnswersNext ==
    ASSUME TypeOK, UnderWay, AnswersAreTrue, [Next]_vars
    PROVE  AnswersAreTrue'
<1>1. call' = call /\ orders \subseteq orders'
  BY CallsAreKept, OnlyCommitWrites DEF Commit
<1>2. CASE \A a \in Attempts : answer'[a].kind = "accepted" => answer'[a] = answer[a]
  BY <1>1, <1>2 DEF AnswersAreTrue
<1>3. ASSUME NEW b \in Attempts, NEW o \in orders', phase[b] \in {"valid", "written"},
             Key(o) = Key(call[b]),
             answer' = [answer EXCEPT ![b] = Accepted(o)]
      PROVE  AnswersAreTrue'
  <2>1. call[b].token = call[b].user
    BY <1>3 DEF UnderWay
  <2>2. ASSUME NEW a \in Attempts, answer'[a].kind = "accepted"
        PROVE  /\ call[a].token = call[a].user
               /\ \E q \in orders' : q.id = answer'[a].order /\ Key(q) = Key(call[a])
    <3>1. CASE a = b
      BY <1>3, <2>1, <3>1 DEF Accepted, TypeOK
    <3>2. CASE a # b
      BY <1>1, <1>3, <2>2, <3>2 DEF AnswersAreTrue, TypeOK
    <3> QED
      BY <3>1, <3>2
  <2> QED
    BY <1>1, <2>2 DEF AnswersAreTrue
<1>4. ASSUME NEW b \in Attempts, NEW response, Respond(b, response),
             response.kind # "accepted"
      PROVE  \A a \in Attempts : answer'[a].kind = "accepted" => answer'[a] = answer[a]
  BY <1>4 DEF Respond, TypeOK
<1>5. ASSUME NEW b \in Attempts, Commit(b) PROVE AnswersAreTrue'
  <2>1. Draft(b) \in orders' /\ Key(Draft(b)) = Key(call[b])
    BY <1>5, DraftKey DEF Commit
  <2> QED
    BY <1>2, <1>3, <1>4, <1>5, <2>1 DEF Commit, Respond, Refused
<1>6. ASSUME NEW b \in Attempts, FindExisting(b) PROVE AnswersAreTrue'
  BY <1>1, <1>2, <1>3, <1>6 DEF FindExisting, Respond, Proceed, SameRequest
<1> QED
  BY <1>2, <1>5, <1>6, NewAnswers

THEOREM AttemptsUnderWay == Spec => []UnderWay
<1>1. Init => UnderWay
  BY DEF Init, UnderWay
<1> QED
  BY <1>1, UnderWayNext, SubmissionTypeCorrect, PTL DEF Spec

\* An accepted call names a committed order of its own user and request.
THEOREM TrueAnswers == Spec => []AnswersAreTrue
<1>1. Init => AnswersAreTrue
  BY DEF Init, AnswersAreTrue, NoAnswer
<1> QED
  BY <1>1, AnswersNext, SubmissionTypeCorrect, AttemptsUnderWay, PTL DEF Spec

-----------------------------------------------------------------------------
(* Refinement.                                                             *)

LEMMA IntakeStep ==
    ASSUME TypeOK, KeysAreHeld, UnderWay, [Next]_vars
    PROVE  [Intake!Next]_(Intake!vars)
<1> DEFINE toldNow == [a \in Attempts |-> Told(a)]
<1>1. ASSUME NEW b \in Attempts, NEW response, Respond(b, response),
             response.kind # "accepted", phase[b] # "done"
      PROVE  toldNow' = toldNow
  <2>1. \A a \in Attempts : Told(a)' = Told(a)
    BY <1>1 DEF Respond, Told, UnderWay, NoAnswer, TypeOK
  <2> QED
    BY <2>1
<1>2. ASSUME NEW b \in Attempts, NEW o, Respond(b, Accepted(o)), phase[b] # "done"
      PROVE  toldNow[b] = Nobody /\ toldNow' = [toldNow EXCEPT ![b] = o.id]
  <2>1. Told(b) = Nobody /\ Told(b)' = o.id
    BY <1>2 DEF Respond, Told, UnderWay, NoAnswer, Accepted, TypeOK
  <2>2. \A a \in Attempts \ {b} : Told(a)' = Told(a)
    BY <1>2 DEF Respond, Told, TypeOK
  <2> QED
    BY <2>1, <2>2
<1>3. answer' = answer => toldNow' = toldNow
  BY DEF Told
<1> HIDE DEF toldNow
<1>4. ASSUME NEW b \in Attempts, Commit(b) PROVE Intake!Next
  <2> DEFINE d == Draft(b)
  <2>1. /\ d \in OrderRows
        /\ d.id = b
        /\ \A o \in orders : Key(o) # Key(d)
    BY <1>4, DraftKey DEF Commit, KeysAreHeld, Inserted, SameRequest
  <2>2. /\ orders' = orders \cup {d}
        /\ outbox' = outbox \cup EventsFor(d, b)
        /\ Respond(b, Accepted(d)) \/ Respond(b, Refused("error"))
        /\ phase[b] # "done"
    BY <1>4 DEF Commit
  <2> HIDE DEF d
  <2>3. toldNow' = toldNow \/ (toldNow[b] = Nobody /\ toldNow' = [toldNow EXCEPT ![b] = d.id])
    BY <1>1, <1>2, <2>2 DEF Refused
  <2>4. Intake!Place(b, d)
    BY <2>1, <2>2, <2>3 DEF Intake!Place, toldNow
  <2> QED
    BY <2>1, <2>4 DEF Intake!Next
<1>5. ASSUME NEW b \in Attempts, FindExisting(b)
      PROVE  Intake!Next \/ UNCHANGED Intake!vars
  <2>1. CASE \E o \in orders : Respond(b, Accepted(o))
    <3>1. PICK o \in orders : Respond(b, Accepted(o))
      BY <2>1
    <3>2. Intake!Tell(b, o)
      BY <1>2, <1>5, <3>1 DEF FindExisting, Intake!Tell, toldNow
    <3> QED
      BY <3>2 DEF Intake!Next
  <2>2. CASE Proceed(b, "absent")
    BY <1>3, <1>5, <2>2 DEF FindExisting, Proceed, Intake!vars, toldNow
  <2> QED
    BY <1>5, <2>1, <2>2 DEF FindExisting
<1>6. ASSUME NEW b \in Attempts,
             ValidateRequest(b) \/ ResolveMenu(b) \/ InsertOrder(b)
               \/ RollBackDuplicate(b) \/ InsertOutboxEvents(b) \/ Fail(b)
      PROVE  UNCHANGED Intake!vars
  <2>1. UNCHANGED <<orders, outbox>>
    BY <1>6 DEF ValidateRequest, ResolveMenu, InsertOrder, RollBackDuplicate,
                InsertOutboxEvents, Fail
  <2>2. toldNow' = toldNow
    BY <1>1, <1>3, <1>6
       DEF ValidateRequest, ResolveMenu, InsertOrder, RollBackDuplicate,
           InsertOutboxEvents, Fail, Refused, Proceed
  <2> QED
    BY <2>1, <2>2 DEF Intake!vars, toldNow
<1>7. CASE UNCHANGED vars
  BY <1>3, <1>7 DEF vars, Intake!vars, toldNow
<1> QED
  BY <1>4, <1>5, <1>6, <1>7 DEF Next, Step

\* Calls that overlap, fail half-way and are repeated implement the register
\* of orders.
THEOREM IntakeImplemented == Spec => ImplementsIntake
<1>1. Init => Intake!Init
  BY DEF Init, Intake!Init, Told, NoAnswer
<1> QED
  BY <1>1, SubmissionTypeCorrect, KeysHeld, AttemptsUnderWay, IntakeStep, PTL
     DEF Spec, ImplementsIntake, Intake!Spec

-----------------------------------------------------------------------------
(* Overlapping calls are the only way to lose a race.                      *)

\* A transaction of a call has begun to read and not ended.
InTransaction(a) == phase[a] \notin {"received", "valid", "done"}

\* Calls with one key do not overlap once they have looked for the order.
CallsApart ==
    \A a, b \in Attempts :
        InTransaction(a) /\ InTransaction(b) /\ Key(call[a]) = Key(call[b]) => a = b

\* What FindExisting found, no order, is still so when the order is inserted.
AbsenceLasts ==
    \A a \in Attempts :
        /\ InTransaction(a) => \A o \in orders : ~ SameRequest(o, a)
        /\ phase[a] # "duplicate"
        /\ answer[a].kind # "rolledBack"

LEMMA AbsenceLastsNext ==
    ASSUME TypeOK, CallsApart, AbsenceLasts, [Next]_vars
    PROVE  AbsenceLasts'
<1>1. call' = call
  BY CallsAreKept
<1>2. ASSUME NEW b \in Attempts, NEW response, response.kind # "rolledBack",
             Respond(b, response), UNCHANGED orders
      PROVE  AbsenceLasts'
  BY <1>1, <1>2 DEF Respond, AbsenceLasts, InTransaction, SameRequest, Key, TypeOK
<1>3. ASSUME NEW b \in Attempts, NEW p \in Phases \ {"duplicate"}, Proceed(b, p),
             InTransaction(b) \/ p \in {"received", "valid"} \/ \A o \in orders : ~ SameRequest(o, b),
             UNCHANGED orders
      PROVE  AbsenceLasts'
  BY <1>1, <1>3 DEF Proceed, AbsenceLasts, InTransaction, SameRequest, Key, TypeOK
<1>4. ASSUME NEW b \in Attempts, ValidateRequest(b) PROVE AbsenceLasts'
  BY <1>2, <1>3, <1>4 DEF ValidateRequest, Refused, Phases
<1>5. ASSUME NEW b \in Attempts, FindExisting(b) PROVE AbsenceLasts'
  BY <1>2, <1>3, <1>5 DEF FindExisting, Accepted, Phases
<1>6. ASSUME NEW b \in Attempts, ResolveMenu(b) PROVE AbsenceLasts'
  BY <1>2, <1>3, <1>6 DEF ResolveMenu, Refused, Phases, InTransaction
<1>7. ASSUME NEW b \in Attempts, InsertOrder(b) PROVE AbsenceLasts'
  <2>1. InTransaction(b)
    BY <1>7 DEF InsertOrder, InTransaction
  <2>2. Proceed(b, "inserted") /\ UNCHANGED orders
    BY <1>7, <2>1 DEF InsertOrder, AbsenceLasts
  <2> QED
    BY <1>3, <2>1, <2>2 DEF Phases
<1>8. ASSUME NEW b \in Attempts, RollBackDuplicate(b) PROVE AbsenceLasts'
  BY <1>8 DEF RollBackDuplicate, AbsenceLasts
<1>9. ASSUME NEW b \in Attempts, InsertOutboxEvents(b) PROVE AbsenceLasts'
  BY <1>3, <1>9 DEF InsertOutboxEvents, Phases, InTransaction
<1>10. ASSUME NEW b \in Attempts, Commit(b) PROVE AbsenceLasts'
  <2>1. PICK response : response.kind # "rolledBack" /\ Respond(b, response)
    BY <1>10 DEF Commit, Accepted, Refused
  <2>2. /\ orders' = orders \cup {Draft(b)}
        /\ InTransaction(b)
    BY <1>10 DEF Commit, InTransaction
  <2>3. Key(Draft(b)) = Key(call[b])
    BY DraftKey
  <2>4. ASSUME NEW a \in Attempts, InTransaction(a)'
        PROVE  a # b /\ InTransaction(a) /\ ~ SameRequest(Draft(b), a)
    <3>1. a # b /\ InTransaction(a)
      BY <2>1, <2>4 DEF Respond, InTransaction, TypeOK
    <3> QED
      BY <2>2, <2>3, <3>1 DEF CallsApart, SameRequest
  <2>5. \A a \in Attempts : InTransaction(a)' => \A o \in orders' : ~ SameRequest(o, a)
    BY <2>2, <2>4 DEF AbsenceLasts
  <2>6. \A a \in Attempts : phase'[a] # "duplicate" /\ answer'[a].kind # "rolledBack"
    BY <2>1 DEF Respond, AbsenceLasts, TypeOK
  <2> QED
    BY <1>1, <2>5, <2>6 DEF AbsenceLasts, SameRequest, Key
<1>11. ASSUME NEW b \in Attempts, Fail(b) PROVE AbsenceLasts'
  BY <1>2, <1>11 DEF Fail, Refused
<1>12. CASE UNCHANGED vars
  BY <1>12 DEF vars, AbsenceLasts, InTransaction, SameRequest, Key
<1> QED
  BY <1>4, <1>5, <1>6, <1>7, <1>8, <1>9, <1>10, <1>11, <1>12 DEF Next, Step

\* What the comment of OrderSubmissionService promises holds when calls with
\* one request id come one after another: a repetition finds the order, and
\* only a call that overlaps another ends as a duplicate.
THEOREM OnlyOverlapIsRolledBack == Spec /\ []CallsApart => []RacesAreHandled
<1>1. Init => AbsenceLasts
  BY DEF Init, AbsenceLasts, InTransaction, NoAnswer
<1>2. AbsenceLasts => RacesAreHandled
  BY DEF AbsenceLasts, RacesAreHandled
<1> QED
  BY <1>1, <1>2, AbsenceLastsNext, SubmissionTypeCorrect, PTL DEF Spec
=============================================================================
