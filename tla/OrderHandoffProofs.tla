------------------------- MODULE OrderHandoffProofs -------------------------
(***************************************************************************)
(* For any orders, ages of rows and batch size: the types of the hand-off, *)
(* and at-least-once delivery under the two conditions the code leaves to  *)
(* its surroundings: the queue exists before the first message, and no     *)
(* connection breaks with messages under way.                              *)
(***************************************************************************)
EXTENDS OrderHandoff, FiniteSetTheorems, TLAPS

LEMMA PendingAreEvents ==
    ASSUME TypeOK
    PROVE  Pending \subseteq Events
BY DEF TypeOK, Pending, Events

LEMMA InitTyped == Init => TypeOK
<1> SUFFICES ASSUME Init PROVE TypeOK
    OBVIOUS
<1>1. Cardinality({}) <= BatchSize
    BY FS_EmptySet, HandoffAssumption
<1> QED
    BY <1>1, HandoffAssumption DEF Init, TypeOK

\* What is left of a batch is no larger than the batch.
LEMMA SmallerBatch ==
    ASSUME TypeOK, NEW S, S \subseteq batch
    PROVE  S \subseteq Events /\ Cardinality(S) <= BatchSize
<1>1. IsFiniteSet(batch)
    BY FS_Subset, HandoffAssumption DEF TypeOK
<1>2. /\ IsFiniteSet(S) /\ Cardinality(S) <= Cardinality(batch)
      /\ Cardinality(S) \in Nat /\ Cardinality(batch) \in Nat
    BY <1>1, FS_Subset, FS_CardinalityType
<1> QED
    BY <1>2, HandoffAssumption DEF TypeOK

LEMMA StepTyped == TypeOK /\ [Next]_vars => TypeOK'
<1> SUFFICES ASSUME TypeOK, [Next]_vars PROVE TypeOK'
    OBVIOUS
<1> USE DEF TypeOK, publisherVars
<1>1. ASSUME NEW o \in Orders, Accept(o) PROVE TypeOK'
  <2>1. PICK t \in [EventsFor(o, o.id) -> Times] :
            createdAt' = [e \in Events |-> IF e \in DOMAIN t THEN t[e] ELSE createdAt[e]]
      BY <1>1 DEF Accept
  <2>2. createdAt' \in [Events -> Nat]
      BY <2>1, HandoffAssumption
  <2> QED
      BY <1>1, <2>2 DEF Accept
<1>2. CASE FetchBatch
  <2>1. PICK B \in SUBSET Pending \ {{}} : Cardinality(B) <= BatchSize /\ batch' = B
      BY <1>2 DEF FetchBatch
  <2>2. batch' \subseteq Events /\ Cardinality(batch') <= BatchSize
      BY <2>1, PendingAreEvents
  <2> QED
      BY <1>2, <2>2 DEF FetchBatch
<1>3. ASSUME NEW e \in batch, Send(e) PROVE TypeOK'
    BY <1>3 DEF Send, AtEvent
<1>4. CASE MarkPublished
  <2>1. batch' \subseteq Events /\ Cardinality(batch') <= BatchSize
      BY <1>4, SmallerBatch DEF MarkPublished
  <2> QED
      BY <1>4, <2>1 DEF MarkPublished
<1>5. CASE EndBatch
    BY <1>5 DEF EndBatch
<1>6. ASSUME NEW e \in batch, SendFails(e) PROVE TypeOK'
  <2>1. batch' \subseteq Events /\ Cardinality(batch') <= BatchSize
      BY <1>6, SmallerBatch DEF SendFails
  <2> QED
      BY <1>6, <2>1 DEF SendFails, AtEvent
<1>7. CASE PublisherStops
  <2>1. batch' \subseteq Events /\ Cardinality(batch') <= BatchSize
      BY <1>7, SmallerBatch DEF PublisherStops
  <2> QED
      BY <1>7, <2>1 DEF PublisherStops
<1>8. CASE DeclareTopology
    BY <1>8 DEF DeclareTopology
<1>9. ASSUME NEW e \in Events, Consume(e) PROVE TypeOK'
    BY <1>9 DEF Consume
<1>10. CASE UNCHANGED vars
    BY <1>10 DEF vars
<1> QED
    BY <1>1, <1>2, <1>3, <1>4, <1>5, <1>6, <1>7, <1>8, <1>9, <1>10 DEF Next, Publish

\* Every state of the hand-off is typed and no batch exceeds the limit
\* (findUnpublishedOutboxEvents).
THEOREM HandoffTypeCorrect == Spec => []TypeOK
<1> QED
    BY InitTyped, StepTyped, PTL DEF Spec

-----------------------------------------------------------------------------
\* The inductive invariant: besides the marked events, the one just sent has
\* arrived, since the queue is there.
SentHasArrived ==
    /\ topology = "bound"
    /\ sent \cup published \subseteq queued \cup processed

\* A consumed copy leaves the queue only for the items.
LEMMA StepArrived ==
    ASSUME Lossless, SentHasArrived, [Next]_vars
    PROVE  SentHasArrived'
<1> USE DEF SentHasArrived, publisherVars
<1>1. ASSUME NEW o \in Orders, Accept(o) PROVE SentHasArrived'
    BY <1>1 DEF Accept
<1>2. CASE FetchBatch
    BY <1>2 DEF FetchBatch
<1>3. ASSUME NEW e \in batch, Send(e) PROVE SentHasArrived'
    BY <1>3 DEF Send, AtEvent
<1>4. CASE MarkPublished
    BY <1>4 DEF MarkPublished
<1>5. CASE EndBatch
    BY <1>5 DEF EndBatch
<1>6. ASSUME NEW e \in batch, SendFails(e) PROVE SentHasArrived'
    BY <1>6 DEF SendFails
<1>7. CASE PublisherStops
    BY <1>7 DEF PublisherStops
<1>8. CASE DeclareTopology
    BY <1>8 DEF DeclareTopology
<1>9. ASSUME NEW e \in Events, Consume(e) PROVE SentHasArrived'
    BY <1>9 DEF Consume
<1>10. CASE UNCHANGED vars
    BY <1>10 DEF vars
<1> QED
    BY <1>1, <1>2, <1>3, <1>4, <1>5, <1>6, <1>7, <1>8, <1>9, <1>10 DEF Next, Publish

\* At-least-once delivery of the orders' outbox, through any failures of
\* publisher, database and consumer, when production-service has declared its
\* queue before the first order and connections do not break.  The run
\* handoff_startup shows that the first condition is needed.
THEOREM HandedOff == Spec => AtLeastOnceWhenBound
<1>1. Init /\ topology = "bound" => SentHasArrived
    BY DEF Init, SentHasArrived
<1>2. Lossless /\ SentHasArrived /\ [Next]_vars => SentHasArrived'
    BY StepArrived
<1>3. SentHasArrived => AtLeastOnce
    BY DEF SentHasArrived, AtLeastOnce
<1> QED
  <2>1. CASE Lossless
      BY <1>1, <1>2, <1>3, <2>1, PTL DEF Spec, AtLeastOnceWhenBound
  <2>2. CASE ~ Lossless
      BY <2>2, PTL DEF AtLeastOnceWhenBound
  <2> QED
      BY <2>1, <2>2
=============================================================================
