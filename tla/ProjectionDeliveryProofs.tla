---------------------- MODULE ProjectionDeliveryProofs ----------------------
(* Theorems about ProjectionDelivery for every number of events, workers,   *)
(* attempts, rebuilds and open writers and every size of a batch.  What the *)
(* code leaves to luck is a premise on single steps, named at the theorem.  *)
EXTENDS ProjectionDelivery, FiniteSetTheorems, TLAPS

-----------------------------------------------------------------------------
(* Maxima, minima and cardinalities of sets of events.                      *)

SmallestSubsets(S) ==
    \A T \in SUBSET (SUBSET S) :
        T # {} => \E U \in T : \A V \in T : ~ (V \subseteq U /\ V # U)

\* a nonempty collection of subsets of a finite set has a smallest member
LEMMA SmallestSubset == \A S : IsFiniteSet(S) => SmallestSubsets(S)
  <1> SUFFICES ASSUME NEW S, IsFiniteSet(S),
                      NEW T \in SUBSET (SUBSET S), T # {}
               PROVE  \E U \in T : \A V \in T : ~ (V \subseteq U /\ V # U)
    BY DEF SmallestSubsets
  <1> DEFINE R == StrictSubsetOrdering(S)
             D == FiniteSubsetsOf(S)
  <1>1. IsWellFoundedOn(R, D)
    BY FS_StrictSubsetOrderingWellFounded
  <1>2. T \subseteq D
    BY FS_FiniteSubsetsOfFinite
  <1>3. \E U \in T : \A V \in T : ~ (<<V, U>> \in R)
    <2> HIDE DEF R, D
    <2> QED
      BY <1>1, <1>2, WFMin
  <1>4. ASSUME NEW U \in T, NEW V \in T, V \subseteq U, V # U
        PROVE  <<V, U>> \in R
    BY <1>4 DEF StrictSubsetOrdering
  <1> HIDE DEF R
  <1> QED
    BY <1>3, <1>4

\* a nonempty finite set of integers has a greatest element
LEMMA GreatestExists ==
  ASSUME NEW S, IsFiniteSet(S), S \subseteq Int, S # {}
  PROVE  \E x \in S : \A y \in S : x >= y
  <1> DEFINE Above(x) == {y \in S : y > x}
             T == {Above(x) : x \in S}
  <1>1. SmallestSubsets(S)
    BY SmallestSubset
  <1>2. PICK U \in T : \A V \in T : ~ (V \subseteq U /\ V # U)
    <2>1. T \in SUBSET (SUBSET S) /\ T # {}
      OBVIOUS
    <2> HIDE DEF T
    <2> QED
      BY <1>1, <2>1, Zenon DEF SmallestSubsets
  <1>3. PICK x \in S : U = Above(x)
    BY <1>2
  <1>4. ASSUME NEW y \in S, y > x PROVE FALSE
    <2>1. x \in Int /\ y \in Int /\ \A z \in S : z \in Int
      OBVIOUS
    <2>2. y \in Above(x) /\ y \notin Above(y)
      BY <2>1, <1>4
    <2>3. \A z \in Above(y) : z \in Above(x)
      BY <2>1, <1>4
    <2>4. Above(y) \in T
      OBVIOUS
    <2> HIDE DEF Above, T
    <2> QED
      BY <2>2, <2>3, <2>4, <1>2, <1>3
  <1> QED
    BY <1>4

LEMMA MaxIsGreatest ==
  ASSUME NEW S, IsFiniteSet(S), S \subseteq Int, S # {}
  PROVE  Max(S) \in S /\ \A y \in S : y <= Max(S)
  BY GreatestExists DEF Max

LEMMA LeastExists ==
  ASSUME NEW S, IsFiniteSet(S), S \subseteq Int, S # {}
  PROVE  \E x \in S : \A y \in S : x <= y
  <1> DEFINE Below(x) == {y \in S : y < x}
             T == {Below(x) : x \in S}
  <1>1. SmallestSubsets(S)
    BY SmallestSubset
  <1>2. PICK U \in T : \A V \in T : ~ (V \subseteq U /\ V # U)
    <2>1. T \in SUBSET (SUBSET S) /\ T # {}
      OBVIOUS
    <2> HIDE DEF T
    <2> QED
      BY <1>1, <2>1, Zenon DEF SmallestSubsets
  <1>3. PICK x \in S : U = Below(x)
    BY <1>2
  <1>4. ASSUME NEW y \in S, y < x PROVE FALSE
    <2>1. x \in Int /\ y \in Int /\ \A z \in S : z \in Int
      OBVIOUS
    <2>2. y \in Below(x) /\ y \notin Below(y)
      BY <2>1, <1>4
    <2>3. \A z \in Below(y) : z \in Below(x)
      BY <2>1, <1>4
    <2>4. Below(y) \in T
      OBVIOUS
    <2> HIDE DEF Below, T
    <2> QED
      BY <2>2, <2>3, <2>4, <1>2, <1>3
  <1> QED
    BY <1>4

LEMMA MinIsLeast ==
  ASSUME NEW S, IsFiniteSet(S), S \subseteq Int, S # {}
  PROVE  Min(S) \in S /\ \A y \in S : Min(S) <= y
  BY LeastExists DEF Min

LEMMA EventsFinite ==
  ASSUME NEW S \in SUBSET EventId
  PROVE  IsFiniteSet(S) /\ S \in SUBSET Int
  <1>1. 1 \in Int /\ MaxEvent \in Int
    BY BoundsAssumption
  <1>2. IsFiniteSet(1 .. MaxEvent)
    BY <1>1, FS_Interval
  <1>3. IsFiniteSet(EventId) /\ EventId \subseteq Int
    BY <1>1, <1>2 DEF EventId
  <1> QED
    BY <1>3, FS_Subset

\* fewer than one means none
LEMMA FewerThanOne ==
  ASSUME NEW S \in SUBSET EventId, Cardinality(S) < 1
  PROVE  S = {}
  BY EventsFinite, FS_CardinalityType, FS_EmptySet

-----------------------------------------------------------------------------
(* What the operators return.                                               *)

LEMMA PendingType ==
  ASSUME NEW a \in 0 .. MaxAttempts, NEW b \in BOOLEAN
  PROVE  /\ Pending(a, b) \in Row
         /\ Pending(a, b).state = "PENDING" /\ Pending(a, b).owner = None
  BY BoundsAssumption DEF Pending, Row

LEMMA FreshType ==
  /\ Pending(0, FALSE) \in Row
  /\ Pending(0, FALSE).state = "PENDING" /\ Pending(0, FALSE).owner = None
  <1>1. 0 \in 0 .. MaxAttempts
    BY BoundsAssumption
  <1> QED
    BY <1>1 DEF Pending, Row

LEMMA NoRowType == NoRow \in Row /\ NoRow.state = "NONE" /\ NoRow.owner = None
  BY FreshType DEF NoRow, Row

LEMMA ReturnedType ==
  ASSUME NEW row \in Row, NEW b \in BOOLEAN
  PROVE  /\ Returned(row, b) \in Row
         /\ Returned(row, b).state \in {"PENDING", "DEAD_LETTER"}
         /\ Returned(row, b).owner = None
  BY BoundsAssumption DEF Returned, Pending, Row

LEMMA DeliveredType ==
  ASSUME NEW row \in Row
  PROVE  /\ Delivered(row) \in Row
         /\ Delivered(row).state = "DELIVERED" /\ Delivered(row).owner = None
  BY BoundsAssumption DEF Delivered, Row

\* what the watermark says of the rows it was computed from
LEMMA ContiguousReach ==
  ASSUME NEW d \in [EventId -> Row]
  PROVE  /\ Contiguous(d) \in 0 .. MaxEvent
         /\ Contiguous(d) > 0 =>
               /\ Contiguous(d) \in EventId
               /\ d[Contiguous(d)].state = "DELIVERED"
               /\ \A m \in 1 .. Contiguous(d) - 1 : d[m].state \in {"NONE", "DELIVERED"}
  <1> DEFINE reached == {n \in EventId :
                           /\ d[n].state = "DELIVERED"
                           /\ \A m \in 1 .. n - 1 : d[m].state \in {"NONE", "DELIVERED"}}
  <1>1. CASE reached = {}
    BY <1>1, BoundsAssumption DEF Contiguous
  <1>2. CASE reached # {}
    <2>1. Contiguous(d) = Max(reached)
      BY <1>2 DEF Contiguous
    <2>2. Max(reached) \in reached
      <3>1. reached \in SUBSET EventId
        OBVIOUS
      <3> HIDE DEF reached
      <3> QED
        BY <1>2, <3>1, EventsFinite, MaxIsGreatest
    <2>3. Contiguous(d) \in EventId
      BY <2>1, <2>2
    <2>4. Contiguous(d) \in 0 .. MaxEvent
      BY <2>3, BoundsAssumption DEF EventId
    <2>5. /\ d[Contiguous(d)].state = "DELIVERED"
          /\ \A m \in 1 .. Contiguous(d) - 1 : d[m].state \in {"NONE", "DELIVERED"}
      BY <2>1, <2>2
    <2> QED
      BY <2>3, <2>4, <2>5
  <1> QED
    BY <1>1, <1>2

\* m is the sequence of a delivered row with nothing undelivered below it, or 0
Reached(d, m) ==
    /\ m \in 0 .. MaxEvent
    /\ m > 0 => /\ m \in EventId
                /\ d[m].state = "DELIVERED"
                /\ \A k \in 1 .. m - 1 : d[k].state \in {"NONE", "DELIVERED"}

\* a watermark computed without some of the deliveries may lag, and reaches nothing
\* that the rows do not
LEMMA BeforeReached ==
  ASSUME NEW d \in [EventId -> Row], NEW T \in SUBSET EventId
  PROVE  Reached(d, Contiguous(Before(d, T)))
  <1> DEFINE e == Before(d, T)
             m == Contiguous(e)
  <1>1. \A k \in EventId : e[k] = IF k \in T THEN [d[k] EXCEPT !.state = "PROCESSING"]
                                              ELSE d[k]
    BY DEF Before
  <1>2. e \in [EventId -> Row]
    <2>1. \A k \in EventId : [d[k] EXCEPT !.state = "PROCESSING"] \in Row
      BY DEF Row
    <2> QED
      BY <2>1 DEF Before
  <1>3. \A k \in EventId : e[k].state \in {"NONE", "DELIVERED"} => e[k].state = d[k].state
    BY <1>1 DEF Row
  <1> HIDE DEF e
  <1>4. /\ m \in 0 .. MaxEvent
        /\ m > 0 => /\ m \in EventId /\ e[m].state = "DELIVERED"
                    /\ \A k \in 1 .. m - 1 : e[k].state \in {"NONE", "DELIVERED"}
    BY <1>2, ContiguousReach
  <1>5. ASSUME m > 0, NEW k \in 1 .. m - 1
        PROVE  k \in EventId
    BY <1>4, <1>5, BoundsAssumption DEF EventId
  <1>6. Reached(d, m)
    BY <1>3, <1>4, <1>5 DEF Reached
  <1> QED
    BY <1>6 DEF e

LEMMA RefreshedRows ==
  ASSUME TypeOK
  PROVE  /\ Refreshed \in [EventId -> Row]
         /\ \A n \in EventId :
              /\ Refreshed[n].state = "NONE" <=>
                    delivery[n].state = "NONE" /\ event[n] # "COMMITTED"
              /\ Refreshed[n].state = "DELIVERED" <=> delivery[n].state = "DELIVERED"
              /\ Refreshed[n].state = "PROCESSING" => Refreshed[n] = delivery[n]
  <1> SUFFICES ASSUME NEW n \in EventId
               PROVE  /\ Refreshed[n] \in Row
                      /\ Refreshed[n].state = "NONE" <=>
                            delivery[n].state = "NONE" /\ event[n] # "COMMITTED"
                      /\ Refreshed[n].state = "DELIVERED" <=>
                            delivery[n].state = "DELIVERED"
                      /\ Refreshed[n].state = "PROCESSING" => Refreshed[n] = delivery[n]
    BY DEF Refreshed
  <1>1. delivery[n] \in Row
    BY DEF TypeOK
  <1>2. CASE delivery[n].state = "NONE" /\ event[n] = "COMMITTED"
    <2>1. Refreshed[n] = Pending(0, FALSE)
      BY <1>2 DEF Refreshed
    <2> QED
      BY <1>2, <2>1, FreshType
  <1>3. CASE ~ (delivery[n].state = "NONE" /\ event[n] = "COMMITTED")
    <2>1. Refreshed[n] = Recovered(delivery[n])
      BY <1>3 DEF Refreshed
    <2> QED
      BY <1>1, <1>3, <2>1, ReturnedType DEF Recovered
  <1> QED
    BY <1>2, <1>3

-----------------------------------------------------------------------------
(* The inductive invariants.                                                *)

\* rows, and what a worker has in hand, belong to committed events
RowsCommitted ==
    /\ \A n \in EventId : delivery[n].state # "NONE" => event[n] = "COMMITTED"
    /\ \A w \in Worker : \A n \in todo[w] : event[n] = "COMMITTED"

\* a worker has written a document only for the version that is next
AppliedIsVersion ==
    \A w \in Worker :
        applied[w] => \E n \in EventId : IsNext(w, n) /\ kind[n] = "VERSION"

TypeInv == TypeOK /\ RowsCommitted /\ AppliedIsVersion

\* sequences are drawn in order
DrawnInOrder ==
    \A n \in EventId : event[n] = "NONE" => \A m \in EventId : m > n => event[m] = "NONE"

\* with one writer at a time the open sequence is the last
OpenIsLast ==
    \A n \in EventId : event[n] = "OPEN" => \A m \in EventId : m > n => event[m] = "NONE"

\* an event with a row has no committed event without a row below it
EnrolledInOrder ==
    \A n \in EventId : delivery[n].state # "NONE" =>
        \A m \in EventId : m < n /\ event[m] = "COMMITTED" => delivery[m].state # "NONE"

\* the watermark is the sequence of a delivered event
WatermarkDelivered ==
    \A n \in EventId : n = watermark => delivery[n].state = "DELIVERED"

\* ... and what is committed up to there is delivered
BelowIsDelivered ==
    \A n \in EventId :
        n <= watermark /\ event[n] = "COMMITTED" => delivery[n].state = "DELIVERED"

WatermarkInv == TypeInv /\ EnrolledInOrder /\ WatermarkDelivered /\ BelowIsDelivered

\* as long as no purge is announced, what is delivered is in the index, and so is what a
\* worker has applied and may still complete
CompletedIsIndexed ==
    Known("PURGE") = {} =>
        /\ \A n \in EventId :
              kind[n] = "VERSION" /\ delivery[n].state = "DELIVERED" => n \in document
        /\ \A w \in Worker, n \in EventId :
              /\ applied[w]
              /\ IsNext(w, n)
              /\ delivery[n].state = "PROCESSING"
              /\ delivery[n].owner = w
              => n \in document

IndexInv == TypeInv /\ CompletedIsIndexed

\* a purge excludes versions that are undecided or drawn later
PurgeIsLast ==
    \A n \in EventId : kind[n] = "PURGE" /\ event[n] \in {"OPEN", "COMMITTED"} =>
        \A m \in EventId : kind[m] = "VERSION" /\ event[m] \in {"OPEN", "COMMITTED"} =>
            m < n /\ event[m] = "COMMITTED"

\* a purge is delivered only when every version is
PurgeWaits ==
    \A n \in Known("PURGE") : delivery[n].state = "DELIVERED" =>
        \A m \in Known("VERSION") : delivery[m].state = "DELIVERED"

PurgeInv ==
    TypeInv /\ DrawnInOrder /\ PurgeIsLast /\ PurgeWaits /\ PurgedStaysPurged

LaneInv == WatermarkInv /\ CompletedIsIndexed /\ DrawnInOrder /\ PurgeIsLast

-----------------------------------------------------------------------------
(* What the steps do to the rows.                                           *)

LEMMA FinishTodo ==
  ASSUME TypeOK, NEW w \in Worker, NEW S \in SUBSET EventId, Finish(w, S)
  PROVE  /\ todo' \in [Worker -> SUBSET EventId]
         /\ applied' \in [Worker -> BOOLEAN]
         /\ todo'[w] = todo[w] \ S /\ ~ applied'[w]
         /\ \A v \in Worker : v # w => todo'[v] = todo[v] /\ applied'[v] = applied[v]
  BY DEF Finish, TypeOK

LEMMA DeliverRows ==
  ASSUME TypeOK, NEW w \in Worker, NEW S \in SUBSET EventId, Deliver(w, S)
  PROVE  /\ delivery' \in [EventId -> Row]
         /\ watermark' \in 0 .. MaxEvent
         /\ \A n \in S : delivery'[n].state = "DELIVERED"
         /\ \A n \in EventId \ S : delivery'[n] = delivery[n]
  <1>1. \A n \in EventId : delivery[n] \in Row
    BY DEF TypeOK
  <1>2. \A n \in EventId : delivery'[n] =
                             IF n \in S THEN Delivered(delivery[n]) ELSE delivery[n]
    BY DEF Deliver
  <1>3. delivery' \in [EventId -> Row]
    <2>1. \A n \in EventId : delivery'[n] \in Row
      BY <1>1, <1>2, DeliveredType
    <2>2. delivery' = [n \in EventId |-> delivery'[n]]
      BY DEF Deliver
    <2> QED
      BY <2>1, <2>2
  <1>4. watermark' \in 0 .. MaxEvent
    <2>1. PICK T \in SUBSET unseen[w] : watermark' = Contiguous(Before(delivery', T))
      BY DEF Deliver
    <2>2. T \in SUBSET EventId
      BY DEF TypeOK
    <2> QED
      BY <1>3, <2>1, <2>2, BeforeReached DEF Reached
  <1> QED
    BY <1>1, <1>2, <1>3, <1>4, DeliveredType

\* a lease turns pending rows into a batch in hand and refreshes the others
LEMMA LeaseRows ==
  ASSUME TypeOK, NEW w \in Worker, Lease(w)
  PROVE  /\ delivery' \in [EventId -> Row]
         /\ todo' \in [Worker -> SUBSET EventId]
         /\ todo[w] = {}
         /\ \A v \in Worker : v # w => todo'[v] = todo[v]
         /\ \A n \in todo'[w] : /\ Refreshed[n].state = "PENDING"
                                /\ delivery'[n].state = "PROCESSING"
                                /\ delivery'[n].owner = w
         /\ \A n \in EventId \ todo'[w] : delivery'[n] = Refreshed[n]
  <1>1. PICK held \in Held(w, Leasable(Refreshed)) :
          LET batch == FirstOf(Leasable(Refreshed) \ held)
          IN  /\ delivery' = [n \in EventId |->
                                IF n \in batch
                                THEN [Refreshed[n] EXCEPT !.state = "PROCESSING",
                                                          !.attempts = More(@),
                                                          !.owner = w]
                                ELSE Refreshed[n]]
              /\ todo' = [todo EXCEPT ![w] = batch]
    BY DEF Lease
  <1> DEFINE batch == FirstOf(Leasable(Refreshed) \ held)
  <1>2. batch \subseteq Leasable(Refreshed)
    BY DEF FirstOf
  <1>3. \A n \in Leasable(Refreshed) : n \in EventId => Refreshed[n].state = "PENDING"
    BY DEF Leasable
  <1>4. batch \subseteq EventId
    <2>1. Leasable(Refreshed) \subseteq EventId
      <3> DEFINE undelivered == {n \in EventId : Refreshed[n].state \notin {"NONE", "DELIVERED"}}
      <3>1. CASE undelivered = {}
        BY <3>1 DEF Leasable
      <3>2. CASE undelivered # {}
        <4>1. Min(undelivered) \in undelivered
          <5>1. undelivered \in SUBSET EventId
            OBVIOUS
          <5> HIDE DEF undelivered
          <5> QED
            BY <3>2, <5>1, EventsFinite, MinIsLeast
        <4>2. Min(undelivered) \in EventId
          BY <4>1
        <4>3. Leasable(Refreshed) \subseteq Min(undelivered) .. MaxEvent
          BY DEF Leasable
        <4> HIDE DEF undelivered
        <4> QED
          BY <4>2, <4>3, BoundsAssumption DEF EventId
      <3> QED
        BY <3>1, <3>2
    <2> QED
      BY <1>2, <2>1
  <1>5. \A n \in batch : Refreshed[n].state = "PENDING"
    BY <1>2, <1>3, <1>4
  <1> HIDE DEF batch
  <1>6. /\ delivery' = [n \in EventId |->
                          IF n \in batch
                          THEN [Refreshed[n] EXCEPT !.state = "PROCESSING",
                                                    !.attempts = More(@),
                                                    !.owner = w]
                          ELSE Refreshed[n]]
        /\ todo' = [todo EXCEPT ![w] = batch]
    BY <1>1 DEF batch
  <1>7. \A n \in EventId : Refreshed[n] \in Row
    BY RefreshedRows
  <1>8. ASSUME NEW row \in Row
        PROVE  /\ [row EXCEPT !.state = "PROCESSING", !.attempts = More(@), !.owner = w] \in Row
               /\ [row EXCEPT !.state = "PROCESSING", !.attempts = More(@), !.owner = w].state = "PROCESSING"
               /\ [row EXCEPT !.state = "PROCESSING", !.attempts = More(@), !.owner = w].owner = w
    <2>1. row.attempts \in 0 .. MaxAttempts
      BY DEF Row
    <2>2. More(row.attempts) \in 0 .. MaxAttempts
      BY <2>1, BoundsAssumption DEF More
    <2> QED
      BY <2>2 DEF Row
  <1>9. delivery' \in [EventId -> Row]
    <2>1. \A n \in EventId : (IF n \in batch
                             THEN [Refreshed[n] EXCEPT !.state = "PROCESSING",
                                                       !.attempts = More(@),
                                                       !.owner = w]
                             ELSE Refreshed[n]) \in Row
      BY <1>7, <1>8
    <2> QED
      BY <1>6, <2>1
  <1>10. /\ todo' \in [Worker -> SUBSET EventId] /\ todo'[w] = batch
         /\ \A v \in Worker : v # w => todo'[v] = todo[v]
    BY <1>4, <1>6 DEF TypeOK
  <1>11. todo[w] = {}
    BY DEF Lease
  <1>12. \A n \in batch : delivery'[n].state = "PROCESSING" /\ delivery'[n].owner = w
    BY <1>4, <1>6, <1>7, <1>8
  <1>13. \A n \in EventId \ batch : delivery'[n] = Refreshed[n]
    BY <1>6
  <1> QED
    BY <1>5, <1>9, <1>10, <1>11, <1>12, <1>13

-----------------------------------------------------------------------------
(* Types.                                                                   *)

LEMMA InitTypeInv ==
  ASSUME Init
  PROVE  TypeInv
  <1>1. TypeOK
    BY NoRowType, BoundsAssumption DEF Init, TypeOK, Kind
  <1>2. RowsCommitted /\ AppliedIsVersion
    BY NoRowType DEF Init, RowsCommitted, AppliedIsVersion
  <1> QED
    BY <1>1, <1>2 DEF TypeInv

\* an action that changes a worker's batch by Finish touches subsets of the events
LEMMA BatchSubsets ==
  ASSUME TypeOK, NEW w \in Worker
  PROVE  SkippedOf(w) \in SUBSET EventId /\ todo[w] \in SUBSET EventId
  BY DEF TypeOK, SkippedOf

\* workers miss only what a batch has delivered
LEMMA UnseenType ==
  ASSUME TypeOK, [Next]_vars
  PROVE  unseen' \in [Worker -> SUBSET EventId]
  <1>1. ASSUME NEW w \in Worker, CallEnds(w) PROVE unseen' \in [Worker -> SUBSET EventId]
    BY <1>1 DEF CallEnds, TypeOK
  <1>2. ASSUME NEW w \in Worker, NEW S \in SUBSET EventId, Deliver(w, S)
        PROVE  unseen' \in [Worker -> SUBSET EventId]
    BY <1>2 DEF Deliver, TypeOK
  <1>3. CASE Rebuild
    BY <1>3 DEF Rebuild
  <1>4. CASE unseen' = unseen
    BY <1>4 DEF TypeOK
  <1>5. ASSUME NEW w \in Worker, Handle(w) PROVE unseen' \in [Worker -> SUBSET EventId]
    BY <1>1, <1>2, <1>5, BatchSubsets
    DEF Handle, Skip, Apply, Complete, Purge, Fail, LetGo
  <1> QED
    BY <1>1, <1>3, <1>4, <1>5
    DEF Next, Draw, Commit, Rollback, Lapse, BackoffEnds, Retry, Lease, Reconcile, Crash,
        OtherLanePurges, vars, workVars

LEMMA TypeOKStep ==
  ASSUME TypeOK, [Next]_vars
  PROVE  TypeOK'
  <1>0. unseen' \in [Worker -> SUBSET EventId]
    BY UnseenType
  <1>1. \A n \in EventId : delivery[n] \in Row
    BY DEF TypeOK
  <1>2. ASSUME NEW n \in EventId, NEW k \in Kind, Draw(n, k) PROVE TypeOK'
    BY <1>0, <1>2 DEF Draw, TypeOK, workVars
  <1>3. ASSUME NEW n \in EventId, Commit(n) PROVE TypeOK'
    BY <1>0, <1>3 DEF Commit, TypeOK, workVars
  <1>4. ASSUME NEW n \in EventId, Rollback(n) PROVE TypeOK'
    BY <1>0, <1>4 DEF Rollback, TypeOK, workVars
  <1>5. ASSUME NEW n \in EventId, Lapse(n) PROVE TypeOK'
    <2>1. \A m \in EventId : [delivery[m] EXCEPT !.lapsed = TRUE] \in Row
      BY <1>1 DEF Row
    <2>2. delivery' \in [EventId -> Row]
      BY <1>5, <1>1, <2>1 DEF Lapse
    <2> QED
      BY <1>0, <1>5, <2>2 DEF Lapse, TypeOK, writeVars, workVars
  <1>6. ASSUME NEW n \in EventId, BackoffEnds(n) PROVE TypeOK'
    <2>1. [delivery[n] EXCEPT !.waiting = FALSE] \in Row
      BY <1>1 DEF Row
    <2>2. delivery' \in [EventId -> Row]
      BY <1>6, <2>1 DEF BackoffEnds, TypeOK
    <2> QED
      BY <1>0, <1>6, <2>2 DEF BackoffEnds, TypeOK, writeVars, workVars
  <1>7. ASSUME NEW n \in EventId, Retry(n) PROVE TypeOK'
    <2>1. delivery[n].attempts \in 0 .. MaxAttempts
      BY <1>1 DEF Row
    <2>2. Pending(delivery[n].attempts, FALSE) \in Row
      BY <2>1, PendingType
    <2>3. delivery' \in [EventId -> Row]
      BY <1>7, <2>2 DEF Retry, TypeOK
    <2> QED
      BY <1>0, <1>7, <2>3 DEF Retry, TypeOK, writeVars, workVars
  <1>8. ASSUME NEW w \in Worker, Lease(w) PROVE TypeOK'
    <2>1. delivery' \in [EventId -> Row] /\ todo' \in [Worker -> SUBSET EventId]
      BY <1>8, LeaseRows
    <2> QED
      BY <1>0, <1>8, <2>1 DEF Lease, TypeOK, writeVars
  <1>9. ASSUME NEW w \in Worker, Reconcile(w) PROVE TypeOK'
    <2>1. watermark' \in 0 .. MaxEvent
      BY <1>9, BeforeReached DEF Reconcile, Reached, TypeOK
    <2> QED
      BY <1>0, <1>9, <2>1 DEF Reconcile, TypeOK, writeVars
  <1>10. ASSUME NEW w \in Worker, Crash(w) PROVE TypeOK'
    <2>1. todo' \in [Worker -> SUBSET EventId] /\ applied' \in [Worker -> BOOLEAN]
      BY <1>10, BatchSubsets, FinishTodo DEF Crash
    <2>2. \A m \in EventId : [delivery[m] EXCEPT !.owner = None] \in Row
      BY <1>1 DEF Row
    <2>3. delivery' \in [EventId -> Row]
      BY <1>10, <1>1, <2>2 DEF Crash
    <2> QED
      BY <1>0, <1>10, <2>1, <2>3 DEF Crash, TypeOK, writeVars
  <1>11. ASSUME NEW w \in Worker, Skip(w) PROVE TypeOK'
    <2>1. todo' \in [Worker -> SUBSET EventId] /\ applied' \in [Worker -> BOOLEAN]
      BY <1>11, BatchSubsets, FinishTodo DEF Skip
    <2>2. delivery' \in [EventId -> Row] /\ watermark' \in 0 .. MaxEvent
      <3>1. CASE Deliver(w, SkippedOf(w))
        BY <3>1, BatchSubsets, DeliverRows
      <3>2. CASE UNCHANGED <<delivery, watermark>>
        BY <3>2 DEF TypeOK
      <3> QED
        BY <1>11, <3>1, <3>2 DEF Skip
    <2> QED
      BY <1>0, <1>11, <2>1, <2>2 DEF Skip, TypeOK, writeVars
  <1>12. ASSUME NEW w \in Worker, NEW n \in EventId, Apply(w, n) PROVE TypeOK'
    BY <1>0, <1>12 DEF Apply, TypeOK, writeVars
  <1>13. ASSUME NEW w \in Worker, NEW n \in EventId, Complete(w, n) PROVE TypeOK'
    <2>1. todo' \in [Worker -> SUBSET EventId] /\ applied' \in [Worker -> BOOLEAN]
      BY <1>13, FinishTodo DEF Complete
    <2>2. delivery' \in [EventId -> Row] /\ watermark' \in 0 .. MaxEvent
      BY <1>13, DeliverRows DEF Complete
    <2> QED
      BY <1>0, <1>13, <2>1, <2>2 DEF Complete, TypeOK, writeVars
  <1>14. ASSUME NEW w \in Worker, NEW n \in EventId, Purge(w, n) PROVE TypeOK'
    <2>1. todo' \in [Worker -> SUBSET EventId] /\ applied' \in [Worker -> BOOLEAN]
      BY <1>14, FinishTodo DEF Purge
    <2>2. delivery' \in [EventId -> Row] /\ watermark' \in 0 .. MaxEvent
      BY <1>14, DeliverRows DEF Purge
    <2> QED
      BY <1>0, <1>14, <2>1, <2>2 DEF Purge, TypeOK, writeVars
  <1>15. ASSUME NEW w \in Worker, NEW n \in EventId, Fail(w, n) PROVE TypeOK'
    <2>1. todo' \in [Worker -> SUBSET EventId] /\ applied' \in [Worker -> BOOLEAN]
      BY <1>15, FinishTodo DEF Fail
    <2>2. Returned(delivery[n], TRUE) \in Row
      BY <1>1, ReturnedType
    <2>3. delivery' \in [EventId -> Row]
      BY <1>15, <2>2 DEF Fail, TypeOK
    <2> QED
      BY <1>0, <1>15, <2>1, <2>3 DEF Fail, TypeOK, writeVars
  <1>16. ASSUME NEW w \in Worker, NEW n \in EventId, LetGo(w, n) PROVE TypeOK'
    <2>1. todo' \in [Worker -> SUBSET EventId] /\ applied' \in [Worker -> BOOLEAN]
      BY <1>16, FinishTodo DEF LetGo
    <2> QED
      BY <1>0, <1>16, <2>1 DEF LetGo, TypeOK, writeVars
  <1>17. CASE Rebuild
    BY <1>0, <1>17, NoRowType, BoundsAssumption DEF Rebuild, TypeOK, writeVars, workVars
  <1>18. CASE UNCHANGED vars
    BY <1>0, <1>18 DEF vars, writeVars, workVars, TypeOK
  <1>19. CASE OtherLanePurges
    BY <1>0, <1>19 DEF OtherLanePurges, TypeOK, writeVars, workVars
  <1> QED
    BY <1>2, <1>3, <1>4, <1>5, <1>6, <1>7, <1>8, <1>9, <1>10,
       <1>11, <1>12, <1>13, <1>14, <1>15, <1>16, <1>17, <1>18, <1>19
    DEF Next, Handle

-----------------------------------------------------------------------------
(* How rows, events and the watermark move.                                 *)

\* a row is neither made nor dropped, and stays delivered
Advances(n) ==
    /\ delivery'[n].state = "NONE" <=> delivery[n].state = "NONE"
    /\ delivery[n].state = "DELIVERED" => delivery'[n].state = "DELIVERED"

LEMMA RowsAdvance ==
  ASSUME TypeOK, [Next]_vars, ~ Rebuild, \A w \in Worker : ~ Lease(w)
  PROVE  \A n \in EventId : Advances(n)
  <1> SUFFICES ASSUME NEW n \in EventId PROVE Advances(n)
    OBVIOUS
  <1>1. \A m \in EventId : delivery[m] \in Row
    BY DEF TypeOK
  <1>2. ASSUME delivery' = delivery PROVE Advances(n)
    BY <1>2 DEF Advances
  <1>3. ASSUME NEW v \in Worker, NEW S \in SUBSET EventId, Deliver(v, S),
               \A m \in S : delivery[m].state = "PROCESSING"
        PROVE  Advances(n)
    BY <1>3, DeliverRows DEF Advances
  <1>4. ASSUME NEW m \in EventId, NEW k \in Kind, Draw(m, k) PROVE Advances(n)
    BY <1>4, <1>2 DEF Draw
  <1>5. ASSUME NEW m \in EventId, Commit(m) PROVE Advances(n)
    BY <1>5, <1>2 DEF Commit
  <1>6. ASSUME NEW m \in EventId, Rollback(m) PROVE Advances(n)
    BY <1>6, <1>2 DEF Rollback
  <1>7. ASSUME NEW m \in EventId, Lapse(m) PROVE Advances(n)
    BY <1>7, <1>1 DEF Lapse, Advances, Row
  <1>8. ASSUME NEW m \in EventId, BackoffEnds(m) PROVE Advances(n)
    <2>1. delivery' = [delivery EXCEPT ![m] = [delivery[m] EXCEPT !.waiting = FALSE]]
      BY <1>8 DEF BackoffEnds
    <2>2. [delivery[m] EXCEPT !.waiting = FALSE].state = delivery[m].state
      BY <1>1 DEF Row
    <2> QED
      BY <2>1, <2>2 DEF Advances, TypeOK
  <1>9. ASSUME NEW m \in EventId, Retry(m) PROVE Advances(n)
    <2>1. Pending(delivery[m].attempts, FALSE).state = "PENDING"
      BY DEF Pending
    <2> QED
      BY <1>9, <2>1 DEF Retry, Advances, TypeOK
  <1>10. ASSUME NEW w \in Worker, Reconcile(w) PROVE Advances(n)
    BY <1>10, <1>2 DEF Reconcile
  <1>11. ASSUME NEW w \in Worker, Crash(w) PROVE Advances(n)
    BY <1>11, <1>1 DEF Crash, Advances, Row
  <1>12. ASSUME NEW w \in Worker, Skip(w) PROVE Advances(n)
    BY <1>12, <1>2, <1>3, BatchSubsets DEF Skip, Owns
  <1>13. ASSUME NEW w \in Worker, NEW m \in EventId, Apply(w, m) PROVE Advances(n)
    BY <1>13, <1>2 DEF Apply
  <1>14. ASSUME NEW w \in Worker, NEW m \in EventId, Complete(w, m) PROVE Advances(n)
    BY <1>14, <1>3 DEF Complete, Owns
  <1>15. ASSUME NEW w \in Worker, NEW m \in EventId, Purge(w, m) PROVE Advances(n)
    BY <1>15, <1>3 DEF Purge, Owns
  <1>16. ASSUME NEW w \in Worker, NEW m \in EventId, Fail(w, m) PROVE Advances(n)
    <2>1. Returned(delivery[m], TRUE).state \in {"PENDING", "DEAD_LETTER"}
      BY <1>1, ReturnedType
    <2> QED
      BY <1>16, <2>1 DEF Fail, Advances, TypeOK
  <1>17. ASSUME NEW w \in Worker, NEW m \in EventId, LetGo(w, m) PROVE Advances(n)
    BY <1>17, <1>2 DEF LetGo
  <1>18. CASE OtherLanePurges \/ UNCHANGED vars
    BY <1>18, <1>2 DEF OtherLanePurges, vars
  <1> QED
    BY <1>4, <1>5, <1>6, <1>7, <1>8, <1>9, <1>10, <1>11, <1>12,
       <1>13, <1>14, <1>15, <1>16, <1>17, <1>18
    DEF Next, Handle

\* a lease enrols what is committed and takes nothing that is delivered
LEMMA LeaseEnrols ==
  ASSUME TypeOK, NEW w \in Worker, Lease(w), NEW n \in EventId
  PROVE  /\ delivery'[n].state = "NONE" <=>
               delivery[n].state = "NONE" /\ event[n] # "COMMITTED"
         /\ delivery'[n].state = "DELIVERED" <=> delivery[n].state = "DELIVERED"
  BY LeaseRows, RefreshedRows

\* the fate of a transaction is decided once
LEMMA EventsDecided ==
  ASSUME TypeOK, [Next]_vars
  PROVE  \/ UNCHANGED writeVars
         \/ /\ \E n \in EventId : \/ \E k \in Kind : Draw(n, k)
                                  \/ Commit(n)
                                  \/ Rollback(n)
            /\ UNCHANGED <<delivery, watermark, document, workVars>>
  BY DEF Next, Handle, Draw, Commit, Rollback, Lapse, BackoffEnds, Retry, Lease, Skip,
         Apply, Complete, Purge, Fail, LetGo, Reconcile, Crash, OtherLanePurges, Rebuild,
         vars, writeVars

\* the watermark is computed from the rows as they were some time before
LEMMA WatermarkMoves ==
  ASSUME TypeOK, TypeOK', [Next]_vars
  PROVE  \/ watermark' = watermark
         \/ watermark' = 0
         \/ Reached(delivery', watermark') /\ UNCHANGED writeVars
  <1>1. ASSUME NEW w \in Worker, NEW T \in SUBSET unseen[w]
        PROVE  Reached(delivery', Contiguous(Before(delivery', T)))
    <2>1. T \in SUBSET EventId
      BY DEF TypeOK
    <2> QED
      BY <2>1, BeforeReached DEF TypeOK
  <1>2. ASSUME NEW w \in Worker, NEW S, Deliver(w, S)
        PROVE  Reached(delivery', watermark')
    BY <1>1, <1>2 DEF Deliver
  <1>3. ASSUME NEW w \in Worker, Reconcile(w)
        PROVE  Reached(delivery', watermark') /\ UNCHANGED writeVars
    BY <1>1, <1>3 DEF Reconcile, writeVars
  <1>4. ASSUME NEW w \in Worker, Handle(w)
        PROVE  \/ watermark' = watermark
               \/ Reached(delivery', watermark') /\ UNCHANGED writeVars
    BY <1>2, <1>4 DEF Handle, Skip, Apply, Complete, Purge, Fail, LetGo
  <1> QED
    BY <1>3, <1>4
    DEF Next, Draw, Commit, Rollback, Lapse, BackoffEnds, Retry, Lease, Crash,
        OtherLanePurges, Rebuild, vars

LEMMA CommittedStays ==
  ASSUME TypeOK, [Next]_vars, NEW n \in EventId, event[n] # "NONE"
  PROVE  /\ kind'[n] = kind[n] /\ event'[n] # "NONE"
         /\ event[n] = "COMMITTED" => event'[n] = "COMMITTED"
         /\ event'[n] = "COMMITTED" => event[n] \in {"OPEN", "COMMITTED"}
         /\ event'[n] = "OPEN" => event[n] = "OPEN"
         /\ event[n] = "ROLLED_BACK" => event'[n] = "ROLLED_BACK"
  <1>1. CASE UNCHANGED writeVars
    BY <1>1 DEF writeVars, TypeOK
  <1>2. ASSUME NEW m \in EventId, NEW k \in Kind, Draw(m, k)
        PROVE  event'[n] = event[n] /\ kind'[n] = kind[n]
    BY <1>2 DEF Draw, TypeOK
  <1>3. CASE \E m \in EventId : Commit(m)
    BY <1>3 DEF Commit, TypeOK
  <1>4. CASE \E m \in EventId : Rollback(m)
    BY <1>4 DEF Rollback, TypeOK
  <1> QED
    BY <1>1, <1>2, <1>3, <1>4, EventsDecided

\* what a worker holds is what it held, or less, or what it has just leased
BatchMove(v) ==
    \/ todo'[v] = todo[v] /\ applied'[v] = applied[v]
    \/ todo'[v] \subseteq todo[v] /\ ~ applied'[v]
    \/ todo'[v] = todo[v] /\ \E n \in EventId : Apply(v, n)
    \/ Lease(v) /\ applied'[v] = applied[v]

LEMMA BatchMoves ==
  ASSUME TypeOK, [Next]_vars, NEW v \in Worker
  PROVE  BatchMove(v)
  <1>1. ASSUME NEW w \in Worker, NEW S \in SUBSET EventId, Finish(w, S) PROVE BatchMove(v)
    <2>1. /\ todo'[w] = todo[w] \ S /\ ~ applied'[w]
          /\ \A x \in Worker : x # w => todo'[x] = todo[x] /\ applied'[x] = applied[x]
      BY <1>1, FinishTodo
    <2> QED
      BY <2>1 DEF BatchMove
  <1>2. CASE UNCHANGED <<todo, applied>>
    BY <1>2 DEF BatchMove
  <1>3. ASSUME NEW w \in Worker, Lease(w) PROVE BatchMove(v)
    <2>1. CASE w = v
      BY <1>3, <2>1 DEF Lease, BatchMove
    <2>2. CASE w # v
      <3>1. todo'[v] = todo[v] /\ applied' = applied
        BY <1>3, <2>2, LeaseRows DEF Lease
      <3> QED
        BY <3>1 DEF BatchMove
    <2> QED
      BY <2>1, <2>2
  <1>4. ASSUME NEW w \in Worker, NEW n \in EventId, Apply(w, n) PROVE BatchMove(v)
    BY <1>4 DEF Apply, TypeOK, BatchMove
  <1>5. ASSUME NEW w \in Worker, Skip(w) \/ Crash(w) PROVE BatchMove(v)
    <2>1. PICK S \in SUBSET EventId : Finish(w, S)
      BY <1>5, BatchSubsets DEF Skip, Crash
    <2> QED
      BY <2>1, <1>1
  <1>6. ASSUME NEW w \in Worker, NEW n \in EventId,
               Complete(w, n) \/ Purge(w, n) \/ Fail(w, n) \/ LetGo(w, n)
        PROVE  BatchMove(v)
    <2>1. {n} \in SUBSET EventId /\ Finish(w, {n})
      BY <1>6 DEF Complete, Purge, Fail, LetGo
    <2> QED
      BY <2>1, <1>1
  <1>7. CASE \E w \in Worker : Reconcile(w)
    BY <1>7, <1>2 DEF Reconcile
  <1>8. CASE \E n \in EventId : \/ \E k \in Kind : Draw(n, k)
                                \/ Commit(n) \/ Rollback(n)
                                \/ Lapse(n) \/ BackoffEnds(n) \/ Retry(n)
    BY <1>8, <1>2 DEF Draw, Commit, Rollback, Lapse, BackoffEnds, Retry, workVars
  <1>9. CASE OtherLanePurges \/ Rebuild \/ UNCHANGED vars
    BY <1>9, <1>2 DEF OtherLanePurges, Rebuild, vars, workVars
  <1>10. CASE \E w \in Worker : Handle(w)
    BY <1>4, <1>5, <1>6, <1>10 DEF Handle
  <1>11. CASE \E w \in Worker : Lease(w) \/ Reconcile(w) \/ Crash(w)
    BY <1>3, <1>5, <1>7, <1>11
  <1> QED
    BY <1>8, <1>9, <1>10, <1>11 DEF Next

\* the kinds of the events in hand do not change, nor which of them is next
LEMMA StillNext ==
  ASSUME TypeInv, [Next]_vars, NEW v \in Worker, todo'[v] = todo[v], NEW n \in EventId
  PROVE  IsNext(v, n)' <=> IsNext(v, n)
  <1>1. \A m \in todo[v] : m \in EventId /\ event[m] = "COMMITTED"
    BY DEF TypeInv, TypeOK, RowsCommitted
  <1>2. \A m \in todo[v] : kind'[m] = kind[m]
    BY <1>1, CommittedStays DEF TypeInv
  <1>3. SkippedOf(v)' = SkippedOf(v)
    BY <1>2 DEF SkippedOf
  <1> QED
    BY <1>3 DEF IsNext

LEMMA NextIsUnique ==
  ASSUME TypeOK, NEW v \in Worker, NEW n \in EventId, NEW m \in EventId,
         IsNext(v, n), IsNext(v, m)
  PROVE  n = m
  <1>1. n \in Int /\ m \in Int
    BY BoundsAssumption DEF EventId
  <1> QED
    BY <1>1 DEF IsNext

LEMMA RowsCommittedStep ==
  ASSUME TypeInv, [Next]_vars
  PROVE  RowsCommitted'
  <1> USE DEF TypeInv
  <1>1. ASSUME NEW n \in EventId, delivery'[n].state # "NONE"
        PROVE  event'[n] = "COMMITTED"
    <2>1. CASE Rebuild
      BY <1>1, <2>1, NoRowType DEF Rebuild
    <2>2. CASE \E w \in Worker : Lease(w)
      <3>1. event[n] = "COMMITTED"
        BY <1>1, <2>2, LeaseEnrols DEF RowsCommitted
      <3> QED
        BY <3>1, CommittedStays
    <2>3. CASE ~ Rebuild /\ \A w \in Worker : ~ Lease(w)
      <3>1. event[n] = "COMMITTED"
        BY <1>1, <2>3, RowsAdvance DEF Advances, RowsCommitted
      <3> QED
        BY <3>1, CommittedStays
    <2> QED
      BY <2>1, <2>2, <2>3
  <1>2. ASSUME NEW v \in Worker, NEW n \in todo'[v]
        PROVE  event'[n] = "COMMITTED"
    <2>1. n \in EventId
      <3>1. TypeOK'
        BY TypeOKStep
      <3> QED
        BY <3>1 DEF TypeOK
    <2>2. event[n] = "COMMITTED"
      <3>1. CASE todo'[v] \subseteq todo[v]
        BY <3>1 DEF RowsCommitted
      <3>2. CASE Lease(v)
        BY <3>2, <2>1, LeaseRows, RefreshedRows DEF RowsCommitted
      <3> QED
        BY <3>1, <3>2, BatchMoves DEF BatchMove
    <2> QED
      BY <2>1, <2>2, CommittedStays
  <1> QED
    BY <1>1, <1>2 DEF RowsCommitted

LEMMA AppliedIsVersionStep ==
  ASSUME TypeInv, [Next]_vars
  PROVE  AppliedIsVersion'
  <1> SUFFICES ASSUME NEW v \in Worker, applied'[v]
               PROVE  \E n \in EventId : IsNext(v, n)' /\ kind'[n] = "VERSION"
    BY DEF AppliedIsVersion
  <1> USE DEF TypeInv
  <1>1. ASSUME todo'[v] = todo[v], NEW n \in EventId, IsNext(v, n), kind[n] = "VERSION"
        PROVE  IsNext(v, n)' /\ kind'[n] = "VERSION"
    <2>1. event[n] = "COMMITTED"
      BY <1>1 DEF IsNext, RowsCommitted
    <2> QED
      BY <1>1, <2>1, CommittedStays, StillNext
  <1>2. CASE todo'[v] = todo[v] /\ applied'[v] = applied[v]
    BY <1>1, <1>2 DEF AppliedIsVersion
  <1>3. CASE todo'[v] = todo[v] /\ \E n \in EventId : Apply(v, n)
    BY <1>1, <1>3 DEF Apply
  <1>4. CASE Lease(v) /\ applied'[v] = applied[v]
    BY <1>4 DEF Lease, AppliedIsVersion, IsNext
  <1> QED
    BY <1>2, <1>3, <1>4, BatchMoves DEF BatchMove

LEMMA TypeInvStep ==
  ASSUME TypeInv, [Next]_vars
  PROVE  TypeInv'
  BY TypeOKStep, RowsCommittedStep, AppliedIsVersionStep DEF TypeInv

\* Rows, leases, watermark and batches have the shape of migration 0007's schema, for
\* every number of events, workers, attempts and rebuilds.
THEOREM TypeCorrect == Spec => []TypeOK
  <1>1. Init => TypeInv
    BY InitTypeInv
  <1>2. TypeInv /\ [Next]_vars => TypeInv'
    BY TypeInvStep
  <1>3. TypeInv => TypeOK
    BY DEF TypeInv
  <1> QED
    BY <1>1, <1>2, <1>3, PTL DEF Spec

-----------------------------------------------------------------------------
(* The watermark, as long as no commit is overtaken.                        *)

\* a transaction that commits in this step was not overtaken: the lane has no row yet
\* for a later sequence
NothingOvertaken ==
    \A n \in EventId : event[n] = "OPEN" /\ event'[n] = "COMMITTED" =>
        \A m \in EventId : m > n => delivery[m].state = "NONE"

LEMMA EventNumbers ==
  ASSUME NEW n \in EventId
  PROVE  n \in Nat /\ n > 0 /\ n <= MaxEvent
  BY BoundsAssumption DEF EventId

LEMMA DrawnInOrderStep ==
  ASSUME TypeOK, DrawnInOrder, [Next]_vars
  PROVE  DrawnInOrder'
  <1>1. CASE UNCHANGED writeVars
    BY <1>1 DEF DrawnInOrder, writeVars
  <1>2. ASSUME NEW n \in EventId, NEW k \in Kind, Draw(n, k) PROVE DrawnInOrder'
    <2>1. \A m \in 1 .. n - 1 : event[m] # "NONE"
      BY <1>2 DEF Draw
    <2>2. \A m \in EventId : m < n => event[m] # "NONE"
      BY <2>1, EventNumbers
    <2>3. \A m \in EventId : event'[m] = IF m = n THEN "OPEN" ELSE event[m]
      BY <1>2 DEF Draw, TypeOK
    <2> QED
      BY <2>2, <2>3, EventNumbers DEF DrawnInOrder
  <1>3. ASSUME NEW n \in EventId, Commit(n) \/ Rollback(n) PROVE DrawnInOrder'
    BY <1>3 DEF Commit, Rollback, TypeOK, DrawnInOrder
  <1> QED
    BY <1>1, <1>2, <1>3, EventsDecided

LEMMA DeliveredStays ==
  ASSUME TypeOK, [Next]_vars, ~ Rebuild, NEW n \in EventId, delivery[n].state = "DELIVERED"
  PROVE  delivery'[n].state = "DELIVERED"
  <1>1. CASE \E w \in Worker : Lease(w)
    BY <1>1, LeaseEnrols
  <1>2. CASE \A w \in Worker : ~ Lease(w)
    BY <1>2, RowsAdvance DEF Advances
  <1> QED
    BY <1>1, <1>2

LEMMA NewlyCommitted ==
  ASSUME TypeOK, [Next]_vars, NEW n \in EventId,
         event[n] # "COMMITTED", event'[n] = "COMMITTED"
  PROVE  event[n] = "OPEN" /\ UNCHANGED <<delivery, watermark, document, workVars>>
  <1>1. event[n] # "NONE"
    BY EventsDecided DEF writeVars, Draw, Commit, Rollback, TypeOK
  <1>2. event[n] = "OPEN"
    BY <1>1, CommittedStays
  <1> QED
    BY <1>2, EventsDecided DEF writeVars

LEMMA EnrolledInOrderStep ==
  ASSUME TypeInv, EnrolledInOrder, [Next]_vars, NothingOvertaken
  PROVE  EnrolledInOrder'
  <1> USE DEF TypeInv
  <1> SUFFICES ASSUME NEW n \in EventId, delivery'[n].state # "NONE",
                      NEW m \in EventId, m < n, event'[m] = "COMMITTED"
               PROVE  delivery'[m].state # "NONE"
    BY DEF EnrolledInOrder
  <1>1. CASE Rebuild
    BY <1>1, NoRowType DEF Rebuild
  <1>2. CASE \E w \in Worker : Lease(w)
    <2>1. event[m] = "COMMITTED"
      BY <1>2 DEF Lease, writeVars
    <2> QED
      BY <1>2, <2>1, LeaseEnrols
  <1>3. CASE ~ Rebuild /\ \A w \in Worker : ~ Lease(w)
    <2>1. delivery[n].state # "NONE"
      BY <1>3, RowsAdvance DEF Advances
    <2>2. event[m] = "COMMITTED"
      BY <2>1, NewlyCommitted, EventNumbers DEF NothingOvertaken
    <2> QED
      BY <1>3, <2>1, <2>2, RowsAdvance DEF Advances, EnrolledInOrder
  <1> QED
    BY <1>1, <1>2, <1>3

\* a watermark computed from the new rows covers what is committed
LEMMA ReachedIsDelivered ==
  ASSUME TypeInv', EnrolledInOrder', NEW reach, Reached(delivery', reach),
         NEW n \in EventId, n <= reach, event'[n] = "COMMITTED"
  PROVE  delivery'[n].state = "DELIVERED"
  <1>1. /\ reach \in EventId /\ delivery'[reach].state = "DELIVERED"
        /\ \A m \in 1 .. reach - 1 : delivery'[m].state \in {"NONE", "DELIVERED"}
    BY EventNumbers, BoundsAssumption DEF Reached, EventId
  <1>2. n <= reach
    OBVIOUS
  <1>3. CASE n = reach
    BY <1>1, <1>3
  <1>4. CASE n # reach
    <2>1. n < reach /\ n \in 1 .. reach - 1
      BY <1>1, <1>2, <1>4, EventNumbers
    <2>2. delivery'[n].state # "NONE"
      BY <1>1, <2>1 DEF EnrolledInOrder
    <2> QED
      BY <1>1, <2>1, <2>2
  <1> QED
    BY <1>3, <1>4

LEMMA WatermarkDeliveredStep ==
  ASSUME TypeInv, WatermarkDelivered, TypeInv', [Next]_vars
  PROVE  WatermarkDelivered'
  <1> SUFFICES ASSUME NEW n \in EventId, n = watermark'
               PROVE  delivery'[n].state = "DELIVERED"
    BY DEF WatermarkDelivered
  <1>1. CASE Rebuild
    BY <1>1, EventNumbers DEF Rebuild
  <1>2. CASE ~ Rebuild /\ watermark' = watermark
    BY <1>2, DeliveredStays DEF TypeInv, WatermarkDelivered
  <1>3. CASE watermark' = 0
    BY <1>3, EventNumbers
  <1>4. CASE Reached(delivery', watermark')
    BY <1>4, EventNumbers, BoundsAssumption DEF Reached, EventId
  <1>5. TypeOK /\ TypeOK'
    BY DEF TypeInv
  <1> QED
    BY <1>1, <1>2, <1>3, <1>4, <1>5, WatermarkMoves

LEMMA BelowIsDeliveredStep ==
  ASSUME WatermarkInv, TypeInv', EnrolledInOrder', [Next]_vars, NothingOvertaken
  PROVE  BelowIsDelivered'
  <1> USE DEF WatermarkInv, TypeInv
  <1> SUFFICES ASSUME NEW n \in EventId, n <= watermark', event'[n] = "COMMITTED"
               PROVE  delivery'[n].state = "DELIVERED"
    BY DEF BelowIsDelivered
  <1>1. CASE watermark' = watermark /\ ~ Rebuild
    <2>1. CASE event[n] = "COMMITTED"
      BY <1>1, <2>1, DeliveredStays DEF BelowIsDelivered
    <2>2. CASE event[n] # "COMMITTED"
      <3>1. /\ event[n] = "OPEN"
            /\ \A m \in EventId : m > n => delivery[m].state = "NONE"
        BY <2>2, NewlyCommitted DEF NothingOvertaken
      <3>2. watermark \in EventId
        BY <1>1, EventNumbers, BoundsAssumption DEF TypeOK, EventId
      <3>3. delivery[watermark].state = "DELIVERED" /\ event[watermark] = "COMMITTED"
        BY <3>2 DEF WatermarkDelivered, RowsCommitted
      <3>4. n # watermark /\ n <= watermark
        BY <1>1, <3>1, <3>3
      <3>5. watermark > n
        BY <3>2, <3>4, EventNumbers
      <3> QED
        BY <3>1, <3>2, <3>3, <3>5
    <2> QED
      BY <2>1, <2>2
  <1>2. CASE watermark' = 0
    BY <1>2, EventNumbers
  <1>3. CASE Reached(delivery', watermark')
    BY <1>3, ReachedIsDelivered
  <1>4. Rebuild => watermark' = 0
    BY DEF Rebuild
  <1> QED
    BY <1>1, <1>2, <1>3, <1>4, WatermarkMoves

LEMMA WatermarkInvStep ==
  ASSUME WatermarkInv, [Next]_vars, [NothingOvertaken]_vars
  PROVE  WatermarkInv'
  <1>1. NothingOvertaken
    BY DEF NothingOvertaken, vars, writeVars
  <1>2. TypeInv /\ TypeInv'
    BY TypeInvStep DEF WatermarkInv
  <1>3. EnrolledInOrder'
    BY <1>1, <1>2, EnrolledInOrderStep DEF WatermarkInv
  <1>4. WatermarkDelivered'
    BY <1>2, WatermarkDeliveredStep DEF WatermarkInv
  <1>5. BelowIsDelivered'
    BY <1>1, <1>2, <1>3, BelowIsDeliveredStep
  <1> QED
    BY <1>2, <1>3, <1>4, <1>5 DEF WatermarkInv

LEMMA InitWatermarkInv ==
  ASSUME Init
  PROVE  WatermarkInv
  BY InitTypeInv, NoRowType, EventNumbers
  DEF Init, WatermarkInv, EnrolledInOrder, WatermarkDelivered, BelowIsDelivered

\* The watermark never passes a committed event that the lane has not delivered, for any
\* number of workers and of transactions open at a time, whatever leases, batches, lost
\* workers, retries and rebuilds do, as long as no commit is overtaken by the lane: this
\* race is the only way to lose the promise.
THEOREM WatermarkIsHonest ==
  Spec /\ [][NothingOvertaken]_vars => []WatermarkCoversCommitted
  <1>1. Init => WatermarkInv
    BY InitWatermarkInv
  <1>2. WatermarkInv /\ [Next]_vars /\ [NothingOvertaken]_vars => WatermarkInv'
    BY WatermarkInvStep
  <1>3. WatermarkInv => WatermarkCoversCommitted
    BY BoundsAssumption
    DEF WatermarkInv, BelowIsDelivered, WatermarkCoversCommitted, TypeInv, TypeOK, EventId
  <1> QED
    BY <1>1, <1>2, <1>3, PTL DEF Spec

LEMMA OpenIsLastStep ==
  ASSUME MaxOpen = 1, TypeOK, DrawnInOrder, OpenIsLast, [Next]_vars
  PROVE  OpenIsLast'
  <1>1. CASE UNCHANGED writeVars
    BY <1>1 DEF OpenIsLast, writeVars
  <1>2. ASSUME NEW n \in EventId, NEW k \in Kind, Draw(n, k) PROVE OpenIsLast'
    <2>1. {m \in EventId : event[m] = "OPEN"} = {}
      <3>1. {m \in EventId : event[m] = "OPEN"} \in SUBSET EventId
        OBVIOUS
      <3>2. Cardinality({m \in EventId : event[m] = "OPEN"}) < 1
        BY <1>2 DEF Draw
      <3> HIDE <1>2
      <3> QED
        BY <3>1, <3>2, FewerThanOne
    <2>2. \A m \in EventId : m > n => event[m] = "NONE"
      BY <1>2 DEF Draw, DrawnInOrder
    <2>3. \A m \in EventId : event'[m] = IF m = n THEN "OPEN" ELSE event[m]
      BY <1>2 DEF Draw, TypeOK
    <2> QED
      BY <2>1, <2>2, <2>3, EventNumbers DEF OpenIsLast
  <1>3. ASSUME NEW n \in EventId, Commit(n) \/ Rollback(n) PROVE OpenIsLast'
    <2>1. /\ event[n] = "OPEN"
          /\ \A m \in EventId : m # n => event'[m] = event[m]
          /\ event'[n] \in {"COMMITTED", "ROLLED_BACK"}
      BY <1>3 DEF Commit, Rollback, TypeOK
    <2> QED
      BY <2>1 DEF OpenIsLast
  <1> QED
    BY <1>1, <1>2, <1>3, EventsDecided

\* one writing transaction at a time is one way to have it
LEMMA OneWriterIsEnough ==
  ASSUME MaxOpen = 1
  PROVE  Spec => [][NothingOvertaken]_vars
  <1> DEFINE Inv == TypeInv /\ DrawnInOrder /\ OpenIsLast
  <1>1. Init => Inv
    BY InitTypeInv DEF Init, DrawnInOrder, OpenIsLast
  <1>2. Inv /\ [Next]_vars => Inv'
    BY TypeInvStep, DrawnInOrderStep, OpenIsLastStep DEF TypeInv
  <1>3. Inv /\ [Next]_vars => [NothingOvertaken]_vars
    BY DEF TypeInv, RowsCommitted, OpenIsLast, NothingOvertaken
  <1> QED
    BY <1>1, <1>2, <1>3, PTL DEF Spec

-----------------------------------------------------------------------------
(* Who may move a row, and what becomes of the documents.                   *)

\* only a lease puts a row to work, and only the worker's next event, or those the
\* lane does not use, become delivered
RowMove(n) ==
    /\ delivery'[n].state = "PROCESSING" =>
          \/ /\ delivery[n].state = "PROCESSING"
             /\ delivery'[n].owner \in Worker => delivery'[n].owner = delivery[n].owner
          \/ \E w \in Worker : Lease(w) /\ n \in todo'[w] /\ delivery'[n].owner = w
    /\ delivery'[n].state = "DELIVERED" =>
          \/ delivery[n].state = "DELIVERED"
          \/ /\ delivery[n].state = "PROCESSING"
             /\ \/ kind[n] = "OTHER"
                \/ \E w \in Worker : Complete(w, n) \/ Purge(w, n)

LEMMA RowMoves ==
  ASSUME TypeOK, [Next]_vars
  PROVE  \A n \in EventId : RowMove(n)
  <1> SUFFICES ASSUME NEW n \in EventId PROVE RowMove(n)
    OBVIOUS
  <1>1. \A m \in EventId : delivery[m] \in Row
    BY DEF TypeOK
  <1>2. ASSUME delivery' = delivery PROVE RowMove(n)
    BY <1>2 DEF RowMove
  <1>3. ASSUME NEW m \in EventId, NEW k \in Kind, Draw(m, k) PROVE RowMove(n)
    BY <1>3, <1>2 DEF Draw
  <1>4. ASSUME NEW m \in EventId, Commit(m) PROVE RowMove(n)
    BY <1>4, <1>2 DEF Commit
  <1>5. ASSUME NEW m \in EventId, Rollback(m) PROVE RowMove(n)
    BY <1>5, <1>2 DEF Rollback
  <1>6. ASSUME NEW m \in EventId, Lapse(m) PROVE RowMove(n)
    BY <1>6, <1>1 DEF Lapse, RowMove, Row
  <1>7. ASSUME NEW m \in EventId, BackoffEnds(m) PROVE RowMove(n)
    <2>1. delivery' = [delivery EXCEPT ![m] = [delivery[m] EXCEPT !.waiting = FALSE]]
      BY <1>7 DEF BackoffEnds
    <2>2. /\ [delivery[m] EXCEPT !.waiting = FALSE].state = delivery[m].state
          /\ [delivery[m] EXCEPT !.waiting = FALSE].owner = delivery[m].owner
      BY <1>1 DEF Row
    <2> QED
      BY <2>1, <2>2 DEF RowMove, TypeOK
  <1>8. ASSUME NEW m \in EventId, Retry(m) PROVE RowMove(n)
    <2>1. Pending(delivery[m].attempts, FALSE).state = "PENDING"
      BY DEF Pending
    <2> QED
      BY <1>8, <2>1 DEF Retry, RowMove, TypeOK
  <1>9. ASSUME NEW w \in Worker, Lease(w) PROVE RowMove(n)
    <2>1. CASE n \in todo'[w]
      BY <1>9, <2>1, LeaseRows DEF RowMove
    <2>2. CASE n \notin todo'[w]
      BY <1>9, <2>2, LeaseRows, RefreshedRows DEF RowMove
    <2> QED
      BY <2>1, <2>2
  <1>10. ASSUME NEW w \in Worker, Reconcile(w) PROVE RowMove(n)
    BY <1>10, <1>2 DEF Reconcile
  <1>11. ASSUME NEW w \in Worker, Crash(w) PROVE RowMove(n)
    <2>1. delivery'[n] = IF delivery[n].owner = w
                         THEN [delivery[n] EXCEPT !.owner = None]
                         ELSE delivery[n]
      BY <1>11 DEF Crash
    <2>2. /\ [delivery[n] EXCEPT !.owner = None].state = delivery[n].state
          /\ [delivery[n] EXCEPT !.owner = None].owner \notin Worker
      BY <1>1, NoneAssumption DEF Row
    <2> QED
      BY <2>1, <2>2 DEF RowMove
  <1>12. ASSUME NEW w \in Worker, Skip(w) PROVE RowMove(n)
    <2>1. CASE Deliver(w, SkippedOf(w)) /\ \A m \in SkippedOf(w) : Owns(w, m)
      <3>1. \A m \in SkippedOf(w) : kind[m] = "OTHER" /\ delivery[m].state = "PROCESSING"
        BY <2>1 DEF SkippedOf, Owns
      <3>2. /\ \A m \in SkippedOf(w) : delivery'[m].state = "DELIVERED"
            /\ \A m \in EventId \ SkippedOf(w) : delivery'[m] = delivery[m]
        BY <2>1, BatchSubsets, DeliverRows
      <3> QED
        BY <3>1, <3>2 DEF RowMove
    <2>2. CASE UNCHANGED delivery
      BY <2>2, <1>2
    <2> QED
      BY <1>12, <2>1, <2>2 DEF Skip
  <1>13. ASSUME NEW w \in Worker, NEW m \in EventId, Apply(w, m) PROVE RowMove(n)
    BY <1>13, <1>2 DEF Apply
  <1>14. ASSUME NEW w \in Worker, NEW m \in EventId, Complete(w, m) \/ Purge(w, m) PROVE RowMove(n)
    <2>1. Deliver(w, {m}) /\ delivery[m].state = "PROCESSING"
      BY <1>14 DEF Complete, Purge, Owns
    <2>2. delivery'[m].state = "DELIVERED" /\ \A x \in EventId \ {m} : delivery'[x] = delivery[x]
      BY <2>1, DeliverRows
    <2> QED
      BY <1>14, <2>1, <2>2 DEF RowMove
  <1>15. ASSUME NEW w \in Worker, NEW m \in EventId, Fail(w, m) PROVE RowMove(n)
    <2>1. Returned(delivery[m], TRUE).state \in {"PENDING", "DEAD_LETTER"}
      BY <1>1, ReturnedType
    <2> QED
      BY <1>15, <2>1 DEF Fail, RowMove, TypeOK
  <1>16. ASSUME NEW w \in Worker, NEW m \in EventId, LetGo(w, m) PROVE RowMove(n)
    BY <1>16, <1>2 DEF LetGo
  <1>17. CASE Rebuild
    BY <1>17, NoRowType DEF Rebuild, RowMove
  <1>18. CASE OtherLanePurges \/ UNCHANGED vars
    BY <1>18, <1>2 DEF OtherLanePurges, vars
  <1> QED
    BY <1>3, <1>4, <1>5, <1>6, <1>7, <1>8, <1>9, <1>10,
       <1>11, <1>12, <1>13, <1>14, <1>15, <1>16, <1>17, <1>18
    DEF Next, Handle

LEMMA DocumentMoves ==
  ASSUME [Next]_vars
  PROVE  \/ document' = document
         \/ \E w \in Worker, n \in EventId : Apply(w, n) /\ document' = document \cup {n}
         \/ \E w \in Worker, n \in EventId : Purge(w, n) /\ document' = {}
         \/ OtherLanePurges /\ document' = {}
         \/ Rebuild /\ document' = {}
  BY DEF Next, Handle, Draw, Commit, Rollback, Lapse, BackoffEnds, Retry, Lease, Skip,
         Apply, Complete, Purge, Fail, LetGo, Reconcile, Crash, OtherLanePurges, Rebuild,
         vars

\* a delivered purge stays a delivered purge until a rebuild
LEMMA PurgeStaysDelivered ==
  ASSUME TypeInv, [Next]_vars, ~ Rebuild,
         NEW n \in Known("PURGE"), delivery[n].state = "DELIVERED"
  PROVE  n \in Known("PURGE")' /\ delivery'[n].state = "DELIVERED"
  <1>1. n \in EventId /\ event[n] = "COMMITTED" /\ kind[n] = "PURGE"
    BY DEF Known
  <1>2. event'[n] = "COMMITTED" /\ kind'[n] = "PURGE"
    BY <1>1, CommittedStays DEF TypeInv
  <1>3. delivery'[n].state = "DELIVERED"
    <2>1. CASE \E w \in Worker : Lease(w)
      BY <1>1, <2>1, LeaseEnrols DEF TypeInv
    <2>2. CASE \A w \in Worker : ~ Lease(w)
      BY <1>1, <2>2, RowsAdvance DEF Advances, TypeInv
    <2> QED
      BY <2>1, <2>2
  <1> QED
    BY <1>1, <1>2, <1>3 DEF Known

\* the kind of an event with a row is settled
LEMMA KindOfRow ==
  ASSUME TypeInv, [Next]_vars, NEW n \in EventId, delivery[n].state # "NONE"
  PROVE  event[n] = "COMMITTED" /\ event'[n] = "COMMITTED" /\ kind'[n] = kind[n]
  <1>1. event[n] = "COMMITTED"
    BY DEF TypeInv, RowsCommitted
  <1> QED
    BY <1>1, CommittedStays DEF TypeInv

LEMMA PurgeDelivers ==
  ASSUME TypeInv, [Next]_vars, NEW w \in Worker, NEW n \in EventId, Purge(w, n)
  PROVE  n \in Known("PURGE")' /\ delivery'[n].state = "DELIVERED"
  <1>1. Deliver(w, {n}) /\ delivery[n].state = "PROCESSING" /\ kind[n] = "PURGE"
    BY DEF Purge, Owns
  <1>2. delivery'[n].state = "DELIVERED"
    BY <1>1, DeliverRows DEF TypeInv
  <1> QED
    BY <1>1, <1>2, KindOfRow DEF Known

-----------------------------------------------------------------------------
(* The index.                                                               *)

LEMMA CompletedIsIndexedStep ==
  ASSUME TypeInv, CompletedIsIndexed, [Next]_vars
  PROVE  CompletedIsIndexed'
  <1> USE DEF TypeInv
  <1>1. CASE Rebuild
    BY <1>1, NoRowType DEF Rebuild, CompletedIsIndexed
  <1>2. ASSUME ~ Rebuild, Known("PURGE")' = {}
        PROVE  Known("PURGE") = {} /\ document \subseteq document'
    <2>1. Known("PURGE") = {}
      <3>1. \A n \in Known("PURGE") : n \in Known("PURGE")'
        BY CommittedStays DEF Known
      <3> QED
        BY <1>2, <3>1
    <2>2. \A w \in Worker, n \in EventId : ~ Purge(w, n)
      BY <1>2, PurgeDelivers
    <2> QED
      BY <1>2, <2>1, <2>2, DocumentMoves DEF OtherLanePurges
  <1>3. ASSUME ~ Rebuild, Known("PURGE")' = {},
               NEW n \in EventId, kind'[n] = "VERSION", delivery'[n].state = "DELIVERED"
        PROVE  n \in document'
    <2>1. delivery[n].state \in {"DELIVERED", "PROCESSING"}
      BY <1>3, RowMoves DEF RowMove
    <2>2. kind[n] = "VERSION"
      BY <1>3, <2>1, KindOfRow
    <2>3. CASE delivery[n].state = "DELIVERED"
      BY <1>2, <1>3, <2>2, <2>3 DEF CompletedIsIndexed
    <2>4. CASE delivery[n].state # "DELIVERED"
      <3>1. PICK w \in Worker : Complete(w, n) \/ Purge(w, n)
        BY <1>3, <2>2, <2>4, RowMoves DEF RowMove
      <3>2. Complete(w, n)
        BY <3>1, <2>2 DEF Purge
      <3>3. applied[w] /\ IsNext(w, n) /\ Owns(w, n)
        BY <3>2 DEF Complete
      <3> QED
        BY <1>2, <1>3, <3>3 DEF CompletedIsIndexed, Owns
    <2> QED
      BY <2>3, <2>4
  <1>4. ASSUME ~ Rebuild, Known("PURGE")' = {},
               NEW w \in Worker, NEW n \in EventId, applied'[w], IsNext(w, n)',
               delivery'[n].state = "PROCESSING", delivery'[n].owner = w
        PROVE  n \in document'
    <2>1. CASE Lease(w)
      BY <1>4, <2>1 DEF Lease, AppliedIsVersion, IsNext
    <2>2. CASE ~ Lease(w)
      <3>1. delivery[n].state = "PROCESSING" /\ delivery[n].owner = w
        BY <1>4, <2>2, RowMoves DEF RowMove
      <3>2. todo'[w] = todo[w]
        BY <1>4, <2>2, BatchMoves DEF BatchMove
      <3>3. IsNext(w, n)
        BY <1>4, <3>2, StillNext
      <3>4. CASE applied[w]
        BY <1>2, <1>4, <3>1, <3>3, <3>4 DEF CompletedIsIndexed
      <3>5. CASE ~ applied[w]
        <4>1. PICK m \in EventId : Apply(w, m)
          BY <1>4, <2>2, <3>5, BatchMoves DEF BatchMove
        <4>2. m = n
          BY <4>1, <3>3, NextIsUnique DEF Apply
        <4> QED
          BY <4>1, <4>2 DEF Apply
      <3> QED
        BY <3>4, <3>5
    <2> QED
      BY <2>1, <2>2
  <1> QED
    BY <1>1, <1>3, <1>4 DEF CompletedIsIndexed

\* As long as no purge is announced a delivered version can be found, for any number of
\* workers, open transactions and rebuilds and any size of a batch: a worker that lost
\* its lease, and one that finds its rows gone, completes nothing it has not indexed.
THEOREM IndexIsComplete == Spec => []DeliveredIsIndexed
  <1>1. Init => IndexInv
    BY InitTypeInv, NoRowType DEF IndexInv, CompletedIsIndexed, Init
  <1>2. IndexInv /\ [Next]_vars => IndexInv'
    BY TypeInvStep, CompletedIsIndexedStep DEF IndexInv
  <1>3. IndexInv => DeliveredIsIndexed
    BY DEF IndexInv, CompletedIsIndexed, DeliveredIsIndexed, Known
  <1> QED
    BY <1>1, <1>2, <1>3, PTL DEF Spec

-----------------------------------------------------------------------------
(* Purges, as long as they do not overtake versions.                        *)

\* in this step the lane does not run a purge ahead of a version announced before it
PurgeInOrder ==
    \A w \in Worker, n \in EventId : Purge(w, n) =>
        \A m \in Known("VERSION") : m < n => delivery[m].state = "DELIVERED"

LEMMA PurgeIsLastStep ==
  ASSUME TypeOK, DrawnInOrder, PurgeIsLast, [Next]_vars
  PROVE  PurgeIsLast'
  <1>1. CASE UNCHANGED writeVars
    BY <1>1 DEF PurgeIsLast, writeVars
  <1>2. ASSUME NEW n \in EventId, NEW k \in Kind, Draw(n, k) PROVE PurgeIsLast'
    <2>1. /\ \A m \in EventId : event'[m] = IF m = n THEN "OPEN" ELSE event[m]
          /\ \A m \in EventId : kind'[m] = IF m = n THEN k ELSE kind[m]
          /\ event[n] = "NONE" /\ Admitted(k)
      BY <1>2 DEF Draw, TypeOK
    <2>2. CASE k = "OTHER"
      BY <2>1, <2>2 DEF PurgeIsLast
    <2>3. CASE k = "VERSION"
      <3>1. \A m \in EventId : kind[m] = "PURGE" => event[m] \notin {"OPEN", "COMMITTED"}
        BY <2>1, <2>3 DEF Admitted, Undecided, Known
      <3> QED
        BY <2>1, <2>3, <3>1 DEF PurgeIsLast
    <2>4. CASE k = "PURGE"
      <3>1. /\ \A m \in EventId : kind[m] = "PURGE" => event[m] \notin {"OPEN", "COMMITTED"}
            /\ \A m \in EventId : kind[m] = "VERSION" => event[m] # "OPEN"
        BY <2>1, <2>4 DEF Admitted, Undecided, Known
      <3>2. \A m \in EventId : event[m] = "COMMITTED" => m < n
        BY <2>1, EventNumbers DEF DrawnInOrder
      <3> QED
        BY <2>1, <2>4, <3>1, <3>2 DEF PurgeIsLast
    <2> QED
      BY <2>2, <2>3, <2>4 DEF Kind
  <1>3. ASSUME NEW n \in EventId, Commit(n) \/ Rollback(n) PROVE PurgeIsLast'
    <2>1. /\ event[n] = "OPEN" /\ kind' = kind
          /\ \A m \in EventId : m # n => event'[m] = event[m]
          /\ event'[n] \in {"COMMITTED", "ROLLED_BACK"}
      BY <1>3 DEF Commit, Rollback, TypeOK
    <2> QED
      BY <2>1 DEF PurgeIsLast
  <1> QED
    BY <1>1, <1>2, <1>3, EventsDecided

\* a version that is committed after the step was so before it, if a purge has a row
LEMMA VersionsBeforePurge ==
  ASSUME TypeInv, PurgeIsLast, [Next]_vars,
         NEW n \in Known("PURGE"), NEW m \in Known("VERSION")'
  PROVE  m \in Known("VERSION") /\ m < n
  <1>1. /\ n \in EventId /\ event[n] = "COMMITTED" /\ kind[n] = "PURGE"
        /\ m \in EventId /\ event'[m] = "COMMITTED" /\ kind'[m] = "VERSION"
    BY DEF Known
  <1>2. event[m] # "NONE"
    BY <1>1, EventsDecided DEF writeVars, Draw, Commit, Rollback, TypeInv, TypeOK
  <1>3. event[m] \in {"OPEN", "COMMITTED"} /\ kind[m] = "VERSION"
    BY <1>1, <1>2, CommittedStays DEF TypeInv
  <1> QED
    BY <1>1, <1>3 DEF PurgeIsLast, Known

\* only the purge of the lane delivers a purge event
LEMMA OnlyPurgeDelivers ==
  ASSUME TypeInv, [Next]_vars, NEW n \in Known("PURGE")',
         delivery'[n].state = "DELIVERED", delivery[n].state # "DELIVERED"
  PROVE  /\ n \in Known("PURGE")
         /\ \E w \in Worker : Purge(w, n)
  <1>1. n \in EventId /\ kind'[n] = "PURGE"
    BY DEF Known
  <1>2. /\ delivery[n].state = "PROCESSING"
        /\ kind[n] = "OTHER" \/ \E w \in Worker : Complete(w, n) \/ Purge(w, n)
    BY <1>1, RowMoves DEF RowMove, TypeInv
  <1>3. event[n] = "COMMITTED" /\ kind[n] = "PURGE"
    BY <1>1, <1>2, KindOfRow
  <1>4. ASSUME NEW w \in Worker, Complete(w, n) PROVE FALSE
    <2>1. kind[n] = "VERSION"
      BY <1>1, <1>4, NextIsUnique DEF Complete, TypeInv, AppliedIsVersion
    <2> QED
      BY <1>3, <2>1
  <1> QED
    BY <1>1, <1>2, <1>3, <1>4 DEF Known

LEMMA PurgeWaitsStep ==
  ASSUME TypeInv, PurgeIsLast, PurgeWaits, [Next]_vars, [PurgeInOrder]_vars
  PROVE  PurgeWaits'
  <1> SUFFICES ASSUME NEW n \in Known("PURGE")', delivery'[n].state = "DELIVERED",
                      NEW m \in Known("VERSION")'
               PROVE  delivery'[m].state = "DELIVERED"
    BY DEF PurgeWaits
  <1>1. n \in EventId /\ m \in EventId
    BY DEF Known
  <1>2. ~ Rebuild
    BY <1>1, NoRowType DEF Rebuild
  <1>3. n \in Known("PURGE")
    <2>1. CASE delivery[n].state = "DELIVERED"
      BY <1>1, <2>1, KindOfRow DEF Known
    <2> QED
      BY <2>1, OnlyPurgeDelivers
  <1>4. m \in Known("VERSION") /\ m < n
    BY <1>3, VersionsBeforePurge
  <1>5. delivery[m].state = "DELIVERED"
    <2>1. CASE delivery[n].state = "DELIVERED"
      BY <1>3, <1>4, <2>1 DEF PurgeWaits
    <2>2. CASE delivery[n].state # "DELIVERED"
      <3>1. PICK w \in Worker : Purge(w, n)
        BY <2>2, OnlyPurgeDelivers
      <3>2. PurgeInOrder
        BY <2>2 DEF vars
      <3> QED
        BY <1>1, <1>4, <3>1, <3>2 DEF PurgeInOrder
    <2> QED
      BY <2>1, <2>2
  <1> QED
    BY <1>1, <1>2, <1>5, DeliveredStays DEF TypeInv

LEMMA PurgedStaysPurgedStep ==
  ASSUME PurgeInv, [Next]_vars
  PROVE  PurgedStaysPurged'
  <1> USE DEF PurgeInv, TypeInv
  <1> SUFFICES ASSUME NEW n \in Known("PURGE")', delivery'[n].state = "DELIVERED"
               PROVE  document' = {}
    BY DEF PurgedStaysPurged
  <1>1. n \in EventId /\ kind'[n] = "PURGE"
    BY DEF Known
  <1>2. delivery[n].state \in {"PROCESSING", "DELIVERED"} \/ Rebuild
    BY <1>1, RowMoves DEF RowMove
  <1>3. CASE Rebuild
    BY <1>3 DEF Rebuild
  <1>4. CASE ~ Rebuild
    <2>1. n \in Known("PURGE") /\ kind[n] = "PURGE"
      BY <1>1, <1>2, <1>4, KindOfRow DEF Known
    <2>2. CASE delivery[n].state = "DELIVERED"
      <3>1. document = {}
        BY <2>1, <2>2 DEF PurgedStaysPurged
      <3>2. ASSUME NEW w \in Worker, NEW m \in EventId, Apply(w, m) PROVE FALSE
        <4>1. kind[m] = "VERSION" /\ delivery[m].state = "PROCESSING"
          BY <3>2 DEF Apply, Owns
        <4>2. m \in Known("VERSION")
          BY <4>1 DEF Known, RowsCommitted
        <4> QED
          BY <2>1, <2>2, <4>1, <4>2 DEF PurgeWaits
      <3> QED
        BY <1>4, <3>1, <3>2, DocumentMoves
    <2>3. CASE delivery[n].state # "DELIVERED"
      BY <2>3, OnlyPurgeDelivers DEF Purge
    <2> QED
      BY <2>2, <2>3
  <1> QED
    BY <1>3, <1>4

\* A delivered purge leaves no document behind and none comes back, after retries,
\* crashes, lapsed leases and rebuilds, for any number of workers and any size of a
\* batch, as long as the lane does not run the purge ahead of a version it has not
\* delivered: a retry of this version is the only way for a document to come back.
THEOREM PurgeIsFinal ==
  Spec /\ [][PurgeInOrder]_vars => []PurgedStaysPurged
  <1>1. Init => PurgeInv
    BY InitTypeInv, NoRowType
    DEF Init, PurgeInv, DrawnInOrder, PurgeIsLast, PurgeWaits, PurgedStaysPurged, Known
  <1>2. PurgeInv /\ [Next]_vars /\ [PurgeInOrder]_vars => PurgeInv'
    BY TypeInvStep, DrawnInOrderStep, PurgeIsLastStep, PurgeWaitsStep,
       PurgedStaysPurgedStep
    DEF PurgeInv, TypeInv
  <1>3. PurgeInv => PurgedStaysPurged
    BY DEF PurgeInv
  <1> QED
    BY <1>1, <1>2, <1>3, PTL DEF Spec

\* a purge is taken to work only when every version is delivered
PurgeHeldBack ==
    \A n \in Known("PURGE") : delivery[n].state \in {"PROCESSING", "DELIVERED"} =>
        \A m \in Known("VERSION") : delivery[m].state = "DELIVERED"

\* a batch of one is the first undelivered event of the lane
LEMMA LeaseIsFirst ==
  ASSUME TypeOK, BatchSize = 1, NEW w \in Worker, Worker = {w}, Lease(w),
         NEW n \in todo'[w], NEW m \in EventId, m < n
  PROVE  n \in EventId /\ Refreshed[m].state \in {"NONE", "DELIVERED"}
  <1> DEFINE undelivered == {x \in EventId : Refreshed[x].state \notin {"NONE", "DELIVERED"}}
             first == Min(undelivered)
             ready == Leasable(Refreshed)
  <1>1. n \in EventId
    BY LeaseRows
  <1>2. n \in FirstOf(ready)
    <2>1. Held(w, ready) = {{}}
      BY DEF Held
    <2>2. todo' = [todo EXCEPT ![w] = FirstOf(ready \ {})]
      BY <2>1 DEF Lease
    <2>3. todo'[w] = FirstOf(ready \ {}) /\ ready \ {} = ready
      BY <2>2 DEF TypeOK
    <2> QED
      BY <2>3
  <1>3. undelivered # {} /\ Refreshed[first].state = "PENDING" /\ ~ Refreshed[first].waiting
    BY <1>2 DEF FirstOf, Leasable
  <1>4. first \in undelivered /\ \A x \in undelivered : first <= x
    <2>1. undelivered \in SUBSET EventId
      OBVIOUS
    <2> HIDE DEF undelivered
    <2> QED
      BY <1>3, <2>1, EventsFinite, MinIsLeast
  <1>5. first \in EventId
    BY <1>4
  <1>6. ready = {x \in first .. MaxEvent :
                   /\ Refreshed[x].state = "PENDING"
                   /\ ~ Refreshed[x].waiting
                   /\ \A y \in first .. x - 1 : Refreshed[y].state \in {"NONE", "PENDING"}}
    BY <1>3 DEF Leasable
  <1>7. first \in ready
    <2> HIDE DEF undelivered, first, ready
    <2>1. first \in first .. MaxEvent /\ first .. first - 1 = {}
      BY <1>5, EventNumbers
    <2> QED
      BY <1>3, <1>6, <2>1
  <1>8. {x \in ready : x < n} = {}
    <2>1. ready \subseteq EventId
      <3> HIDE DEF undelivered, first, ready
      <3> QED
        BY <1>5, <1>6, BoundsAssumption DEF EventId
    <2>2. {x \in ready : x < n} \in SUBSET EventId
      BY <2>1
    <2>3. Cardinality({x \in ready : x < n}) < 1
      BY <1>2 DEF FirstOf
    <2> HIDE DEF ready
    <2> QED
      BY <2>2, <2>3, FewerThanOne
  <1>9. ~ first < n
    BY <1>7, <1>8
  <1> HIDE DEF first
  <1>10. m \notin undelivered
    BY <1>1, <1>4, <1>5, <1>9, EventNumbers
  <1> QED
    BY <1>1, <1>10

LEMMA PurgeHeldBackStep ==
  ASSUME BatchSize = 1, \E w \in Worker : Worker = {w},
         TypeInv, PurgeIsLast, PurgeHeldBack, [Next]_vars
  PROVE  PurgeHeldBack'
  <1> SUFFICES ASSUME NEW n \in Known("PURGE")',
                      delivery'[n].state \in {"PROCESSING", "DELIVERED"},
                      NEW m \in Known("VERSION")'
               PROVE  delivery'[m].state = "DELIVERED"
    BY DEF PurgeHeldBack
  <1> USE DEF TypeInv
  <1>1. n \in EventId /\ kind'[n] = "PURGE" /\ m \in EventId
    BY DEF Known
  <1>2. ~ Rebuild
    BY <1>1, NoRowType DEF Rebuild
  <1>3. ASSUME delivery[m].state = "DELIVERED" PROVE delivery'[m].state = "DELIVERED"
    BY <1>1, <1>2, <1>3, DeliveredStays
  <1>4. CASE delivery[n].state \in {"PROCESSING", "DELIVERED"}
    <2>1. n \in Known("PURGE")
      BY <1>1, <1>4, KindOfRow DEF Known
    <2>2. m \in Known("VERSION")
      BY <2>1, VersionsBeforePurge
    <2> QED
      BY <1>3, <1>4, <2>1, <2>2 DEF PurgeHeldBack
  <1>5. CASE delivery[n].state \notin {"PROCESSING", "DELIVERED"}
    <2>1. PICK w \in Worker : Lease(w) /\ n \in todo'[w]
      BY <1>1, <1>5, RowMoves DEF RowMove
    <2>2. Worker = {w}
      BY <2>1
    <2>3. delivery'[n].state # "NONE" /\ UNCHANGED writeVars
      BY <2>1 DEF Lease
    <2>4. n \in Known("PURGE") /\ m \in Known("VERSION")
      BY <1>1, <2>3 DEF Known, writeVars
    <2>5. m < n
      BY <2>4, VersionsBeforePurge
    <2>6. Refreshed[m].state \in {"NONE", "DELIVERED"}
      BY <1>1, <2>1, <2>2, <2>5, LeaseIsFirst
    <2>7. delivery[m].state = "DELIVERED"
      BY <1>1, <2>4, <2>6, RefreshedRows DEF Known
    <2> QED
      BY <1>3, <2>7
  <1> QED
    BY <1>4, <1>5

\* one worker and batches of one event are one way to have it
LEMMA BatchOfOneIsEnough ==
  ASSUME BatchSize = 1, \E w \in Worker : Worker = {w}
  PROVE  Spec => [][PurgeInOrder]_vars
  <1> DEFINE Inv == TypeInv /\ DrawnInOrder /\ PurgeIsLast /\ PurgeHeldBack
  <1>1. Init => Inv
    BY InitTypeInv DEF Init, DrawnInOrder, PurgeIsLast, PurgeHeldBack, Known
  <1>2. Inv /\ [Next]_vars => Inv'
    BY TypeInvStep, DrawnInOrderStep, PurgeIsLastStep, PurgeHeldBackStep DEF TypeInv
  <1>3. Inv => PurgeInOrder
    BY DEF TypeInv, RowsCommitted, PurgeHeldBack, PurgeInOrder, Purge, Owns, Known
  <1> QED
    BY <1>1, <1>2, <1>3, PTL DEF Spec

-----------------------------------------------------------------------------
(* What a reader sees of the lane, as long as no commit is overtaken.       *)

LEMMA InitLaneInv ==
  ASSUME Init
  PROVE  LaneInv
  <1>1. WatermarkInv
    BY InitWatermarkInv
  <1>2. \A n \in EventId : delivery[n].state = "NONE" /\ event[n] = "NONE"
    BY NoRowType DEF Init
  <1> QED
    BY <1>1, <1>2
    DEF LaneInv, CompletedIsIndexed, DrawnInOrder, PurgeIsLast, Init

LEMMA LaneInvStep ==
  ASSUME LaneInv, [Next]_vars, [NothingOvertaken]_vars
  PROVE  LaneInv'
  <1>1. TypeInv /\ TypeOK
    BY DEF LaneInv, WatermarkInv, TypeInv
  <1>2. WatermarkInv'
    BY WatermarkInvStep DEF LaneInv
  <1>3. CompletedIsIndexed' /\ DrawnInOrder' /\ PurgeIsLast'
    BY <1>1, CompletedIsIndexedStep, DrawnInOrderStep, PurgeIsLastStep DEF LaneInv
  <1> QED
    BY <1>2, <1>3 DEF LaneInv

\* only the purge of the lane purges it
LEMMA PurgedMoves ==
  ASSUME TypeInv, [Next]_vars, ~ Rebuild, \A w \in Worker, n \in EventId : ~ Purge(w, n)
  PROVE  Purged' = Purged
  <1>1. Purged => Purged'
    BY PurgeStaysDelivered DEF Purged
  <1>2. ASSUME Purged' PROVE Purged
    <2>1. PICK n \in Known("PURGE")' : delivery'[n].state = "DELIVERED"
      BY <1>2 DEF Purged
    <2>2. n \in EventId
      BY <2>1 DEF Known
    <2>3. delivery[n].state = "DELIVERED"
      BY <2>1, <2>2, OnlyPurgeDelivers
    <2> QED
      BY <2>1, <2>2, <2>3, KindOfRow DEF Purged, Known
  <1>3. Purged \in BOOLEAN /\ Purged' \in BOOLEAN
    BY DEF Purged
  <1> QED
    BY <1>1, <1>2, <1>3

\* only a commit announces anything
LEMMA AnnouncedMoves ==
  ASSUME TypeOK, [Next]_vars, \A n \in EventId : ~ Commit(n)
  PROVE  Announced' = Announced
  <1> SUFFICES ASSUME NEW n \in EventId
               PROVE  (IF event'[n] = "COMMITTED" THEN kind'[n] ELSE "NONE")
                        = (IF event[n] = "COMMITTED" THEN kind[n] ELSE "NONE")
    BY DEF Announced
  <1>1. CASE UNCHANGED writeVars
    BY <1>1 DEF writeVars
  <1>2. ASSUME NEW m \in EventId, NEW k \in Kind, Draw(m, k)
        PROVE  event'[n] = "COMMITTED" <=> event[n] = "COMMITTED" /\ n # m
    BY <1>2 DEF Draw, TypeOK
  <1>3. ASSUME NEW m \in EventId, NEW k \in Kind, Draw(m, k), n # m
        PROVE  kind'[n] = kind[n]
    BY <1>3 DEF Draw, TypeOK
  <1>4. ASSUME NEW m \in EventId, NEW k \in Kind, Draw(m, k) PROVE event[m] # "COMMITTED"
    BY <1>4 DEF Draw
  <1>5. ASSUME NEW m \in EventId, Rollback(m)
        PROVE  kind' = kind /\ (event'[n] = "COMMITTED" <=> event[n] = "COMMITTED")
    BY <1>5 DEF Rollback, TypeOK
  <1> QED
    BY <1>1, <1>2, <1>3, <1>4, <1>5, EventsDecided

\* a purge is announced as soon as it is committed
LEMMA PurgeIsAnnounced == Lane!PurgeAnnounced <=> Known("PURGE") # {}
  BY DEF Lane!PurgeAnnounced, Announced, Known

LEMMA CommitAnnounces ==
  ASSUME LaneInv, NEW n \in EventId, Commit(n), [Next]_vars, [NothingOvertaken]_vars
  PROVE  \E k \in {"VERSION", "PURGE", "OTHER"} : Lane!Announce(n, k)
  <1>1. TypeInv /\ TypeOK /\ PurgeIsLast /\ WatermarkDelivered
    BY DEF LaneInv, WatermarkInv, TypeInv
  <1>2. /\ event[n] = "OPEN" /\ event' = [event EXCEPT ![n] = "COMMITTED"]
        /\ event'[n] = "COMMITTED"
        /\ UNCHANGED <<kind, delivery, watermark, document>>
        /\ kind[n] \in {"VERSION", "PURGE", "OTHER"}
    BY <1>1 DEF Commit, TypeOK, Kind
  <1>3. Announced[n] = "NONE"
    BY <1>2 DEF Announced
  <1>4. n > watermark
    <2>1. \A m \in EventId : m > n => delivery[m].state = "NONE"
      BY <1>2 DEF NothingOvertaken, vars, writeVars
    <2>2. ASSUME watermark \in EventId PROVE n # watermark /\ ~ watermark > n
      <3>1. delivery[watermark].state = "DELIVERED" /\ event[watermark] = "COMMITTED"
        BY <1>1, <2>2 DEF WatermarkDelivered, TypeInv, RowsCommitted
      <3> QED
        BY <1>2, <2>1, <2>2, <3>1
    <2>3. watermark = 0 \/ watermark \in EventId
      BY <1>1, BoundsAssumption DEF TypeOK, EventId
    <2> QED
      BY <2>2, <2>3, EventNumbers
  <1>5. kind[n] = "VERSION" => ~ Lane!PurgeAnnounced
    BY <1>1, <1>2, PurgeIsAnnounced DEF PurgeIsLast, Known
  <1>6. Announced' = [Announced EXCEPT ![n] = kind[n]]
    BY <1>1, <1>2 DEF Announced, TypeOK
  <1>7. ~ Rebuild /\ \A w \in Worker, m \in EventId : ~ Purge(w, m)
    <2>1. event'[n] # event[n]
      BY <1>2
    <2> QED
      BY <2>1 DEF Rebuild, Purge, writeVars
  <1>8. Purged' = Purged
    BY <1>1, <1>7, PurgedMoves
  <1> QED
    BY <1>2, <1>3, <1>4, <1>5, <1>6, <1>8 DEF Lane!Announce

\* what holds below the watermark when it has moved
LEMMA WholeBelow ==
  ASSUME LaneInv
  PROVE  Lane!Whole(watermark) /\ Lane!Clean(watermark)
  <1>1. ASSUME NEW n \in EventId, n <= watermark, event[n] = "COMMITTED"
        PROVE  delivery[n].state = "DELIVERED"
    BY <1>1 DEF LaneInv, WatermarkInv, BelowIsDelivered
  <1>2. ASSUME ~ Lane!PurgeAnnounced,
               NEW n \in EventId, n <= watermark, Announced[n] = "VERSION"
        PROVE  n \in document
    <2>1. event[n] = "COMMITTED" /\ kind[n] = "VERSION"
      BY <1>2 DEF Announced
    <2>2. Known("PURGE") = {}
      BY <1>2, PurgeIsAnnounced
    <2> QED
      BY <1>1, <1>2, <2>1, <2>2 DEF LaneInv, CompletedIsIndexed
  <1>3. ASSUME NEW n \in EventId, n <= watermark, Announced[n] = "PURGE"
        PROVE  Purged
    <2>1. event[n] = "COMMITTED" /\ kind[n] = "PURGE"
      BY <1>3 DEF Announced
    <2> QED
      BY <1>1, <1>3, <2>1 DEF Purged, Known
  <1> QED
    BY <1>2, <1>3 DEF Lane!Whole, Lane!Clean

LEMMA WholeBelowNext == LaneInv' => Lane!Whole(watermark)' /\ Lane!Clean(watermark)'
  BY WholeBelow, PTL

LEMMA ShowsAnnounced ==
  ASSUME LaneInv
  PROVE  Lane!Shows(watermark) /\ watermark \in EventId \cup {0}
  <1>1. watermark \in EventId \cup {0}
    BY BoundsAssumption DEF LaneInv, WatermarkInv, TypeInv, TypeOK, EventId
  <1>2. CASE watermark \in EventId
    <2>1. event[watermark] = "COMMITTED"
      BY <1>2 DEF LaneInv, WatermarkInv, TypeInv, RowsCommitted, WatermarkDelivered
    <2>2. kind[watermark] \in {"VERSION", "PURGE", "OTHER"}
      BY <1>2 DEF LaneInv, WatermarkInv, TypeInv, TypeOK, Kind
    <2> QED
      BY <1>1, <1>2, <2>1, <2>2 DEF Announced, Lane!Shows
  <1> QED
    BY <1>1, <1>2 DEF Lane!Shows

LEMMA ShowsAnnouncedNext ==
  LaneInv' => Lane!Shows(watermark)' /\ (watermark \in EventId \cup {0})'
  BY ShowsAnnounced, PTL

\* a step that moves neither documents nor purges lets the watermark follow the rows
LEMMA LaneMoves ==
  ASSUME LaneInv, LaneInv', Announced' = Announced, Purged' = Purged, document' = document
  PROVE  Lane!Move(watermark') /\ watermark' \in EventId \cup {0}
  <1>1. Lane!Whole(watermark)' /\ Lane!Clean(watermark)'
    BY WholeBelowNext
  <1>2. Lane!Whole(watermark') /\ Lane!Clean(watermark')
    BY <1>1 DEF Lane!Whole, Lane!Clean, Lane!PurgeAnnounced
  <1>3. Lane!Shows(watermark)' /\ (watermark \in EventId \cup {0})'
    BY ShowsAnnouncedNext
  <1>4. Lane!Shows(watermark')
    BY <1>3 DEF Lane!Shows
  <1> QED
    BY <1>2, <1>3, <1>4 DEF Lane!Move

LEMMA LaneApplies ==
  ASSUME LaneInv, [Next]_vars, NEW w \in Worker, NEW n \in EventId, Apply(w, n)
  PROVE  Lane!Index(n)
  <1>1. /\ delivery[n].state = "PROCESSING" /\ kind[n] = "VERSION"
        /\ document' = document \cup {n}
        /\ UNCHANGED <<event, kind, delivery, watermark>>
    BY DEF Apply, Owns, writeVars
  <1>2. Announced[n] = "VERSION"
    BY <1>1 DEF Announced, LaneInv, WatermarkInv, TypeInv, RowsCommitted
  <1>3. Announced' = Announced /\ Purged' = Purged
    BY <1>1 DEF Announced, Purged, Known
  <1> QED
    BY <1>1, <1>2, <1>3 DEF Lane!Index

LEMMA LanePurges ==
  ASSUME LaneInv, LaneInv', [Next]_vars, NEW w \in Worker, NEW n \in EventId, Purge(w, n)
  PROVE  Lane!Next
  <1>1. /\ delivery[n].state = "PROCESSING" /\ kind[n] = "PURGE" /\ document' = {}
        /\ UNCHANGED <<event, kind>> /\ rebuilds' = rebuilds
    BY DEF Purge, Owns, writeVars
  <1>2. TypeInv /\ TypeOK /\ TypeInv'
    BY DEF LaneInv, WatermarkInv, TypeInv
  <1>3. Announced[n] = "PURGE" /\ Announced' = Announced
    BY <1>1, <1>2 DEF Announced, TypeInv, RowsCommitted
  <1>4. Purged'
    BY <1>2, PurgeDelivers DEF Purged
  <1>5. Purged' = TRUE
    BY <1>4 DEF Purged
  <1>6. Lane!Shows(watermark)' /\ (watermark \in EventId \cup {0})'
    BY ShowsAnnouncedNext
  <1>7. Lane!Shows(watermark')
    BY <1>3, <1>6 DEF Lane!Shows
  <1>8. Lane!Purge(watermark')
    BY <1>1, <1>3, <1>5, <1>7 DEF Lane!Purge, Lane!PurgeAnnounced
  <1> QED
    BY <1>6, <1>8 DEF Lane!Next

LEMMA LaneWithdraws ==
  ASSUME OtherLanePurges
  PROVE  Lane!Withdraw
  <1>1. Known("PURGE") # {} /\ document' = {} /\ UNCHANGED <<event, kind, delivery, watermark>>
    BY DEF OtherLanePurges, writeVars
  <1>2. Announced' = Announced /\ Purged' = Purged
    BY <1>1 DEF Announced, Purged, Known
  <1> QED
    BY <1>1, <1>2, PurgeIsAnnounced DEF Lane!Withdraw

LEMMA LaneRebuilds ==
  ASSUME LaneInv, Rebuild, [Next]_vars
  PROVE  Lane!Rebuild
  <1>1. /\ \A n \in EventId : delivery'[n].state = "NONE"
        /\ watermark' = 0 /\ document' = {} /\ UNCHANGED <<event, kind>>
    BY NoRowType DEF Rebuild, writeVars
  <1>2. Announced' = Announced
    BY <1>1 DEF Announced
  <1>3. ~ Purged'
    BY <1>1 DEF Purged, Known
  <1>4. Purged' = FALSE
    BY <1>3 DEF Purged
  <1> QED
    BY <1>1, <1>2, <1>4 DEF Lane!Rebuild

LEMMA LaneStep ==
  ASSUME LaneInv, LaneInv', [Next]_vars, [NothingOvertaken]_vars
  PROVE  [Lane!Next]_(Lane!lane)
  <1>1. TypeInv /\ TypeOK
    BY DEF LaneInv, WatermarkInv, TypeInv
  <1>2. CASE Rebuild
    BY <1>2, LaneRebuilds DEF Lane!Next
  <1>3. CASE \E w \in Worker, n \in EventId : Purge(w, n)
    BY <1>3, LanePurges
  <1>4. CASE \E w \in Worker, n \in EventId : Apply(w, n)
    BY <1>4, LaneApplies DEF Lane!Next
  <1>5. CASE \E n \in EventId : Commit(n)
    BY <1>5, CommitAnnounces DEF Lane!Next
  <1>6. CASE /\ ~ Rebuild /\ ~ OtherLanePurges
             /\ \A w \in Worker, n \in EventId : ~ Purge(w, n) /\ ~ Apply(w, n)
             /\ \A n \in EventId : ~ Commit(n)
    <2>1. Announced' = Announced
      BY <1>1, <1>6, AnnouncedMoves
    <2>2. Purged' = Purged
      BY <1>1, <1>6, PurgedMoves
    <2>3. document' = document
      BY <1>6, DocumentMoves
    <2> QED
      BY <2>1, <2>2, <2>3, LaneMoves DEF Lane!Next
  <1>7. CASE OtherLanePurges
    BY <1>7, LaneWithdraws DEF Lane!Next
  <1> QED
    BY <1>2, <1>3, <1>4, <1>5, <1>6, <1>7

LEMMA LaneInitial == Init => Lane!Init
  <1> SUFFICES ASSUME Init PROVE Lane!Init
    OBVIOUS
  <1>1. Announced = [n \in EventId |-> "NONE"]
    BY DEF Init, Announced
  <1>2. ~ Purged
    BY DEF Init, Purged, Known
  <1>3. Purged = FALSE
    BY <1>2 DEF Purged
  <1> QED
    BY <1>1, <1>3 DEF Init, Lane!Init

\* The lane gives its readers what they are promised, for every number of workers, open
\* transactions, events, batches, attempts and rebuilds, as long as no commit is
\* overtaken by the lane: each of its steps is one of the abstract specification or
\* shows to no reader.
THEOREM LaneImplementsReadYourWrites ==
  Spec /\ [][NothingOvertaken]_vars => ImplementsReadYourWrites
  <1>1. LaneInv /\ [Next]_vars /\ [NothingOvertaken]_vars => LaneInv'
    BY LaneInvStep
  <1>2. LaneInv /\ LaneInv' /\ [Next]_vars /\ [NothingOvertaken]_vars
           => [Lane!Next]_(Lane!lane)
    BY LaneStep
  <1> QED
    BY <1>1, <1>2, InitLaneInv, LaneInitial, PTL
    DEF Spec, ImplementsReadYourWrites, Lane!Spec
=============================================================================
