----------------------- MODULE EvidenceDeletionProofs -----------------------
(* Theorems about EvidenceDeletion for every set of captures, every choice  *)
(* of holds, every number of workers and every limit on attempts.           *)
EXTENDS EvidenceDeletion, TLAPS

-----------------------------------------------------------------------------
(* Type correctness.                                                        *)

LEMMA TypeInit == Init => TypeOK
  <1> SUFFICES ASSUME Init PROVE TypeOK
    OBVIOUS
  <1>1. NoRow \in Row /\ NoRequest \in Request
    BY AttemptsAssumption DEF Request, NoRequest, Primary, Row, NoRow
  <1> QED
    BY <1>1 DEF Init, TypeOK, Idle

\* what the updates that are made at the event in hand leave typed
LEMMA ReturnedType ==
  ASSUME NEW row \in Row
  PROVE  Returned(row) \in Row
  BY DEF Returned, Row

LEMMA DeliveredType ==
  ASSUME NEW d \in [Evidence -> Row], NEW e
  PROVE  [d EXCEPT ![e].state = "DELIVERED", ![e].owner = None] \in [Evidence -> Row]
  BY DEF Row

LEMMA ErrorType ==
  ASSUME NEW q \in [Evidence -> Request], NEW e
  PROVE  [q EXCEPT ![e].primary = IF @ = "PENDING" THEN "ERROR" ELSE @]
            \in [Evidence -> Request]
  BY DEF Request, Primary

LEMMA RefreshedType ==
  ASSUME TypeOK
  PROVE  Refreshed \in [Evidence -> Row]
  BY DEF TypeOK, Refreshed, Returned, Row

LEMMA MoreType ==
  ASSUME NEW n \in 0 .. MaxAttempts
  PROVE  More(n) \in 0 .. MaxAttempts
  BY AttemptsAssumption DEF More

LEMMA LeaseType ==
  ASSUME TypeOK, NEW w \in Worker, Lease(w)
  PROVE  TypeOK'
  <1>1. Refreshed \in [Evidence -> Row]
    BY RefreshedType
  <1>2. CASE Available = {} /\ delivery' = Refreshed /\ UNCHANGED hand
    BY <1>1, <1>2 DEF Lease, TypeOK, captureVars, historyVars, rowVars
  <1>3. ASSUME NEW e \in Available,
               delivery' = [Refreshed EXCEPT ![e].state = "PROCESSING",
                                             ![e].attempts = More(@),
                                             ![e].owner = w],
               hand' = [hand EXCEPT ![w] = [event |-> e, stage |-> "leased"]]
        PROVE  TypeOK'
    <2>1. e \in Evidence /\ Refreshed[e] \in Row
      BY <1>1 DEF Available
    <2>2. More(Refreshed[e].attempts) \in 0 .. MaxAttempts
      BY <2>1, MoreType DEF Row
    <2>3. delivery' \in [Evidence -> Row]
      BY <1>1, <1>3, <2>1, <2>2 DEF Row
    <2> QED
      BY <1>3, <2>1, <2>3 DEF Lease, TypeOK, captureVars, historyVars, rowVars
  <1> QED
    BY <1>2, <1>3 DEF Lease

LEMMA ApplyPurgeType ==
  ASSUME TypeOK, NEW w \in Worker, ApplyPurge(w)
  PROVE  TypeOK'
  <1>1. request' \in [Evidence -> Request]
    BY DEF ApplyPurge, TypeOK, Request, Primary
  <1>2. blob' \in {"NONE", "PRESENT", "PURGE_PENDING", "ERASED"}
    BY DEF ApplyPurge, TypeOK
  <1>3. /\ hand' = [hand EXCEPT ![w].stage = "erase"]
           \/ hand' = [hand EXCEPT ![w].stage = "settle"]
        /\ UNCHANGED <<file, captureVars, revoking, delivery, survey>>
    BY DEF ApplyPurge, Go
  <1>4. hand' \in [Worker -> [event : Evidence \cup {None},
                              stage : {"idle", "leased", "clear", "shared", "erase",
                                       "prove", "record", "settle", "failing"}]]
    BY <1>3 DEF TypeOK
  <1> QED
    BY <1>1, <1>2, <1>3, <1>4 DEF TypeOK, captureVars, historyVars

LEMMA TypeStep == TypeOK /\ [Next]_vars => TypeOK'
  <1> SUFFICES ASSUME TypeOK, [Next]_vars PROVE TypeOK'
    OBVIOUS
  <1> USE DEF captureVars, historyVars, rowVars, laneVars
  <1>1. ASSUME NEW e \in Evidence,
               \/ Write(e) \/ OpenCapture(e) \/ CommitCapture(e) \/ AbortCapture(e)
        PROVE  TypeOK'
    BY <1>1 DEF Write, OpenCapture, CommitCapture, AbortCapture,
       LeavesFile, TypeOK
  <1>2. ASSUME NEW e \in Evidence, BeginRevoke(e) \/ AbortRevoke(e)
        PROVE  TypeOK'
    BY <1>2 DEF BeginRevoke, AbortRevoke, Decided, TypeOK
  <1>3. ASSUME NEW e \in Evidence, CommitRevoke(e)
        PROVE  TypeOK'
    <2>1. request' \in [Evidence -> Request]
      BY <1>3 DEF CommitRevoke, TypeOK, Request, Primary
    <2>2. delivery' \in [Evidence -> Row]
      BY <1>3 DEF CommitRevoke, TypeOK, Row
    <2>3. blob' \in {"NONE", "PRESENT", "PURGE_PENDING", "ERASED"}
      BY <1>3 DEF CommitRevoke, TypeOK
    <2> QED
      BY <1>3, <2>1, <2>2, <2>3 DEF CommitRevoke, TypeOK
  <1>4. ASSUME NEW e \in Evidence, Retry(e)
        PROVE  TypeOK'
    <2>1. request' \in [Evidence -> Request]
      BY <1>4 DEF Retry, TypeOK, Request
    <2>2. delivery' \in [Evidence -> Row]
      BY <1>4 DEF Retry, TypeOK, Row
    <2> QED
      BY <1>4, <2>1, <2>2 DEF Retry, TypeOK
  <1>5. ASSUME NEW e \in Evidence, Lapse(e)
        PROVE  TypeOK'
    <2>1. delivery' \in [Evidence -> Row]
      BY <1>5 DEF Lapse, TypeOK, Row
    <2> QED
      BY <1>5, <2>1 DEF Lapse, TypeOK
  <1>6. ASSUME NEW w \in Worker, CountReferences(w) \/ Erase(w)
        PROVE  TypeOK'
    <2>1. CASE CountReferences(w)
      <3>1. hand' = [hand EXCEPT ![w].stage = "clear"]
            \/ hand' = [hand EXCEPT ![w].stage = "shared"]
        BY <2>1 DEF CountReferences, Go
      <3> QED
        BY <2>1, <3>1 DEF CountReferences, TypeOK
    <2>2. CASE Erase(w)
      BY <2>2 DEF Erase, Unlink, Go, TypeOK
    <2> QED
      BY <1>6, <2>1, <2>2
  <1>7. ASSUME NEW w \in Worker, LetGo(w)
        PROVE  TypeOK'
    BY <1>7 DEF LetGo, Idle, TypeOK
  <1>8. ASSUME NEW w \in Worker, CompleteErasure(w)
        PROVE  TypeOK'
    <2>1. request' \in [Evidence -> Request]
      BY <1>8 DEF CompleteErasure, TypeOK, Request, Primary
    <2> QED
      BY <1>8, <2>1 DEF CompleteErasure, Go, TypeOK
  <1>9. ASSUME NEW w \in Worker, RecordError(w)
        PROVE  TypeOK'
    <2>1. request' \in [Evidence -> Request]
      BY <1>9, ErrorType DEF RecordError, TypeOK
    <2> QED
      BY <1>9, <2>1 DEF RecordError, Unlink, Go, TypeOK
  <1>10. ASSUME NEW w \in Worker, Complete(w)
         PROVE  TypeOK'
    <2>1. delivery' \in [Evidence -> Row]
      BY <1>10, DeliveredType DEF Complete, TypeOK
    <2> QED
      BY <1>10, <2>1 DEF Complete, Idle, TypeOK
  <1>11. ASSUME NEW w \in Worker, Fail(w)
         PROVE  TypeOK'
    <2>1. request' \in [Evidence -> Request]
      BY <1>11 DEF Fail, TypeOK, Request
    <2>2. delivery' \in [Evidence -> Row]
      BY <1>11, ReturnedType DEF Fail, TypeOK
    <2> QED
      BY <1>11, <2>1, <2>2 DEF Fail, Idle, TypeOK
  <1>12. ASSUME NEW w \in Worker, Crash(w)
         PROVE  TypeOK'
    <2>1. delivery' \in [Evidence -> Row]
      BY <1>12 DEF Crash, TypeOK, Row
    <2> QED
      BY <1>12, <2>1 DEF Crash, Idle, TypeOK
  <1>13. ASSUME Survey \/ Collect \/ FileAges
         PROVE  TypeOK'
    BY <1>13 DEF Survey, Collect, FileAges, Unlink, TypeOK
  <1>14. ASSUME UNCHANGED vars
         PROVE  TypeOK'
    BY <1>14 DEF vars, TypeOK
  <1>15. ASSUME NEW w \in Worker, ProveUnreferenced(w)
         PROVE  TypeOK'
    BY <1>15 DEF ProveUnreferenced, Go, TypeOK
  <1> QED
    BY <1>1, <1>2, <1>3, <1>4, <1>5, <1>6, <1>7, <1>8, <1>9, <1>10, <1>11, <1>12,
       <1>13, <1>14, <1>15, LeaseType, ApplyPurgeType
    DEF Next, Work

\* Every row keeps the shape of its schema (migrations 0003, 0006 and 0007).
THEOREM TypeCorrect == Spec => []TypeOK
  BY TypeInit, TypeStep, PTL DEF Spec

-----------------------------------------------------------------------------
(* What the rows say of each other.  A deletion request is never withdrawn   *)
(* and goes with a delivery row; only clear requests ask for an erasure.     *)

RowsInv ==
    /\ \A e \in Evidence : Revoked(e) <=> delivery[e].state # "NONE"
    /\ \A e \in Evidence : Revoked(e) => revoking[e] = "NONE"
    /\ \A e \in Evidence :
          Revoked(e) \/ revoking[e] # "NONE" \/ e \in early => capture[e] = "STORED"
    /\ \A e \in Evidence :
          IF e \in Held
          THEN /\ revoking[e] \in {"NONE", "RETENTION_BLOCKED"}
               /\ request[e].primary \in {"NONE", "RETENTION_BLOCKED"}
          ELSE /\ revoking[e] # "RETENTION_BLOCKED"
               /\ request[e].primary # "RETENTION_BLOCKED"

\* a worker that is at an event is at the purge of a revocation
HandInv == \A w \in Worker :
    hand[w].stage # "idle" => hand[w].event \in Evidence /\ Revoked(hand[w].event)

LEMMA RowsInit == Init => RowsInv /\ HandInv
  BY DEF Init, RowsInv, HandInv, Revoked, NoRequest, NoRow, Idle

\* a lease takes an event that has a row, and leaves no row without one
SameStanding(before, after) ==
    /\ before = "NONE" <=> after = "NONE"
    /\ before = "DELIVERED" <=> after = "DELIVERED"

LEMMA LeaseRows ==
  ASSUME TypeOK, NEW w \in Worker, Lease(w)
  PROVE  /\ \A e \in Evidence : SameStanding(delivery[e].state, delivery'[e].state)
         /\ \/ UNCHANGED hand
            \/ \E e \in Evidence :
                  /\ delivery[e].state # "NONE"
                  /\ hand' = [hand EXCEPT ![w] = [event |-> e, stage |-> "leased"]]
  <1>1. Refreshed \in [Evidence -> Row]
    BY RefreshedType
  <1>2. \A e \in Evidence : SameStanding(delivery[e].state, Refreshed[e].state)
    BY DEF TypeOK, Row, Refreshed, Returned, SameStanding
  <1>3. CASE delivery' = Refreshed /\ UNCHANGED hand
    BY <1>2, <1>3
  <1>4. ASSUME NEW e \in Available,
               delivery' = [Refreshed EXCEPT ![e].state = "PROCESSING",
                                             ![e].attempts = More(@),
                                             ![e].owner = w],
               hand' = [hand EXCEPT ![w] = [event |-> e, stage |-> "leased"]]
        PROVE  /\ \A d \in Evidence : SameStanding(delivery[d].state, delivery'[d].state)
               /\ delivery[e].state # "NONE"
    <2>1. e \in Evidence /\ Refreshed[e].state = "PENDING"
      BY DEF Available
    <2>2. \A d \in Evidence : delivery'[d].state = IF d = e THEN "PROCESSING"
                                                  ELSE Refreshed[d].state
      BY <1>1, <1>4, <2>1 DEF Row
    <2> QED
      BY <1>2, <2>1, <2>2 DEF SameStanding
  <1>5. Available \subseteq Evidence
    BY DEF Available
  <1> QED
    BY <1>3, <1>4, <1>5 DEF Lease

LEMMA RowsStep ==
  ASSUME TypeOK, RowsInv, HandInv, [Next]_vars
  PROVE  RowsInv'
  <1> USE DEF captureVars, historyVars, rowVars, laneVars
  <1>1. ASSUME NEW e \in Evidence, Write(e) PROVE RowsInv'
    BY <1>1 DEF Write, TypeOK, RowsInv, Revoked
  <1>2. ASSUME NEW e \in Evidence, OpenCapture(e) PROVE RowsInv'
    BY <1>2 DEF OpenCapture, TypeOK, RowsInv, Revoked
  <1>3. ASSUME NEW e \in Evidence, CommitCapture(e) PROVE RowsInv'
    BY <1>3 DEF CommitCapture, InFlight, RevocationBegun, TypeOK, RowsInv, Revoked
  <1>4. ASSUME NEW e \in Evidence, AbortCapture(e) PROVE RowsInv'
    BY <1>4 DEF AbortCapture, InFlight, TypeOK, RowsInv, Revoked
  <1>5. ASSUME NEW e \in Evidence, BeginRevoke(e) PROVE RowsInv'
    BY <1>5 DEF BeginRevoke, Decided, TypeOK, RowsInv, Revoked
  <1>6. ASSUME NEW e \in Evidence, CommitRevoke(e) PROVE RowsInv'
    BY <1>6 DEF CommitRevoke, TypeOK, RowsInv, Revoked
  <1>7. ASSUME NEW e \in Evidence, AbortRevoke(e) PROVE RowsInv'
    BY <1>7 DEF AbortRevoke, TypeOK, RowsInv, Revoked
  <1>8. ASSUME NEW e \in Evidence, Retry(e) PROVE RowsInv'
    BY <1>8 DEF Retry, TypeOK, RowsInv, Revoked
  <1>9. ASSUME NEW e \in Evidence, Lapse(e) PROVE RowsInv'
    BY <1>9 DEF Lapse, TypeOK, RowsInv, Revoked
  <1>10. ASSUME NEW w \in Worker, Lease(w) PROVE RowsInv'
    BY <1>10, LeaseRows DEF Lease, SameStanding, TypeOK, RowsInv, Revoked
  <1>11. ASSUME NEW w \in Worker, CountReferences(w) PROVE RowsInv'
    BY <1>11 DEF CountReferences, TypeOK, RowsInv, Revoked
  <1>12. ASSUME NEW w \in Worker, ApplyPurge(w) PROVE RowsInv'
    BY <1>12 DEF ApplyPurge, Released, Request, Primary, TypeOK, RowsInv, Revoked
  <1>13. ASSUME NEW w \in Worker, Erase(w) PROVE RowsInv'
    BY <1>13 DEF Erase, TypeOK, RowsInv, Revoked
  <1>14. ASSUME NEW w \in Worker, CompleteErasure(w) PROVE RowsInv'
    BY <1>14 DEF CompleteErasure, Proved, Request, TypeOK, RowsInv, Revoked
  <1>15. ASSUME NEW w \in Worker, Complete(w) PROVE RowsInv'
    BY <1>15 DEF Complete, Owns, Mine, TypeOK, RowsInv, Revoked
  <1>16. ASSUME NEW w \in Worker, RecordError(w) PROVE RowsInv'
    BY <1>16 DEF RecordError, Request, TypeOK, RowsInv, Revoked
  <1>17. ASSUME NEW w \in Worker, Fail(w) PROVE RowsInv'
    BY <1>17 DEF Fail, Mine, Returned, TypeOK, RowsInv, Revoked
  <1>18. ASSUME NEW w \in Worker, LetGo(w) PROVE RowsInv'
    BY <1>18 DEF LetGo, TypeOK, RowsInv, Revoked
  <1>19. ASSUME NEW w \in Worker, Crash(w) PROVE RowsInv'
    BY <1>19 DEF Crash, TypeOK, RowsInv, Revoked
  <1>20. ASSUME Survey PROVE RowsInv'
    BY <1>20 DEF Survey, TypeOK, RowsInv, Revoked
  <1>21. ASSUME Collect PROVE RowsInv'
    BY <1>21 DEF Collect, TypeOK, RowsInv, Revoked
  <1>22. ASSUME FileAges PROVE RowsInv'
    BY <1>22 DEF FileAges, TypeOK, RowsInv, Revoked
  <1>23. ASSUME UNCHANGED vars PROVE RowsInv'
    BY <1>23 DEF vars, TypeOK, RowsInv, Revoked
  <1>24. ASSUME NEW w \in Worker, ProveUnreferenced(w) PROVE RowsInv'
    BY <1>24 DEF ProveUnreferenced, At, Go, TypeOK, RowsInv, Revoked
  <1> QED
    BY <1>1, <1>2, <1>3, <1>4, <1>5, <1>6, <1>7, <1>8, <1>9, <1>10, <1>11, <1>12,
       <1>13, <1>14, <1>15, <1>16, <1>17, <1>18, <1>19, <1>20, <1>21, <1>22, <1>23, <1>24
    DEF Next, Work

LEMMA HandStep ==
  ASSUME TypeOK, RowsInv, HandInv, [Next]_vars
  PROVE  HandInv'
  <1> USE DEF captureVars, historyVars, rowVars, laneVars
  <1>1. ASSUME NEW e \in Evidence, Write(e) PROVE HandInv'
    BY <1>1 DEF Write, TypeOK, RowsInv, HandInv, Revoked
  <1>2. ASSUME NEW e \in Evidence, OpenCapture(e) PROVE HandInv'
    BY <1>2 DEF OpenCapture, TypeOK, RowsInv, HandInv, Revoked
  <1>3. ASSUME NEW e \in Evidence, CommitCapture(e) PROVE HandInv'
    BY <1>3 DEF CommitCapture, TypeOK, RowsInv, HandInv, Revoked
  <1>4. ASSUME NEW e \in Evidence, AbortCapture(e) PROVE HandInv'
    BY <1>4 DEF AbortCapture, TypeOK, RowsInv, HandInv, Revoked
  <1>5. ASSUME NEW e \in Evidence, BeginRevoke(e) PROVE HandInv'
    BY <1>5 DEF BeginRevoke, TypeOK, RowsInv, HandInv, Revoked
  <1>6. ASSUME NEW e \in Evidence, CommitRevoke(e) PROVE HandInv'
    BY <1>6 DEF CommitRevoke, TypeOK, RowsInv, HandInv, Revoked
  <1>7. ASSUME NEW e \in Evidence, AbortRevoke(e) PROVE HandInv'
    BY <1>7 DEF AbortRevoke, TypeOK, RowsInv, HandInv, Revoked
  <1>8. ASSUME NEW e \in Evidence, Retry(e) PROVE HandInv'
    BY <1>8 DEF Retry, TypeOK, RowsInv, HandInv, Revoked
  <1>9. ASSUME NEW e \in Evidence, Lapse(e) PROVE HandInv'
    BY <1>9 DEF Lapse, TypeOK, RowsInv, HandInv, Revoked
  <1>10. ASSUME NEW w \in Worker, Lease(w) PROVE HandInv'
    <2>1. UNCHANGED request
      BY <1>10 DEF Lease
    <2>2. CASE UNCHANGED hand
      BY <2>1, <2>2 DEF HandInv, Revoked
    <2>3. ASSUME NEW e \in Evidence, delivery[e].state # "NONE",
                 hand' = [hand EXCEPT ![w] = [event |-> e, stage |-> "leased"]]
          PROVE  HandInv'
      BY <2>1, <2>3 DEF TypeOK, RowsInv, HandInv, Revoked
    <2> QED
      BY <1>10, <2>2, <2>3, LeaseRows
  <1>11. ASSUME NEW w \in Worker, CountReferences(w) PROVE HandInv'
    BY <1>11 DEF CountReferences, At, Go, TypeOK, RowsInv, HandInv, Revoked
  <1>12. ASSUME NEW w \in Worker, ApplyPurge(w) PROVE HandInv'
    BY <1>12 DEF ApplyPurge, At, Go, Request, TypeOK, RowsInv, HandInv, Revoked
  <1>13. ASSUME NEW w \in Worker, Erase(w) PROVE HandInv'
    BY <1>13 DEF Erase, At, Go, TypeOK, RowsInv, HandInv, Revoked
  <1>14. ASSUME NEW w \in Worker, CompleteErasure(w) PROVE HandInv'
    BY <1>14 DEF CompleteErasure, At, Go, Request, TypeOK, RowsInv, HandInv, Revoked
  <1>15. ASSUME NEW w \in Worker, Complete(w) PROVE HandInv'
    BY <1>15 DEF Complete, Idle, TypeOK, RowsInv, HandInv, Revoked
  <1>16. ASSUME NEW w \in Worker, RecordError(w) PROVE HandInv'
    BY <1>16 DEF RecordError, At, Go, Request, TypeOK, RowsInv, HandInv, Revoked
  <1>17. ASSUME NEW w \in Worker, Fail(w) PROVE HandInv'
    BY <1>17 DEF Fail, Idle, TypeOK, RowsInv, HandInv, Revoked
  <1>18. ASSUME NEW w \in Worker, LetGo(w) PROVE HandInv'
    BY <1>18 DEF LetGo, Idle, TypeOK, RowsInv, HandInv, Revoked
  <1>19. ASSUME NEW w \in Worker, Crash(w) PROVE HandInv'
    BY <1>19 DEF Crash, Idle, TypeOK, RowsInv, HandInv, Revoked
  <1>20. ASSUME Survey PROVE HandInv'
    BY <1>20 DEF Survey, TypeOK, RowsInv, HandInv, Revoked
  <1>21. ASSUME Collect PROVE HandInv'
    BY <1>21 DEF Collect, TypeOK, RowsInv, HandInv, Revoked
  <1>22. ASSUME FileAges PROVE HandInv'
    BY <1>22 DEF FileAges, TypeOK, RowsInv, HandInv, Revoked
  <1>23. ASSUME UNCHANGED vars PROVE HandInv'
    BY <1>23 DEF vars, TypeOK, RowsInv, HandInv, Revoked
  <1>24. ASSUME NEW w \in Worker, ProveUnreferenced(w) PROVE HandInv'
    BY <1>24 DEF ProveUnreferenced, At, Go, TypeOK, RowsInv, HandInv, Revoked
  <1> QED
    BY <1>1, <1>2, <1>3, <1>4, <1>5, <1>6, <1>7, <1>8, <1>9, <1>10, <1>11, <1>12,
       <1>13, <1>14, <1>15, <1>16, <1>17, <1>18, <1>19, <1>20, <1>21, <1>22, <1>23, <1>24
    DEF Next, Work
-----------------------------------------------------------------------------
(* Why a record that was committed before the first revocation keeps its     *)
(* bytes: as long as it counts as a reference, no request for an erasure is  *)
(* pending or has ever been, no transaction is about to make one except its  *)
(* own, and no worker is past the count on the way to the file.              *)

Kept(x) ==
    /\ blob = "PRESENT"
    /\ \A r \in Evidence : request[r].primary \notin {"PENDING", "ERASED", "ERROR"}
    /\ \A r \in Evidence : revoking[r] = "PENDING" => r = x
    /\ \A w \in Worker : hand[w].stage \notin {"clear", "erase", "prove", "record"}

KeepInv == \A x \in early \cap References : Kept(x)

KeepPremise == TypeOK /\ RowsInv /\ HandInv /\ KeepInv

LEMMA KeepInit == Init => KeepInv
  BY DEF Init, KeepInv

\* a capture adds a reference, the revocation of a record without hold removes it
AddsReference(e) == CommitCapture(e) /\ References' = References \cup {e}

DropsReference(e) ==
    CommitRevoke(e) /\ References' = IF e \in Held THEN References ELSE References \ {e}

LEMMA ReferencesStep ==
  ASSUME TypeOK, RowsInv, HandInv, [Next]_vars
  PROVE  \/ References' = References
         \/ \E e \in Evidence : AddsReference(e) \/ DropsReference(e)
  <1> USE DEF captureVars, historyVars, rowVars, laneVars
  <1>1. ASSUME NEW e \in Evidence, Write(e) PROVE References' = References
    BY <1>1 DEF Write, TypeOK, References, Revoked
  <1>2. ASSUME NEW e \in Evidence, OpenCapture(e) PROVE References' = References
    BY <1>2 DEF OpenCapture, TypeOK, References, Revoked
  <1>3. ASSUME NEW e \in Evidence, CommitCapture(e) PROVE AddsReference(e)
    BY <1>3 DEF CommitCapture, AddsReference, TypeOK, RowsInv, References, Revoked
  <1>4. ASSUME NEW e \in Evidence, AbortCapture(e) PROVE References' = References
    BY <1>4 DEF AbortCapture, InFlight, TypeOK, References, Revoked
  <1>5. ASSUME NEW e \in Evidence, BeginRevoke(e) PROVE References' = References
    BY <1>5 DEF BeginRevoke, TypeOK, References, Revoked
  <1>6. ASSUME NEW e \in Evidence, CommitRevoke(e) PROVE DropsReference(e)
    BY <1>6 DEF CommitRevoke, DropsReference, RowsInv, TypeOK, References, Revoked
  <1>7. ASSUME NEW e \in Evidence, AbortRevoke(e) PROVE References' = References
    BY <1>7 DEF AbortRevoke, TypeOK, References, Revoked
  <1>8. ASSUME NEW e \in Evidence, Retry(e) PROVE References' = References
    BY <1>8 DEF Retry, Request, TypeOK, References, Revoked
  <1>9. ASSUME NEW e \in Evidence, Lapse(e) PROVE References' = References
    BY <1>9 DEF Lapse, TypeOK, References, Revoked
  <1>10. ASSUME NEW w \in Worker, Lease(w) PROVE References' = References
    BY <1>10 DEF Lease, TypeOK, References, Revoked
  <1>11. ASSUME NEW w \in Worker, CountReferences(w) PROVE References' = References
    BY <1>11 DEF CountReferences, TypeOK, References, Revoked
  <1>12. ASSUME NEW w \in Worker, ApplyPurge(w) PROVE References' = References
    <2>1. \A r \in Evidence : request'[r].primary = "NONE" <=> request[r].primary = "NONE"
      BY <1>12 DEF ApplyPurge, Released, TypeOK, Request
    <2> QED
      BY <1>12, <2>1 DEF ApplyPurge, References, Revoked
  <1>13. ASSUME NEW w \in Worker, Erase(w) PROVE References' = References
    BY <1>13 DEF Erase, TypeOK, References, Revoked
  <1>14. ASSUME NEW w \in Worker, CompleteErasure(w) PROVE References' = References
    BY <1>14 DEF CompleteErasure, Proved, Request, TypeOK, References, Revoked
  <1>15. ASSUME NEW w \in Worker, Complete(w) PROVE References' = References
    BY <1>15 DEF Complete, TypeOK, References, Revoked
  <1>16. ASSUME NEW w \in Worker, RecordError(w) PROVE References' = References
    BY <1>16 DEF RecordError, HandInv, Request, TypeOK, References, Revoked
  <1>17. ASSUME NEW w \in Worker, Fail(w) PROVE References' = References
    BY <1>17 DEF Fail, Request, TypeOK, References, Revoked
  <1>18. ASSUME NEW w \in Worker, LetGo(w) PROVE References' = References
    BY <1>18 DEF LetGo, TypeOK, References, Revoked
  <1>19. ASSUME NEW w \in Worker, Crash(w) PROVE References' = References
    BY <1>19 DEF Crash, TypeOK, References, Revoked
  <1>20. ASSUME Survey PROVE References' = References
    BY <1>20 DEF Survey, TypeOK, References, Revoked
  <1>21. ASSUME Collect PROVE References' = References
    BY <1>21 DEF Collect, TypeOK, References, Revoked
  <1>22. ASSUME FileAges PROVE References' = References
    BY <1>22 DEF FileAges, TypeOK, References, Revoked
  <1>23. ASSUME UNCHANGED vars PROVE References' = References
    BY <1>23 DEF vars, TypeOK, References, Revoked
  <1>24. ASSUME NEW w \in Worker, ProveUnreferenced(w) PROVE References' = References
    BY <1>24 DEF ProveUnreferenced, At, Go, TypeOK, References, Revoked
  <1> QED
    BY <1>1, <1>2, <1>3, <1>4, <1>5, <1>6, <1>7, <1>8, <1>9, <1>10, <1>11, <1>12,
       <1>13, <1>14, <1>15, <1>16, <1>17, <1>18, <1>19, <1>20, <1>21, <1>22, <1>23, <1>24
    DEF Next, Work

LEMMA KeptBefore ==
  ASSUME TypeOK, RowsInv, HandInv, [Next]_vars, NEW x \in early, x \in References'
  PROVE  x \in References
  BY ReferencesStep
  DEF AddsReference, DropsReference, CommitCapture, RowsInv

LEMMA KeepStep ==
  ASSUME KeepPremise, [Next]_vars
  PROVE  KeepInv'
  <1> SUFFICES ASSUME NEW x, x \in early', x \in References'
               PROVE  Kept(x)'
    BY DEF KeepInv
  <1> USE DEF captureVars, historyVars, rowVars, laneVars, KeepPremise
  <1>x. x \in early => Kept(x)
    BY KeptBefore DEF KeepInv
  <1>1. ASSUME NEW e \in Evidence, Write(e) PROVE Kept(x)'
    BY <1>1, <1>x DEF Write, Kept, TypeOK
  <1>2. ASSUME NEW e \in Evidence, OpenCapture(e) PROVE Kept(x)'
    BY <1>2, <1>x DEF OpenCapture, Kept, TypeOK
  <1>3. ASSUME NEW e \in Evidence, CommitCapture(e) PROVE Kept(x)'
    <2>1. CASE x \in early
      BY <1>x, <1>3, <2>1 DEF CommitCapture, Kept, TypeOK
    <2>2. CASE x \notin early
      <3>1. x = e /\ ~ RevocationBegun
        BY <1>3, <2>2 DEF CommitCapture
      <3>2. \A r \in Evidence : ~ Revoked(r) /\ revoking[r] = "NONE"
        BY <3>1 DEF RevocationBegun
      <3>3. \A w \in Worker : hand[w].stage = "idle"
        BY <3>2 DEF HandInv
      <3> QED
        BY <1>3, <3>1, <3>2, <3>3 DEF CommitCapture, Kept, Revoked, TypeOK
    <2> QED
      BY <2>1, <2>2
  <1>4. ASSUME NEW e \in Evidence, AbortCapture(e) PROVE Kept(x)'
    BY <1>4, <1>x DEF AbortCapture, Kept, TypeOK
  <1>5. ASSUME NEW e \in Evidence, BeginRevoke(e) PROVE Kept(x)'
    <2>1. x \in early /\ x \in References
      BY <1>5, KeptBefore DEF BeginRevoke
    <2> QED
      BY <1>x, <1>5, <2>1 DEF BeginRevoke, Decided, Kept, TypeOK
  <1>6. ASSUME NEW e \in Evidence, CommitRevoke(e) PROVE Kept(x)'
    <2>1. x \in early /\ x \in References
      BY <1>6, KeptBefore DEF CommitRevoke
    <2>2. revoking[e] # "PENDING"
      BY <1>x, <1>6, <2>1 DEF CommitRevoke, Kept, RowsInv, References, Revoked, TypeOK,
         Request, Primary
    <2> QED
      BY <1>x, <1>6, <2>1, <2>2 DEF CommitRevoke, Kept, TypeOK, Request
  <1>7. ASSUME NEW e \in Evidence, AbortRevoke(e) PROVE Kept(x)'
    BY <1>7, <1>x DEF AbortRevoke, Kept, TypeOK
  <1>8. ASSUME NEW e \in Evidence, Retry(e) PROVE Kept(x)'
    BY <1>8, <1>x DEF Retry, Request, Kept, TypeOK
  <1>9. ASSUME NEW e \in Evidence, Lapse(e) PROVE Kept(x)'
    BY <1>9, <1>x DEF Lapse, Kept, TypeOK
  <1>10. ASSUME NEW w \in Worker, Lease(w) PROVE Kept(x)'
    <2>1. \A v \in Worker : hand'[v].stage = hand[v].stage \/ hand'[v].stage = "leased"
      BY <1>10, LeaseRows DEF TypeOK
    <2> QED
      BY <1>x, <1>10, <2>1 DEF Lease, Kept
  <1>11. ASSUME NEW w \in Worker, CountReferences(w) PROVE Kept(x)'
    <2>1. x \in early /\ x \in References
      BY <1>11, KeptBefore DEF CountReferences
    <2>2. hand' = [hand EXCEPT ![w].stage = "shared"]
      BY <1>11, <2>1 DEF CountReferences, Go
    <2> QED
      BY <1>x, <1>11, <2>1, <2>2 DEF CountReferences, Kept, TypeOK
  <1>12. ASSUME NEW w \in Worker, ApplyPurge(w) PROVE Kept(x)'
    <2>1. x \in early
      BY <1>12 DEF ApplyPurge
    <2>2. At(w, "shared") /\ ~ At(w, "clear")
      BY <1>x, <1>12, <2>1 DEF ApplyPurge, At, Kept
    <2>3. blob' = blob /\ \A r \in Evidence : request'[r].primary = request[r].primary
      BY <1>12, <2>2 DEF ApplyPurge, TypeOK, Request
    <2>4. hand[w].event \in Evidence
      BY <2>2 DEF At, HandInv
    <2>5. hand' = [hand EXCEPT ![w].stage = "settle"]
      BY <1>x, <1>12, <2>1, <2>3, <2>4 DEF ApplyPurge, Go, Kept
    <2> QED
      BY <1>x, <1>12, <2>1, <2>3, <2>5 DEF ApplyPurge, Kept, TypeOK
  <1>13. ASSUME NEW w \in Worker, Erase(w) PROVE Kept(x)'
    BY <1>13, <1>x DEF Erase, At, Kept, TypeOK
  <1>14. ASSUME NEW w \in Worker, CompleteErasure(w) PROVE Kept(x)'
    BY <1>14, <1>x DEF CompleteErasure, At, Kept, TypeOK
  <1>15. ASSUME NEW w \in Worker, Complete(w) PROVE Kept(x)'
    BY <1>15, <1>x DEF Complete, Idle, Kept, TypeOK
  <1>16. ASSUME NEW w \in Worker, RecordError(w) PROVE Kept(x)'
    BY <1>16, <1>x DEF RecordError, At, Kept, TypeOK
  <1>17. ASSUME NEW w \in Worker, Fail(w) PROVE Kept(x)'
    <2>1. \A r \in Evidence : request'[r].primary = request[r].primary
      BY <1>17 DEF Fail, TypeOK, Request
    <2> QED
      BY <1>17, <1>x, <2>1 DEF Fail, Idle, Kept, TypeOK
  <1>18. ASSUME NEW w \in Worker, LetGo(w) PROVE Kept(x)'
    BY <1>18, <1>x DEF LetGo, Idle, Kept, TypeOK
  <1>19. ASSUME NEW w \in Worker, Crash(w) PROVE Kept(x)'
    BY <1>19, <1>x DEF Crash, Idle, Kept, TypeOK
  <1>20. ASSUME Survey PROVE Kept(x)'
    BY <1>20, <1>x DEF Survey, Kept, TypeOK
  <1>21. ASSUME Collect PROVE Kept(x)'
    BY <1>21, <1>x DEF Collect, Kept, TypeOK
  <1>22. ASSUME FileAges PROVE Kept(x)'
    BY <1>22, <1>x DEF FileAges, Kept, TypeOK
  <1>23. ASSUME UNCHANGED vars PROVE Kept(x)'
    BY <1>23, <1>x DEF vars, Kept, TypeOK
  <1>24. ASSUME NEW w \in Worker, ProveUnreferenced(w) PROVE Kept(x)'
    BY <1>24, <1>x DEF ProveUnreferenced, At, Go, Kept, TypeOK
  <1> QED
    BY <1>1, <1>2, <1>3, <1>4, <1>5, <1>6, <1>7, <1>8, <1>9, <1>10, <1>11, <1>12,
       <1>13, <1>14, <1>15, <1>16, <1>17, <1>18, <1>19, <1>20, <1>21, <1>22, <1>23, <1>24
    DEF Next, Work

\* a worker that unlinks the file has passed the count of the references
LEMMA UnlinkStep ==
  ASSUME KeepPremise, [Next]_vars
  PROVE  PurgeUnlinks => early \cap References = {}
  <1> SUFFICES ASSUME PurgeUnlinks, NEW x \in early \cap References PROVE FALSE
    OBVIOUS
  <1> USE DEF captureVars, historyVars, rowVars, laneVars
  <1>1. \A w \in Worker : hand[w].stage \notin {"erase", "prove", "record"}
    BY DEF KeepPremise, KeepInv, Kept
  <1>2. \A w \in Worker : ~ Erase(w) /\ ~ RecordError(w)
    BY <1>1 DEF Erase, RecordError, At
  <1>3. UNCHANGED file \/ UNCHANGED hand \/ \E e \in Evidence : Write(e)
    BY <1>2
    DEF Next, Work, Write, OpenCapture, CommitCapture, AbortCapture, BeginRevoke,
        CommitRevoke, AbortRevoke, Retry, Lapse, Lease, CountReferences, ApplyPurge,
        ProveUnreferenced, CompleteErasure, Complete, Fail, LetGo, Crash, Survey,
        Collect, FileAges, vars
  <1> QED
    BY <1>3 DEF PurgeUnlinks, Write

\* What the first of several records of one content to be revoked must not cost the
\* others (ADR-007), in every order of revocations, captures, failures and crashes.
THEOREM SharedBytesAreKept == Spec => SharedBytesKept
  <1>1. Init => KeepPremise
    BY TypeInit, RowsInit, KeepInit DEF KeepPremise
  <1>2. KeepPremise /\ [Next]_vars => KeepPremise'
    BY TypeStep, RowsStep, HandStep, KeepStep DEF KeepPremise
  <1>3. KeepPremise /\ [Next]_vars => [PurgeUnlinks => early \cap References = {}]_vars
    BY UnlinkStep
  <1> QED
    BY <1>1, <1>2, <1>3, PTL DEF Spec, SharedBytesKept

-----------------------------------------------------------------------------
(* The database against itself.  Who is about to record an erasure has found *)
(* no reference; what refers to the content by then was captured since.      *)

ErasedInv ==
    /\ ErasedUnreferenced
    /\ \A w \in Worker : hand[w].stage = "record" => References \subseteq overtaken

\* nobody but the check of the references goes on to the record of an erasure
LEMMA RecordStep ==
  ASSUME TypeOK, [Next]_vars, NEW w \in Worker, hand'[w].stage = "record"
  PROVE  \/ hand[w].stage = "record"
         \/ References = {} /\ UNCHANGED rowVars /\ UNCHANGED capture
  <1> USE DEF captureVars, historyVars, rowVars, laneVars
  <1>1. ASSUME NEW v \in Worker, ProveUnreferenced(v)
        PROVE  References = {} /\ UNCHANGED rowVars /\ UNCHANGED capture
    BY <1>1 DEF ProveUnreferenced
  <1>2. ASSUME NEW v \in Worker, Lease(v) PROVE hand[w].stage = "record"
    BY <1>2, LeaseRows DEF TypeOK
  <1>3. ASSUME NEW v \in Worker,
               \/ CountReferences(v) \/ ApplyPurge(v) \/ Erase(v) \/ CompleteErasure(v)
               \/ Complete(v) \/ RecordError(v) \/ Fail(v) \/ LetGo(v) \/ Crash(v)
        PROVE  hand[w].stage = "record"
    BY <1>3
    DEF CountReferences, ApplyPurge, Erase, CompleteErasure, Complete, RecordError, Fail,
        LetGo, Crash, Go, Idle, TypeOK
  <1>4. CASE UNCHANGED hand
    BY <1>4
  <1> QED
    BY <1>1, <1>2, <1>3, <1>4
    DEF Next, Work, Write, OpenCapture, CommitCapture, AbortCapture, BeginRevoke,
        CommitRevoke, AbortRevoke, Retry, Lapse, Survey, Collect, FileAges, vars

\* the exceptions grow with the captures and start afresh only where nothing refers
LEMMA OvertakenStep ==
  ASSUME [Next]_vars, References # {}
  PROVE  overtaken \subseteq overtaken'
  <1> USE DEF captureVars, historyVars, rowVars, laneVars
  <1>1. ASSUME NEW e \in Evidence, CommitCapture(e) PROVE overtaken \subseteq overtaken'
    BY <1>1 DEF CommitCapture
  <1>2. \A w \in Worker : ~ ProveUnreferenced(w)
    BY DEF ProveUnreferenced
  <1>3. UNCHANGED overtaken \/ \E e \in Evidence : CommitCapture(e)
    BY <1>2
    DEF Next, Work, Write, OpenCapture, AbortCapture, BeginRevoke, CommitRevoke,
        AbortRevoke, Retry, Lapse, Lease, CountReferences, ApplyPurge, Erase,
        CompleteErasure, Complete, RecordError, Fail, LetGo, Crash, Survey, Collect,
        FileAges, vars
  <1> QED
    BY <1>1, <1>3

\* only a worker whose check found no reference makes a content ERASED
LEMMA BecomesErased ==
  ASSUME [Next]_vars, blob' = "ERASED"
  PROVE  blob = "ERASED" \/ \E w \in Worker : hand[w].stage = "record"
  BY DEF Next, Work, Write, OpenCapture, CommitCapture, AbortCapture, BeginRevoke,
         CommitRevoke, AbortRevoke, Retry, Lapse, Lease, CountReferences, ApplyPurge, Erase,
         ProveUnreferenced, CompleteErasure, Complete, RecordError, Fail, LetGo, Crash,
         Survey, Collect, FileAges, At, vars, captureVars, historyVars, rowVars, laneVars

LEMMA ErasedStep ==
  ASSUME TypeOK, RowsInv, HandInv, ErasedInv, [Next]_vars
  PROVE  ErasedInv'
  <1>1. ASSUME NEW e \in Evidence, AddsReference(e)
        PROVE  ErasedInv'
    <2>1. blob' = "PRESENT" /\ hand' = hand
      BY <1>1 DEF AddsReference, CommitCapture, laneVars
    <2>2. ASSUME NEW w \in Worker, hand[w].stage = "record"
          PROVE  References' \subseteq overtaken'
      BY <1>1, <2>2 DEF ErasedInv, AddsReference, CommitCapture
    <2> QED
      BY <2>1, <2>2 DEF ErasedInv, ErasedUnreferenced
  <1>2. CASE References' \subseteq References
    <2>1. CASE References = {}
      BY <1>2, <2>1 DEF ErasedInv, ErasedUnreferenced
    <2>2. CASE References # {}
      <3>1. overtaken \subseteq overtaken'
        BY <2>2, OvertakenStep
      <3>2. ASSUME blob' = "ERASED" PROVE References \subseteq overtaken
        BY <3>2, BecomesErased DEF ErasedInv, ErasedUnreferenced
      <3>3. ASSUME NEW w \in Worker, hand'[w].stage = "record"
            PROVE  References \subseteq overtaken
        BY <2>2, <3>3, RecordStep DEF ErasedInv
      <3> QED
        BY <1>2, <3>1, <3>2, <3>3 DEF ErasedInv, ErasedUnreferenced
    <2> QED
      BY <2>1, <2>2
  <1> QED
    BY <1>1, <1>2, ReferencesStep DEF DropsReference

\* complete_blob_erasure and TX-01 never leave a content ERASED that a record refers to,
\* but for one whose capture overtook the record of the erasure.
THEOREM ErasedIsUnreferenced == Spec => []ErasedUnreferenced
  <1> DEFINE Inv == TypeOK /\ RowsInv /\ HandInv /\ ErasedInv
  <1>1. Init => Inv
    BY TypeInit, RowsInit DEF Init, ErasedInv, ErasedUnreferenced, Idle
  <1>2. Inv /\ [Next]_vars => Inv'
    BY TypeStep, RowsStep, HandStep, ErasedStep
  <1>3. Inv => ErasedUnreferenced
    BY DEF ErasedInv
  <1> QED
    BY <1>1, <1>2, <1>3, PTL DEF Spec

-----------------------------------------------------------------------------
(* Nobody forgets the last request.  While nothing refers to the content and *)
(* a clear request is not erased, some undelivered purge still has to count  *)
(* the references or has counted none: the one that removed the last.        *)

Owing(d) ==
    /\ d \notin Held
    /\ request[d].primary \notin {"NONE", "ERASED"}
    /\ delivery[d].state # "DELIVERED"
    /\ \A w \in Worker : ~ (hand[w].event = d /\ hand[w].stage \in {"shared", "settle"})

Unerased == {r \in Evidence \ Held : request[r].primary \notin {"NONE", "ERASED"}}

OweInv == References = {} /\ Unerased # {} => \E d \in Evidence : Owing(d)

\* with no reference left there is nothing to revoke, so no request is new
LEMMA UnerasedStep ==
  ASSUME TypeOK, RowsInv, HandInv, References = {}, [Next]_vars
  PROVE  Unerased' \subseteq Unerased
  <1> USE DEF captureVars, historyVars, rowVars, laneVars
  <1>1. ASSUME NEW e \in Evidence, Write(e) PROVE Unerased' \subseteq Unerased
    BY <1>1 DEF Write, Unerased, TypeOK, Request
  <1>2. ASSUME NEW e \in Evidence, OpenCapture(e) PROVE Unerased' \subseteq Unerased
    BY <1>2 DEF OpenCapture, Unerased, TypeOK, Request
  <1>3. ASSUME NEW e \in Evidence, CommitCapture(e) PROVE Unerased' \subseteq Unerased
    BY <1>3 DEF CommitCapture, Unerased, TypeOK, Request
  <1>4. ASSUME NEW e \in Evidence, AbortCapture(e) PROVE Unerased' \subseteq Unerased
    BY <1>4 DEF AbortCapture, Unerased, TypeOK, Request
  <1>5. ASSUME NEW e \in Evidence, BeginRevoke(e) PROVE Unerased' \subseteq Unerased
    BY <1>5 DEF BeginRevoke, Unerased, TypeOK, Request
  <1>6. ASSUME NEW e \in Evidence, CommitRevoke(e) PROVE Unerased' \subseteq Unerased
    BY <1>6 DEF CommitRevoke, RowsInv, References, Unerased, TypeOK, Request
  <1>7. ASSUME NEW e \in Evidence, AbortRevoke(e) PROVE Unerased' \subseteq Unerased
    BY <1>7 DEF AbortRevoke, Unerased, TypeOK, Request
  <1>8. ASSUME NEW e \in Evidence, Retry(e) PROVE Unerased' \subseteq Unerased
    BY <1>8 DEF Retry, Unerased, TypeOK, Request
  <1>9. ASSUME NEW e \in Evidence, Lapse(e) PROVE Unerased' \subseteq Unerased
    BY <1>9 DEF Lapse, Unerased, TypeOK, Request
  <1>10. ASSUME NEW w \in Worker, Lease(w) PROVE Unerased' \subseteq Unerased
    BY <1>10 DEF Lease, Unerased, TypeOK, Request
  <1>11. ASSUME NEW w \in Worker, CountReferences(w) PROVE Unerased' \subseteq Unerased
    BY <1>11 DEF CountReferences, Unerased, TypeOK, Request
  <1>12. ASSUME NEW w \in Worker, ApplyPurge(w) PROVE Unerased' \subseteq Unerased
    BY <1>12 DEF ApplyPurge, Released, Unerased, TypeOK, Request
  <1>13. ASSUME NEW w \in Worker, Erase(w) PROVE Unerased' \subseteq Unerased
    BY <1>13 DEF Erase, Unerased, TypeOK, Request
  <1>14. ASSUME NEW w \in Worker, CompleteErasure(w) PROVE Unerased' \subseteq Unerased
    BY <1>14 DEF CompleteErasure, Unerased, TypeOK, Request
  <1>15. ASSUME NEW w \in Worker, Complete(w) PROVE Unerased' \subseteq Unerased
    BY <1>15 DEF Complete, Unerased, TypeOK, Request
  <1>16. ASSUME NEW w \in Worker, RecordError(w) PROVE Unerased' \subseteq Unerased
    BY <1>16 DEF RecordError, Unerased, TypeOK, Request
  <1>17. ASSUME NEW w \in Worker, Fail(w) PROVE Unerased' \subseteq Unerased
    BY <1>17 DEF Fail, Unerased, TypeOK, Request
  <1>18. ASSUME NEW w \in Worker, LetGo(w) PROVE Unerased' \subseteq Unerased
    BY <1>18 DEF LetGo, Unerased, TypeOK, Request
  <1>19. ASSUME NEW w \in Worker, Crash(w) PROVE Unerased' \subseteq Unerased
    BY <1>19 DEF Crash, Unerased, TypeOK, Request
  <1>20. ASSUME Survey PROVE Unerased' \subseteq Unerased
    BY <1>20 DEF Survey, Unerased, TypeOK, Request
  <1>21. ASSUME Collect PROVE Unerased' \subseteq Unerased
    BY <1>21 DEF Collect, Unerased, TypeOK, Request
  <1>22. ASSUME FileAges PROVE Unerased' \subseteq Unerased
    BY <1>22 DEF FileAges, Unerased, TypeOK, Request
  <1>23. ASSUME UNCHANGED vars PROVE Unerased' \subseteq Unerased
    BY <1>23 DEF vars, Unerased, TypeOK, Request
  <1>24. ASSUME NEW w \in Worker, ProveUnreferenced(w) PROVE Unerased' \subseteq Unerased
    BY <1>24 DEF ProveUnreferenced, At, Go, Unerased, TypeOK, Request
  <1> QED
    BY <1>1, <1>2, <1>3, <1>4, <1>5, <1>6, <1>7, <1>8, <1>9, <1>10, <1>11, <1>12,
       <1>13, <1>14, <1>15, <1>16, <1>17, <1>18, <1>19, <1>20, <1>21, <1>22, <1>23, <1>24
    DEF Next, Work

\* the purge that owes the erasure goes on owing it until everything is erased
LEMMA OwingStep ==
  ASSUME TypeOK, RowsInv, HandInv, References = {}, NEW d \in Evidence, Owing(d), [Next]_vars
  PROVE  Owing(d)' \/ Unerased' = {}
  <1> USE DEF captureVars, historyVars, rowVars, laneVars
  <1>1. ASSUME NEW e \in Evidence, Write(e) PROVE Owing(d)' \/ Unerased' = {}
    BY <1>1 DEF Write, Owing, TypeOK
  <1>2. ASSUME NEW e \in Evidence, OpenCapture(e) PROVE Owing(d)' \/ Unerased' = {}
    BY <1>2 DEF OpenCapture, Owing, TypeOK
  <1>3. ASSUME NEW e \in Evidence, CommitCapture(e) PROVE Owing(d)' \/ Unerased' = {}
    BY <1>3 DEF CommitCapture, Owing, TypeOK
  <1>4. ASSUME NEW e \in Evidence, AbortCapture(e) PROVE Owing(d)' \/ Unerased' = {}
    BY <1>4 DEF AbortCapture, Owing, TypeOK
  <1>5. ASSUME NEW e \in Evidence, BeginRevoke(e) PROVE Owing(d)' \/ Unerased' = {}
    BY <1>5 DEF BeginRevoke, Owing, TypeOK
  <1>6. ASSUME NEW e \in Evidence, CommitRevoke(e) PROVE Owing(d)' \/ Unerased' = {}
    BY <1>6 DEF CommitRevoke, RowsInv, References, Owing, TypeOK
  <1>7. ASSUME NEW e \in Evidence, AbortRevoke(e) PROVE Owing(d)' \/ Unerased' = {}
    BY <1>7 DEF AbortRevoke, Owing, TypeOK
  <1>8. ASSUME NEW e \in Evidence, Retry(e) PROVE Owing(d)' \/ Unerased' = {}
    BY <1>8 DEF Retry, Request, Owing, TypeOK
  <1>9. ASSUME NEW e \in Evidence, Lapse(e) PROVE Owing(d)' \/ Unerased' = {}
    BY <1>9 DEF Lapse, Row, Owing, TypeOK
  <1>10. ASSUME NEW w \in Worker, Lease(w) PROVE Owing(d)' \/ Unerased' = {}
    <2>1. delivery'[d].state # "DELIVERED" /\ request' = request
      BY <1>10, LeaseRows DEF Lease, SameStanding, Owing
    <2>2. \A v \in Worker : hand'[v] = hand[v] \/ hand'[v].stage = "leased"
      BY <1>10, LeaseRows DEF TypeOK
    <2> QED
      BY <2>1, <2>2 DEF Owing
  <1>11. ASSUME NEW w \in Worker, CountReferences(w) PROVE Owing(d)' \/ Unerased' = {}
    <2>1. hand' = [hand EXCEPT ![w].stage = "clear"]
      BY <1>11 DEF CountReferences, Go
    <2> QED
      BY <1>11, <2>1 DEF CountReferences, Owing, TypeOK
  <1>12. ASSUME NEW w \in Worker, ApplyPurge(w) PROVE Owing(d)' \/ Unerased' = {}
    <2>1. request'[d].primary \notin {"NONE", "ERASED"}
      BY <1>12 DEF ApplyPurge, Owing, TypeOK, Request
    <2>2. hand[w].event = d => hand' = [hand EXCEPT ![w].stage = "erase"]
      <3> SUFFICES ASSUME hand[w].event = d PROVE hand' = [hand EXCEPT ![w].stage = "erase"]
        OBVIOUS
      <3>1. At(w, "clear")
        BY <1>12 DEF ApplyPurge, At, Owing
      <3>2. Released(d)
        BY DEF Owing, Released, RowsInv, TypeOK, Request, Primary
      <3>3. request'[d].primary = "PENDING"
        BY <1>12, <3>1, <3>2 DEF ApplyPurge
      <3> QED
        BY <1>12, <3>3 DEF ApplyPurge, Go
    <2>3. \A v \in Worker : hand'[v].event = d
                           => hand[v].event = d /\ hand'[v].stage \in {hand[v].stage, "erase"}
      BY <1>12, <2>2 DEF ApplyPurge, Go, TypeOK
    <2> QED
      BY <1>12, <2>1, <2>3 DEF ApplyPurge, Owing
  <1>13. ASSUME NEW w \in Worker, Erase(w) PROVE Owing(d)' \/ Unerased' = {}
    BY <1>13 DEF Erase, At, Go, Owing, TypeOK
  <1>14. ASSUME NEW w \in Worker, CompleteErasure(w) PROVE Owing(d)' \/ Unerased' = {}
    <2>1. Unerased' = {}
      BY <1>14 DEF CompleteErasure, Proved, Unerased, Revoked, TypeOK, Request
    <2> QED
      BY <2>1
  <1>15. ASSUME NEW w \in Worker, Complete(w) PROVE Owing(d)' \/ Unerased' = {}
    <2>1. hand[w].event # d
      BY <1>15 DEF Complete, At, Owing
    <2> QED
      BY <1>15, <2>1 DEF Complete, Idle, Owing, TypeOK
  <1>16. ASSUME NEW w \in Worker, RecordError(w) PROVE Owing(d)' \/ Unerased' = {}
    <2>1. request'[d].primary \notin {"NONE", "ERASED"}
      BY <1>16 DEF RecordError, Owing, TypeOK, Request
    <2> QED
      BY <1>16, <2>1 DEF RecordError, Go, Owing, TypeOK
  <1>17. ASSUME NEW w \in Worker, Fail(w) PROVE Owing(d)' \/ Unerased' = {}
    <2>1. request'[d].primary = request[d].primary
      BY <1>17 DEF Fail, TypeOK, Request
    <2>2. delivery'[d].state # "DELIVERED"
      BY <1>17 DEF Fail, Returned, Owing, TypeOK, Row
    <2> QED
      BY <1>17, <2>1, <2>2 DEF Fail, Idle, Owing, TypeOK
  <1>18. ASSUME NEW w \in Worker, LetGo(w) PROVE Owing(d)' \/ Unerased' = {}
    BY <1>18 DEF LetGo, Idle, Owing, TypeOK
  <1>19. ASSUME NEW w \in Worker, Crash(w) PROVE Owing(d)' \/ Unerased' = {}
    BY <1>19 DEF Crash, Idle, Row, Owing, TypeOK
  <1>20. ASSUME Survey PROVE Owing(d)' \/ Unerased' = {}
    BY <1>20 DEF Survey, Owing, TypeOK
  <1>21. ASSUME Collect PROVE Owing(d)' \/ Unerased' = {}
    BY <1>21 DEF Collect, Owing, TypeOK
  <1>22. ASSUME FileAges PROVE Owing(d)' \/ Unerased' = {}
    BY <1>22 DEF FileAges, Owing, TypeOK
  <1>23. ASSUME UNCHANGED vars PROVE Owing(d)' \/ Unerased' = {}
    BY <1>23 DEF vars, Owing, TypeOK
  <1>24. ASSUME NEW w \in Worker, ProveUnreferenced(w) PROVE Owing(d)' \/ Unerased' = {}
    BY <1>24 DEF ProveUnreferenced, At, Go, Owing, TypeOK
  <1> QED
    BY <1>1, <1>2, <1>3, <1>4, <1>5, <1>6, <1>7, <1>8, <1>9, <1>10, <1>11, <1>12,
       <1>13, <1>14, <1>15, <1>16, <1>17, <1>18, <1>19, <1>20, <1>21, <1>22, <1>23, <1>24
    DEF Next, Work

LEMMA OweStep ==
  ASSUME TypeOK, RowsInv, HandInv, OweInv, [Next]_vars
  PROVE  OweInv'
  <1> SUFFICES ASSUME References' = {}, Unerased' # {}
               PROVE  \E d \in Evidence : Owing(d)'
    BY DEF OweInv
  <1> USE DEF captureVars, historyVars, rowVars, laneVars
  <1>a. ASSUME NEW e \in Evidence, DropsReference(e), References # {}
        PROVE  Owing(e)'
    <2>1. e \notin Held /\ delivery[e].state = "NONE" /\ ~ Revoked(e)
      BY <1>a DEF DropsReference, CommitRevoke, RowsInv
    <2>2. \A w \in Worker : hand[w].stage # "idle" => hand[w].event # e
      BY <2>1 DEF HandInv
    <2>3. revoking[e] # "ERASED" /\ revoking[e] # "NONE"
      BY <1>a DEF DropsReference, CommitRevoke, TypeOK
    <2>4. request'[e].primary = revoking[e] /\ delivery'[e].state = "PENDING"
      BY <1>a DEF DropsReference, CommitRevoke, TypeOK, Row
    <2> QED
      BY <1>a, <2>1, <2>2, <2>3, <2>4 DEF DropsReference, CommitRevoke, Owing
  <1>b. ASSUME References = {}
        PROVE  \E d \in Evidence : Owing(d)'
    <2>1. Unerased # {}
      BY <1>b, UnerasedStep
    <2>2. PICK d \in Evidence : Owing(d)
      BY <1>b, <2>1 DEF OweInv
    <2> QED
      BY <1>b, <2>2, OwingStep
  <1>c. ASSUME NEW e \in Evidence, AddsReference(e) PROVE FALSE
    BY <1>c DEF AddsReference
  <1> QED
    BY <1>a, <1>b, <1>c, ReferencesStep

\* The last revocation of a content carries the earlier ones with it, in every order of
\* revocations, captures, failures and crashes (0007, 0019: every clear request is marked).
THEOREM NoRequestIsForgotten == Spec => []NoRequestForgotten
  <1> DEFINE Inv == TypeOK /\ RowsInv /\ HandInv /\ OweInv
  <1>1. Init => Inv
    BY TypeInit, RowsInit DEF Init, OweInv, Unerased, NoRequest
  <1>2. Inv /\ [Next]_vars => Inv'
    BY TypeStep, RowsStep, HandStep, OweStep
  <1>3. Inv => NoRequestForgotten
    <2> SUFFICES ASSUME Inv, References = {},
                        \A e \in Evidence : delivery[e].state \in {"NONE", "DELIVERED"}
                 PROVE  \A e \in Evidence : Revoked(e) /\ e \notin Held
                                             => request[e].primary = "ERASED"
      BY DEF NoRequestForgotten
    <2>1. \A d \in Evidence : ~ Owing(d)
      BY DEF Owing, RowsInv, Revoked
    <2> QED
      BY <2>1 DEF OweInv, Unerased, Revoked
  <1> QED
    BY <1>1, <1>2, <1>3, PTL DEF Spec
=============================================================================
