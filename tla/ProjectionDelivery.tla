------------------------ MODULE ProjectionDelivery -------------------------
(***************************************************************************)
(* How outbox events reach one search lane (fts) of one tenant: the global *)
(* outbox sequence, the delivery rows of the lane, their leases, retries   *)
(* and dead letters, the lane's watermark, the worker that drives it and   *)
(* the search documents it writes.                                         *)
(*                                                                         *)
(*   outbox_event insert, commit     0007               Draw, Commit,      *)
(*                                                      Rollback           *)
(*   lease_projection_event_batch    0033               Lease              *)
(*   apply_search_projection         0007               Apply              *)
(*   complete_*, apply_*_batch       0033, 0037, 0039   Complete, Skip,    *)
(*                                                      Purge              *)
(*   fail_projection_event           0007               Fail               *)
(*   retry_dead_letter               0007               Retry              *)
(*   reconcile_projection_watermark  0035               Reconcile          *)
(*   rebuild_search_projection       0010               Rebuild            *)
(*   apply_purge_projection          0007               OtherLanePurges    *)
(*   the loops of FoundationWorker   workers/main.py    order of the above *)
(*                                                                         *)
(* Every call is one transaction and one step; between two calls of a      *)
(* worker anything may happen.  Only the watermark is read long before it  *)
(* is written: what others deliver meanwhile is not in it (unseen).        *)
(* Time is two flags of a delivery row:                                    *)
(* lapsed (lease_expires_at has passed) and waiting (available_at has not).*)
(* The heartbeat renews live leases only: while it succeeds nothing lapses.*)
(*                                                                         *)
(* An event is named by its outbox sequence.  All versions rest on one     *)
(* evidence record, so a PURGE event removes every document.  The purge    *)
(* lane, which erases the evidence itself, works on the same event under a *)
(* delivery row of its own and deletes the same documents: of that lane    *)
(* only this deletion is here, the rest is EvidenceDeletion.               *)
(***************************************************************************)
EXTENDS Integers, FiniteSets, FiniteSetsExt

CONSTANTS
    Worker,         \* worker processes that may run at a time
    MaxEvent,       \* bound on outbox_sequence
    MaxOpen,        \* bound on writing transactions open at a time
    BatchSize,      \* worker_projection_batch_size
    MaxAttempts,    \* worker_max_attempts
    MaxRebuilds,    \* bound on operator rebuilds of the lane
    None            \* SQL NULL

ASSUME BoundsAssumption ==
    /\ MaxEvent \in Nat /\ MaxOpen \in Nat /\ MaxRebuilds \in Nat
    /\ BatchSize \in Nat \ {0} /\ MaxAttempts \in Nat \ {0}
ASSUME NoneAssumption == None \notin Worker

EventId == 1 .. MaxEvent

VARIABLES
    event,      \* fate of the transaction that drew a sequence
    kind,       \* what the event is to this lane
    delivery,   \* projection_delivery rows of the lane
    watermark,  \* index_watermark.last_contiguous_outbox_sequence
    document,   \* search_document rows, by the event that announced the version
    todo,       \* events of the batch a worker has in hand, not yet dealt with
    applied,    \* the worker has written the first of them, not yet completed it
    unseen,     \* events others have delivered since the worker's last call ended
    rebuilds    \* rebuilds so far

writeVars == <<event, kind>>
workVars == <<todo, applied, unseen>>
vars == <<writeVars, delivery, watermark, document, workVars, rebuilds>>

-----------------------------------------------------------------------------
Kind == {"VERSION", "PURGE", "OTHER"}

Row == [state : {"NONE", "PENDING", "PROCESSING", "DELIVERED", "DEAD_LETTER"},
        attempts : 0 .. MaxAttempts, owner : Worker \cup {None},
        lapsed : BOOLEAN, waiting : BOOLEAN]

\* attempts are only ever compared with the limit: counting stops there
More(attempts) == IF attempts < MaxAttempts THEN attempts + 1 ELSE attempts

Pending(attempts, backoff) ==
    [state |-> "PENDING", attempts |-> attempts, owner |-> None,
     lapsed |-> FALSE, waiting |-> backoff]

NoRow == [Pending(0, FALSE) EXCEPT !.state = "NONE"]

\* a failed or expired attempt goes back to the queue or to the dead letters
Returned(row, backoff) ==
    [Pending(row.attempts, backoff) EXCEPT
        !.state = IF row.attempts >= MaxAttempts THEN "DEAD_LETTER" ELSE "PENDING"]

Delivered(row) == [row EXCEPT !.state = "DELIVERED", !.owner = None]

\* mutant: the watermark is the highest delivered sequence
Furthest(d) ==
    LET reached == {n \in EventId : d[n].state = "DELIVERED"}
    IN  IF reached = {} THEN 0 ELSE Max(reached)

\* the highest delivered sequence with no undelivered row below it
Contiguous(d) ==
    LET reached == {n \in EventId :
                      /\ d[n].state = "DELIVERED"
                      /\ \A m \in 1 .. n - 1 : d[m].state \in {"NONE", "DELIVERED"}}
    IN  IF reached = {} THEN 0 ELSE Max(reached)

\* the rows as a statement sees them that was run before the events of T were delivered
Before(d, T) ==
    [n \in EventId |-> IF n \in T THEN [d[n] EXCEPT !.state = "PROCESSING"] ELSE d[n]]

\* the check every write of a worker makes: it still owns a live lease
Owns(w, n) ==
    /\ delivery[n].state = "PROCESSING"
    /\ delivery[n].owner = w
    /\ ~ delivery[n].lapsed

-----------------------------------------------------------------------------
Init ==
    /\ event = [n \in EventId |-> "NONE"]
    /\ kind = [n \in EventId |-> "OTHER"]
    /\ delivery = [n \in EventId |-> NoRow]
    /\ watermark = 0
    /\ document = {}
    /\ todo = [w \in Worker |-> {}]
    /\ applied = [w \in Worker |-> FALSE]
    /\ unseen = [w \in Worker |-> {}]
    /\ rebuilds = 0

(***************************************************************************)
(* Writing transactions.  nextval hands out the sequence at the insert and *)
(* the row becomes visible at the commit; a rolled back value is never     *)
(* used again.  A version insert holds the evidence row that TX-05 locks,  *)
(* and is not admitted once the evidence is revoked.                       *)
(***************************************************************************)
Undecided(k) == {n \in EventId : event[n] = "OPEN" /\ kind[n] = k}
Known(k) == {n \in EventId : event[n] = "COMMITTED" /\ kind[n] = k}

Admitted(k) ==
    /\ k = "VERSION" => Undecided("PURGE") \cup Known("PURGE") = {}
    /\ k = "PURGE" => Undecided("VERSION") \cup Undecided("PURGE") \cup Known("PURGE") = {}

Draw(n, k) ==
    /\ event[n] = "NONE"
    /\ \A m \in 1 .. n - 1 : event[m] # "NONE"
    /\ Cardinality({m \in EventId : event[m] = "OPEN"}) < MaxOpen
    /\ Admitted(k)
    /\ event' = [event EXCEPT ![n] = "OPEN"]
    /\ kind' = [kind EXCEPT ![n] = k]
    /\ UNCHANGED <<delivery, watermark, document, workVars, rebuilds>>

Commit(n) ==
    /\ event[n] = "OPEN"
    /\ event' = [event EXCEPT ![n] = "COMMITTED"]
    /\ UNCHANGED <<kind, delivery, watermark, document, workVars, rebuilds>>

Rollback(n) ==
    /\ event[n] = "OPEN"
    /\ event' = [event EXCEPT ![n] = "ROLLED_BACK"]
    /\ UNCHANGED <<kind, delivery, watermark, document, workVars, rebuilds>>

-----------------------------------------------------------------------------
(* lease_projection_event_batch.                                           *)

\* mutant: expired leases are never taken back
KeepExpired(row) == row

\* mutant: the recovered row gets a status of its own
MarkExpired(row) ==
    IF row.state = "PROCESSING" /\ row.lapsed THEN [row EXCEPT !.state = "EXPIRED"] ELSE row

Recovered(row) ==
    IF row.state = "PROCESSING" /\ row.lapsed THEN Returned(row, FALSE) ELSE row

\* expired leases are taken back, every committed event gets a row
Refreshed ==
    [n \in EventId |->
        IF delivery[n].state = "NONE" /\ event[n] = "COMMITTED"
        THEN Pending(0, FALSE)
        ELSE Recovered(delivery[n])]

\* mutant: whatever is available may be leased
AnyAvailable(d) == {n \in EventId : d[n].state = "PENDING" /\ ~ d[n].waiting}

\* available rows that only pending rows separate from the first undelivered one
Leasable(d) ==
    LET undelivered == {n \in EventId : d[n].state \notin {"NONE", "DELIVERED"}}
        first == Min(undelivered)
    IN  IF undelivered = {} \/ d[first].state # "PENDING" \/ d[first].waiting
        THEN {}
        ELSE {n \in first .. MaxEvent :
                /\ d[n].state = "PENDING"
                /\ ~ d[n].waiting
                /\ \A m \in first .. n - 1 : d[m].state \in {"NONE", "PENDING"}}

FirstOf(S) == {n \in S : Cardinality({m \in S : m < n}) < BatchSize}

\* the next transaction of w sees everything that is committed now
CallEnds(w) == unseen' = [unseen EXCEPT ![w] = {}]

\* FOR UPDATE SKIP LOCKED: rows another worker's lease or renewal has locked
Held(w, S) == IF Worker = {w} THEN {{}} ELSE SUBSET S

Lease(w) ==
    /\ todo[w] = {}
    /\ \E held \in Held(w, Leasable(Refreshed)) :
          LET batch == FirstOf(Leasable(Refreshed) \ held)
          IN  /\ delivery' = [n \in EventId |->
                                IF n \in batch
                                THEN [Refreshed[n] EXCEPT !.state = "PROCESSING",
                                                          !.attempts = More(@),
                                                          !.owner = w]
                                ELSE Refreshed[n]]
              /\ todo' = [todo EXCEPT ![w] = batch]
    /\ CallEnds(w)
    /\ UNCHANGED <<writeVars, watermark, document, applied, rebuilds>>

-----------------------------------------------------------------------------
(* What a worker does with its batch: events the lane does not use are      *)
(* acknowledged together first, the others are handled one by one in order. *)

\* mutant: version events are routed past the lane
MisroutedOf(w) == {n \in todo[w] : kind[n] # "PURGE"}

SkippedOf(w) == {n \in todo[w] : kind[n] = "OTHER"}

IsNext(w, n) ==
    /\ SkippedOf(w) = {}
    /\ n \in todo[w]
    /\ \A m \in todo[w] : n <= m

\* the events are done with, as far as this worker is concerned
Finish(w, S) ==
    /\ todo' = [todo EXCEPT ![w] = @ \ S]
    /\ applied' = [applied EXCEPT ![w] = FALSE]

\* of two transactions that overlap neither need see what the other has delivered,
\* and the watermark is what the later one wrote
Deliver(w, S) ==
    /\ delivery' = [n \in EventId |->
                      IF n \in S THEN Delivered(delivery[n]) ELSE delivery[n]]
    /\ \E T \in SUBSET unseen[w] : watermark' = Contiguous(Before(delivery', T))
    /\ unseen' = [v \in Worker |-> IF v = w THEN {} ELSE unseen[v] \cup S]

Skip(w) ==
    /\ SkippedOf(w) # {}
    /\ IF \A n \in SkippedOf(w) : Owns(w, n)
       THEN Deliver(w, SkippedOf(w))
       ELSE CallEnds(w) /\ UNCHANGED <<delivery, watermark>>
    /\ Finish(w, SkippedOf(w))
    /\ UNCHANGED <<writeVars, document, rebuilds>>

Apply(w, n) ==
    /\ IsNext(w, n)
    /\ kind[n] = "VERSION"
    /\ ~ applied[w]
    /\ Owns(w, n)
    /\ document' = document \cup {n}
    /\ applied' = [applied EXCEPT ![w] = TRUE]
    /\ CallEnds(w)
    /\ UNCHANGED <<writeVars, delivery, watermark, todo, rebuilds>>

Complete(w, n) ==
    /\ IsNext(w, n)
    /\ applied[w]
    /\ Owns(w, n)
    /\ Deliver(w, {n})
    /\ Finish(w, {n})
    /\ UNCHANGED <<writeVars, document, rebuilds>>

\* mutant: the purge is acknowledged like an event of another lane
AcknowledgePurge(w, n) ==
    /\ IsNext(w, n)
    /\ kind[n] = "PURGE"
    /\ Owns(w, n)
    /\ Deliver(w, {n})
    /\ Finish(w, {n})
    /\ UNCHANGED <<writeVars, document, rebuilds>>

\* the purge of the lane deletes and completes in one transaction
Purge(w, n) ==
    /\ IsNext(w, n)
    /\ kind[n] = "PURGE"
    /\ Owns(w, n)
    /\ document' = {}
    /\ Deliver(w, {n})
    /\ Finish(w, {n})
    /\ UNCHANGED <<writeVars, rebuilds>>

\* the purge lane got to the event first, or again: its deletion knows nothing of the
\* rows, the leases and the watermark of this lane
OtherLanePurges ==
    /\ Known("PURGE") # {}
    /\ document' = {}
    /\ UNCHANGED <<writeVars, delivery, watermark, workVars, rebuilds>>

\* the handler or the completion raised: the attempt is given back by its owner,
\* lapsed or not
Fail(w, n) ==
    /\ IsNext(w, n)
    /\ delivery[n].state = "PROCESSING"
    /\ delivery[n].owner = w
    /\ delivery' = [delivery EXCEPT ![n] = Returned(@, TRUE)]
    /\ Finish(w, {n})
    /\ CallEnds(w)
    /\ UNCHANGED <<writeVars, watermark, document, rebuilds>>

\* LEASE_LOST: somebody else has the event now, the worker lets go of it
LetGo(w, n) ==
    /\ IsNext(w, n)
    /\ ~ Owns(w, n)
    /\ Finish(w, {n})
    /\ CallEnds(w)
    /\ UNCHANGED <<writeVars, delivery, watermark, document, rebuilds>>

Reconcile(w) ==
    /\ todo[w] = {}
    /\ \E T \in SUBSET unseen[w] : watermark' = Contiguous(Before(delivery, T))
    /\ CallEnds(w)
    /\ UNCHANGED <<writeVars, delivery, document, todo, applied, rebuilds>>

-----------------------------------------------------------------------------
(* The environment: a process dies, time passes, an operator steps in.      *)

\* the process that takes the place of w has a fresh worker_id
Crash(w) ==
    /\ todo[w] # {}
    /\ Finish(w, todo[w])
    /\ delivery' = [n \in EventId |->
                      IF delivery[n].owner = w
                      THEN [delivery[n] EXCEPT !.owner = None]
                      ELSE delivery[n]]
    /\ CallEnds(w)
    /\ UNCHANGED <<writeVars, watermark, document, rebuilds>>

\* a running worker's batch was leased, and is renewed, with one lease_expires_at
LeasedWith(n) ==
    IF delivery[n].owner = None
    THEN {n}
    ELSE {m \in EventId : /\ delivery[m].state = "PROCESSING"
                          /\ delivery[m].owner = delivery[n].owner}

\* lease_expires_at passes without a renewal
Lapse(n) ==
    /\ delivery[n].state = "PROCESSING"
    /\ ~ delivery[n].lapsed
    /\ delivery' = [m \in EventId |->
                      IF m \in LeasedWith(n)
                      THEN [delivery[m] EXCEPT !.lapsed = TRUE]
                      ELSE delivery[m]]
    /\ UNCHANGED <<writeVars, watermark, document, workVars, rebuilds>>

\* available_at passes
BackoffEnds(n) ==
    /\ delivery[n].waiting
    /\ delivery' = [delivery EXCEPT ![n].waiting = FALSE]
    /\ UNCHANGED <<writeVars, watermark, document, workVars, rebuilds>>

\* retry_dead_letter leaves attempt_count as it is
Retry(n) ==
    /\ delivery[n].state = "DEAD_LETTER"
    /\ delivery' = [delivery EXCEPT ![n] = Pending(@.attempts, FALSE)]
    /\ UNCHANGED <<writeVars, watermark, document, workVars, rebuilds>>

\* mutant: the documents are dropped, the delivery rows are not
DropDocuments ==
    /\ rebuilds < MaxRebuilds
    /\ rebuilds' = rebuilds + 1
    /\ document' = {}
    /\ UNCHANGED <<writeVars, delivery, watermark, workVars>>

\* rebuild_search_projection: everything derived is dropped and replayed
Rebuild ==
    /\ rebuilds < MaxRebuilds
    /\ rebuilds' = rebuilds + 1
    /\ delivery' = [n \in EventId |-> NoRow]
    /\ watermark' = 0
    /\ document' = {}
    /\ unseen' = [w \in Worker |-> {}]
    /\ UNCHANGED <<writeVars, todo, applied>>

-----------------------------------------------------------------------------
Handle(w) ==
    \/ Skip(w)
    \/ \E n \in EventId : \/ Apply(w, n)
                          \/ Complete(w, n)
                          \/ Purge(w, n)
                          \/ Fail(w, n)
                          \/ LetGo(w, n)

Next ==
    \/ \E n \in EventId : \/ \E k \in Kind : Draw(n, k)
                          \/ Commit(n)
                          \/ Rollback(n)
                          \/ Lapse(n)
                          \/ BackoffEnds(n)
                          \/ Retry(n)
    \/ \E w \in Worker : \/ Lease(w)
                         \/ Handle(w)
                         \/ Reconcile(w)
                         \/ Crash(w)
    \/ OtherLanePurges
    \/ Rebuild

Spec == Init /\ [][Next]_vars

(***************************************************************************)
(* A running worker keeps polling and deals with what it leased, and time  *)
(* passes.  Nothing is assumed of writers, operators, or of a handler's    *)
(* success: the limit on attempts ends every streak of failures.           *)
(***************************************************************************)
Fairness ==
    /\ \A w \in Worker : WF_vars(Lease(w)) /\ WF_vars(Handle(w))
    /\ \A n \in EventId : WF_vars(Lapse(n)) /\ WF_vars(BackoffEnds(n))

FairSpec == Spec /\ Fairness

-----------------------------------------------------------------------------
(* Properties.                                                             *)

\* The rows have the shape of the schema of migration 0007.
TypeOK ==
    /\ event \in [EventId -> {"NONE", "OPEN", "COMMITTED", "ROLLED_BACK"}]
    /\ kind \in [EventId -> Kind]
    /\ delivery \in [EventId -> Row]
    /\ watermark \in 0 .. MaxEvent
    /\ document \subseteq EventId
    /\ todo \in [Worker -> SUBSET EventId]
    /\ applied \in [Worker -> BOOLEAN]
    /\ unseen \in [Worker -> SUBSET EventId]
    /\ rebuilds \in 0 .. MaxRebuilds

\* A client that wrote event n and waits for the watermark to reach it finds n
\* delivered: the watermark is contiguous over everything committed (TRANSACTIONS
\* section 11, read-your-writes).
WatermarkCoversCommitted ==
    \A n \in 1 .. watermark :
        event[n] = "COMMITTED" => delivery[n].state = "DELIVERED"

\* As long as no purge of the evidence is announced, what the lane calls delivered can
\* be found: no crash, lapsed lease, retry, zombie worker or rebuild makes a delivered
\* version of one that was never written or is gone again.
DeliveredIsIndexed ==
    Known("PURGE") = {} =>
        \A n \in Known("VERSION") : delivery[n].state = "DELIVERED" => n \in document

\* Once the lane has delivered the purge of the evidence, no document that rests on
\* it is in the index, after retries, crashes and rebuilds too.
PurgedStaysPurged ==
    \A n \in Known("PURGE") : delivery[n].state = "DELIVERED" => document = {}

\* Every committed event is delivered and covered by the watermark in the end, or
\* an event at or before it is parked as a dead letter for the operator to see;
\* neither a rolled back sequence nor a crashed worker holds the lane up.
Settled(n) ==
    \/ delivery[n].state = "DELIVERED" /\ watermark >= n
    \/ \E m \in 1 .. n : delivery[m].state = "DEAD_LETTER"

EveryEventSettles == \A n \in EventId : event[n] = "COMMITTED" ~> Settled(n)

-----------------------------------------------------------------------------
(* The abstract specification, and what of the rows it sees.               *)

Announced == [n \in EventId |-> IF event[n] = "COMMITTED" THEN kind[n] ELSE "NONE"]

Purged == \E n \in Known("PURGE") : delivery[n].state = "DELIVERED"

Lane == INSTANCE ReadYourWrites
        WITH Position <- EventId, announced <- Announced, reach <- watermark,
             index <- document, purged <- Purged

\* Leases, batches, expiries, lost workers, retries, completions that overlap and the
\* deletions of the purge lane show to a reader only as a watermark that may lag and fall
\* back, and as documents that go once a purge is announced: nothing is committed at or
\* below the watermark, and up to there every version is indexed and every purge done
\* (TRANSACTIONS section 11).
ImplementsReadYourWrites == Lane!Spec

=============================================================================
