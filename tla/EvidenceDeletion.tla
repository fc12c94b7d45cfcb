-------------------------- MODULE EvidenceDeletion --------------------------
(***************************************************************************)
(* The life of the bytes of one content: captured into the blob store and  *)
(* then referenced from the database, shared by the evidence records that  *)
(* captured the same content, and erased by the purge lane when the last   *)
(* of them is revoked.  The file and the rows are changed by different     *)
(* transactions, processes and locks:                                      *)
(*                                                                         *)
(*   blob_store.write, TX-01           Write, OpenCapture, CommitCapture,  *)
(*                                     AbortCapture                        *)
(*   TX-05, deletion request           BeginRevoke, CommitRevoke,          *)
(*                                     AbortRevoke                         *)
(*   lease_projection_event_batch      Lease                               *)
(*   apply_purge_projection            CountReferences, ApplyPurge         *)
(*   blob_store.erase                  Erase                               *)
(*   complete_blob_erasure             ProveUnreferenced, CompleteErasure  *)
(*   record_purge_error, fail_*        RecordError, Fail, LetGo            *)
(*   complete_projection_apply_batch   Complete                            *)
(*   reconcile_orphans at start-up     Survey, Collect                     *)
(*                                                                         *)
(* A worker leases one purge event at a time (worker_projection_batch_size *)
(* 1); which pending row it gets first is left open, their order is the    *)
(* subject of ProjectionDelivery.  An evidence record is named by the      *)
(* capture that inserts it, its deletion request and its purge event by    *)
(* the evidence.  A repeated capture request is a write followed by an     *)
(* abort: TX-01 answers it from the idempotency record.  The derived rows  *)
(* that apply_purge_projection deletes too are documents of the search     *)
(* lanes: ProjectionDelivery (OtherLanePurges).                            *)
(***************************************************************************)
EXTENDS Integers

CONSTANTS
    Evidence,       \* captures of the content
    Held,           \* those retained LEGAL_HOLD or UNREADABLE
    Revocable,      \* those a steward may revoke
    Worker,         \* worker processes that may run at a time
    MaxAttempts,    \* worker_max_attempts
    None            \* SQL NULL

ASSUME SetsAssumption == Held \subseteq Evidence /\ Revocable \subseteq Evidence
ASSUME AttemptsAssumption == MaxAttempts \in Nat \ {0}
ASSUME NoneAssumption == None \notin Evidence \cup Worker

VARIABLES
    file,       \* the blob file: absent, younger or older than the orphan grace
    creator,    \* the capture in flight whose write created the file
    capture,    \* how far a capture is
    blob,       \* content_blob.physical_delete_state, "NONE" for no row
    revoking,   \* primary_bytes_status an open TX-05 has decided on
    request,    \* deletion_request rows
    delivery,   \* projection_delivery rows of the purge lane
    hand,       \* what a worker is at
    survey,     \* a starting worker has found this file old and unreferenced
    early,      \* history: committed before any revocation of the content began
    overtaken   \* history: committed between the two statements of an erasure record

historyVars == <<early, overtaken>>
captureVars == <<capture, creator, historyVars>>
rowVars == <<blob, request>>
laneVars == <<delivery, hand>>
vars == <<file, captureVars, revoking, rowVars, laneVars, survey>>

-----------------------------------------------------------------------------
Primary == {"PENDING", "BLOCKED_SHARED_REFERENCE", "RETENTION_BLOCKED", "ERASED", "ERROR"}

Request == [primary : Primary \cup {"NONE"},
            derived : {"NONE", "PENDING", "COMPLETED", "DEAD_LETTER"}]

NoRequest == [primary |-> "NONE", derived |-> "NONE"]

Row == [state : {"NONE", "PENDING", "PROCESSING", "DELIVERED", "DEAD_LETTER"},
        attempts : 0 .. MaxAttempts, owner : Worker \cup {None}, lapsed : BOOLEAN]

NoRow == [state |-> "NONE", attempts |-> 0, owner |-> None, lapsed |-> FALSE]

Idle == [event |-> None, stage |-> "idle"]

\* a failed or expired attempt goes back to the queue or to the dead letters
Returned(row) ==
    [row EXCEPT !.state = IF row.attempts >= MaxAttempts THEN "DEAD_LETTER" ELSE "PENDING",
                !.owner = None, !.lapsed = FALSE]

\* attempts are only ever compared with the limit: counting stops there
More(attempts) == IF attempts < MaxAttempts THEN attempts + 1 ELSE attempts

Mine(w) ==
    LET e == hand[w].event
    IN  e # None /\ delivery[e].state = "PROCESSING" /\ delivery[e].owner = w

\* the check most writes of a worker make: it still owns a live lease
Owns(w) == Mine(w) /\ ~ delivery[hand[w].event].lapsed

Revoked(e) == request[e].primary # "NONE"

\* the committed records that keep the bytes: live ones, and revoked ones under hold
References == {e \in Evidence : capture[e] = "STORED" /\ (Revoked(e) => e \in Held)}

InFlight(e) == capture[e] \in {"WRITTEN", "OPEN"}

\* a capture that ends leaves its file to the orphan grace
LeavesFile(e) == creator' = IF creator = e THEN None ELSE creator

\* the row lock an uncommitted TX-01 holds on content_blob
BlobRowFree == \A e \in Evidence : capture[e] # "OPEN"

RevocationBegun == \E e \in Evidence : revoking[e] # "NONE" \/ Revoked(e)

-----------------------------------------------------------------------------
Init ==
    /\ file = "ABSENT"
    /\ creator = None
    /\ capture = [e \in Evidence |-> "NONE"]
    /\ blob = "NONE"
    /\ revoking = [e \in Evidence |-> "NONE"]
    /\ request = [e \in Evidence |-> NoRequest]
    /\ delivery = [e \in Evidence |-> NoRow]
    /\ hand = [w \in Worker |-> Idle]
    /\ survey = FALSE
    /\ early = {}
    /\ overtaken = {}

(***************************************************************************)
(* Capture.  The file is written first, outside the database; an existing  *)
(* file is verified and kept with its age.                                 *)
(***************************************************************************)
Write(e) ==
    /\ capture[e] = "NONE"
    /\ capture' = [capture EXCEPT ![e] = "WRITTEN"]
    /\ IF file = "ABSENT"
       THEN file' = "FRESH" /\ creator' = e
       ELSE UNCHANGED <<file, creator>>
    /\ UNCHANGED <<historyVars, revoking, rowVars, laneVars, survey>>

\* TX-01 up to its commit: the blob row is inserted or found, and locked by the
\* trigger of evidence_record, which refuses a blob that is being purged
OpenCapture(e) ==
    /\ capture[e] = "WRITTEN"
    /\ BlobRowFree
    /\ blob \in {"NONE", "PRESENT", "ERASED"}
    /\ capture' = [capture EXCEPT ![e] = "OPEN"]
    /\ UNCHANGED <<file, creator, historyVars, revoking, rowVars, laneVars, survey>>

CommitCapture(e) ==
    /\ capture[e] = "OPEN"
    /\ capture' = [capture EXCEPT ![e] = "STORED"]
    /\ blob' = "PRESENT"
    /\ early' = IF RevocationBegun THEN early ELSE early \cup {e}
    /\ overtaken' = IF \E w \in Worker : hand[w].stage = "record"
                    THEN overtaken \cup {e} ELSE overtaken
    /\ LeavesFile(e)
    /\ UNCHANGED <<file, revoking, request, laneVars, survey>>

\* BLOB_PURGE_RACE, a lost connection, a dead process: the file stays
AbortCapture(e) ==
    /\ InFlight(e)
    /\ capture' = [capture EXCEPT ![e] = "NONE"]
    /\ LeavesFile(e)
    /\ UNCHANGED <<file, historyVars, revoking, rowVars, laneVars, survey>>

-----------------------------------------------------------------------------
(* TX-05.  Other references are counted without a lock on the blob row; the *)
(* row is updated, and so waited for, only when none is found.              *)

\* mutant: a request that another reference blocks is pending all the same
DecidedAlone(e) == IF e \in Held THEN "RETENTION_BLOCKED" ELSE "PENDING"

\* mutant: a status the CHECK of the table does not know
DecidedShared(e) ==
    IF References \ {e} # {} THEN "SHARED_REFERENCE" ELSE "PENDING"

Decided(e) ==
    IF e \in Held THEN "RETENTION_BLOCKED"
    ELSE IF References \ {e} # {} THEN "BLOCKED_SHARED_REFERENCE"
    ELSE "PENDING"

BeginRevoke(e) ==
    /\ e \in Revocable
    /\ capture[e] = "STORED"
    /\ ~ Revoked(e)
    /\ revoking[e] = "NONE"
    /\ revoking' = [revoking EXCEPT ![e] = Decided(e)]
    /\ UNCHANGED <<file, captureVars, rowVars, laneVars, survey>>

CommitRevoke(e) ==
    /\ revoking[e] # "NONE"
    /\ revoking[e] = "PENDING" => BlobRowFree
    /\ request' = [request EXCEPT ![e] = [primary |-> revoking[e], derived |-> "PENDING"]]
    /\ revoking' = [revoking EXCEPT ![e] = "NONE"]
    /\ blob' = IF revoking[e] = "PENDING" /\ blob = "PRESENT" THEN "PURGE_PENDING" ELSE blob
    /\ delivery' = [delivery EXCEPT ![e].state = "PENDING"]
    /\ UNCHANGED <<file, captureVars, hand, survey>>

AbortRevoke(e) ==
    /\ revoking[e] # "NONE"
    /\ revoking' = [revoking EXCEPT ![e] = "NONE"]
    /\ UNCHANGED <<file, captureVars, rowVars, laneVars, survey>>

-----------------------------------------------------------------------------
(* The purge lane.                                                         *)

\* the file is unlinked, a scan that is about to look at it will not find it
Unlink ==
    /\ file' = "ABSENT"
    /\ creator' = None
    /\ survey' = FALSE

\* mutant: expired leases are never taken back
AsTheyAre == delivery

Refreshed ==
    [e \in Evidence |-> IF delivery[e].state = "PROCESSING" /\ delivery[e].lapsed
                        THEN Returned(delivery[e]) ELSE delivery[e]]

Available == {e \in Evidence : Refreshed[e].state = "PENDING"}

\* expired leases are taken back also when nothing is left to lease
Lease(w) ==
    /\ hand[w] = Idle
    /\ \/ /\ Available = {}
          /\ delivery' = Refreshed
          /\ UNCHANGED hand
       \/ \E e \in Available :
             /\ delivery' = [Refreshed EXCEPT ![e].state = "PROCESSING",
                                              ![e].attempts = More(@),
                                              ![e].owner = w]
             /\ hand' = [hand EXCEPT ![w] = [event |-> e, stage |-> "leased"]]
    /\ UNCHANGED <<file, captureVars, revoking, rowVars, survey>>

At(w, stage) == hand[w].stage = stage

Go(w, stage) == hand' = [hand EXCEPT ![w].stage = stage]

\* apply_purge_projection, to the count of the references; the deletion request
\* is locked from here to ApplyPurge
CountReferences(w) ==
    /\ At(w, "leased")
    /\ Owns(w)
    /\ \A v \in Worker \ {w} :
          ~ (hand[v].event = hand[w].event /\ hand[v].stage \in {"clear", "shared"})
    /\ Go(w, IF References = {} THEN "clear" ELSE "shared")
    /\ UNCHANGED <<file, captureVars, revoking, rowVars, delivery, survey>>

\* requests that found the bytes shared or in error are all released by the last
Released(r) ==
    /\ r \notin Held
    /\ request[r].primary \in {"BLOCKED_SHARED_REFERENCE", "ERROR", "PENDING"}

ApplyPurge(w) ==
    LET e == hand[w].event
        clear == At(w, "clear")
    IN  /\ At(w, "clear") \/ At(w, "shared")
        /\ clear => BlobRowFree
        /\ request' = [r \in Evidence |->
                         [primary |-> IF clear /\ Released(r)
                                      THEN "PENDING" ELSE request[r].primary,
                          derived |-> IF r = e THEN "COMPLETED" ELSE request[r].derived]]
        /\ blob' = IF clear /\ blob = "PRESENT" THEN "PURGE_PENDING" ELSE blob
        /\ Go(w, IF request'[e].primary = "PENDING" THEN "erase" ELSE "settle")
        /\ UNCHANGED <<file, captureVars, revoking, delivery, survey>>

\* the file store knows nothing of leases and references
Erase(w) ==
    /\ At(w, "erase")
    /\ Unlink
    /\ Go(w, "prove")
    /\ UNCHANGED <<capture, historyVars, revoking, rowVars, delivery>>

\* mutant: the references are not checked again
ProveByLease(w) ==
    /\ At(w, "prove")
    /\ Owns(w)
    /\ overtaken' = {}
    /\ Go(w, "record")
    /\ UNCHANGED <<file, capture, creator, early, revoking, rowVars, delivery, survey>>

\* complete_blob_erasure, to the check of the references, which locks nothing
ProveUnreferenced(w) ==
    /\ At(w, "prove")
    /\ Owns(w)
    /\ References = {}
    /\ overtaken' = {}
    /\ Go(w, "record")
    /\ UNCHANGED <<file, capture, creator, early, revoking, rowVars, delivery, survey>>

\* mutant: the proof counts for the request of the event alone
ProvedOwn(w, r) == r = hand[w].event

\* the proof of absence counts for every clear request on the content
Proved(w, r) == Revoked(r) /\ r \notin Held

\* its next statement waits for the blob row and looks at nothing but its state
CompleteErasure(w) ==
    /\ At(w, "record")
    /\ BlobRowFree
    /\ blob \in {"PURGE_PENDING", "ERASED"}
    /\ blob' = "ERASED"
    /\ request' = [r \in Evidence |->
                     IF Proved(w, r)
                     THEN [request[r] EXCEPT !.primary = "ERASED"] ELSE request[r]]
    /\ Go(w, "settle")
    /\ UNCHANGED <<file, captureVars, revoking, delivery, survey>>

Complete(w) ==
    /\ At(w, "settle")
    /\ Owns(w)
    /\ delivery' = [delivery EXCEPT ![hand[w].event].state = "DELIVERED",
                                    ![hand[w].event].owner = None]
    /\ hand' = [hand EXCEPT ![w] = Idle]
    /\ UNCHANGED <<file, captureVars, revoking, rowVars, survey>>

\* the erasure raised, perhaps after the unlink, or the database refused to record
\* it; the request is told whoever holds the lease by now
RecordError(w) ==
    /\ \/ At(w, "erase") /\ Unlink
       \/ hand[w].stage \in {"erase", "prove", "record"} /\ UNCHANGED <<file, creator, survey>>
    /\ request' = [request EXCEPT ![hand[w].event].primary =
                                     IF @ = "PENDING" THEN "ERROR" ELSE @]
    /\ Go(w, "failing")
    /\ UNCHANGED <<capture, historyVars, revoking, blob, delivery>>

\* fail_projection_event: a parked purge shows on its deletion request
Fail(w) ==
    LET e == hand[w].event
    IN  /\ hand[w].stage \in {"leased", "clear", "shared", "settle", "failing"}
        /\ Mine(w)
        /\ delivery' = [delivery EXCEPT ![e] = Returned(@)]
        /\ request' = [request EXCEPT ![e].derived =
                         IF delivery'[e].state = "DEAD_LETTER" THEN "DEAD_LETTER" ELSE @]
        /\ hand' = [hand EXCEPT ![w] = Idle]
        /\ UNCHANGED <<file, captureVars, revoking, blob, survey>>

\* LEASE_LOST: somebody else has the event now, the worker lets go of it
LetGo(w) ==
    /\ \/ hand[w].stage \in {"leased", "prove", "settle"} /\ ~ Owns(w)
       \/ hand[w].stage \in {"clear", "shared", "failing"} /\ ~ Mine(w)
    /\ hand' = [hand EXCEPT ![w] = Idle]
    /\ UNCHANGED <<file, captureVars, revoking, rowVars, delivery, survey>>

Retry(e) ==
    /\ delivery[e].state = "DEAD_LETTER"
    /\ delivery' = [delivery EXCEPT ![e].state = "PENDING"]
    /\ request' = [request EXCEPT ![e].derived = "PENDING"]
    /\ UNCHANGED <<file, captureVars, revoking, blob, hand, survey>>

-----------------------------------------------------------------------------
(* A starting worker reads the references, takes the cutoff, and erases      *)
(* files older than it that no content_blob row names.                      *)

Survey ==
    /\ blob = "NONE"
    /\ file = "AGED"
    /\ ~ survey
    /\ survey' = TRUE
    /\ UNCHANGED <<file, captureVars, revoking, rowVars, laneVars>>

Collect ==
    /\ survey
    /\ Unlink
    /\ UNCHANGED <<capture, historyVars, revoking, rowVars, laneVars>>

(* The environment: time passes, a process dies.                            *)

\* the grace covers the capture that created the file, not one that found it in place
FileAges ==
    /\ file = "FRESH"
    /\ creator = None
    /\ file' = "AGED"
    /\ UNCHANGED <<captureVars, revoking, rowVars, laneVars, survey>>

Lapse(e) ==
    /\ delivery[e].state = "PROCESSING"
    /\ ~ delivery[e].lapsed
    /\ delivery' = [delivery EXCEPT ![e].lapsed = TRUE]
    /\ UNCHANGED <<file, captureVars, revoking, rowVars, hand, survey>>

\* the process that takes the place of w has a fresh worker_id
Crash(w) ==
    /\ hand[w] # Idle
    /\ hand' = [hand EXCEPT ![w] = Idle]
    /\ delivery' = [e \in Evidence |->
                      IF delivery[e].owner = w
                      THEN [delivery[e] EXCEPT !.owner = None] ELSE delivery[e]]
    /\ UNCHANGED <<file, captureVars, revoking, rowVars, survey>>

-----------------------------------------------------------------------------
Work(w) ==
    \/ CountReferences(w)
    \/ ApplyPurge(w)
    \/ Erase(w)
    \/ ProveUnreferenced(w)
    \/ CompleteErasure(w)
    \/ Complete(w)
    \/ RecordError(w)
    \/ Fail(w)
    \/ LetGo(w)

Next ==
    \/ \E e \in Evidence : \/ Write(e)
                           \/ OpenCapture(e)
                           \/ CommitCapture(e)
                           \/ AbortCapture(e)
                           \/ BeginRevoke(e)
                           \/ CommitRevoke(e)
                           \/ AbortRevoke(e)
                           \/ Retry(e)
                           \/ Lapse(e)
    \/ \E w \in Worker : Lease(w) \/ Work(w) \/ Crash(w)
    \/ Survey
    \/ Collect
    \/ FileAges

Spec == Init /\ [][Next]_vars

(***************************************************************************)
(* A worker keeps polling and goes on with what it leased, leases lapse,   *)
(* and a transaction that was begun ends.  Nothing is assumed of stewards, *)
(* captures, or of the success of an erasure: the limit on attempts ends   *)
(* every streak of failures.                                               *)
(***************************************************************************)
Fairness ==
    /\ WF_vars(\E w \in Worker : Lease(w) \/ Work(w))
    /\ WF_vars(\E e \in Evidence : Lapse(e))
    /\ WF_vars(\E e \in Evidence : CommitCapture(e) \/ AbortCapture(e))

FairSpec == Spec /\ Fairness

-----------------------------------------------------------------------------
(* Properties.                                                             *)

\* The rows have the shape of the schemas of migrations 0003, 0006 and 0007.
TypeOK ==
    /\ file \in {"ABSENT", "FRESH", "AGED"}
    /\ creator \in Evidence \cup {None}
    /\ capture \in [Evidence -> {"NONE", "WRITTEN", "OPEN", "STORED"}]
    /\ blob \in {"NONE", "PRESENT", "PURGE_PENDING", "ERASED"}
    /\ revoking \in [Evidence -> {"NONE", "PENDING", "BLOCKED_SHARED_REFERENCE",
                                  "RETENTION_BLOCKED"}]
    /\ request \in [Evidence -> Request]
    /\ delivery \in [Evidence -> Row]
    /\ hand \in [Worker -> [event : Evidence \cup {None},
                            stage : {"idle", "leased", "clear", "shared", "erase",
                                     "prove", "record", "settle", "failing"}]]
    /\ survey \in BOOLEAN
    /\ early \subseteq Evidence
    /\ overtaken \subseteq Evidence

\* a step of a worker takes the file away; the orphan collector is nobody's hand
PurgeUnlinks == file # "ABSENT" /\ file' = "ABSENT" /\ hand' # hand

\* Revoking one of the records that share a content never costs another one its
\* bytes: the purge lane does not unlink what a record still refers to, live or under
\* legal hold, that was captured before the first revocation began (ADR-007), whatever
\* zombie workers, failed erasures and further captures do.
SharedBytesKept == [][PurgeUnlinks => early \cap References = {}]_vars

\* The database does not say ERASED of a content that a record still refers to, but
\* for a capture that commits between the check of the references and the lock of the
\* blob row.  The state of the row, found PURGE_PENDING or ERASED under the lock, keeps
\* all but one such capture out: that of a third record, when another worker has erased
\* the content meanwhile and the second is revoked as the third commits.
ErasedUnreferenced == blob = "ERASED" => References \subseteq overtaken

\* The last revocation carries the earlier ones with it: when every purge is
\* delivered and no record refers to the content, no clear request is left behind,
\* even if each TX-05 took the other's record for live.
NoRequestForgotten ==
    /\ \A e \in Evidence : delivery[e].state \in {"NONE", "DELIVERED"}
    /\ References = {}
    => \A e \in Evidence : Revoked(e) /\ e \notin Held => request[e].primary = "ERASED"

Settled(e) ==
    \/ request[e].primary = "ERASED"
    \/ References # {}
    \/ \E d \in Evidence : delivery[d].state = "DEAD_LETTER"

\* Revoked content is erased in the end, unless a record refers to it or a purge is
\* parked as a dead letter, across failed erasures, crashed workers and workers that
\* outlive their leases.  A revocation is never withdrawn, so that all are settled again
\* and again means that each is.
RevokedBytesGo == []<>(\A e \in Evidence : Revoked(e) => Settled(e))

-----------------------------------------------------------------------------
(* Properties the documentation states and the code does not have.         *)

\* A live evidence record can be read: its bytes are in the store.  The orphan
\* collector claims to spare captures in flight (blob_store.py:199).
LiveEvidenceHasBytes ==
    \A e \in Evidence : capture[e] = "STORED" /\ ~ Revoked(e) => file # "ABSENT"

=============================================================================
