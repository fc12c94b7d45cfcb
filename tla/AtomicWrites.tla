---------------------------- MODULE AtomicWrites ----------------------------
(***************************************************************************)
(* What the idempotent writes promise.  An operation id takes effect at    *)
(* most once, in a single step, and on the state of that step: it replaces *)
(* the version its host had read, a note rests on evidence that stands, a  *)
(* scope has one working state.  Its receipt is final, also a refusal for  *)
(* being stale that was put on record.  Connections, locks, retries and    *)
(* lost answers do not appear.                                             *)
(***************************************************************************)
EXTENDS WriteRequests

VARIABLES
    receipt,    \* what an operation id has led to, None while it has not
    version,    \* current version of a record, 0 before it exists
    standing,   \* what has become of a record
    rests,      \* the evidence the current version names
    lapsed,     \* working states that have outlived their time
    claim,      \* version of the claim
    revoked

vars == <<receipt, version, standing, rests, lapsed, claim, revoked>>

Init ==
    /\ receipt = [k \in Key |-> None]
    /\ version = [r \in Key |-> 0]
    /\ standing = [r \in Key |-> "NONE"]
    /\ rests = [r \in Key |-> {}]
    /\ lapsed = {}
    /\ claim = 0
    /\ revoked = {}

Fresh(k) == receipt[k] = None

Conclude(k, q, status, n) ==
    receipt' = [receipt EXCEPT ![k] = [request |-> q, status |-> status, version |-> n]]

\* a new version of record r that names the evidence S
Supersede(k, q, r, S) ==
    /\ Conclude(k, q, "DONE", version[r] + 1)
    /\ version' = [version EXCEPT ![r] = @ + 1]
    /\ rests' = [rests EXCEPT ![r] = S]
    /\ UNCHANGED <<claim, revoked>>

AddNote(k, q) ==
    /\ q.op = "ADD"
    /\ version[k] = 0
    /\ q.cites \cap revoked = {}
    /\ Supersede(k, q, k, q.cites)
    /\ standing' = [standing EXCEPT ![k] = "ACTIVE"]
    /\ UNCHANGED lapsed

UpdateNote(k, q) ==
    LET S == IF q.cites = None THEN rests[q.target] ELSE q.cites
    IN  /\ q.op = "UPDATE"
        /\ standing[q.target] = "ACTIVE"
        /\ version[q.target] = q.expected
        /\ S \cap revoked = {}
        /\ Supersede(k, q, q.target, S)
        /\ UNCHANGED <<standing, lapsed>>

DeleteNote(k, q) ==
    /\ q.op = "DELETE"
    /\ standing[q.target] = "ACTIVE"
    /\ version[q.target] = q.expected
    /\ Supersede(k, q, q.target, {})
    /\ standing' = [standing EXCEPT ![q.target] = "DELETED"]
    /\ UNCHANGED lapsed

Active == {r \in StateKey : standing[r] = "ACTIVE"}

\* the scope has no working state, or one that has lapsed and gives way
CreateState(k, q) ==
    /\ q.op = "CREATE"
    /\ version[k] = 0
    /\ Active \subseteq lapsed
    /\ Supersede(k, q, k, q.cites)
    /\ standing' = [r \in Key |-> IF r = k THEN "ACTIVE"
                                        ELSE IF r \in Active THEN "EXPIRED"
                                        ELSE standing[r]]
    /\ UNCHANGED lapsed

ReplaceState(k, q) ==
    /\ q.op = "REPLACE"
    /\ standing[q.target] = "ACTIVE"
    /\ version[q.target] = q.expected
    /\ Supersede(k, q, q.target, q.cites)
    /\ lapsed' = lapsed \ {q.target}
    /\ UNCHANGED standing

\* the host expected another version, or none, and that is put on record
FindStale(k, q) ==
    /\ q.op \in {"CREATE", "REPLACE"}
    /\ \E r \in Active : /\ q.op = "REPLACE" => r = q.target
                         /\ version[r] # q.expected
                         /\ Conclude(k, q, "STALE", version[r])
    /\ UNCHANGED <<version, standing, rests, lapsed, claim, revoked>>

\* a proposal is checked against the claim again when it is reviewed
Propose(k, q) ==
    /\ q.op = "PROPOSE"
    /\ version[k] = 0
    /\ q.expected <= claim
    /\ Supersede(k, q, k, q.cites)
    /\ standing' = [standing EXCEPT ![k] = "PENDING_REVIEW"]
    /\ UNCHANGED lapsed

Execute(k) ==
    /\ Fresh(k)
    /\ \E q \in Requests(k) :
        \/ AddNote(k, q)
        \/ UpdateNote(k, q)
        \/ DeleteNote(k, q)
        \/ CreateState(k, q)
        \/ ReplaceState(k, q)
        \/ FindStale(k, q)
        \/ Propose(k, q)

Lapse(r) ==
    /\ r \in Active \ lapsed
    /\ lapsed' = lapsed \cup {r}
    /\ UNCHANGED <<receipt, version, standing, rests, claim, revoked>>

Review(k) ==
    /\ standing[k] = "PENDING_REVIEW"
    /\ receipt[k].request.expected = claim
    /\ standing' = [standing EXCEPT ![k] = "ACCEPTED"]
    /\ claim' = claim + 1
    /\ UNCHANGED <<receipt, version, rests, lapsed, revoked>>

Revoke(e) ==
    /\ e \notin revoked
    /\ revoked' = revoked \cup {e}
    /\ UNCHANGED <<receipt, version, standing, rests, lapsed, claim>>

Next ==
    \/ \E k \in Key : Execute(k)
    \/ \E r \in StateKey : Lapse(r)
    \/ \E k \in ProposalKey : Review(k)
    \/ \E e \in Evidence : Revoke(e)

Spec == Init /\ [][Next]_vars

=============================================================================
