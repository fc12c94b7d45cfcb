-------------------------- MODULE IdempotentWrites --------------------------
(***************************************************************************)
(* The transactions by which a host writes under an operation id, on the   *)
(* connections of the API process: write_host_note,                        *)
(* update_host_cognitive_state and create_operation_proposal.  A host that *)
(* loses an answer sends the same call again, perhaps while the first is   *)
(* still running, and other hosts write to the same records.  A call goes  *)
(* through stages under the row locks of the database, READ COMMITTED:     *)
(*                                                                         *)
(*   idempotency row                Begin                                  *)
(*   note head, its sources         CheckNote                              *)
(*   working state of a scope       SeekState, FindState, InsertState,     *)
(*                                  CheckState                             *)
(*   proposal                       CheckProposal, InsertReceipt           *)
(*   end of the transaction         Commit, CommitStale, Abort             *)
(*                                                                         *)
(* A check that fails raises an error, which is an Abort: it leaves        *)
(* nothing, not even the idempotency row.  A call whose operation id has a *)
(* receipt is answered from it, or refused as a conflict when its request  *)
(* differs, and changes nothing either way: such calls do not appear.      *)
(* Working states are those of one actor, project and scope, proposals     *)
(* those about one claim.                                                  *)
(***************************************************************************)
EXTENDS WriteRequests, Sequences, FiniteSets

CONSTANTS
    Conn,       \* database connections
    Workloads   \* sets of operation ids, one of which is offered

ASSUME WorkloadsAssumption == Workloads \subseteq SUBSET Key

VARIABLES
    offered,    \* the operation ids hosts use
    receipt,    \* idempotency_record with a response, None without
    chain,      \* committed versions of a record
    standing,   \* its lifecycle
    lapsed,     \* working states whose expires_at has passed
    claim,      \* number of commits to the claim
    revoked,    \* evidence_record.revoked_at is set
    call        \* what a connection is at

storeVars == <<receipt, chain, standing, lapsed>>
worldVars == <<claim, revoked>>
vars == <<offered, storeVars, worldVars, call>>

-----------------------------------------------------------------------------
Idle == [stage |-> "idle"]

Stage == {"keyed", "seeking", "absent", "checked", "ready", "stale"}

\* head is the row a call has locked, or looks for while it is seeking; late
\* are the working states lapsed at its CURRENT_TIMESTAMP, when it began
Call == [stage : Stage, key : Key, request : Request,
         head : Key \cup {None}, late : SUBSET StateKey]

Standing == {"NONE", "ACTIVE", "EXPIRED", "DELETED", "PENDING_REVIEW", "ACCEPTED"}

At(c, stage, op) == call[c].stage = stage /\ call[c].request.op = op

Moves(c, stage, head) ==
    /\ call' = [call EXCEPT ![c].stage = stage, ![c].head = head]
    /\ UNCHANGED <<offered, storeVars, worldVars>>

Active == {r \in StateKey : standing[r] = "ACTIVE"}

\* the sources of the next version: those named, or those of the previous one
Cited(q) ==
    IF q.op = "DELETE" THEN {}
    ELSE IF q.cites = None THEN chain[q.target][Len(chain[q.target])].cites
    ELSE q.cites

\* mutant: no idempotency row is inserted before the work is done
KeyUnclaimed(c, k) == FALSE

\* the uncommitted idempotency row of another connection: INSERT waits for it
KeyHeld(c, k) == \E d \in Conn \ {c} : call[d].stage # "idle" /\ call[d].key = k

\* mutant: the row is read without FOR UPDATE
HeadUnlocked(c, r) == FALSE

\* another connection holds the row of the record
HeadHeld(c, r) ==
    \E d \in Conn \ {c} : call[d].stage \in {"absent", "ready", "stale"} /\ call[d].head = r

\* another connection has an uncommitted entry in uq_host_cognitive_active_binding,
\* or has taken one away
IndexHeld(c) ==
    \E d \in Conn \ {c} :
        \/ At(d, "ready", "CREATE")
        \/ At(d, "absent", "CREATE") /\ call[d].head # None

\* mutant: the sources of a note are checked and not locked
SourceUnlocked(e) == FALSE

\* the evidence a note is about to cite is locked FOR SHARE
SourceHeld(e) ==
    \E c \in Conn : /\ call[c].stage = "ready"
                    /\ call[c].request.op \in {"ADD", "UPDATE"}
                    /\ e \in Cited(call[c].request)

-----------------------------------------------------------------------------
Init ==
    /\ offered \in Workloads
    /\ receipt = [k \in Key |-> None]
    /\ chain = [k \in Key |-> <<>>]
    /\ standing = [k \in Key |-> "NONE"]
    /\ lapsed = {}
    /\ claim = 0
    /\ revoked = {}
    /\ call = [c \in Conn |-> Idle]

\* the versions a host may have read
Readable(q) ==
    IF q.op = "PROPOSE" THEN q.expected <= claim
    ELSE q.target # None => q.expected <= Len(chain[q.target])

\* notes and states claim the idempotency row at once; a proposal only looks
\* for a receipt, without waiting for a call that is under way
Begin(c, k, q) ==
    /\ call[c].stage = "idle"
    /\ k \in offered
    /\ receipt[k] = None
    /\ Readable(q)
    /\ k \notin ProposalKey => ~ KeyHeld(c, k)
    /\ call' = [call EXCEPT ![c] = [stage |-> "keyed", key |-> k, request |-> q,
                                    head |-> None, late |-> lapsed]]
    /\ UNCHANGED <<offered, storeVars, worldVars>>

CheckNote(c) ==
    LET q == call[c].request
    IN  /\ call[c].stage = "keyed"
        /\ q.op \in {"ADD", "UPDATE", "DELETE"}
        /\ q.op # "ADD" => /\ ~ HeadHeld(c, q.target)
                           /\ standing[q.target] = "ACTIVE"
                           /\ Len(chain[q.target]) = q.expected
        /\ Cited(q) \cap revoked = {}
        /\ Moves(c, "ready", q.target)

\* a lapsed state gives way to the new one, another one is looked at next
SeekState(c) ==
    /\ At(c, "keyed", "CREATE")
    /\ \/ \E r \in Active \cap call[c].late : ~ HeadHeld(c, r) /\ Moves(c, "absent", r)
       \/ /\ Active \cap call[c].late = {}
          /\ \E r \in Active : Moves(c, "seeking", r)
       \/ Active = {} /\ Moves(c, "absent", None)

\* the row found is locked and looked at again; one that came after it was found
\* is not seen
FindState(c) ==
    /\ At(c, "seeking", "CREATE")
    /\ ~ HeadHeld(c, call[c].head)
    /\ IF call[c].head \in Active THEN Moves(c, "stale", call[c].head)
                                  ELSE Moves(c, "absent", None)

\* mutant: there is no unique index on the active states of a scope
InsertUnindexed(c) ==
    /\ At(c, "absent", "CREATE")
    /\ call[c].request.cites \cap revoked = {}
    /\ Moves(c, "ready", call[c].head)

\* the unique index refuses a second active state
InsertState(c) ==
    /\ At(c, "absent", "CREATE")
    /\ ~ IndexHeld(c)
    /\ Active \subseteq {call[c].head}
    /\ call[c].request.cites \cap revoked = {}
    /\ Moves(c, "ready", call[c].head)

CheckState(c) ==
    LET q == call[c].request
    IN  /\ At(c, "keyed", "REPLACE")
        /\ ~ HeadHeld(c, q.target)
        /\ q.target \in Active \ call[c].late
        /\ \/ Len(chain[q.target]) # q.expected /\ Moves(c, "stale", q.target)
           \/ /\ Len(chain[q.target]) = q.expected
              /\ q.cites \cap revoked = {}
              /\ Moves(c, "ready", q.target)

\* nothing is locked: the claim may move on and the evidence be revoked
CheckProposal(c) ==
    /\ At(c, "keyed", "PROPOSE")
    /\ call[c].request.expected = claim
    /\ call[c].request.cites \cap revoked = {}
    /\ Moves(c, "checked", None)

InsertReceipt(c) ==
    LET k == call[c].key
    IN  /\ At(c, "checked", "PROPOSE")
        /\ ~ \E d \in Conn \ {c} : At(d, "ready", "PROPOSE") /\ call[d].key = k
        /\ receipt[k] = None
        /\ Moves(c, "ready", None)

-----------------------------------------------------------------------------
Recorded(c, status, version) ==
    receipt' = [receipt EXCEPT ![call[c].key] =
        [request |-> call[c].request, status |-> status, version |-> version]]

\* mutant: a status the CHECK of operation_proposal does not know
NewStandingPlain(q) == IF q.op = "DELETE" THEN "DELETED"
                       ELSE IF q.op = "PROPOSE" THEN "PENDING" ELSE "ACTIVE"

NewStanding(q) ==
    CASE q.op = "DELETE" -> "DELETED"
      [] q.op = "PROPOSE" -> "PENDING_REVIEW"
      [] OTHER -> "ACTIVE"

\* a state replaced is good for another term, for the calls under way too
Renewed(q) == IF q.op = "REPLACE" THEN {q.target} ELSE {}

Commit(c) ==
    LET q == call[c].request
        r == Subject(call[c].key, q)
    IN  /\ call[c].stage = "ready"
        /\ chain' = [chain EXCEPT ![r] =
                        Append(@, [by |-> call[c].key, cites |-> Cited(q)])]
        /\ standing' = [k \in Key |->
                            IF k = r THEN NewStanding(q)
                            ELSE IF q.op = "CREATE" /\ k = call[c].head THEN "EXPIRED"
                            ELSE standing[k]]
        /\ lapsed' = lapsed \ Renewed(q)
        /\ Recorded(c, "DONE", Len(chain[r]) + 1)
        /\ call' = [d \in Conn |->
                        IF d = c THEN Idle
                        ELSE IF call[d].stage = "idle" THEN Idle
                        ELSE [call[d] EXCEPT !.late = @ \ Renewed(q)]]
        /\ UNCHANGED <<offered, worldVars>>

\* being stale is an answer, and is put on record
CommitStale(c) ==
    /\ call[c].stage = "stale"
    /\ Recorded(c, "STALE", Len(chain[call[c].head]))
    /\ call' = [call EXCEPT ![c] = Idle]
    /\ UNCHANGED <<offered, chain, standing, lapsed, worldVars>>

\* an error, a lost connection or a crash of the process
Abort(c) ==
    /\ call[c].stage # "idle"
    /\ call' = [call EXCEPT ![c] = Idle]
    /\ UNCHANGED <<offered, storeVars, worldVars>>

-----------------------------------------------------------------------------
Lapse(r) ==
    /\ r \in Active \ lapsed
    /\ lapsed' = lapsed \cup {r}
    /\ UNCHANGED <<offered, receipt, chain, standing, worldVars, call>>

\* a steward commits a proposal, which compares the claim again
Review(k) ==
    /\ standing[k] = "PENDING_REVIEW"
    /\ receipt[k].request.expected = claim
    /\ standing' = [standing EXCEPT ![k] = "ACCEPTED"]
    /\ claim' = claim + 1
    /\ UNCHANGED <<offered, receipt, chain, lapsed, revoked, call>>

Revoke(e) ==
    /\ e \notin revoked
    /\ ~ SourceHeld(e)
    /\ revoked' = revoked \cup {e}
    /\ UNCHANGED <<offered, storeVars, claim, call>>

Next ==
    \/ \E c \in Conn :
        \/ \E k \in Key : \E q \in Requests(k) : Begin(c, k, q)
        \/ CheckNote(c)
        \/ SeekState(c)
        \/ FindState(c)
        \/ InsertState(c)
        \/ CheckState(c)
        \/ CheckProposal(c)
        \/ InsertReceipt(c)
        \/ Commit(c)
        \/ CommitStale(c)
        \/ Abort(c)
    \/ \E r \in StateKey : Lapse(r)
    \/ \E k \in ProposalKey : Review(k)
    \/ \E e \in Evidence : Revoke(e)

Spec == Init /\ [][Next]_vars

-----------------------------------------------------------------------------
TypeOK ==
    /\ offered \in Workloads
    /\ receipt \in [Key -> Receipt \cup {None}]
    /\ chain \in [Key -> Seq([by : Key, cites : SUBSET Evidence])]
    /\ standing \in [Key -> Standing]
    /\ lapsed \subseteq StateKey
    /\ claim \in Nat
    /\ revoked \subseteq Evidence
    /\ call \in [Conn -> Call \cup {Idle}]

(* However often a call is repeated, and however its attempts overlap, its  *)
(* operation id stands behind at most one version, and its receipt names    *)
(* that version: the answer a host gets late is the answer to what it did.  *)
EffectOnce ==
    \A r \in Key : \A i \in DOMAIN chain[r] :
        LET done == receipt[chain[r][i].by]
        IN  /\ done # None
            /\ done.status = "DONE"
            /\ done.version = i
            /\ Subject(chain[r][i].by, done.request) = r

(* No update is lost: a later version of a note or a state was written by   *)
(* a host that had read the version before it, whoever else was writing.    *)
NoLostUpdate ==
    \A r \in Key : \A i \in DOMAIN chain[r] :
        i > 1 => receipt[chain[r][i].by].request.expected = i - 1

(* A scope has one active working state, though each host looks first and   *)
(* inserts later, and a lapsed state makes room for one new state only.     *)
OneActiveState == Cardinality(Active) <= 1

\* the refinement mapping: the current version of each record, and what it cites
Versions == [k \in Key |-> Len(chain[k])]

Rests == [k \in Key |-> IF chain[k] = <<>> THEN {} ELSE chain[k][Len(chain[k])].cites]

Atomic == INSTANCE AtomicWrites WITH version <- Versions, rests <- Rests

(* The transactions implement the atomic writes: seen through the committed *)
(* rows, every call is one step on the state of that moment.                *)
ImplementsAtomicWrites == Atomic!Spec
=============================================================================
