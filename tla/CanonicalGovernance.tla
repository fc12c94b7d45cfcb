------------------------ MODULE CanonicalGovernance ------------------------
(***************************************************************************)
(* The canonical store of MiLAi: claims, their versions and groundings,    *)
(* open issues, operation proposals and the steward transactions that are  *)
(* the only writers of them.  The source is the PL/pgSQL of the runtime    *)
(* migrations, in the form migration 0056 leaves it:                       *)
(*                                                                         *)
(*   create_operation_proposal   0015, 0046    SubmitProposal              *)
(*   review_operation_proposal   0005, 0015    BeginReview, LockHead,      *)
(*                                             Approve*, Reject            *)
(*   tx05_revoke_evidence        0006, 0016    BeginRevoke, CommitRevoke   *)
(*                                                                         *)
(* Every transaction runs READ COMMITTED, so what a review has checked may *)
(* be stale when it writes.  A review is therefore three steps (checks,    *)
(* claim head locked, commit) and a revocation two (evidence row locked    *)
(* and sequence taken, commit); other transactions interleave between      *)
(* them, except where a row lock of the code keeps them out.               *)
(*                                                                         *)
(* A version and an issue are named by the proposal whose approval         *)
(* inserts them: the code gives each a fresh uuid, at most one per         *)
(* proposal.                                                               *)
(***************************************************************************)
EXTENDS Integers, FiniteSets

CONSTANTS
    Claim,      \* natural keys (subject, predicate, type) of claims
    Evidence,   \* captured evidence records
    Readable,   \* those retained READABLE with a readable permission snapshot
    Proposal,   \* identities of operation proposals
    Ops,        \* the operations proposals may ask for
    Cited,      \* the sets of evidence references a proposal may cite
    MaxSeq,     \* bound on canonical_commit_seq
    None        \* SQL NULL

ASSUME ReadableAssumption == Readable \subseteq Evidence
ASSUME CitedAssumption == Cited \subseteq SUBSET Evidence
ASSUME NoneAssumption == None \notin Proposal
ASSUME IdentityAssumption == Proposal \cap Evidence = {}
ASSUME MaxSeqAssumption == MaxSeq \in Nat
ASSUME OpsAssumption ==
    Ops \subseteq {"CREATE", "REVISE", "REGROUND", "RESOLVE", "CONTRADICT", "NO_CHANGE"}

VARIABLES
    status,     \* operation_proposal.status, "NONE" before the insert
    body,       \* operation_proposal: what is proposed
    phase,      \* how far the open review transaction of a proposal is
    ticket,     \* the canonical_commit_seq a review drew, 0 for none
    number,     \* claim_version.version_number, 0 for no such version
    head,       \* claim_head.current_claim_version_id
    active,     \* grounding_block rows with active, as <<version, evidence>>
    released,   \* grounding_block rows released by a REGROUND
    issue,      \* open_issue rows
    relation,   \* grounding_relation rows owned by issues
    history,    \* open_issue_transition rows
    revoking,   \* the sequence drawn by an open TX-05, 0 for none
    revokedAt,  \* the sequence of the TX-05 that revoked evidence, 0 if live
    outbox,     \* outbox_event rows
    commitSeq   \* the last value of the sequence canonical_commit_seq

beliefVars == <<number, head, active, released>>
issueVars == <<issue, relation, history>>
reviewVars == <<status, body, phase, ticket>>
revokeVars == <<revoking, revokedAt>>
vars == <<beliefVars, issueVars, reviewVars, revokeVars, outbox, commitSeq>>

-----------------------------------------------------------------------------
(* Shapes of the rows.  SUPPORT, WEAKEN, REVALIDATE, CONTEXTUALIZE and a    *)
(* SUPERSEDE without resolve_issue_id differ only in the payload they write *)
(* and are one operation here, REVISE; RESOLVE is the SUPERSEDE that names  *)
(* an issue.                                                                *)

VersionOps == {"CREATE", "REVISE", "REGROUND", "RESOLVE"}
Live == {"OPEN", "WAITING_EVIDENCE"}
IssueStatus == Live \cup {"NONE", "RESOLVED"}

Body == [op : Ops, claim : Claim, expected : Proposal \cup {None},
         support : SUBSET Evidence, contradict : SUBSET Evidence,
         issue : Proposal \cup {None}, issueRevision : Nat, discharges : BOOLEAN]

Issue == [status : IssueStatus, revision : Nat, resolvedBy : Proposal \cup {None}]

NoIssue == [status |-> "NONE", revision |-> 0, resolvedBy |-> None]

Relation == [issue : Proposal, evidence : Evidence, by : Proposal,
             type : {"SUPPORT_BRANCH", "CONTRADICT_BRANCH", "RESOLUTION_CANDIDATE"}]

Transition == [issue : Proposal, revision : Nat, from : IssueStatus,
               to : IssueStatus, seq : Nat]

Event == [event : {"PROPOSAL_CREATED", "PROPOSAL_REJECTED", "CLAIM_VERSION_COMMITTED",
                   "OPEN_ISSUE_CHANGED", "NO_CHANGE_RECORDED",
                   "EVIDENCE_REVOKED", "PURGE_EVIDENCE_DERIVATIVES"},
          subject : Proposal \cup Evidence, seq : Nat]

\* mutant: the event does not carry the sequence of its transaction
AnnounceUnnumbered(type, subject, n) ==
    outbox' = outbox \cup {[event |-> type, subject |-> subject, seq |-> 0]}

Announce(type, subject, n) ==
    outbox' = outbox \cup {[event |-> type, subject |-> subject, seq |-> n]}

-----------------------------------------------------------------------------
(* What the procedures read.                                               *)

\* evidence_refs_admissible: every reference is live and readable; no row lock
Admissible(E) ==
    /\ E # {}
    /\ E \subseteq Readable
    /\ \A e \in E : revokedAt[e] = 0

\* the SUPPORTS relations of a version are its proposal's supporting references
Grounding(v) == IF number[v] > 0 THEN body[v].support ELSE {}

Blocked(v) == \E e \in Evidence : <<v, e>> \in active

LiveIssues(c) == {i \in Proposal : issue[i].status \in Live /\ body[i].claim = c}

\* the ON CONFLICT DO NOTHING insert of issue groundings: one row per evidence and type
NewRelations(p, i, E, type) ==
    {[issue |-> i, evidence |-> e, by |-> p, type |-> type] :
        e \in {x \in E : ~ \E r \in relation :
                            r.issue = i /\ r.evidence = x /\ r.type = type}}

\* an insert that references evidence waits for a TX-05 that holds its row
RowsFree(E) == \A e \in E : revoking[e] = 0

\* mutant: claim_head is read without FOR UPDATE
HeadUnlocked(c, p) == TRUE

\* the row lock on claim_head, held from LockHead to the end of the review
HeadFree(c, p) == \A q \in Proposal \ {p} : ~ (phase[q] = "locked" /\ body[q].claim = c)

\* mutant: only the branches are looked up
DischargeUnchecked(p) ==
    \A t \in {"SUPPORT_BRANCH", "CONTRADICT_BRANCH"} :
       \E r \in relation : r.issue = body[p].issue /\ r.type = t

\* the discharge rule of the issue: authority, scope, kinds and sources are
\* body.discharges, the branches are looked up in the issue's groundings
DischargeMet(p) ==
    /\ body[p].discharges
    /\ \A t \in {"SUPPORT_BRANCH", "CONTRADICT_BRANCH"} :
          \E r \in relation : r.issue = body[p].issue /\ r.type = t

\* mutant: the compare-and-set of the issue forgets its revision
IssueStillLive(p) == issue[body[p].issue].status \in Live

IssueExpected(p) ==
    /\ issue[body[p].issue].status \in Live
    /\ issue[body[p].issue].revision = body[p].issueRevision

-----------------------------------------------------------------------------
Init ==
    /\ status = [p \in Proposal |-> "NONE"]
    /\ body = [p \in Proposal |-> None]
    /\ phase = [p \in Proposal |-> "idle"]
    /\ ticket = [p \in Proposal |-> 0]
    /\ number = [p \in Proposal |-> 0]
    /\ head = [c \in Claim |-> None]
    /\ active = {}
    /\ released = {}
    /\ issue = [p \in Proposal |-> NoIssue]
    /\ relation = {}
    /\ history = {}
    /\ revoking = [e \in Evidence |-> 0]
    /\ revokedAt = [e \in Evidence |-> 0]
    /\ outbox = {}
    /\ commitSeq = 0

(***************************************************************************)
(* create_operation_proposal.  A CREATE names no version, every other      *)
(* operation the version its author saw at the head.  A RESOLVE names an   *)
(* issue of the claim and the revision its author saw.  References that an *)
(* operation never writes are left empty.                                  *)
(***************************************************************************)
AdmissibleSets == {E \in Cited : Admissible(E)}

SupportOf(op) ==
    IF op \in VersionOps THEN AdmissibleSets
    ELSE IF op = "CONTRADICT" THEN Cited ELSE {{}}

ContradictOf(op) == IF op = "CONTRADICT" THEN AdmissibleSets ELSE {{}}

IssueOf(op, c) ==
    IF op = "RESOLVE"
    THEN {i \in Proposal : issue[i].status # "NONE" /\ body[i].claim = c}
    ELSE {None}

DischargesOf(op) == IF op = "RESOLVE" THEN BOOLEAN ELSE {FALSE}

Draft(op, c, S, C, i, d) ==
    [op |-> op, claim |-> c, expected |-> IF op = "CREATE" THEN None ELSE head[c],
     support |-> S, contradict |-> C,
     issue |-> i, issueRevision |-> IF i = None THEN 0 ELSE issue[i].revision,
     discharges |-> d]

SubmitProposal(p) ==
    /\ status[p] = "NONE"
    /\ \E op \in Ops, c \in Claim :
          /\ op # "CREATE" => head[c] # None
          /\ \E S \in SupportOf(op), C \in ContradictOf(op), i \in IssueOf(op, c),
                d \in DischargesOf(op) :
                body' = [body EXCEPT ![p] = Draft(op, c, S, C, i, d)]
    /\ status' = [status EXCEPT ![p] = "PENDING_REVIEW"]
    /\ Announce("PROPOSAL_CREATED", p, 0)
    /\ UNCHANGED <<phase, ticket, beliefVars, issueVars, revokeVars, commitSeq>>

-----------------------------------------------------------------------------
(* review_operation_proposal.                                              *)

\* a review takes its commit sequence before it locks the head, except that
\* the resolving review takes it after
DrawTicket(p) ==
    /\ commitSeq < MaxSeq
    /\ commitSeq' = commitSeq + 1
    /\ ticket' = [ticket EXCEPT ![p] = commitSeq + 1]

\* the proposal row is locked and the references, and for a RESOLVE the issue,
\* are checked without locking them
ReviewChecks(p) ==
    /\ body[p].op \in VersionOps => Admissible(body[p].support)
    /\ body[p].contradict # {} => Admissible(body[p].contradict)
    /\ body[p].op = "RESOLVE" => IssueExpected(p) /\ DischargeMet(p)

BeginReview(p) ==
    /\ status[p] = "PENDING_REVIEW"
    /\ phase[p] = "idle"
    /\ ReviewChecks(p)
    /\ phase' = [phase EXCEPT ![p] = "checked"]
    /\ IF body[p].op = "RESOLVE" THEN UNCHANGED <<ticket, commitSeq>> ELSE DrawTicket(p)
    /\ UNCHANGED <<status, body, beliefVars, issueVars, revokeVars, outbox>>

\* the head is locked, compared with the expected version and its blocks read
HeadExpected(p) == head[body[p].claim] = body[p].expected

BlockAllows(p) ==
    /\ body[p].op = "REGROUND" => Blocked(body[p].expected)
    /\ body[p].op \in {"REVISE", "RESOLVE"} => ~ Blocked(body[p].expected)

\* mutant: a stale proposal is rebased on the head instead of refused
LockHeadRebasing(p) ==
    /\ phase[p] = "checked"
    /\ body[p].op # "CREATE"
    /\ HeadFree(body[p].claim, p)
    /\ body' = [body EXCEPT ![p].expected = head[body[p].claim]]
    /\ BlockAllows(p)
    /\ phase' = [phase EXCEPT ![p] = "locked"]
    /\ IF body[p].op = "RESOLVE" THEN DrawTicket(p) ELSE UNCHANGED <<ticket, commitSeq>>
    /\ UNCHANGED <<status, beliefVars, issueVars, revokeVars, outbox>>

LockHead(p) ==
    /\ phase[p] = "checked"
    /\ body[p].op # "CREATE"
    /\ HeadFree(body[p].claim, p)
    /\ HeadExpected(p)
    /\ BlockAllows(p)
    /\ phase' = [phase EXCEPT ![p] = "locked"]
    /\ IF body[p].op = "RESOLVE" THEN DrawTicket(p) ELSE UNCHANGED <<ticket, commitSeq>>
    /\ UNCHANGED <<status, body, beliefVars, issueVars, revokeVars, outbox>>

\* mutant: the proposal is left in a status the schema does not know
ConcludeApproved(p, event) ==
    /\ status' = [status EXCEPT ![p] = "APPROVED"]
    /\ phase' = [phase EXCEPT ![p] = "idle"]
    /\ Announce(event, p, ticket[p])
    /\ UNCHANGED <<body, ticket, revokeVars, commitSeq>>

\* what every approval does last: decision, APPLIED, outbox event
Conclude(p, event) ==
    /\ status' = [status EXCEPT ![p] = "APPLIED"]
    /\ phase' = [phase EXCEPT ![p] = "idle"]
    /\ Announce(event, p, ticket[p])
    /\ UNCHANGED <<body, ticket, revokeVars, commitSeq>>

\* the new version becomes the head
InsertVersion(p, n) ==
    /\ number' = [number EXCEPT ![p] = n]
    /\ head' = [head EXCEPT ![body[p].claim] = p]

ApproveCreate(p) ==
    /\ phase[p] = "checked"
    /\ body[p].op = "CREATE"
    /\ head[body[p].claim] = None
    /\ RowsFree(body[p].support)
    /\ InsertVersion(p, 1)
    /\ Conclude(p, "CLAIM_VERSION_COMMITTED")
    /\ UNCHANGED <<active, released, issueVars>>

ApproveRevise(p) ==
    /\ phase[p] = "locked"
    /\ body[p].op = "REVISE"
    /\ RowsFree(body[p].support)
    /\ InsertVersion(p, number[body[p].expected] + 1)
    /\ Conclude(p, "CLAIM_VERSION_COMMITTED")
    /\ UNCHANGED <<active, released, issueVars>>

\* mutant: a REGROUND releases the blocks and leaves the version where it is
RegroundInPlace(p) ==
    LET old == {b \in active : b[1] = body[p].expected}
    IN  /\ phase[p] = "locked"
        /\ body[p].op = "REGROUND"
        /\ active' = active \ old
        /\ released' = released \cup old
        /\ Conclude(p, "CLAIM_VERSION_COMMITTED")
        /\ UNCHANGED <<number, head, issueVars>>

\* a REGROUND releases the blocks of the version it replaces
ApproveReground(p) ==
    LET old == {b \in active : b[1] = body[p].expected}
    IN  /\ phase[p] = "locked"
        /\ body[p].op = "REGROUND"
        /\ RowsFree(body[p].support)
        /\ InsertVersion(p, number[body[p].expected] + 1)
        /\ active' = active \ old
        /\ released' = released \cup old
        /\ Conclude(p, "CLAIM_VERSION_COMMITTED")
        /\ UNCHANGED issueVars

\* the issue is closed by a compare-and-set on its status and revision
ApproveResolve(p) ==
    LET i == body[p].issue
    IN  /\ phase[p] = "locked"
        /\ body[p].op = "RESOLVE"
        /\ RowsFree(body[p].support)
        /\ IssueExpected(p)
        /\ InsertVersion(p, number[body[p].expected] + 1)
        /\ relation' = relation \cup
                          NewRelations(p, i, body[p].support, "RESOLUTION_CANDIDATE")
        /\ issue' = [issue EXCEPT ![i] =
                        [status |-> "RESOLVED", revision |-> @.revision + 1,
                         resolvedBy |-> p]]
        /\ history' = history \cup
                         {[issue |-> i, revision |-> issue[i].revision + 1,
                           from |-> issue[i].status, to |-> "RESOLVED", seq |-> ticket[p]]}
        /\ Conclude(p, "OPEN_ISSUE_CHANGED")
        /\ UNCHANGED <<active, released>>

\* mutant: only the creation of an issue writes a transition
ContradictUnrecorded(p, i) ==
    LET new == issue[i].status = "NONE"
    IN  /\ relation' = relation \cup NewRelations(p, i, body[p].contradict, "CONTRADICT_BRANCH")
        /\ issue' = [issue EXCEPT ![i] =
                        [status |-> IF new THEN "OPEN" ELSE @.status,
                         revision |-> @.revision + 1, resolvedBy |-> None]]
        /\ history' = IF new
                       THEN history \cup {[issue |-> i, revision |-> 1, from |-> "NONE",
                                           to |-> "OPEN", seq |-> ticket[p]]}
                       ELSE history

\* mutant: the groundings of the contradicted version are not carried over
ContradictOneSided(p, i) ==
    LET added == NewRelations(p, i, body[p].support, "SUPPORT_BRANCH")
                 \cup NewRelations(p, i, body[p].contradict, "CONTRADICT_BRANCH")
        now == IF issue[i].status = "NONE" THEN "OPEN" ELSE issue[i].status
    IN  /\ RowsFree({r.evidence : r \in added})
        /\ relation' = relation \cup added
        /\ issue' = [issue EXCEPT ![i] =
                        [status |-> now, revision |-> @.revision + 1, resolvedBy |-> None]]
        /\ history' = history \cup
                         {[issue |-> i, revision |-> issue[i].revision + 1,
                           from |-> issue[i].status, to |-> now, seq |-> ticket[p]]}

\* a contradiction joins the live CONFLICT issue of the claim or opens one; the
\* support branch also takes over the groundings of the current version
ContradictInto(p, i) ==
    LET added == NewRelations(p, i, body[p].support \cup Grounding(body[p].expected),
                              "SUPPORT_BRANCH")
                 \cup NewRelations(p, i, body[p].contradict, "CONTRADICT_BRANCH")
        now == IF issue[i].status = "NONE" THEN "OPEN" ELSE issue[i].status
    IN  /\ RowsFree({r.evidence : r \in added})
        /\ relation' = relation \cup added
        /\ issue' = [issue EXCEPT ![i] =
                        [status |-> now, revision |-> @.revision + 1, resolvedBy |-> None]]
        /\ history' = history \cup
                         {[issue |-> i, revision |-> issue[i].revision + 1,
                           from |-> issue[i].status, to |-> now, seq |-> ticket[p]]}

ConflictIssue(p) ==
    LET live == LiveIssues(body[p].claim) IN IF live = {} THEN {p} ELSE live

ApproveContradict(p) ==
    /\ phase[p] = "locked"
    /\ body[p].op = "CONTRADICT"
    /\ \E i \in ConflictIssue(p) : ContradictInto(p, i)
    /\ Conclude(p, "OPEN_ISSUE_CHANGED")
    /\ UNCHANGED beliefVars

ApproveNoChange(p) ==
    /\ phase[p] = "locked"
    /\ body[p].op = "NO_CHANGE"
    /\ Conclude(p, "NO_CHANGE_RECORDED")
    /\ UNCHANGED <<beliefVars, issueVars>>

\* a rejection draws no sequence and changes nothing but the proposal
Reject(p) ==
    /\ status[p] = "PENDING_REVIEW"
    /\ phase[p] = "idle"
    /\ status' = [status EXCEPT ![p] = "REJECTED"]
    /\ Announce("PROPOSAL_REJECTED", p, 0)
    /\ UNCHANGED <<body, phase, ticket, beliefVars, issueVars, revokeVars, commitSeq>>

\* any failed check, lost connection or deadlock victim: the transaction rolls
\* back, the sequence value it drew is gone
AbortReview(p) ==
    /\ phase[p] # "idle"
    /\ phase' = [phase EXCEPT ![p] = "idle"]
    /\ ticket' = [ticket EXCEPT ![p] = 0]
    /\ UNCHANGED <<status, body, beliefVars, issueVars, revokeVars, outbox, commitSeq>>

-----------------------------------------------------------------------------
(* tx05_revoke_evidence.                                                   *)

\* the evidence row is locked, found not yet revoked, and a sequence drawn
BeginRevoke(e) ==
    /\ revoking[e] = 0
    /\ revokedAt[e] = 0
    /\ commitSeq < MaxSeq
    /\ commitSeq' = commitSeq + 1
    /\ revoking' = [revoking EXCEPT ![e] = commitSeq + 1]
    /\ UNCHANGED <<revokedAt, reviewVars, beliefVars, issueVars, outbox>>

\* mutant: only current versions are looked for
RestingHeads(e) == {v \in Proposal : e \in Grounding(v) /\ head[body[v].claim] = v}

\* the versions the evidence supports, current or not
Resting(e) == {v \in Proposal : e \in Grounding(v)}

\* RESOLVED issues whose resolving proposal recorded e as its candidate
Reopened(e) ==
    {i \in Proposal :
        /\ issue[i].status = "RESOLVED"
        /\ \E r \in relation : /\ r.issue = i
                               /\ r.evidence = e
                               /\ r.type = "RESOLUTION_CANDIDATE"
                               /\ r.by = issue[i].resolvedBy}

Touched(e) ==
    Reopened(e) \cup
    {i \in Proposal : /\ issue[i].status \in Live
                      /\ \E r \in relation : r.issue = i /\ r.evidence = e}

\* mutant: without the unique index nothing refuses the reopening
NeverCollides(e) == FALSE

\* reopening would give a claim two live issues: uq_open_issue_live_type refuses
Collides(e) ==
    \E i \in Reopened(e) : \E j \in Proposal \ {i} :
        /\ issue[j].status \in Live \/ j \in Reopened(e)
        /\ body[j].claim = body[i].claim

AfterRevoke(s) == IF s = "RESOLVED" THEN "WAITING_EVIDENCE" ELSE s

CommitRevoke(e) ==
    /\ revoking[e] # 0
    /\ ~ Collides(e)
    /\ revokedAt' = [revokedAt EXCEPT ![e] = revoking[e]]
    /\ revoking' = [revoking EXCEPT ![e] = 0]
    /\ active' = active \cup (Resting(e) \X {e})
    /\ issue' = [i \in Proposal |->
                    IF i \in Touched(e)
                    THEN [status |-> AfterRevoke(issue[i].status),
                          revision |-> issue[i].revision + 1, resolvedBy |-> None]
                    ELSE issue[i]]
    /\ history' = history \cup
                     {[issue |-> i, revision |-> issue[i].revision + 1,
                       from |-> issue[i].status, to |-> AfterRevoke(issue[i].status),
                       seq |-> revoking[e]] : i \in Touched(e)}
    /\ outbox' = outbox \cup
                    {[event |-> t, subject |-> e, seq |-> revoking[e]] :
                        t \in {"EVIDENCE_REVOKED", "PURGE_EVIDENCE_DERIVATIVES"}}
    /\ UNCHANGED <<reviewVars, number, head, released, relation, commitSeq>>

\* the unique index refused, or the connection was lost: nothing was revoked
AbortRevoke(e) ==
    /\ revoking[e] # 0
    /\ revoking' = [revoking EXCEPT ![e] = 0]
    /\ UNCHANGED <<revokedAt, reviewVars, beliefVars, issueVars, outbox, commitSeq>>

-----------------------------------------------------------------------------
Approve(p) ==
    \/ ApproveCreate(p)
    \/ ApproveRevise(p)
    \/ ApproveReground(p)
    \/ ApproveResolve(p)
    \/ ApproveContradict(p)
    \/ ApproveNoChange(p)

Next ==
    \/ \E p \in Proposal : \/ SubmitProposal(p)
                           \/ BeginReview(p)
                           \/ LockHead(p)
                           \/ Approve(p)
                           \/ Reject(p)
                           \/ AbortReview(p)
    \/ \E e \in Evidence : \/ BeginRevoke(e)
                           \/ CommitRevoke(e)
                           \/ AbortRevoke(e)

Spec == Init /\ [][Next]_vars

-----------------------------------------------------------------------------
(* Properties.                                                             *)

\* Every row has the shape the schema of migration 0004 gives it.
TypeOK ==
    /\ status \in [Proposal -> {"NONE", "PENDING_REVIEW", "APPLIED", "REJECTED"}]
    /\ body \in [Proposal -> Body \cup {None}]
    /\ \A p \in Proposal : status[p] # "NONE" => body[p] \in Body
    /\ phase \in [Proposal -> {"idle", "checked", "locked"}]
    /\ ticket \in [Proposal -> Nat]
    /\ number \in [Proposal -> Nat]
    /\ head \in [Claim -> Proposal \cup {None}]
    /\ active \subseteq Proposal \X Evidence
    /\ released \subseteq Proposal \X Evidence
    /\ issue \in [Proposal -> Issue]
    /\ relation \subseteq Relation
    /\ history \subseteq Transition
    /\ revoking \in [Evidence -> Nat]
    /\ revokedAt \in [Evidence -> Nat]
    /\ outbox \subseteq Event
    /\ commitSeq \in Nat

VersionOf(v, c) == number[v] > 0 /\ body[v].claim = c

\* Concurrent reviews of one claim cannot both win: its versions are numbered
\* without duplicates, each replaces exactly the version its author saw, and the
\* head is the last of them (exact-head CAS, invariant I-05).
NoLostUpdate ==
    \A c \in Claim :
        /\ \A u, v \in Proposal :
              VersionOf(u, c) /\ VersionOf(v, c) /\ number[u] = number[v] => u = v
        /\ \A v \in Proposal : VersionOf(v, c) /\ number[v] > 1 =>
              \E u \in Proposal : /\ u = body[v].expected
                                  /\ VersionOf(u, c)
                                  /\ number[v] = number[u] + 1
        /\ \A v \in Proposal : VersionOf(v, c) =>
              \E h \in Proposal : h = head[c] /\ number[v] <= number[h]

\* Sequences are drawn before the head lock is obtained, yet the versions of a
\* claim are ordered by canonical_commit_seq as they are by number (ADR-009).
VersionsFollowSequence ==
    \A c \in Claim : \A u, v \in Proposal :
        VersionOf(u, c) /\ VersionOf(v, c) /\ number[u] < number[v]
            => ticket[u] < ticket[v]

\* A version that a revocation has ever blocked is never current without a block
\* again: REGROUND moves the head away before it releases (TRANSACTIONS section 7).
NoRevivalInPlace ==
    \A b \in active \cup released :
        head[body[b[1]].claim] = b[1] => Blocked(b[1])

\* Every governed commit is announced by outbox events that carry its sequence,
\* no event announces a rolled back transaction, and no two transactions share a
\* sequence (invariant I-12).
EveryCommitAnnounced ==
    /\ \A v \in Proposal : number[v] > 0 =>
          \E o \in outbox : o.subject = v /\ o.seq = ticket[v] /\ o.seq > 0
    /\ \A h \in history : \E o \in outbox : o.seq = h.seq
    /\ \A e \in Evidence : revokedAt[e] > 0 =>
          \E o \in outbox : /\ o.event = "PURGE_EVIDENCE_DERIVATIVES"
                            /\ o.subject = e
                            /\ o.seq = revokedAt[e]
    /\ \A o \in outbox : o.seq > 0 =>
          IF o.subject \in Proposal
          THEN status[o.subject] = "APPLIED" /\ ticket[o.subject] = o.seq
          ELSE revokedAt[o.subject] = o.seq
    /\ \A o, q \in outbox : o.seq = q.seq /\ o.seq > 0 => o.subject = q.subject

\* A claim never has two live CONFLICT issues, whatever contradictions, closings
\* and reopenings interleave.
OneLiveIssuePerClaim ==
    \A i, j \in Proposal :
        /\ issue[i].status \in Live
        /\ issue[j].status \in Live
        /\ body[i].claim = body[j].claim
        => i = j

HistoryOf(i) == {h \in history : h.issue = i}

\* An issue can be replayed from its transitions: one for every revision, each
\* starting where the one before it ended (TRANSACTIONS section 10).
IssueReplayable ==
    \A i \in Proposal :
        /\ {h.revision : h \in HistoryOf(i)} = 1 .. issue[i].revision
        /\ \A h \in HistoryOf(i) :
              /\ h.revision = issue[i].revision => h.to = issue[i].status
              /\ h.revision = 1 => h.from = "NONE"
              /\ \A g \in HistoryOf(i) : g.revision = h.revision + 1 => g.from = h.to
              /\ \A g \in HistoryOf(i) : g.revision = h.revision => g = h

\* The gate of migration 0030 reads the status of an issue from the transition
\* with the greatest canonical_commit_seq.  Sequences are not drawn in commit
\* order, but that transition always ends in the current status.
AsOfStatusIsCurrent ==
    \A i \in Proposal : \A h \in HistoryOf(i) :
        (\A g \in HistoryOf(i) : g.seq <= h.seq) => h.to = issue[i].status

\* Both branches of an open conflict are on record, the support branch with every
\* grounding of the version that was contradicted: without them the discharge
\* rule could never be met (invariant I-06).
ConflictKeepsBothBranches ==
    \A i \in Proposal : issue[i].status # "NONE" =>
        /\ \A e \in Grounding(body[i].expected) :
              \E r \in relation : r.issue = i /\ r.evidence = e /\ r.type = "SUPPORT_BRANCH"
        /\ \E r \in relation : r.issue = i /\ r.type = "SUPPORT_BRANCH"
        /\ \E r \in relation : r.issue = i /\ r.type = "CONTRADICT_BRANCH"

\* An issue is closed only together with a new head, by a discharging proposal
\* that names it at its present revision and whose evidence is recorded as the
\* resolution candidate.
ClosedByDischarge ==
    \A i \in Proposal :
        issue[i].status \in Live /\ issue'[i].status = "RESOLVED" =>
            \E p \in Proposal :
                /\ p = issue'[i].resolvedBy
                /\ body[p].issue = i
                /\ body[p].issueRevision = issue[i].revision
                /\ body[p].discharges
                /\ status[p] = "PENDING_REVIEW"
                /\ head'[body[i].claim] = p
                /\ \A e \in body[p].support :
                      \E r \in relation' : /\ r.issue = i
                                           /\ r.evidence = e
                                           /\ r.type = "RESOLUTION_CANDIDATE"

IssuesClosedByDischarge == [][ClosedByDischarge]_vars

-----------------------------------------------------------------------------
(* The abstract specification, and what of the rows it sees.               *)

\* what is asked for, without the references and rows the asking needs
Asked(b) == [op |-> b.op, claim |-> b.claim, expected |-> b.expected,
             support |-> b.support, discharges |-> b.discharges]

Requested == [p \in Proposal |-> IF status[p] = "NONE" THEN None ELSE Asked(body[p])]

\* the versions of a claim by their numbers, up to the head
Height(c) == IF head[c] = None THEN 0 ELSE number[head[c]]

Ledger ==
    [c \in Claim |-> [n \in 1 .. Height(c) |->
                        CHOOSE v \in Proposal : VersionOf(v, c) /\ number[v] = n]]

Withdrawn == active \cup released

RevokedEvidence == {e \in Evidence : revokedAt[e] > 0}

Disputed == {c \in Claim : LiveIssues(c) # {}}

Memory == INSTANCE GovernedMemory
          WITH request <- Requested, ledger <- Ledger, withdrawn <- Withdrawn,
               revoked <- RevokedEvidence, disputed <- Disputed

\* Reviews that check first and write later, under row locks, and revocations that
\* overlap them have the effect of single steps: every decision is made on the state
\* in which it is committed (TRANSACTIONS sections 5 and 6).
ImplementsGovernedMemory == Memory!Spec

\* The same of every step from whatever state, for stores that are not empty: what
\* changes a proposal, a version, a block, an issue or evidence is one such step.
AtomicStep == UNCHANGED <<status, beliefVars, issue, revokedAt>> \/ Memory!Next

DecisionsAreAtomic == [][AtomicStep]_vars

-----------------------------------------------------------------------------
(* Properties the documentation states and the code does not have.         *)

\* TRANSACTIONS section 6: a revocation leaves a GroundingBlock on every version
\* that rests on the evidence.
EveryRevokedGroundingBlocked ==
    \A v \in Proposal : \A e \in Grounding(v) :
        revokedAt[e] > 0 => <<v, e>> \in active \cup released

\* TRANSACTIONS section 6 and ADR-007: a steward's revocation of live evidence has
\* no other precondition, reopening the issue it had resolved is part of it.
RevocationNeverRefused ==
    \A e \in Evidence : revoking[e] # 0 => ~ Collides(e)

\* Lean V1 contract, acceptance story: revoking the evidence that resolved an issue
\* reopens the issue.
ReopensWhatItResolved ==
    \A e \in Evidence :
        revokedAt[e] = 0 /\ revokedAt'[e] # 0 =>
            \A i \in Proposal : issue'[i].status = "RESOLVED" =>
                e \notin body[issue'[i].resolvedBy].support

RevocationReopens == [][ReopensWhatItResolved]_vars

=============================================================================
