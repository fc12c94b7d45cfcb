----------------------- MODULE GovernanceIssueProofs -----------------------
(* Theorems about the open issues of CanonicalGovernance.                    *)
EXTENDS CanonicalGovernanceProofs

-----------------------------------------------------------------------------
(* One live issue.  An issue exists only after the proposal that names it was *)
(* applied, so no later submission can give it another claim.                 *)

IssueShape == \A i \in Proposal : issue[i].status # "NONE" => status[i] = "APPLIED"

LiveInv == TypeInv /\ IssueShape /\ OneLiveIssuePerClaim

LEMMA LiveInit == Init => LiveInv
  <1> SUFFICES ASSUME Init PROVE LiveInv
    OBVIOUS
  <1>1. TypeInv
    BY TypeInit
  <1> QED
    BY <1>1 DEF Init, LiveInv, IssueShape, OneLiveIssuePerClaim, NoIssue, Live

\* An applied proposal stays applied, with the body it was applied with.
LEMMA AppliedForever ==
  ASSUME TypeInv, [Next]_vars, NEW q \in Proposal, status[q] = "APPLIED"
  PROVE  status'[q] = "APPLIED" /\ body'[q] = body[q]
  <1>1. ASSUME NEW p \in Proposal, SubmitProposal(p)
        PROVE  status'[q] = "APPLIED" /\ body'[q] = body[q]
    BY <1>1 DEF SubmitProposal, TypeInv, TypeOK
  <1>2. ASSUME NEW p \in Proposal, Approve(p)
        PROVE  status'[q] = "APPLIED" /\ body'[q] = body[q]
    <2>1. status' = [status EXCEPT ![p] = "APPLIED"] /\ body' = body
      BY <1>2 DEF Approve, ApproveCreate, ApproveRevise, ApproveReground, ApproveResolve,
         ApproveContradict, ApproveNoChange, Conclude
    <2> QED
      BY <2>1 DEF TypeInv, TypeOK
  <1>3. ASSUME NEW p \in Proposal, Reject(p)
        PROVE  status'[q] = "APPLIED" /\ body'[q] = body[q]
    BY <1>3 DEF Reject, TypeInv, TypeOK
  <1>4. CASE \/ UNCHANGED vars
             \/ \E p \in Proposal : BeginReview(p) \/ LockHead(p) \/ AbortReview(p)
             \/ \E e \in Evidence : BeginRevoke(e) \/ CommitRevoke(e) \/ AbortRevoke(e)
    BY <1>4 DEF vars, reviewVars, BeginReview, LockHead, AbortReview,
                BeginRevoke, CommitRevoke, AbortRevoke
  <1> QED
    BY <1>1, <1>2, <1>3, <1>4 DEF Next

\* A contradiction keeps every issue live or closed that was, and opens one only
\* when its claim has none.
LEMMA ContradictLive ==
  ASSUME LiveInv, TypeInv', NEW p \in Proposal, ApproveContradict(p)
  PROVE  LiveInv'
  <1>1. PICK i \in ConflictIssue(p) : ContradictInto(p, i)
    BY DEF ApproveContradict
  <1>2. /\ phase[p] = "locked" /\ body' = body /\ status' = [status EXCEPT ![p] = "APPLIED"]
        /\ status[p] = "PENDING_REVIEW"
    BY DEF ApproveContradict, Conclude, LiveInv, TypeInv, ReviewShape
  <1>3. i \in Proposal
    BY <1>1 DEF ConflictIssue, LiveIssues
  <1>4. \A j \in Proposal : j # i => issue'[j] = issue[j]
    BY <1>1, <1>3 DEF ContradictInto, LiveInv, TypeInv, TypeOK
  <1>5. CASE LiveIssues(body[p].claim) = {}
    <2>1. i = p /\ \A j \in Proposal : issue[j].status \in Live => body[j].claim # body[p].claim
      BY <1>1, <1>5 DEF ConflictIssue, LiveIssues
    <2> QED
      BY <1>2, <1>3, <1>4, <2>1 DEF LiveInv, IssueShape, OneLiveIssuePerClaim, TypeInv, TypeOK
  <1>6. CASE i \in LiveIssues(body[p].claim)
    <2>1. issue[i].status \in Live /\ status[i] = "APPLIED"
      BY <1>3, <1>6 DEF LiveIssues, LiveInv, IssueShape, Live
    <2> QED
      BY <1>2, <1>3, <1>4, <2>1 DEF LiveInv, IssueShape, OneLiveIssuePerClaim, TypeInv, TypeOK
  <1> QED
    BY <1>1, <1>5, <1>6 DEF ConflictIssue

LEMMA ResolveLive ==
  ASSUME LiveInv, TypeInv', NEW p \in Proposal, ApproveResolve(p)
  PROVE  LiveInv'
  <1> DEFINE i == body[p].issue
  <1>1. /\ phase[p] = "locked" /\ body' = body /\ status' = [status EXCEPT ![p] = "APPLIED"]
        /\ body[p].op = "RESOLVE" /\ IssueExpected(p)
    BY DEF ApproveResolve, Conclude
  <1>2. i \in Proposal /\ status[i] = "APPLIED"
    BY <1>1 DEF IssueExpected, Live, LiveInv, IssueShape, TypeInv, ReviewShape
  <1>3. /\ issue'[i].status = "RESOLVED"
        /\ \A j \in Proposal : j # i => issue'[j] = issue[j]
    BY <1>2 DEF ApproveResolve, LiveInv, TypeInv, TypeOK
  <1>4. \A j \in Proposal : issue'[j].status \in Live => issue[j].status \in Live
    BY <1>3 DEF Live
  <1>5. OneLiveIssuePerClaim'
    BY <1>1, <1>4 DEF LiveInv, OneLiveIssuePerClaim
  <1>6. \A j \in Proposal : status[j] = "APPLIED" => status'[j] = "APPLIED"
    BY <1>1 DEF LiveInv, TypeInv, TypeOK
  <1>7. IssueShape'
    BY <1>2, <1>3, <1>6 DEF LiveInv, IssueShape
  <1> QED
    BY <1>5, <1>7 DEF LiveInv

\* A revocation reopens issues only where no other issue of the claim is live.
LEMMA RevokeLive ==
  ASSUME LiveInv, TypeInv', NEW e \in Evidence, CommitRevoke(e)
  PROVE  LiveInv'
  <1>1. /\ UNCHANGED <<status, body>> /\ ~ Collides(e)
        /\ \A i \in Proposal : issue'[i] =
              IF i \in Touched(e)
              THEN [status |-> AfterRevoke(issue[i].status),
                    revision |-> issue[i].revision + 1, resolvedBy |-> None]
              ELSE issue[i]
    BY DEF CommitRevoke, reviewVars
  <1>2. \A i \in Proposal : issue'[i].status \in Live =>
           issue[i].status \in Live \/ i \in Reopened(e)
    BY <1>1 DEF Touched, AfterRevoke
  <1>3. \A i \in Proposal : issue'[i].status # "NONE" => issue[i].status # "NONE"
    BY <1>1 DEF Touched, Reopened, Live
  <1>4. IssueShape'
    BY <1>1, <1>3 DEF LiveInv, IssueShape
  <1>5. OneLiveIssuePerClaim'
    BY <1>1, <1>2 DEF LiveInv, OneLiveIssuePerClaim, Collides
  <1> QED
    BY <1>4, <1>5 DEF LiveInv

LEMMA LiveNext == LiveInv /\ [Next]_vars => LiveInv'
  <1> SUFFICES ASSUME LiveInv, [Next]_vars PROVE LiveInv'
    OBVIOUS
  <1>1. TypeInv'
    BY TypeNext DEF LiveInv
  <1>2. CASE UNCHANGED issue
    <2>1. \A i \in Proposal : issue[i].status # "NONE" =>
             status'[i] = "APPLIED" /\ body'[i] = body[i]
      BY AppliedForever DEF LiveInv, IssueShape
    <2> QED
      BY <1>1, <1>2, <2>1 DEF LiveInv, IssueShape, OneLiveIssuePerClaim, Live
  <1>3. \/ UNCHANGED issue
        \/ \E p \in Proposal : ApproveContradict(p) \/ ApproveResolve(p)
        \/ \E e \in Evidence : CommitRevoke(e)
    BY DEF Next, vars, SubmitProposal, BeginReview, LockHead, Approve, ApproveCreate,
           ApproveRevise, ApproveReground, ApproveNoChange, Reject, AbortReview, BeginRevoke,
           AbortRevoke, issueVars
  <1> QED
    BY <1>1, <1>2, <1>3, ContradictLive, ResolveLive, RevokeLive

LEMMA LiveInvariant == Spec => []LiveInv
  BY LiveInit, LiveNext, PTL DEF Spec

\* However contradictions, resolutions and reopenings interleave, a claim has at most
\* one live issue: the insert is serialised by the head lock, and the unique index
\* refuses the revocation that would reopen a second one.
THEOREM AtMostOneLiveIssue == Spec => []OneLiveIssuePerClaim
  BY LiveInvariant, PTL DEF LiveInv

-----------------------------------------------------------------------------
(* Closing an issue.  The discharge rule is checked by the first step of a    *)
(* review and the issue is written by its last; in between only the compare-  *)
(* and-set on status and revision watches the issue.                          *)

ResolvesItsClaim ==
    \A p \in Proposal : status[p] # "NONE" /\ body[p].op = "RESOLVE" =>
        /\ phase[p] # "idle" => body[p].discharges
        /\ issue[body[p].issue].status # "NONE"
        /\ body[body[p].issue].claim = body[p].claim

ClosingInv == LiveInv /\ ResolvesItsClaim

LEMMA ClosingInit == Init => ClosingInv
  BY LiveInit DEF Init, ClosingInv, ResolvesItsClaim

\* an issue once opened stays on record
LEMMA IssuesStay ==
  ASSUME TypeInv, [Next]_vars, NEW i \in Proposal, issue[i].status # "NONE"
  PROVE  issue'[i].status # "NONE"
  <1>1. ASSUME NEW p \in Proposal, ApproveContradict(p) PROVE issue'[i].status # "NONE"
    <2>1. PICK j \in ConflictIssue(p) : ContradictInto(p, j)
      BY <1>1 DEF ApproveContradict
    <2> QED
      BY <2>1 DEF ContradictInto, TypeInv, TypeOK
  <1>2. ASSUME NEW p \in Proposal, ApproveResolve(p) PROVE issue'[i].status # "NONE"
    BY <1>2 DEF ApproveResolve, TypeInv, TypeOK
  <1>3. ASSUME NEW e \in Evidence, CommitRevoke(e) PROVE issue'[i].status # "NONE"
    BY <1>3 DEF CommitRevoke, AfterRevoke, TypeInv, TypeOK
  <1>4. \/ UNCHANGED issue
        \/ \E p \in Proposal : ApproveContradict(p) \/ ApproveResolve(p)
        \/ \E e \in Evidence : CommitRevoke(e)
    BY DEF Next, vars, SubmitProposal, BeginReview, LockHead, Approve, ApproveCreate,
           ApproveRevise, ApproveReground, ApproveNoChange, Reject, AbortReview, BeginRevoke,
           AbortRevoke, issueVars
  <1> QED
    BY <1>1, <1>2, <1>3, <1>4

LEMMA ClosingNext == ClosingInv /\ [Next]_vars => ClosingInv'
  <1> SUFFICES ASSUME ClosingInv, [Next]_vars PROVE ClosingInv'
    OBVIOUS
  <1>1. LiveInv'
    BY LiveNext DEF ClosingInv
  <1>2. \A i \in Proposal : issue[i].status # "NONE" =>
           issue'[i].status # "NONE" /\ body'[i] = body[i]
    BY IssuesStay, AppliedForever DEF ClosingInv, LiveInv, IssueShape
  <1>3. ASSUME NEW p \in Proposal, status[p] # "NONE", body[p].op = "RESOLVE",
               body'[p] = body[p], phase'[p] # "idle" => body[p].discharges
        PROVE  /\ phase'[p] # "idle" => body'[p].discharges
               /\ issue'[body'[p].issue].status # "NONE"
               /\ body'[body'[p].issue].claim = body'[p].claim
    <2>1. body[p].issue \in Proposal
      BY <1>3 DEF ClosingInv, LiveInv, TypeInv, ReviewShape
    <2> QED
      BY <1>2, <1>3, <2>1 DEF ClosingInv, ResolvesItsClaim
  <1>4. ASSUME NEW p \in Proposal, SubmitProposal(p) PROVE ResolvesItsClaim'
    <2>1. PICK op \in Ops, c \in Claim : \E S \in SupportOf(op), C \in ContradictOf(op),
             i \in IssueOf(op, c), d \in DischargesOf(op) :
                body' = [body EXCEPT ![p] = Draft(op, c, S, C, i, d)]
      BY <1>4 DEF SubmitProposal
    <2>2. PICK S \in SupportOf(op), C \in ContradictOf(op), i \in IssueOf(op, c),
               d \in DischargesOf(op) : body' = [body EXCEPT ![p] = Draft(op, c, S, C, i, d)]
      BY <2>1
    <2>3. /\ status[p] = "NONE" /\ phase[p] = "idle" /\ phase' = phase
          /\ body'[p].op = op /\ body'[p].claim = c /\ body'[p].issue = i
      BY <1>4, <2>2 DEF SubmitProposal, Draft, ClosingInv, LiveInv, TypeInv, TypeOK, ReviewShape
    <2>4. op = "RESOLVE" => i \in Proposal /\ issue[i].status # "NONE" /\ body[i].claim = c
      BY DEF IssueOf
    <2>5. ASSUME NEW q \in Proposal, q # p, status'[q] # "NONE", body'[q].op = "RESOLVE"
          PROVE  /\ status[q] # "NONE" /\ body[q].op = "RESOLVE" /\ body'[q] = body[q]
                 /\ phase'[q] # "idle" => body[q].discharges
      BY <1>4, <2>2, <2>3, <2>5
      DEF SubmitProposal, ClosingInv, ResolvesItsClaim, LiveInv, TypeInv, TypeOK
    <2> QED
      BY <1>2, <1>3, <2>3, <2>4, <2>5 DEF ResolvesItsClaim
  <1>5. ASSUME UNCHANGED body,
               \A p \in Proposal : status'[p] # "NONE" => status[p] # "NONE",
               \A p \in Proposal : phase'[p] # "idle" /\ body[p].op = "RESOLVE" =>
                  phase[p] # "idle" \/ body[p].discharges
        PROVE  ResolvesItsClaim'
    <2>1. ASSUME NEW p \in Proposal, status'[p] # "NONE", body'[p].op = "RESOLVE"
          PROVE  /\ status[p] # "NONE" /\ body[p].op = "RESOLVE" /\ body'[p] = body[p]
                 /\ phase'[p] # "idle" => body[p].discharges
      BY <1>5, <2>1 DEF ClosingInv, ResolvesItsClaim
    <2> QED
      BY <1>3, <2>1 DEF ResolvesItsClaim
  <1>6. ASSUME NEW p \in Proposal,
               BeginReview(p) \/ LockHead(p) \/ Approve(p) \/ Reject(p) \/ AbortReview(p)
        PROVE  ResolvesItsClaim'
    <2>1. status[p] # "NONE"
      BY <1>6 DEF BeginReview, LockHead, Approve, ApproveCreate, ApproveRevise, ApproveReground,
         ApproveResolve, ApproveContradict, ApproveNoChange, Reject, AbortReview,
         ClosingInv, LiveInv, TypeInv, ReviewShape
    <2>2. body' = body
      BY <1>6 DEF BeginReview, LockHead, Approve, ApproveCreate, ApproveRevise, ApproveReground,
         ApproveResolve, ApproveContradict, ApproveNoChange, Conclude, Reject, AbortReview
    <2>3. \A q \in Proposal : q # p => status'[q] = status[q] /\ phase'[q] = phase[q]
      BY <1>6 DEF BeginReview, LockHead, Approve, ApproveCreate, ApproveRevise, ApproveReground,
         ApproveResolve, ApproveContradict, ApproveNoChange, Conclude, Reject, AbortReview,
         ClosingInv, LiveInv, TypeInv, TypeOK
    <2>4. phase'[p] # "idle" /\ body[p].op = "RESOLVE" => phase[p] # "idle" \/ body[p].discharges
      BY <1>6 DEF BeginReview, ReviewChecks, DischargeMet, LockHead, Approve, ApproveCreate,
         ApproveRevise, ApproveReground, ApproveResolve, ApproveContradict, ApproveNoChange,
         Conclude, Reject, AbortReview, ClosingInv, LiveInv, TypeInv, TypeOK
    <2> QED
      BY <1>5, <2>1, <2>2, <2>3, <2>4
  <1>7. CASE \/ UNCHANGED vars
             \/ \E e \in Evidence : BeginRevoke(e) \/ CommitRevoke(e) \/ AbortRevoke(e)
    <2>1. UNCHANGED <<status, body, phase>>
      BY <1>7 DEF vars, reviewVars, BeginRevoke, CommitRevoke, AbortRevoke
    <2>2. /\ UNCHANGED body
          /\ \A p \in Proposal : status'[p] # "NONE" => status[p] # "NONE"
          /\ \A p \in Proposal : phase'[p] # "idle" /\ body[p].op = "RESOLVE" =>
                phase[p] # "idle" \/ body[p].discharges
      BY <2>1
    <2> QED
      BY <1>1, <1>5, <2>2 DEF ClosingInv
  <1> QED
    BY <1>1, <1>4, <1>6, <1>7 DEF Next, ClosingInv

\* Only the approval of a resolution closes an issue.
LEMMA ClosedByResolve ==
  ASSUME ClosingInv, [Next]_vars, NEW i \in Proposal,
         issue[i].status \in Live, issue'[i].status = "RESOLVED"
  PROVE  \E p \in Proposal : ApproveResolve(p) /\ i = body[p].issue
  <1>1. ASSUME NEW p \in Proposal, ApproveContradict(p) PROVE FALSE
    <2>1. PICK j \in ConflictIssue(p) : ContradictInto(p, j)
      BY <1>1 DEF ApproveContradict
    <2> QED
      BY <2>1 DEF ContradictInto, ClosingInv, LiveInv, TypeInv, TypeOK, Live
  <1>2. ASSUME NEW e \in Evidence, CommitRevoke(e) PROVE FALSE
    BY <1>2 DEF CommitRevoke, AfterRevoke, Live
  <1>3. ASSUME NEW p \in Proposal, ApproveResolve(p) PROVE i = body[p].issue
    BY <1>3 DEF ApproveResolve, ClosingInv, LiveInv, TypeInv, TypeOK, Live
  <1>4. issue' # issue
    BY DEF Live
  <1>5. \/ UNCHANGED issue
        \/ \E p \in Proposal : ApproveContradict(p) \/ ApproveResolve(p)
        \/ \E e \in Evidence : CommitRevoke(e)
    BY DEF Next, vars, SubmitProposal, BeginReview, LockHead, Approve, ApproveCreate,
           ApproveRevise, ApproveReground, ApproveNoChange, Reject, AbortReview, BeginRevoke,
           AbortRevoke, issueVars
  <1> QED
    BY <1>1, <1>2, <1>3, <1>4, <1>5

LEMMA ClosedStep == ClosingInv /\ [Next]_vars => ClosedByDischarge
  <1> SUFFICES ASSUME ClosingInv, [Next]_vars, NEW i \in Proposal,
                      issue[i].status \in Live, issue'[i].status = "RESOLVED"
               PROVE  \E p \in Proposal :
                        /\ p = issue'[i].resolvedBy
                        /\ body[p].issue = i
                        /\ body[p].issueRevision = issue[i].revision
                        /\ body[p].discharges
                        /\ status[p] = "PENDING_REVIEW"
                        /\ head'[body[i].claim] = p
                        /\ \A e \in body[p].support :
                              \E r \in relation' : /\ r.issue = i
                                                   /\ r.evidence = e
                                                   /\ r.type = "RESOLUTION_CANDIDATE"
    BY DEF ClosedByDischarge
  <1>1. PICK p \in Proposal : ApproveResolve(p) /\ i = body[p].issue
    BY ClosedByResolve
  <1>2. /\ phase[p] = "locked" /\ body[p].op = "RESOLVE" /\ status[p] = "PENDING_REVIEW"
        /\ body[p].issueRevision = issue[i].revision
    BY <1>1 DEF ApproveResolve, IssueExpected, ClosingInv, LiveInv, TypeInv, ReviewShape
  <1>3. body[p].discharges /\ body[i].claim = body[p].claim /\ body[p] \in Body
    BY <1>1, <1>2 DEF ClosingInv, ResolvesItsClaim, LiveInv, TypeInv, TypeOK
  <1>4. p = issue'[i].resolvedBy /\ head'[body[i].claim] = p
    BY <1>1, <1>3 DEF ApproveResolve, InsertVersion, ClosingInv, LiveInv, TypeInv, TypeOK, Body
  <1>5. ASSUME NEW e \in body[p].support
        PROVE  \E r \in relation' : /\ r.issue = i
                                    /\ r.evidence = e
                                    /\ r.type = "RESOLUTION_CANDIDATE"
    <2>1. relation' = relation \cup NewRelations(p, i, body[p].support, "RESOLUTION_CANDIDATE")
      BY <1>1 DEF ApproveResolve
    <2>2. CASE \E r \in relation : r.issue = i /\ r.evidence = e /\ r.type = "RESOLUTION_CANDIDATE"
      BY <2>1, <2>2
    <2>3. CASE ~ \E r \in relation : r.issue = i /\ r.evidence = e /\ r.type = "RESOLUTION_CANDIDATE"
      <3>1. [issue |-> i, evidence |-> e, by |-> p, type |-> "RESOLUTION_CANDIDATE"]
               \in NewRelations(p, i, body[p].support, "RESOLUTION_CANDIDATE")
        BY <2>3 DEF NewRelations
      <3> QED
        BY <2>1, <3>1
    <2> QED
      BY <2>2, <2>3
  <1> QED
    BY <1>1, <1>2, <1>3, <1>4, <1>5

\* Every step that closes an issue is the commit of a discharging resolution that
\* named it at its present revision, installs the new head with it and records its
\* evidence as the candidate.
THEOREM ClosedOnlyByDischarge == Spec => IssuesClosedByDischarge
  <1>1. ClosingInv /\ [Next]_vars => [ClosedByDischarge]_vars
    BY ClosedStep
  <1> QED
    BY <1>1, ClosingInit, ClosingNext, PTL DEF Spec, IssuesClosedByDischarge
=============================================================================
