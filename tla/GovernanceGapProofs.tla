------------------------ MODULE GovernanceGapProofs ------------------------
(***************************************************************************)
(* What lies between the code and two promises of its documentation that   *)
(* it does not keep.  RevocationRace and RevocationReopens show the        *)
(* promises broken; here each of them is proved of every behaviour that    *)
(* avoids one thing, which is therefore the only cause:                    *)
(*                                                                         *)
(*   EveryRevokedGroundingBlocked   a revocation commits while a review of *)
(*                                  a proposal that cites the evidence is  *)
(*                                  open (the review checked the reference *)
(*                                  and did not lock it)                   *)
(*   RevocationReopens              an issue is resolved once more with    *)
(*                                  evidence that is already on record as  *)
(*                                  its resolution candidate (the ON       *)
(*                                  CONFLICT insert keeps the older row)   *)
(***************************************************************************)
EXTENDS GovernedMemoryProofs

-----------------------------------------------------------------------------
(* Revocations that wait for the reviews that cite the evidence.             *)

\* evidence_refs_admissible takes a row lock and the review keeps it
NoRevocationUnderReview ==
    \A p \in Proposal, e \in Evidence :
        phase[p] # "idle" /\ e \in body[p].support => revokedAt'[e] = revokedAt[e]

\* then what a review has checked is still true when it writes
OpenReviewsCiteLive ==
    \A p \in Proposal : phase[p] # "idle" /\ body[p].op \in VersionOps =>
        \A e \in body[p].support : revokedAt[e] = 0

BlockedInv ==
    MemoryInv /\ OpenReviewsCiteLive /\ EveryRevokedGroundingBlocked

LEMMA BlockedInit == Init => BlockedInv
  BY MemoryInit
  DEF Init, BlockedInv, OpenReviewsCiteLive, EveryRevokedGroundingBlocked, Grounding

\* only CommitRevoke revokes, and only what it locked
LEMMA RevokedBy ==
  ASSUME TypeInv, [Next]_vars, NEW e \in Evidence, revokedAt'[e] # revokedAt[e]
  PROVE  CommitRevoke(e)
  <1>1. ASSUME NEW p \in Proposal, Approve(p)
        PROVE  revokedAt' = revokedAt
    BY <1>1 DEF Approve, ApproveCreate, ApproveRevise, ApproveReground, ApproveResolve,
                ApproveContradict, ApproveNoChange, Conclude, revokeVars
  <1>2. ASSUME NEW p \in Proposal, SubmitProposal(p) \/ BeginReview(p) \/ LockHead(p)
                                     \/ Reject(p) \/ AbortReview(p)
        PROVE  revokedAt' = revokedAt
    BY <1>2 DEF SubmitProposal, BeginReview, LockHead, Reject, AbortReview, revokeVars
  <1>3. ASSUME NEW x \in Evidence, CommitRevoke(x)
        PROVE  x = e
    BY <1>3 DEF CommitRevoke, TypeInv, TypeOK
  <1>4. ASSUME NEW x \in Evidence, BeginRevoke(x) \/ AbortRevoke(x)
        PROVE  revokedAt' = revokedAt
    BY <1>4 DEF BeginRevoke, AbortRevoke
  <1>5. CASE UNCHANGED vars
    BY <1>5 DEF vars, revokeVars
  <1> QED
    BY <1>1, <1>2, <1>3, <1>4, <1>5 DEF Next

LEMMA OpenReviewsNext ==
  ASSUME TypeInv, OpenReviewsCiteLive, [Next]_vars, NoRevocationUnderReview
  PROVE  OpenReviewsCiteLive'
  <1> SUFFICES ASSUME NEW p \in Proposal, phase'[p] # "idle", body'[p].op \in VersionOps,
                      NEW e \in body'[p].support
               PROVE  revokedAt'[e] = 0
    BY DEF OpenReviewsCiteLive
  <1>1. CASE BeginReview(p)
    <2>1. body'[p] = body[p] /\ revokedAt' = revokedAt /\ Admissible(body[p].support)
      BY <1>1 DEF BeginReview, ReviewChecks, revokeVars
    <2>2. e \in body[p].support
      BY <2>1
    <2> QED
      BY <2>1, <2>2 DEF Admissible
  <1>2. CASE ~ BeginReview(p)
    <2>1. phase[p] # "idle" /\ body'[p] = body[p]
      <3>1. ASSUME NEW q \in Proposal, SubmitProposal(q)
            PROVE  phase[p] # "idle" /\ body'[p] = body[p]
        BY <3>1 DEF SubmitProposal, TypeInv, TypeOK, ReviewShape
      <3>2. ASSUME NEW q \in Proposal, BeginReview(q)
            PROVE  phase[p] # "idle" /\ body'[p] = body[p]
        BY <1>2, <3>2 DEF BeginReview, TypeInv, TypeOK
      <3>3. ASSUME NEW q \in Proposal, LockHead(q)
            PROVE  phase[p] # "idle" /\ body'[p] = body[p]
        BY <3>3 DEF LockHead, TypeInv, TypeOK
      <3>4. ASSUME NEW q \in Proposal, Approve(q)
            PROVE  phase[p] # "idle" /\ body'[p] = body[p]
        BY <3>4 DEF Approve, ApproveCreate, ApproveRevise, ApproveReground,
              ApproveResolve, ApproveContradict, ApproveNoChange, Conclude, TypeInv, TypeOK
      <3>5. ASSUME NEW q \in Proposal, Reject(q) \/ AbortReview(q)
            PROVE  phase[p] # "idle" /\ body'[p] = body[p]
        BY <3>5 DEF Reject, AbortReview, TypeInv, TypeOK
      <3>6. ASSUME NEW x \in Evidence, BeginRevoke(x) \/ CommitRevoke(x) \/ AbortRevoke(x)
            PROVE  phase[p] # "idle" /\ body'[p] = body[p]
        BY <3>6 DEF BeginRevoke, CommitRevoke, AbortRevoke, reviewVars
      <3>7. CASE UNCHANGED vars
        BY <3>7 DEF vars, reviewVars
      <3> QED
        BY <3>1, <3>2, <3>3, <3>4, <3>5, <3>6, <3>7 DEF Next
    <2>2. e \in body[p].support /\ revokedAt[e] = 0
      BY <2>1 DEF OpenReviewsCiteLive
    <2>3. body[p] \in Body
      BY <2>1 DEF TypeInv, TypeOK, ReviewShape
    <2>4. e \in Evidence
      BY <2>2, <2>3 DEF Body
    <2> QED
      BY <2>1, <2>2, <2>4 DEF NoRevocationUnderReview
  <1> QED
    BY <1>1, <1>2

LEMMA BlockedNext ==
  ASSUME BlockedInv, [Next]_vars, NoRevocationUnderReview
  PROVE  EveryRevokedGroundingBlocked'
  <1> SUFFICES ASSUME NEW v \in Proposal, NEW e \in Grounding(v)', revokedAt'[e] > 0
               PROVE  <<v, e>> \in Withdrawn'
    BY DEF EveryRevokedGroundingBlocked, Withdrawn
  <1>1. TypeInv
    BY MemoryParts DEF BlockedInv
  <1>2. CASE number[v] > 0
    <2>1. e \in Grounding(v) /\ e \in Evidence
      BY <1>1, <1>2, GroundingForever DEF Grounding, TypeInv, TypeOK, VersionShape, Body
    <2>2. CASE revokedAt'[e] = revokedAt[e]
      <3>1. <<v, e>> \in Withdrawn
        BY <2>1, <2>2 DEF BlockedInv, EveryRevokedGroundingBlocked, Withdrawn
      <3> QED
        BY <3>1, WithdrawnGrows
    <2>3. CASE revokedAt'[e] # revokedAt[e]
      <3>1. CommitRevoke(e)
        BY <1>1, <2>1, <2>3, RevokedBy
      <3> QED
        BY <2>1, <3>1 DEF CommitRevoke, Resting, Withdrawn
    <2> QED
      BY <2>2, <2>3
  <1>3. CASE ~ number[v] > 0
    <2>1. number'[v] > 0 /\ e \in body'[v].support
      BY DEF Grounding
    <2>2. PICK p \in Proposal :
            /\ phase[p] # "idle"
            /\ ApproveCreate(p) \/ ApproveRevise(p) \/ ApproveReground(p) \/ ApproveResolve(p)
      BY <1>3, <2>1, VersionMoves
    <2>3. /\ body' = body /\ revokedAt' = revokedAt /\ body[p].op \in VersionOps
          /\ number'[v] > 0 => v = p
      BY <1>1, <1>3, <2>2 DEF ApproveCreate, ApproveRevise, ApproveReground, ApproveResolve,
         Conclude, InsertVersion, revokeVars, VersionOps, TypeInv, TypeOK
    <2>4. revokedAt[e] = 0
      BY <2>1, <2>2, <2>3 DEF BlockedInv, OpenReviewsCiteLive
    <2> QED
      BY <2>3, <2>4
  <1> QED
    BY <1>2, <1>3

\* If no revocation commits while a review of a proposal that cites the evidence is
\* open, every version that rests on revoked evidence carries a grounding block: the
\* missing row lock of evidence_refs_admissible is all that RevocationRace is about.
THEOREM BlockedUnlessOvertaken ==
  Spec /\ [][NoRevocationUnderReview]_vars => []EveryRevokedGroundingBlocked
  <1>1. ASSUME BlockedInv, [Next]_vars, [NoRevocationUnderReview]_vars
        PROVE  BlockedInv'
    <2>1. MemoryInv' /\ TypeInv
      BY <1>1, MemoryNext, MemoryParts DEF BlockedInv
    <2>2. NoRevocationUnderReview
      BY <1>1 DEF NoRevocationUnderReview, vars, revokeVars
    <2> QED
      BY <1>1, <2>1, <2>2, OpenReviewsNext, BlockedNext DEF BlockedInv
  <1>2. BlockedInv => EveryRevokedGroundingBlocked
    BY DEF BlockedInv
  <1> QED
    BY <1>1, <1>2, BlockedInit, PTL DEF Spec

-----------------------------------------------------------------------------
(* Resolutions that bring new evidence.                                      *)

\* an issue is not resolved with evidence it already has as a candidate
FreshCandidates ==
    \A i \in Proposal :
        issue[i].status # "RESOLVED" /\ issue'[i].status = "RESOLVED" =>
            \A r \in relation :
                r.issue = i /\ r.type = "RESOLUTION_CANDIDATE" =>
                    r.evidence \notin body[issue'[i].resolvedBy].support

\* then what resolved an issue is on record as its resolver's own candidate
ResolverOwnsCandidates ==
    \A i \in Proposal : issue[i].status = "RESOLVED" =>
        \A e \in body[issue[i].resolvedBy].support :
            \E r \in relation : /\ r.issue = i
                                /\ r.evidence = e
                                /\ r.type = "RESOLUTION_CANDIDATE"
                                /\ r.by = issue[i].resolvedBy

ReopenInv == MemoryInv /\ ResolverOwnsCandidates

LEMMA ReopenInit == Init => ReopenInv
  BY MemoryInit DEF Init, ReopenInv, ResolverOwnsCandidates, NoIssue

LEMMA ReopenNext ==
  ASSUME ReopenInv, [Next]_vars, FreshCandidates
  PROVE  ResolverOwnsCandidates'
  <1> SUFFICES ASSUME NEW i \in Proposal, issue'[i].status = "RESOLVED",
                      NEW e \in body'[issue'[i].resolvedBy].support
               PROVE  \E r \in relation' : /\ r.issue = i
                                            /\ r.evidence = e
                                            /\ r.type = "RESOLUTION_CANDIDATE"
                                            /\ r.by = issue'[i].resolvedBy
    BY DEF ResolverOwnsCandidates
  <1>0. MemoryInv /\ TypeInv
    BY MemoryParts DEF ReopenInv
  <1>1. CASE issue'[i] = issue[i]
    <2>1. PICK v \in Proposal : v = issue[i].resolvedBy /\ number[v] > 0
      BY <1>0, <1>1 DEF MemoryInv, ResolverOnRecord
    <2>2. body'[v] = body[v]
      BY <1>0, <2>1, AppliedForever DEF TypeInv, VersionShape
    <2>3. e \in body[issue[i].resolvedBy].support
      BY <1>1, <2>1, <2>2
    <2>4. PICK r \in relation : /\ r.issue = i
                                /\ r.evidence = e
                                /\ r.type = "RESOLUTION_CANDIDATE"
                                /\ r.by = issue[i].resolvedBy
      BY <1>1, <2>3 DEF ReopenInv, ResolverOwnsCandidates
    <2> QED
      BY <1>1, <2>4, RelationsGrow
  <1>2. CASE issue'[i] # issue[i]
    <2>1. PICK p \in Proposal : /\ ApproveResolve(p)
                                /\ body' = body
                                /\ i = body[p].issue
                                /\ issue'[i].resolvedBy = p
      BY <1>0, <1>2, BecomesResolved
    <2>2. issue[i].status # "RESOLVED"
      BY <2>1 DEF ApproveResolve, IssueExpected, Live
    <2>3. ~ \E r \in relation : r.issue = i /\ r.evidence = e /\ r.type = "RESOLUTION_CANDIDATE"
      BY <2>1, <2>2 DEF FreshCandidates
    <2>4. [issue |-> i, evidence |-> e, by |-> p, type |-> "RESOLUTION_CANDIDATE"]
             \in NewRelations(p, i, body[p].support, "RESOLUTION_CANDIDATE")
      BY <2>1, <2>3 DEF NewRelations
    <2>5. relation' = relation \cup
                        NewRelations(p, i, body[p].support, "RESOLUTION_CANDIDATE")
      BY <2>1 DEF ApproveResolve
    <2> QED
      BY <2>1, <2>4, <2>5
  <1> QED
    BY <1>1, <1>2

LEMMA ReopensStep ==
  ASSUME ReopenInv, [Next]_vars
  PROVE  ReopensWhatItResolved
  <1> SUFFICES ASSUME NEW e \in Evidence, revokedAt[e] = 0, revokedAt'[e] # 0,
                      NEW i \in Proposal, issue'[i].status = "RESOLVED",
                      e \in body[issue'[i].resolvedBy].support
               PROVE  FALSE
    BY DEF ReopensWhatItResolved
  <1>0. MemoryInv /\ TypeInv
    BY MemoryParts DEF ReopenInv
  <1>1. CommitRevoke(e)
    BY <1>0, RevokedBy
  <1>2. issue'[i] = issue[i]
    <2>1. SUFFICES ASSUME issue'[i] # issue[i] PROVE FALSE
      OBVIOUS
    <2>2. i \in Touched(e)
      BY <1>0, <1>1, <2>1, RevokeMoves DEF Keeps
    <2>3. issue'[i].status = AfterRevoke(issue[i].status)
      BY <1>0, <1>1, <2>2, RevokeMoves
    <2> QED
      BY <2>3 DEF AfterRevoke
  <1>3. i \in Reopened(e)
    BY <1>2 DEF ReopenInv, ResolverOwnsCandidates, Reopened
  <1>4. issue'[i].status = "WAITING_EVIDENCE"
    BY <1>1, <1>3 DEF CommitRevoke, Touched, AfterRevoke, Reopened
  <1> QED
    BY <1>4

\* If no issue is resolved once more with evidence that is already its candidate,
\* revoking what resolved an issue reopens it: the row that ON CONFLICT DO NOTHING
\* does not write is all that the run RevocationReopens is about.
THEOREM ReopensUnlessCitedAgain ==
  Spec /\ [][FreshCandidates]_vars => RevocationReopens
  <1>1. ASSUME ReopenInv, [Next]_vars, [FreshCandidates]_vars
        PROVE  ReopenInv'
    <2>1. FreshCandidates
      BY <1>1 DEF FreshCandidates, vars, issueVars
    <2> QED
      BY <1>1, <2>1, MemoryNext, ReopenNext DEF ReopenInv
  <1>2. ReopenInv /\ [Next]_vars => [ReopensWhatItResolved]_vars
    BY ReopensStep
  <1> QED
    BY <1>1, <1>2, ReopenInit, PTL DEF Spec, RevocationReopens
=============================================================================
