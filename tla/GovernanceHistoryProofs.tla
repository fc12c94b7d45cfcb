---------------------- MODULE GovernanceHistoryProofs ----------------------
(* Theorems about what CanonicalGovernance records of its decisions: the     *)
(* transitions and groundings of issues and the events of the outbox.        *)
EXTENDS GovernanceIssueProofs

-----------------------------------------------------------------------------
(* The inductive invariants.                                                *)

UnopenedIsUntouched ==
    \A i \in Proposal : issue[i].status = "NONE" <=> issue[i].revision = 0

ReplayInv == LiveInv /\ UnopenedIsUntouched /\ IssueReplayable

\* what a proposal inserts has a source: a version a supporting reference, a
\* contradiction a contradicting one
Sourced ==
    /\ \A p \in Proposal : status[p] # "NONE" =>
          /\ body[p].op \in VersionOps => body[p].support # {}
          /\ body[p].op = "CONTRADICT" => body[p].contradict # {}
    /\ \A v \in Proposal : number[v] > 0 => body[v].op \in VersionOps
    /\ \A i \in Proposal : issue[i].status # "NONE" => body[i].op = "CONTRADICT"

BranchInv == ChainInv /\ LiveInv /\ Sourced /\ ConflictKeepsBothBranches

\* no sequence is used before it is drawn
SequencesDrawn ==
    /\ \A e \in Evidence : revoking[e] <= commitSeq /\ revokedAt[e] <= commitSeq
    /\ \A h \in history : h.seq <= commitSeq

\* relations are written by proposals that were applied
RelationsApplied == \A r \in relation : status[r.by] = "APPLIED"

\* a resolution holds a later sequence than any transition of its issue for as long
\* as the issue is at the revision the resolution names
ResolveIsLatest ==
    \A p \in Proposal : status[p] # "NONE" /\ body[p].op = "RESOLVE" =>
        /\ body[p].issueRevision <= issue[body[p].issue].revision
        /\ phase[p] = "locked" /\ body[p].issueRevision = issue[body[p].issue].revision =>
              \A h \in HistoryOf(body[p].issue) : h.seq < ticket[p]

\* a revocation holds a later sequence than any transition of an issue it reopens
RevokeIsLatest ==
    \A e \in Evidence : revoking[e] > 0 =>
        \A i \in Reopened(e) : \A h \in HistoryOf(i) : h.seq < revoking[e]

AsOfInv ==
    OrderInv /\ ReplayInv /\ SequencesDrawn /\ RelationsApplied /\ ResolveIsLatest
    /\ RevokeIsLatest /\ AsOfStatusIsCurrent

\* no two transactions, open or committed, hold the same sequence
SequencesApart ==
    /\ \A p, q \in Proposal : ticket[p] = ticket[q] /\ ticket[p] > 0 => p = q
    /\ \A e, f \in Evidence : revoking[e] = revoking[f] /\ revoking[e] > 0 => e = f
    /\ \A e, f \in Evidence : revokedAt[e] = revokedAt[f] /\ revokedAt[e] > 0 => e = f
    /\ \A e, f \in Evidence : revoking[e] > 0 => revoking[e] # revokedAt[f]
    /\ \A p \in Proposal, e \in Evidence : ticket[p] > 0 =>
          ticket[p] # revoking[e] /\ ticket[p] # revokedAt[e]
    /\ \A e \in Evidence : revoking[e] > 0 => revokedAt[e] = 0

AnnounceInv == AsOfInv /\ SequencesApart /\ EveryCommitAnnounced

-----------------------------------------------------------------------------
(* How a step moves an issue: not at all, or by one revision with the         *)
(* transition that records it.                                                *)

Keeps(i) == issue'[i] = issue[i] /\ HistoryOf(i)' = HistoryOf(i)

Step(i, n) == [issue |-> i, revision |-> issue[i].revision + 1, from |-> issue[i].status,
               to |-> issue'[i].status, seq |-> n]

Extends(i, n) ==
    /\ issue'[i].revision = issue[i].revision + 1
    /\ issue'[i].status # "NONE"
    /\ HistoryOf(i)' = HistoryOf(i) \cup {Step(i, n)}

LEMMA ContradictMoves ==
  ASSUME TypeInv, NEW p \in Proposal, NEW i \in Proposal, ContradictInto(p, i)
  PROVE  /\ Extends(i, ticket[p])
         /\ issue[i].status # "NONE" => issue'[i].status = issue[i].status
         /\ \A j \in Proposal : j # i => Keeps(j)
  <1> DEFINE now == IF issue[i].status = "NONE" THEN "OPEN" ELSE issue[i].status
             h == [issue |-> i, revision |-> issue[i].revision + 1,
                   from |-> issue[i].status, to |-> now, seq |-> ticket[p]]
  <1>1. /\ issue' = [issue EXCEPT ![i] = [status |-> now, revision |-> issue[i].revision + 1,
                                          resolvedBy |-> None]]
        /\ history' = history \cup {h}
    BY DEF ContradictInto
  <1>2. /\ issue'[i] = [status |-> now, revision |-> issue[i].revision + 1, resolvedBy |-> None]
        /\ \A j \in Proposal : j # i => issue'[j] = issue[j]
    BY <1>1 DEF TypeInv, TypeOK
  <1>3. h = Step(i, ticket[p]) /\ issue'[i].status # "NONE"
    BY <1>2 DEF Step
  <1>4. HistoryOf(i)' = HistoryOf(i) \cup {Step(i, ticket[p])}
    BY <1>1, <1>3 DEF HistoryOf, Step
  <1>5. \A j \in Proposal : j # i => HistoryOf(j)' = HistoryOf(j)
    BY <1>1 DEF HistoryOf
  <1> QED
    BY <1>2, <1>3, <1>4, <1>5 DEF Keeps, Extends

LEMMA ResolveMoves ==
  ASSUME TypeInv, NEW p \in Proposal, ApproveResolve(p),
         NEW i \in Proposal, i = body[p].issue
  PROVE  /\ Extends(i, ticket[p])
         /\ issue'[i].status = "RESOLVED"
         /\ issue'[i].resolvedBy = p
         /\ \A j \in Proposal : j # i => Keeps(j)
  <1> DEFINE h == [issue |-> i, revision |-> issue[i].revision + 1,
                   from |-> issue[i].status, to |-> "RESOLVED", seq |-> ticket[p]]
  <1>2. /\ issue' = [issue EXCEPT ![i] = [status |-> "RESOLVED",
                                          revision |-> issue[i].revision + 1,
                                          resolvedBy |-> p]]
        /\ history' = history \cup {h}
    BY DEF ApproveResolve
  <1>3. /\ issue'[i] = [status |-> "RESOLVED", revision |-> issue[i].revision + 1,
                        resolvedBy |-> p]
        /\ \A j \in Proposal : j # i => issue'[j] = issue[j]
    BY <1>2 DEF TypeInv, TypeOK
  <1>4. h = Step(i, ticket[p])
    BY <1>3 DEF Step
  <1>5. HistoryOf(i)' = HistoryOf(i) \cup {Step(i, ticket[p])}
    BY <1>2, <1>4 DEF HistoryOf, Step
  <1>6. \A j \in Proposal : j # i => HistoryOf(j)' = HistoryOf(j)
    BY <1>2 DEF HistoryOf
  <1> QED
    BY <1>3, <1>5, <1>6 DEF Keeps, Extends

LEMMA RevokeMoves ==
  ASSUME TypeInv, NEW e \in Evidence, CommitRevoke(e), NEW i \in Proposal
  PROVE  /\ i \in Touched(e) =>
               /\ Extends(i, revoking[e])
               /\ issue'[i].status = AfterRevoke(issue[i].status)
         /\ i \notin Touched(e) => Keeps(i)
  <1> DEFINE H == {[issue |-> j, revision |-> issue[j].revision + 1,
                    from |-> issue[j].status, to |-> AfterRevoke(issue[j].status),
                    seq |-> revoking[e]] : j \in Touched(e)}
  <1>1. issue'[i] = IF i \in Touched(e)
                    THEN [status |-> AfterRevoke(issue[i].status),
                          revision |-> issue[i].revision + 1, resolvedBy |-> None]
                    ELSE issue[i]
    BY DEF CommitRevoke
  <1>2. history' = history \cup H
    BY DEF CommitRevoke
  <1>3. CASE i \notin Touched(e)
    <2>1. \A h \in H : h.issue # i
      BY <1>3
    <2> QED
      BY <1>1, <1>2, <1>3, <2>1 DEF Keeps, HistoryOf
  <1>4. CASE i \in Touched(e)
    <2>1. Step(i, revoking[e]) \in H
      BY <1>1, <1>4 DEF Step
    <2>2. \A h \in H : h.issue = i => h = Step(i, revoking[e])
      BY <1>1, <1>4 DEF Step
    <2>3. Step(i, revoking[e]).issue = i
      BY DEF Step
    <2> HIDE DEF H
    <2>4. HistoryOf(i)' = HistoryOf(i) \cup {Step(i, revoking[e])}
      BY <1>2, <2>1, <2>2, <2>3 DEF HistoryOf
    <2>5. AfterRevoke(issue[i].status) # "NONE"
      BY <1>4 DEF Touched, Reopened, Live, AfterRevoke
    <2> QED
      BY <1>1, <1>4, <2>4, <2>5 DEF Extends
  <1> QED
    BY <1>3, <1>4

LEMMA OtherMoves ==
  ASSUME [Next]_vars
  PROVE  \/ UNCHANGED issueVars
         \/ \E p \in Proposal : ApproveContradict(p) \/ ApproveResolve(p)
         \/ \E e \in Evidence : CommitRevoke(e)
  BY DEF Next, vars, SubmitProposal, BeginReview, LockHead, Approve, ApproveCreate,
     ApproveRevise, ApproveReground, ApproveNoChange, Reject, AbortReview, BeginRevoke,
     AbortRevoke

LEMMA IssueMoves ==
  ASSUME TypeInv, [Next]_vars, NEW i \in Proposal
  PROVE  Keeps(i) \/ \E n \in Nat : Extends(i, n)
  <1>1. CASE UNCHANGED issueVars
    BY <1>1 DEF Keeps, HistoryOf, issueVars
  <1>2. ASSUME NEW p \in Proposal, ApproveContradict(p) PROVE Keeps(i) \/ Extends(i, ticket[p])
    <2>1. PICK j \in ConflictIssue(p) : ContradictInto(p, j)
      BY <1>2 DEF ApproveContradict
    <2>2. j \in Proposal
      BY <2>1 DEF ConflictIssue, LiveIssues
    <2> QED
      BY <2>1, <2>2, ContradictMoves
  <1>3. ASSUME NEW p \in Proposal, ApproveResolve(p) PROVE Keeps(i) \/ Extends(i, ticket[p])
    <2>1. body[p].issue \in Proposal
      BY <1>3 DEF ApproveResolve, TypeInv, ReviewShape
    <2> QED
      BY <1>3, <2>1, ResolveMoves
  <1>4. ASSUME NEW e \in Evidence, CommitRevoke(e) PROVE Keeps(i) \/ Extends(i, revoking[e])
    BY <1>4, RevokeMoves
  <1>5. (\A p \in Proposal : ticket[p] \in Nat) /\ (\A e \in Evidence : revoking[e] \in Nat)
    BY DEF TypeInv, TypeOK
  <1> QED
    BY <1>1, <1>2, <1>3, <1>4, <1>5, OtherMoves

-----------------------------------------------------------------------------
(* Replay.                                                                   *)

LEMMA ReplayInit == Init => ReplayInv
  <1> SUFFICES ASSUME Init PROVE ReplayInv
    OBVIOUS
  <1>1. LiveInv
    BY LiveInit
  <1>2. \A i \in Proposal : HistoryOf(i) = {} /\ issue[i].revision = 0
    BY DEF Init, HistoryOf, NoIssue
  <1>3. IssueReplayable
    BY <1>2 DEF IssueReplayable
  <1>4. UnopenedIsUntouched
    BY DEF Init, UnopenedIsUntouched, NoIssue
  <1> QED
    BY <1>1, <1>3, <1>4 DEF ReplayInv

\* one more transition, from where the last one ended, keeps the chain
LEMMA ExtendReplay ==
  ASSUME ReplayInv, NEW i \in Proposal, NEW n \in Nat, Extends(i, n)
  PROVE  /\ {h.revision : h \in HistoryOf(i)'} = 1 .. issue'[i].revision
         /\ \A h \in HistoryOf(i)' :
               /\ h.revision = issue'[i].revision => h.to = issue'[i].status
               /\ h.revision = 1 => h.from = "NONE"
               /\ \A g \in HistoryOf(i)' : g.revision = h.revision + 1 => g.from = h.to
               /\ \A g \in HistoryOf(i)' : g.revision = h.revision => g = h
  <1> DEFINE r == issue[i].revision
             new == Step(i, n)
  <1>1. /\ r \in Nat /\ issue'[i].revision = r + 1
        /\ HistoryOf(i)' = HistoryOf(i) \cup {new}
        /\ issue[i].status = "NONE" <=> r = 0
    BY DEF Extends, ReplayInv, LiveInv, TypeInv, TypeOK, Issue, UnopenedIsUntouched
  <1>2. /\ new.revision = r + 1 /\ new.from = issue[i].status /\ new.to = issue'[i].status
    BY DEF Step
  <1>3. \A h \in HistoryOf(i) : h.revision \in 1 .. r
    BY DEF ReplayInv, IssueReplayable
  <1>4. {h.revision : h \in HistoryOf(i)} = 1 .. r
    BY DEF ReplayInv, IssueReplayable
  <1>5. {h.revision : h \in HistoryOf(i)'} = 1 .. (r + 1)
    <2> HIDE DEF r, new
    <2>1. {h.revision : h \in HistoryOf(i)'} = {h.revision : h \in HistoryOf(i)} \cup {r + 1}
      BY <1>1, <1>2
    <2>2. (1 .. r) \cup {r + 1} = 1 .. (r + 1)
      BY <1>1
    <2> QED
      BY <1>4, <2>1, <2>2
  <1>6. \A h \in HistoryOf(i) :
           /\ h.revision = r => h.to = issue[i].status
           /\ h.revision = 1 => h.from = "NONE"
           /\ \A g \in HistoryOf(i) : g.revision = h.revision + 1 => g.from = h.to
           /\ \A g \in HistoryOf(i) : g.revision = h.revision => g = h
    BY DEF ReplayInv, IssueReplayable
  <1> HIDE DEF r, new
  <1>7. ASSUME NEW h \in HistoryOf(i)'
        PROVE  /\ h.revision = r + 1 => h.to = issue'[i].status
               /\ h.revision = 1 => h.from = "NONE"
               /\ \A g \in HistoryOf(i)' : g.revision = h.revision + 1 => g.from = h.to
               /\ \A g \in HistoryOf(i)' : g.revision = h.revision => g = h
    <2>1. CASE h = new
      BY <1>1, <1>2, <1>3, <2>1
    <2>2. CASE h \in HistoryOf(i)
      BY <1>1, <1>2, <1>3, <1>6, <2>2
    <2> QED
      BY <1>1, <1>7, <2>1, <2>2
  <1> QED
    BY <1>1, <1>5, <1>7

LEMMA ReplayNext == ReplayInv /\ [Next]_vars => ReplayInv'
  <1> SUFFICES ASSUME ReplayInv, [Next]_vars PROVE ReplayInv'
    OBVIOUS
  <1>1. LiveInv' /\ TypeInv
    BY LiveNext DEF ReplayInv, LiveInv
  <1>2. UnopenedIsUntouched'
    <2> SUFFICES ASSUME NEW i \in Proposal
                 PROVE  issue'[i].status = "NONE" <=> issue'[i].revision = 0
      BY DEF UnopenedIsUntouched
    <2>1. issue[i].revision \in Nat
      BY DEF ReplayInv, LiveInv, TypeInv, TypeOK, Issue
    <2> QED
      BY <1>1, <2>1, IssueMoves DEF Keeps, Extends, ReplayInv, UnopenedIsUntouched
  <1>3. IssueReplayable'
    <2> SUFFICES ASSUME NEW i \in Proposal
                 PROVE  /\ {h.revision : h \in HistoryOf(i)'} = 1 .. issue'[i].revision
                        /\ \A h \in HistoryOf(i)' :
                              /\ h.revision = issue'[i].revision => h.to = issue'[i].status
                              /\ h.revision = 1 => h.from = "NONE"
                              /\ \A g \in HistoryOf(i)' : g.revision = h.revision + 1
                                                             => g.from = h.to
                              /\ \A g \in HistoryOf(i)' : g.revision = h.revision => g = h
      BY DEF IssueReplayable
    <2>1. CASE Keeps(i)
      BY <2>1 DEF Keeps, ReplayInv, IssueReplayable
    <2>2. CASE \E n \in Nat : Extends(i, n)
      BY <2>2, ExtendReplay
    <2> QED
      BY <1>1, <2>1, <2>2, IssueMoves
  <1> QED
    BY <1>1, <1>2, <1>3 DEF ReplayInv

\* Whatever contradictions, resolutions and revocations interleave, every issue can be
\* replayed from its transitions: one per revision, each from where the last one ended.
THEOREM IssuesReplay == Spec => []IssueReplayable
  BY ReplayInit, ReplayNext, PTL DEF Spec, ReplayInv

-----------------------------------------------------------------------------
(* Both branches.  The version a contradiction names is never uninserted and  *)
(* its grounding never changes, relations are only added, and whatever was    *)
(* proposed cited something: so what the opening of an issue recorded stays    *)
(* complete.                                                                   *)

LEMMA RelationsGrow ==
  ASSUME [Next]_vars
  PROVE  relation \subseteq relation'
  <1>1. CASE UNCHANGED issueVars
    BY <1>1 DEF issueVars
  <1>2. ASSUME NEW p \in Proposal, ApproveContradict(p) PROVE relation \subseteq relation'
    BY <1>2 DEF ApproveContradict, ContradictInto
  <1>3. ASSUME NEW p \in Proposal, ApproveResolve(p) PROVE relation \subseteq relation'
    BY <1>3 DEF ApproveResolve
  <1>4. ASSUME NEW e \in Evidence, CommitRevoke(e) PROVE relation \subseteq relation'
    BY <1>4 DEF CommitRevoke
  <1> QED
    BY <1>1, <1>2, <1>3, <1>4, OtherMoves

\* only four approvals insert a version
LEMMA VersionMoves ==
  ASSUME [Next]_vars
  PROVE  \/ UNCHANGED number
         \/ \E p \in Proposal :
               /\ phase[p] # "idle"
               /\ \/ ApproveCreate(p) \/ ApproveRevise(p)
                  \/ ApproveReground(p) \/ ApproveResolve(p)
  BY DEF Next, vars, beliefVars, SubmitProposal, BeginReview, LockHead, Approve, ApproveCreate,
     ApproveRevise, ApproveReground, ApproveResolve, ApproveContradict, ApproveNoChange, Reject,
     AbortReview, BeginRevoke, CommitRevoke, AbortRevoke

\* a version once inserted keeps its grounding
LEMMA GroundingForever ==
  ASSUME TypeInv, [Next]_vars, NEW v \in Proposal, number[v] > 0
  PROVE  number'[v] > 0 /\ Grounding(v)' = Grounding(v)
  <1>1. status[v] = "APPLIED" /\ number[v] \in Nat
    BY DEF TypeInv, TypeOK, VersionShape
  <1>2. body'[v] = body[v]
    BY <1>1, AppliedForever
  <1>3. number'[v] = number[v]
    <2>1. CASE UNCHANGED number
      BY <2>1
    <2>2. ASSUME NEW p \in Proposal, phase[p] # "idle",
                 \/ ApproveCreate(p) \/ ApproveRevise(p) \/ ApproveReground(p) \/ ApproveResolve(p)
          PROVE  number'[v] = number[v]
      <3>1. p # v
        BY <1>1, <2>2 DEF TypeInv, ReviewShape
      <3> QED
        BY <2>2, <3>1 DEF ApproveCreate, ApproveRevise, ApproveReground, ApproveResolve,
           InsertVersion, TypeInv, TypeOK
    <2> QED
      BY <2>1, <2>2, VersionMoves
  <1> QED
    BY <1>1, <1>2, <1>3 DEF Grounding

\* an insert of groundings leaves one of the type for every piece of evidence
LEMMA NewRelationsCover ==
  ASSUME NEW p, NEW i, NEW E, NEW type, NEW e \in E
  PROVE  \E r \in relation \cup NewRelations(p, i, E, type) :
            r.issue = i /\ r.evidence = e /\ r.type = type
  <1>1. CASE \E r \in relation : r.issue = i /\ r.evidence = e /\ r.type = type
    BY <1>1
  <1>2. CASE ~ \E r \in relation : r.issue = i /\ r.evidence = e /\ r.type = type
    <2>1. [issue |-> i, evidence |-> e, by |-> p, type |-> type] \in NewRelations(p, i, E, type)
      BY <1>2 DEF NewRelations
    <2> QED
      BY <2>1
  <1> QED
    BY <1>1, <1>2

\* only a contradiction opens an issue, and it bears the name of its proposal
LEMMA OpensAnIssue ==
  ASSUME TypeInv, [Next]_vars, NEW i \in Proposal,
         issue[i].status = "NONE", issue'[i].status # "NONE"
  PROVE  ApproveContradict(i) /\ ContradictInto(i, i)
  <1>1. ~ Keeps(i)
    BY DEF Keeps
  <1>2. CASE UNCHANGED issueVars
    BY <1>2 DEF issueVars
  <1>3. ASSUME NEW p \in Proposal, ApproveResolve(p) PROVE FALSE
    <2>1. body[p].issue \in Proposal /\ issue[body[p].issue].status # "NONE"
      BY <1>3 DEF ApproveResolve, IssueExpected, Live, TypeInv, ReviewShape
    <2> QED
      BY <1>1, <1>3, <2>1, ResolveMoves
  <1>4. ASSUME NEW e \in Evidence, CommitRevoke(e) PROVE FALSE
    <2>1. i \notin Touched(e)
      BY DEF Touched, Reopened, Live
    <2> QED
      BY <1>1, <1>4, <2>1, RevokeMoves
  <1>5. ASSUME NEW p \in Proposal, ApproveContradict(p)
        PROVE  ApproveContradict(i) /\ ContradictInto(i, i)
    <2>1. PICK j \in ConflictIssue(p) : ContradictInto(p, j)
      BY <1>5 DEF ApproveContradict
    <2>2. j \in Proposal
      BY <2>1 DEF ConflictIssue, LiveIssues
    <2>3. j = i
      BY <1>1, <2>1, <2>2, ContradictMoves
    <2>4. j = p
      BY <2>1, <2>3 DEF ConflictIssue, LiveIssues, Live
    <2> QED
      BY <1>5, <2>1, <2>3, <2>4
  <1> QED
    BY <1>2, <1>3, <1>4, <1>5, OtherMoves

\* only its submission writes a proposal's body or takes it out of "NONE"
LEMMA SubmittedOnce ==
  ASSUME TypeInv, [Next]_vars, NEW p \in Proposal, ~ SubmitProposal(p)
  PROVE  body'[p] = body[p] /\ (status'[p] # "NONE" => status[p] # "NONE")
  <1>1. ASSUME NEW q \in Proposal, SubmitProposal(q)
        PROVE  status'[p] = status[p] /\ body'[p] = body[p]
    <2>1. q # p
      BY <1>1
    <2> QED
      BY <1>1, <2>1 DEF SubmitProposal, TypeInv, TypeOK
  <1>2. ASSUME \A q \in Proposal : ~ SubmitProposal(q)
        PROVE  body'[p] = body[p] /\ (status'[p] # "NONE" => status[p] # "NONE")
    <2>1. UNCHANGED body
      BY <1>2 DEF Next, vars, reviewVars, BeginReview, LockHead, Approve, ApproveCreate,
         ApproveRevise, ApproveReground, ApproveResolve, ApproveContradict, ApproveNoChange,
         Conclude, Reject, AbortReview, BeginRevoke, CommitRevoke, AbortRevoke
    <2>2. UNCHANGED status \/ \E q \in Proposal : Approve(q) \/ Reject(q)
      BY <1>2 DEF Next, vars, reviewVars, BeginReview, LockHead, AbortReview, BeginRevoke,
         CommitRevoke, AbortRevoke
    <2>3. ASSUME NEW q \in Proposal, Approve(q) \/ Reject(q)
          PROVE  status[p] # "NONE" \/ status'[p] = status[p]
      <3>1. status[q] = "PENDING_REVIEW"
        BY <2>3 DEF Approve, ApproveCreate, ApproveRevise, ApproveReground, ApproveResolve,
           ApproveContradict, ApproveNoChange, Reject, TypeInv, ReviewShape
      <3>2. q # p => status'[p] = status[p]
        BY <2>3 DEF Approve, ApproveCreate, ApproveRevise, ApproveReground, ApproveResolve,
           ApproveContradict, ApproveNoChange, Conclude, Reject, TypeInv, TypeOK
      <3> QED
        BY <3>1, <3>2
    <2> QED
      BY <2>1, <2>2, <2>3
  <1> QED
    BY <1>1, <1>2

\* what a proposal inserts was cited when it was submitted
LEMMA SourcedNext ==
  ASSUME LiveInv, Sourced, [Next]_vars
  PROVE  Sourced'
  <1> USE DEF LiveInv
  <1>1. ASSUME NEW p \in Proposal, status'[p] # "NONE"
        PROVE  /\ body'[p].op \in VersionOps => body'[p].support # {}
               /\ body'[p].op = "CONTRADICT" => body'[p].contradict # {}
    <2>1. CASE SubmitProposal(p)
      <3>1. PICK op \in Ops, c \in Claim : \E S \in SupportOf(op), C \in ContradictOf(op),
               i \in IssueOf(op, c), d \in DischargesOf(op) :
                  body' = [body EXCEPT ![p] = Draft(op, c, S, C, i, d)]
        BY <2>1 DEF SubmitProposal
      <3>2. PICK S \in SupportOf(op), C \in ContradictOf(op), i \in IssueOf(op, c),
                 d \in DischargesOf(op) : body' = [body EXCEPT ![p] = Draft(op, c, S, C, i, d)]
        BY <3>1
      <3>3. body'[p].op = op /\ body'[p].support = S /\ body'[p].contradict = C
        BY <3>2 DEF Draft, TypeInv, TypeOK
      <3>4. /\ op \in VersionOps => S # {}
            /\ op = "CONTRADICT" => C # {}
        BY DEF SupportOf, ContradictOf, AdmissibleSets, Admissible
      <3> QED
        BY <3>3, <3>4
    <2>2. CASE ~ SubmitProposal(p)
      <3>1. status[p] # "NONE" /\ body'[p] = body[p]
        BY <1>1, <2>2, SubmittedOnce
      <3> QED
        BY <3>1 DEF Sourced
    <2> QED
      BY <2>1, <2>2
  <1>2. ASSUME NEW v \in Proposal, number'[v] > 0 PROVE body'[v].op \in VersionOps
    <2>1. CASE number[v] > 0
      <3>1. status[v] = "APPLIED"
        BY <2>1 DEF TypeInv, VersionShape
      <3> QED
        BY <2>1, <3>1, AppliedForever DEF Sourced
    <2>2. CASE ~ number[v] > 0
      <3>1. PICK p \in Proposal : \/ ApproveCreate(p) \/ ApproveRevise(p)
                                  \/ ApproveReground(p) \/ ApproveResolve(p)
        BY <1>2, <2>2, VersionMoves
      <3>2. p = v
        BY <1>2, <2>2, <3>1 DEF ApproveCreate, ApproveRevise, ApproveReground, ApproveResolve,
           InsertVersion, TypeInv, TypeOK
      <3> QED
        BY <3>1, <3>2 DEF ApproveCreate, ApproveRevise, ApproveReground, ApproveResolve,
           Conclude, VersionOps
    <2> QED
      BY <2>1, <2>2
  <1>3. ASSUME NEW i \in Proposal, issue'[i].status # "NONE"
        PROVE  body'[i].op = "CONTRADICT"
    <2>1. CASE issue[i].status # "NONE"
      <3>1. status[i] = "APPLIED"
        BY <2>1 DEF IssueShape
      <3> QED
        BY <2>1, <3>1, AppliedForever DEF Sourced
    <2>2. CASE issue[i].status = "NONE"
      <3>1. ApproveContradict(i)
        BY <1>3, <2>2, OpensAnIssue
      <3> QED
        BY <3>1 DEF ApproveContradict, Conclude
    <2> QED
      BY <2>1, <2>2
  <1> QED
    BY <1>1, <1>2, <1>3 DEF Sourced

LEMMA BranchInit == Init => BranchInv
  <1> SUFFICES ASSUME Init PROVE BranchInv
    OBVIOUS
  <1>1. ChainInv /\ LiveInv
    BY ChainInit, LiveInit
  <1>2. Sourced /\ ConflictKeepsBothBranches
    BY DEF Init, Sourced, ConflictKeepsBothBranches, NoIssue
  <1> QED
    BY <1>1, <1>2 DEF BranchInv

\* the contradiction that opens an issue records both branches
LEMMA OpenedWithBranches ==
  ASSUME BranchInv, NEW i \in Proposal, ApproveContradict(i), ContradictInto(i, i)
  PROVE  /\ \A e \in Grounding(body[i].expected) :
               \E r \in relation' : r.issue = i /\ r.evidence = e /\ r.type = "SUPPORT_BRANCH"
         /\ \E r \in relation' : r.issue = i /\ r.type = "CONTRADICT_BRANCH"
  <1> DEFINE S == body[i].support \cup Grounding(body[i].expected)
  <1>1. relation' = relation \cup (NewRelations(i, i, S, "SUPPORT_BRANCH")
                       \cup NewRelations(i, i, body[i].contradict, "CONTRADICT_BRANCH"))
    BY DEF ContradictInto
  <1>2. ASSUME NEW e \in Grounding(body[i].expected)
        PROVE  \E r \in relation' : r.issue = i /\ r.evidence = e /\ r.type = "SUPPORT_BRANCH"
    <2>1. e \in S
      BY <1>2
    <2> HIDE DEF S
    <2>2. \E r \in relation \cup NewRelations(i, i, S, "SUPPORT_BRANCH") :
             r.issue = i /\ r.evidence = e /\ r.type = "SUPPORT_BRANCH"
      BY <2>1, NewRelationsCover
    <2> QED
      BY <1>1, <2>2
  <1>3. \E r \in relation' : r.issue = i /\ r.type = "CONTRADICT_BRANCH"
    <2>1. PICK e \in body[i].contradict : TRUE
      BY DEF ApproveContradict, BranchInv, Sourced, LiveInv, TypeInv, ReviewShape
    <2>2. \E r \in relation \cup NewRelations(i, i, body[i].contradict, "CONTRADICT_BRANCH") :
             r.issue = i /\ r.evidence = e /\ r.type = "CONTRADICT_BRANCH"
      BY NewRelationsCover
    <2> QED
      BY <1>1, <2>2
  <1> QED
    BY <1>2, <1>3

LEMMA BranchNext == BranchInv /\ [Next]_vars => BranchInv'
  <1> SUFFICES ASSUME BranchInv, [Next]_vars PROVE BranchInv'
    OBVIOUS
  <1>1. ChainInv' /\ LiveInv' /\ Sourced' /\ TypeInv
    BY ChainNext, LiveNext, SourcedNext DEF BranchInv, LiveInv
  <1>2. ASSUME NEW i \in Proposal, issue'[i].status # "NONE"
        PROVE  /\ \A e \in (Grounding(body[i].expected))' :
                     \E r \in relation' :
                        r.issue = i /\ r.evidence = e /\ r.type = "SUPPORT_BRANCH"
               /\ \E r \in relation' : r.issue = i /\ r.type = "SUPPORT_BRANCH"
               /\ \E r \in relation' : r.issue = i /\ r.type = "CONTRADICT_BRANCH"
    <2> DEFINE v == body[i].expected
    <2>1. status[i] # "NONE" /\ body[i].op = "CONTRADICT" /\ body'[i] = body[i]
      <3>1. CASE issue[i].status = "NONE"
        BY <1>1, <1>2, <3>1, OpensAnIssue DEF ApproveContradict, Conclude, TypeInv, ReviewShape
      <3>2. CASE issue[i].status # "NONE"
        BY <1>1, <3>2, AppliedForever DEF BranchInv, LiveInv, IssueShape, Sourced
      <3> QED
        BY <3>1, <3>2
    <2>2. v \in Proposal /\ number[v] > 0
      BY <2>1 DEF BranchInv, ChainInv, Lineage, VersionOf, TypeInv, ReviewShape
    <2>3. (Grounding(body[i].expected))' = Grounding(v)
      <3> HIDE DEF v
      <3>1. \A w \in Proposal : number[w] > 0 => Grounding(w)' = Grounding(w)
        BY <1>1, GroundingForever
      <3>2. \A w \in Proposal : w = v => (Grounding(body[i].expected))' = Grounding(w)'
        BY <2>1 DEF Grounding, v
      <3> QED
        BY <2>2, <3>1, <3>2
    <2>4. /\ \A e \in Grounding(v) :
                \E r \in relation' :
                   r.issue = i /\ r.evidence = e /\ r.type = "SUPPORT_BRANCH"
          /\ \E r \in relation' : r.issue = i /\ r.type = "CONTRADICT_BRANCH"
      <3>1. CASE issue[i].status = "NONE"
        BY <1>1, <1>2, <3>1, OpensAnIssue, OpenedWithBranches
      <3>2. CASE issue[i].status # "NONE"
        BY <3>2, RelationsGrow DEF BranchInv, ConflictKeepsBothBranches
      <3> QED
        BY <3>1, <3>2
    <2>5. PICK e \in Grounding(v) : TRUE
      <3>1. body[v].op \in VersionOps /\ status[v] # "NONE"
        BY <1>1, <2>2 DEF BranchInv, Sourced, TypeInv, VersionShape
      <3> QED
        BY <2>2, <3>1 DEF BranchInv, Sourced, Grounding
    <2> QED
      BY <2>3, <2>4, <2>5
  <1> QED
    BY <1>1, <1>2 DEF BranchInv, ConflictKeepsBothBranches

\* Every issue keeps both branches on record, the support branch with every grounding of
\* the version that was contradicted, through whatever joins, closes or reopens it.
THEOREM BothBranchesKept == Spec => []ConflictKeepsBothBranches
  BY BranchInit, BranchNext, PTL DEF Spec, BranchInv

-----------------------------------------------------------------------------
(* The gate's reading.  Sequences are drawn long before they are written, so   *)
(* a transition may be committed with a sequence older than one on record.    *)
(* That is harmless where the status stays as it is, and cannot happen where   *)
(* it changes: a resolution draws its sequence after it has seen the revision *)
(* that it compares when it writes, and a revocation holds the rows of its    *)
(* evidence from the moment it draws, so that no resolution can come to rest  *)
(* on them.                                                                   *)

LEMMA AsOfInit == Init => AsOfInv
  <1> SUFFICES ASSUME Init PROVE AsOfInv
    OBVIOUS
  <1>1. OrderInv /\ ReplayInv
    BY OrderInit, ReplayInit
  <1>2. \A i \in Proposal : HistoryOf(i) = {} /\ status[i] = "NONE"
    BY DEF Init, HistoryOf
  <1>3. SequencesDrawn /\ RelationsApplied
    BY DEF Init, SequencesDrawn, RelationsApplied
  <1>4. ResolveIsLatest /\ RevokeIsLatest /\ AsOfStatusIsCurrent
    BY <1>2 DEF Init, ResolveIsLatest, RevokeIsLatest, AsOfStatusIsCurrent
  <1> QED
    BY <1>1, <1>3, <1>4 DEF AsOfInv

\* the sequence only grows
LEMMA SequenceGrows ==
  ASSUME TypeInv, [Next]_vars
  PROVE  commitSeq' \in Nat /\ commitSeq <= commitSeq'
  <1>1. commitSeq' = commitSeq \/ commitSeq' = commitSeq + 1
    BY DEF Next, vars, SubmitProposal, BeginReview, LockHead, DrawTicket, Approve, ApproveCreate,
       ApproveRevise, ApproveReground, ApproveResolve, ApproveContradict, ApproveNoChange,
       Conclude, Reject, AbortReview, BeginRevoke, CommitRevoke, AbortRevoke
  <1> QED
    BY <1>1 DEF TypeInv, TypeOK

LEMMA RevokingMoves ==
  ASSUME [Next]_vars
  PROVE  \/ UNCHANGED revokeVars
         \/ \E e \in Evidence : BeginRevoke(e) \/ CommitRevoke(e) \/ AbortRevoke(e)
  BY DEF Next, vars, revokeVars, SubmitProposal, BeginReview, LockHead, Approve, ApproveCreate,
     ApproveRevise, ApproveReground, ApproveResolve, ApproveContradict, ApproveNoChange,
     Conclude, Reject, AbortReview

\* a sequence held by a TX-05 was held before or is drawn by this step
LEMMA RevokingBefore ==
  ASSUME TypeInv, [Next]_vars, NEW e \in Evidence, revoking'[e] > 0
  PROVE  BeginRevoke(e) \/ (revoking'[e] = revoking[e] /\ revokedAt'[e] = revokedAt[e])
  <1>1. CASE UNCHANGED revokeVars
    BY <1>1 DEF revokeVars
  <1>2. ASSUME NEW f \in Evidence, BeginRevoke(f) \/ CommitRevoke(f) \/ AbortRevoke(f)
        PROVE  BeginRevoke(e) \/ (revoking'[e] = revoking[e] /\ revokedAt'[e] = revokedAt[e])
    <2>1. revoking \in [Evidence -> Nat] /\ revokedAt \in [Evidence -> Nat]
      BY DEF TypeInv, TypeOK
    <2> QED
      BY <1>2, <2>1 DEF BeginRevoke, CommitRevoke, AbortRevoke
  <1> QED
    BY <1>1, <1>2, RevokingMoves

\* what an issue is extended by, and when its status changes
LEMMA ExtendedBy ==
  ASSUME LiveInv, [Next]_vars, NEW i \in Proposal, ~ Keeps(i)
  PROVE  \/ \E p \in Proposal :
               /\ ApproveContradict(p)
               /\ Extends(i, ticket[p])
               /\ issue[i].status # "NONE" =>
                     issue[i].status \in Live /\ issue'[i].status = issue[i].status
               /\ issue'[i].status \in Live
         \/ \E p \in Proposal :
               /\ ApproveResolve(p)
               /\ i = body[p].issue
               /\ Extends(i, ticket[p])
               /\ issue'[i].resolvedBy = p
         \/ \E e \in Evidence :
               /\ CommitRevoke(e)
               /\ i \in Touched(e)
               /\ Extends(i, revoking[e])
               /\ issue'[i].status = AfterRevoke(issue[i].status)
  <1> USE DEF LiveInv
  <1>1. ~ UNCHANGED issueVars
    BY DEF Keeps, HistoryOf, issueVars
  <1>2. ASSUME NEW p \in Proposal, ApproveContradict(p)
        PROVE  /\ Extends(i, ticket[p])
               /\ issue[i].status # "NONE" =>
                     issue[i].status \in Live /\ issue'[i].status = issue[i].status
               /\ issue'[i].status \in Live
    <2>1. PICK j \in ConflictIssue(p) : ContradictInto(p, j)
      BY <1>2 DEF ApproveContradict
    <2>2. j \in Proposal
      BY <2>1 DEF ConflictIssue, LiveIssues
    <2>3. j = i
      BY <2>1, <2>2, ContradictMoves
    <2>4. issue'[i].status = IF issue[i].status = "NONE" THEN "OPEN" ELSE issue[i].status
      BY <2>1, <2>3 DEF ContradictInto, TypeInv, TypeOK
    <2>5. issue[i].status # "NONE" => issue[i].status \in Live
      <3>1. CASE LiveIssues(body[p].claim) = {}
        <4>1. i = p
          BY <2>1, <2>3, <3>1 DEF ConflictIssue
        <4> QED
          BY <1>2, <4>1 DEF ApproveContradict, IssueShape, TypeInv, ReviewShape
      <3>2. CASE LiveIssues(body[p].claim) # {}
        BY <2>1, <2>3, <3>2 DEF ConflictIssue, LiveIssues
      <3> QED
        BY <3>1, <3>2
    <2> QED
      BY <2>1, <2>2, <2>3, <2>4, <2>5, ContradictMoves DEF Live
  <1>3. ASSUME NEW p \in Proposal, ApproveResolve(p)
        PROVE  /\ i = body[p].issue
               /\ Extends(i, ticket[p])
               /\ issue'[i].resolvedBy = p
    <2>1. body[p].issue \in Proposal
      BY <1>3 DEF ApproveResolve, TypeInv, ReviewShape
    <2> QED
      BY <1>3, <2>1, ResolveMoves
  <1>4. ASSUME NEW e \in Evidence, CommitRevoke(e)
        PROVE  /\ i \in Touched(e)
               /\ Extends(i, revoking[e])
               /\ issue'[i].status = AfterRevoke(issue[i].status)
    BY <1>4, RevokeMoves
  <1> QED
    BY <1>1, <1>2, <1>3, <1>4, OtherMoves

LEMMA DrawnNext ==
  ASSUME AsOfInv, [Next]_vars
  PROVE  SequencesDrawn'
  <1>1. LiveInv /\ TypeInv /\ Tickets /\ commitSeq \in Nat
    BY DEF AsOfInv, OrderInv, ReplayInv, LiveInv, TypeInv, TypeOK
  <1>2. commitSeq' \in Nat /\ commitSeq <= commitSeq'
    BY <1>1, SequenceGrows
  <1>3. ASSUME NEW e \in Evidence
        PROVE  revoking'[e] <= commitSeq' /\ revokedAt'[e] <= commitSeq'
    <2>1. \A f \in Evidence : /\ revoking[f] \in Nat /\ revoking[f] <= commitSeq
                              /\ revokedAt[f] \in Nat /\ revokedAt[f] <= commitSeq
      BY <1>1 DEF TypeInv, TypeOK, AsOfInv, SequencesDrawn
    <2>2. CASE UNCHANGED revokeVars
      BY <1>1, <1>2, <2>1, <2>2 DEF revokeVars
    <2>3. ASSUME NEW f \in Evidence, BeginRevoke(f) \/ CommitRevoke(f) \/ AbortRevoke(f)
          PROVE  revoking'[e] <= commitSeq' /\ revokedAt'[e] <= commitSeq'
      <3>1. revoking \in [Evidence -> Nat] /\ revokedAt \in [Evidence -> Nat]
        BY <1>1 DEF TypeInv, TypeOK
      <3> QED
        BY <1>1, <1>2, <2>1, <2>3, <3>1 DEF BeginRevoke, CommitRevoke, AbortRevoke
    <2> QED
      BY <2>2, <2>3, RevokingMoves
  <1>4. ASSUME NEW h \in history' PROVE h.seq <= commitSeq'
    <2>1. h.issue \in Proposal /\ h \in (HistoryOf(h.issue))'
      BY <1>1, TypeNext DEF TypeInv, TypeOK, Transition, HistoryOf
    <2>2. PICK i \in Proposal : h \in HistoryOf(i)'
      BY <2>1
    <2>3. CASE h \in HistoryOf(i)
      <3>1. h \in history /\ h.seq \in Nat /\ h.seq <= commitSeq
        BY <1>1, <2>3 DEF HistoryOf, AsOfInv, SequencesDrawn, TypeInv, TypeOK, Transition
      <3> QED
        BY <1>1, <1>2, <3>1
    <2>4. CASE h \notin HistoryOf(i)
      <3>1. \/ \E p \in Proposal : Extends(i, ticket[p])
            \/ \E e \in Evidence : Extends(i, revoking[e])
        BY <1>1, <2>2, <2>4, ExtendedBy DEF Keeps
      <3>2. PICK n \in Nat : Extends(i, n) /\ n <= commitSeq
        BY <1>1, <3>1 DEF Tickets, AsOfInv, SequencesDrawn, TypeInv, TypeOK
      <3>3. h.seq = n
        BY <2>2, <2>4, <3>2 DEF Extends, Step
      <3> QED
        BY <1>1, <1>2, <3>2, <3>3
    <2> QED
      BY <2>3, <2>4
  <1> QED
    BY <1>3, <1>4 DEF SequencesDrawn

LEMMA RelationsAppliedNext ==
  ASSUME AsOfInv, [Next]_vars
  PROVE  RelationsApplied'
  <1>1. TypeInv
    BY DEF AsOfInv, OrderInv, ChainInv
  <1>2. ASSUME NEW r \in relation PROVE status'[r.by] = "APPLIED"
    BY <1>1, AppliedForever DEF AsOfInv, RelationsApplied, TypeInv, TypeOK, Relation
  <1>3. ASSUME NEW p \in Proposal, ApproveContradict(p) \/ ApproveResolve(p), NEW r \in relation'
        PROVE  r \in relation \/ r.by = p
    <2>1. ASSUME NEW i, NEW E, NEW t, NEW x \in NewRelations(p, i, E, t) PROVE x.by = p
      BY DEF NewRelations
    <2>2. CASE ApproveResolve(p)
      BY <2>1, <2>2 DEF ApproveResolve
    <2>3. CASE ApproveContradict(p)
      <3>1. PICK i \in ConflictIssue(p) : ContradictInto(p, i)
        BY <2>3 DEF ApproveContradict
      <3> QED
        BY <2>1, <3>1 DEF ContradictInto
    <2> QED
      BY <1>3, <2>2, <2>3
  <1>4. ASSUME NEW p \in Proposal, ApproveContradict(p) \/ ApproveResolve(p)
        PROVE  status'[p] = "APPLIED"
    BY <1>1, <1>4 DEF ApproveContradict, ApproveResolve, Conclude, TypeInv, TypeOK
  <1>5. \/ UNCHANGED relation
        \/ \E p \in Proposal : ApproveContradict(p) \/ ApproveResolve(p)
    BY OtherMoves DEF issueVars, CommitRevoke
  <1> QED
    BY <1>2, <1>3, <1>4, <1>5 DEF RelationsApplied

\* a review is locked by the step that draws its sequence or was locked before
LEMMA LockedBefore ==
  ASSUME TypeInv, [Next]_vars, NEW p \in Proposal, phase'[p] = "locked"
  PROVE  LockHead(p) \/ (phase[p] = "locked" /\ ticket'[p] = ticket[p])
  <1>1. ASSUME NEW q \in Proposal, q # p,
               BeginReview(q) \/ LockHead(q) \/ Approve(q) \/ AbortReview(q)
        PROVE  phase'[p] = phase[p] /\ ticket'[p] = ticket[p]
    BY <1>1 DEF BeginReview, LockHead, DrawTicket, Approve, ApproveCreate, ApproveRevise,
       ApproveReground, ApproveResolve, ApproveContradict, ApproveNoChange, Conclude, AbortReview,
       TypeInv, TypeOK
  <1>2. ~ (BeginReview(p) \/ Approve(p) \/ AbortReview(p))
    BY DEF BeginReview, Approve, ApproveCreate, ApproveRevise, ApproveReground, ApproveResolve,
       ApproveContradict, ApproveNoChange, Conclude, AbortReview, TypeInv, TypeOK
  <1>3. \/ UNCHANGED <<phase, ticket>>
        \/ \E q \in Proposal : BeginReview(q) \/ LockHead(q) \/ Approve(q) \/ AbortReview(q)
    BY DEF Next, vars, reviewVars, SubmitProposal, Reject, BeginRevoke, CommitRevoke, AbortRevoke
  <1> QED
    BY <1>1, <1>2, <1>3

LEMMA ResolveLatestNext ==
  ASSUME AsOfInv, [Next]_vars
  PROVE  ResolveIsLatest'
  <1>1. LiveInv /\ TypeInv
    BY DEF AsOfInv, ReplayInv, LiveInv
  <1>2. ASSUME NEW p \in Proposal, status'[p] # "NONE", body'[p].op = "RESOLVE", status[p] # "NONE"
        PROVE  body[p].op = "RESOLVE" /\ body[p].issue \in Proposal /\ body'[p] = body[p]
    <2>1. body'[p] = body[p]
      BY <1>1, <1>2, SubmittedOnce DEF SubmitProposal
    <2> QED
      BY <1>1, <1>2, <2>1 DEF TypeInv, ReviewShape
  <1>3. ASSUME NEW p \in Proposal, status'[p] # "NONE", body'[p].op = "RESOLVE",
               NEW i \in Proposal, i = body'[p].issue
        PROVE  /\ body'[p].issueRevision <= issue'[i].revision
               /\ phase'[p] = "locked" /\ body'[p].issueRevision = issue'[i].revision =>
                     \A h \in HistoryOf(i)' : h.seq < ticket'[p]
    <2>1. CASE status[p] = "NONE"
      <3>1. SubmitProposal(p)
        BY <1>1, <1>3, <2>1, SubmittedOnce
      <3>2. phase'[p] # "locked"
        BY <1>1, <2>1, <3>1 DEF SubmitProposal, TypeInv, TypeOK, ReviewShape
      <3>3. PICK op \in Ops, c \in Claim : \E S \in SupportOf(op), C \in ContradictOf(op),
               j \in IssueOf(op, c), d \in DischargesOf(op) :
                  body' = [body EXCEPT ![p] = Draft(op, c, S, C, j, d)]
        BY <3>1 DEF SubmitProposal
      <3>4. PICK S \in SupportOf(op), C \in ContradictOf(op), j \in IssueOf(op, c),
                 d \in DischargesOf(op) : body' = [body EXCEPT ![p] = Draft(op, c, S, C, j, d)]
        BY <3>3
      <3>5. body'[p].issue = j /\ body'[p].issueRevision = IF j = None THEN 0 ELSE issue[j].revision
        BY <1>1, <3>4 DEF Draft, TypeInv, TypeOK
      <3>6. issue'[i] = issue[i] /\ issue[i].revision \in Nat
        BY <1>1, <3>1 DEF SubmitProposal, issueVars, TypeInv, TypeOK, Issue
      <3> QED
        BY <1>3, <3>2, <3>5, <3>6, NoneAssumption
    <2>2. CASE status[p] # "NONE"
      <3>1. /\ body[p].op = "RESOLVE" /\ body'[p] = body[p] /\ i = body[p].issue
            /\ body[p].issueRevision \in Nat /\ issue[i].revision \in Nat
        BY <1>1, <1>2, <1>3, <2>2 DEF TypeInv, TypeOK, Body, Issue
      <3>2. /\ body[p].issueRevision <= issue[i].revision
            /\ phase[p] = "locked" /\ body[p].issueRevision = issue[i].revision =>
                  \A h \in HistoryOf(i) : h.seq < ticket[p]
        BY <2>2, <3>1 DEF AsOfInv, ResolveIsLatest
      <3>3. CASE ~ Keeps(i)
        <4>1. issue'[i].revision = issue[i].revision + 1
          BY <1>1, <3>3, ExtendedBy DEF Extends
        <4> QED
          BY <3>1, <3>2, <4>1
      <3>4. CASE Keeps(i)
        <4>1. issue'[i] = issue[i] /\ HistoryOf(i)' = HistoryOf(i)
          BY <3>4 DEF Keeps
        <4>2. CASE LockHead(p)
          <5>1. ticket'[p] = commitSeq + 1
            BY <1>1, <3>1, <4>2 DEF LockHead, DrawTicket, TypeInv, TypeOK
          <5>2. \A h \in HistoryOf(i) : h.seq \in Nat /\ h.seq <= commitSeq
            BY <1>1 DEF HistoryOf, AsOfInv, SequencesDrawn, TypeInv, TypeOK, Transition
          <5>3. commitSeq \in Nat
            BY <1>1 DEF TypeInv, TypeOK
          <5> QED
            BY <3>1, <3>2, <4>1, <5>1, <5>2, <5>3
        <4>3. CASE ~ LockHead(p)
          <5>1. phase'[p] = "locked" => phase[p] = "locked" /\ ticket'[p] = ticket[p]
            BY <1>1, <4>3, LockedBefore
          <5> QED
            BY <3>1, <3>2, <4>1, <5>1
        <4> QED
          BY <4>2, <4>3
      <3> QED
        BY <3>3, <3>4
    <2> QED
      BY <2>1, <2>2
  <1>4. ASSUME NEW p \in Proposal, status'[p] # "NONE", body'[p].op = "RESOLVE"
        PROVE  /\ body'[p].issueRevision <= issue'[body'[p].issue].revision
               /\ phase'[p] = "locked"
                  /\ body'[p].issueRevision = issue'[body'[p].issue].revision =>
                     \A h \in HistoryOf(body[p].issue)' : h.seq < ticket'[p]
    <2>1. body'[p].issue \in Proposal
      BY <1>1, <1>4, TypeNext DEF TypeInv, ReviewShape
    <2> QED
      BY <1>3, <1>4, <2>1 DEF HistoryOf
  <1> QED
    BY <1>4 DEF ResolveIsLatest

\* evidence that a TX-05 holds cannot become the candidate of a resolution
LEMMA ReopenedBefore ==
  ASSUME AsOfInv, [Next]_vars, NEW e \in Evidence, revoking[e] > 0, revoking'[e] > 0,
         NEW i \in Proposal, i \in Reopened(e)'
  PROVE  i \in Reopened(e) /\ Keeps(i)
  <1>1. LiveInv /\ TypeInv
    BY DEF AsOfInv, ReplayInv, LiveInv
  <1>2. PICK r \in relation' : /\ issue'[i].status = "RESOLVED"
                               /\ r.issue = i
                               /\ r.evidence = e
                               /\ r.type = "RESOLUTION_CANDIDATE"
                               /\ r.by = issue'[i].resolvedBy
    BY DEF Reopened
  <1>3. Keeps(i)
    <2> SUFFICES ASSUME ~ Keeps(i) PROVE FALSE
      OBVIOUS
    <2>1. PICK p \in Proposal : ApproveResolve(p) /\ i = body[p].issue /\ issue'[i].resolvedBy = p
      BY <1>1, <1>2, ExtendedBy DEF AfterRevoke, Live
    <2>2. r \notin relation
      BY <1>1, <1>2, <2>1 DEF AsOfInv, RelationsApplied, ApproveResolve, TypeInv, ReviewShape
    <2>3. r \in NewRelations(p, i, body[p].support, "RESOLUTION_CANDIDATE")
      BY <2>1, <2>2 DEF ApproveResolve
    <2>4. e \in body[p].support
      BY <1>2, <2>3 DEF NewRelations
    <2>5. revoking[e] = 0
      BY <2>1, <2>4 DEF ApproveResolve, RowsFree
    <2> QED
      BY <2>5
  <1>4. issue'[i] = issue[i]
    BY <1>3 DEF Keeps
  <1>5. r \in relation
    <2> SUFFICES ASSUME r \notin relation PROVE FALSE
      OBVIOUS
    <2>1. ASSUME NEW p \in Proposal, ApproveContradict(p) PROVE FALSE
      <3>1. PICK j \in ConflictIssue(p) : ContradictInto(p, j)
        BY <2>1 DEF ApproveContradict
      <3>2. ASSUME NEW E, NEW t, NEW x \in NewRelations(p, j, E, t) PROVE x.type = t
        BY <3>2 DEF NewRelations
      <3> QED
        BY <1>2, <3>1, <3>2 DEF ContradictInto
    <2>2. ASSUME NEW p \in Proposal, ApproveResolve(p) PROVE FALSE
      <3>1. r \in NewRelations(p, body[p].issue, body[p].support, "RESOLUTION_CANDIDATE")
        BY <2>2 DEF ApproveResolve
      <3>2. i = body[p].issue
        BY <1>2, <3>1 DEF NewRelations
      <3>3. Extends(i, ticket[p]) /\ issue[i].revision \in Nat
        BY <1>1, <2>2, <3>2, ResolveMoves DEF TypeInv, TypeOK, Issue
      <3> QED
        BY <1>4, <3>3 DEF Extends
    <2> QED
      BY <1>2, <2>1, <2>2, OtherMoves DEF issueVars, CommitRevoke
  <1> QED
    BY <1>2, <1>3, <1>4, <1>5 DEF Reopened

LEMMA RevokeLatestNext ==
  ASSUME AsOfInv, [Next]_vars
  PROVE  RevokeIsLatest'
  <1>1. LiveInv /\ TypeInv /\ commitSeq \in Nat
    BY DEF AsOfInv, ReplayInv, LiveInv, TypeInv, TypeOK
  <1>2. ASSUME NEW e \in Evidence, revoking'[e] > 0, NEW i \in Reopened(e)', NEW h \in HistoryOf(i)'
        PROVE  h.seq < revoking'[e]
    <2>1. i \in Proposal
      BY DEF Reopened
    <2>2. CASE revoking[e] > 0
      <3>1. i \in Reopened(e) /\ h \in HistoryOf(i)
        BY <1>2, <2>1, <2>2, ReopenedBefore DEF Keeps
      <3>2. revoking'[e] = revoking[e]
        BY <1>1, <1>2, <2>2, RevokingBefore DEF BeginRevoke
      <3> QED
        BY <2>2, <3>1, <3>2 DEF AsOfInv, RevokeIsLatest
    <2>3. CASE ~ revoking[e] > 0
      <3>1. BeginRevoke(e)
        BY <1>1, <1>2, <2>3, RevokingBefore
      <3>2. revoking'[e] = commitSeq + 1 /\ history' = history
        BY <1>1, <3>1 DEF BeginRevoke, issueVars, TypeInv, TypeOK
      <3>3. h.seq \in Nat /\ h.seq <= commitSeq
        BY <1>1, <1>2, <3>2 DEF HistoryOf, AsOfInv, SequencesDrawn, TypeInv, TypeOK, Transition
      <3> QED
        BY <1>1, <3>2, <3>3
    <2> QED
      BY <2>2, <2>3
  <1> QED
    BY <1>2 DEF RevokeIsLatest

\* a transition that changes the status holds the greatest sequence of its issue
LEMMA StatusChangesLatest ==
  ASSUME AsOfInv, [Next]_vars, NEW i \in Proposal, ~ Keeps(i)
  PROVE  \E n \in Nat :
            /\ Extends(i, n)
            /\ issue'[i].status # issue[i].status => \A h \in HistoryOf(i) : h.seq < n
  <1>1. LiveInv /\ TypeInv
    BY DEF AsOfInv, ReplayInv, LiveInv
  <1>2. ASSUME NEW p \in Proposal, ApproveContradict(p), Extends(i, ticket[p]),
               issue[i].status # "NONE" => issue'[i].status = issue[i].status
        PROVE  /\ ticket[p] \in Nat
               /\ issue'[i].status # issue[i].status =>
                     \A h \in HistoryOf(i) : h.seq < ticket[p]
    <2>1. issue[i].status = "NONE" => HistoryOf(i) = {}
      <3>1. issue[i].status = "NONE" => {h.revision : h \in HistoryOf(i)} = 1 .. 0
        BY DEF AsOfInv, ReplayInv, UnopenedIsUntouched, IssueReplayable
      <3>2. 1 .. 0 = {}
        OBVIOUS
      <3> QED
        BY <3>1, <3>2
    <2> QED
      BY <1>1, <1>2, <2>1 DEF TypeInv, TypeOK
  <1>3. ASSUME NEW p \in Proposal, ApproveResolve(p), i = body[p].issue
        PROVE  ticket[p] \in Nat /\ \A h \in HistoryOf(i) : h.seq < ticket[p]
    BY <1>1, <1>3
    DEF ApproveResolve, IssueExpected, AsOfInv, ResolveIsLatest, TypeInv, TypeOK, ReviewShape
  <1>4. ASSUME NEW e \in Evidence, CommitRevoke(e), i \in Touched(e),
               issue'[i].status = AfterRevoke(issue[i].status)
        PROVE  /\ revoking[e] \in Nat
               /\ issue'[i].status # issue[i].status =>
                     \A h \in HistoryOf(i) : h.seq < revoking[e]
    <2>1. revoking[e] \in Nat /\ revoking[e] > 0
      BY <1>1, <1>4 DEF CommitRevoke, TypeInv, TypeOK
    <2>2. issue'[i].status # issue[i].status => i \in Reopened(e)
      BY <1>4 DEF AfterRevoke, Touched, Live
    <2> QED
      BY <2>1, <2>2 DEF AsOfInv, RevokeIsLatest
  <1> QED
    BY <1>1, <1>2, <1>3, <1>4, ExtendedBy

LEMMA AsOfNext == AsOfInv /\ [Next]_vars => AsOfInv'
  <1> SUFFICES ASSUME AsOfInv, [Next]_vars PROVE AsOfInv'
    OBVIOUS
  <1>1. OrderInv' /\ ReplayInv'
    BY OrderNext, ReplayNext DEF AsOfInv
  <1>2. AsOfStatusIsCurrent'
    <2> SUFFICES ASSUME NEW i \in Proposal, NEW h \in HistoryOf(i)',
                        \A g \in HistoryOf(i)' : g.seq <= h.seq
                 PROVE  h.to = issue'[i].status
      BY DEF AsOfStatusIsCurrent
    <2>1. CASE Keeps(i)
      BY <2>1 DEF Keeps, AsOfInv, AsOfStatusIsCurrent
    <2>2. CASE ~ Keeps(i)
      <3>1. PICK n \in Nat :
               /\ Extends(i, n)
               /\ issue'[i].status # issue[i].status => \A g \in HistoryOf(i) : g.seq < n
        BY <2>2, StatusChangesLatest
      <3>2. /\ HistoryOf(i)' = HistoryOf(i) \cup {Step(i, n)}
            /\ Step(i, n).seq = n /\ Step(i, n).to = issue'[i].status
        BY <3>1 DEF Extends, Step
      <3>3. CASE h = Step(i, n)
        BY <3>2, <3>3
      <3>4. CASE h \in HistoryOf(i)
        <4>1. n <= h.seq /\ h.seq \in Nat
          BY <3>2, <3>4 DEF HistoryOf, AsOfInv, ReplayInv, LiveInv, TypeInv, TypeOK, Transition
        <4>2. issue'[i].status = issue[i].status
          BY <3>1, <3>4, <4>1
        <4> QED
          BY <3>2, <3>4, <4>2 DEF AsOfInv, AsOfStatusIsCurrent
      <3> QED
        BY <3>2, <3>3, <3>4
    <2> QED
      BY <2>1, <2>2
  <1> QED
    BY <1>1, <1>2, DrawnNext, RelationsAppliedNext, ResolveLatestNext, RevokeLatestNext
    DEF AsOfInv

\* The status the gate reads from the transition with the greatest sequence is the
\* status of the issue, though sequences are not committed in the order of their draw.
THEOREM GateReadsStatus == Spec => []AsOfStatusIsCurrent
  BY AsOfInit, AsOfNext, PTL DEF Spec, AsOfInv

-----------------------------------------------------------------------------
(* Announcements.  A sequence is drawn once, above every other; what a        *)
(* transaction commits it commits together with the events that carry the     *)
(* sequence it drew, and neither is changed afterwards.                       *)

LEMMA AnnounceInit == Init => AnnounceInv
  <1> SUFFICES ASSUME Init PROVE AnnounceInv
    OBVIOUS
  <1>1. AsOfInv
    BY AsOfInit
  <1>2. SequencesApart
    BY DEF Init, SequencesApart
  <1>3. EveryCommitAnnounced
    BY DEF Init, EveryCommitAnnounced
  <1> QED
    BY <1>1, <1>2, <1>3 DEF AnnounceInv

LEMMA ApartNext ==
  ASSUME AnnounceInv, [Next]_vars
  PROVE  SequencesApart'
  <1>1. /\ ticket \in [Proposal -> Nat] /\ revoking \in [Evidence -> Nat]
        /\ revokedAt \in [Evidence -> Nat] /\ commitSeq \in Nat
    BY DEF AnnounceInv, AsOfInv, ReplayInv, LiveInv, TypeInv, TypeOK
  <1>2. /\ \A p \in Proposal : ticket[p] <= commitSeq
        /\ \A e \in Evidence : revoking[e] <= commitSeq /\ revokedAt[e] <= commitSeq
    BY DEF AnnounceInv, AsOfInv, OrderInv, Tickets, SequencesDrawn
  <1>3. SequencesApart
    BY DEF AnnounceInv
  <1>4. CASE UNCHANGED <<ticket, revokeVars>>
    BY <1>3, <1>4 DEF SequencesApart, revokeVars
  <1>5. ASSUME NEW p \in Proposal, ticket' = [ticket EXCEPT ![p] = commitSeq + 1],
               UNCHANGED revokeVars
        PROVE  SequencesApart'
    BY <1>1, <1>2, <1>3, <1>5 DEF SequencesApart, revokeVars
  <1>6. ASSUME NEW p \in Proposal, ticket' = [ticket EXCEPT ![p] = 0], UNCHANGED revokeVars
        PROVE  SequencesApart'
    BY <1>1, <1>3, <1>6 DEF SequencesApart, revokeVars
  <1>7. ASSUME NEW e \in Evidence, BeginRevoke(e) PROVE SequencesApart'
    <2>1. /\ UNCHANGED <<ticket, revokedAt>> /\ revokedAt[e] = 0
          /\ revoking' = [revoking EXCEPT ![e] = commitSeq + 1]
      BY <1>7 DEF BeginRevoke, reviewVars
    <2> QED
      BY <1>1, <1>2, <1>3, <2>1 DEF SequencesApart
  <1>8. ASSUME NEW e \in Evidence, CommitRevoke(e) PROVE SequencesApart'
    <2>1. /\ UNCHANGED ticket /\ revoking[e] > 0
          /\ revoking' = [revoking EXCEPT ![e] = 0]
          /\ revokedAt' = [revokedAt EXCEPT ![e] = revoking[e]]
      BY <1>1, <1>8 DEF CommitRevoke, reviewVars
    <2> QED
      BY <1>1, <1>3, <2>1 DEF SequencesApart
  <1>9. ASSUME NEW e \in Evidence, AbortRevoke(e) PROVE SequencesApart'
    <2>1. UNCHANGED <<ticket, revokedAt>> /\ revoking' = [revoking EXCEPT ![e] = 0]
      BY <1>9 DEF AbortRevoke, reviewVars
    <2> QED
      BY <1>1, <1>3, <2>1 DEF SequencesApart
  <1>10. \/ UNCHANGED ticket
         \/ \E p \in Proposal : /\ \/ ticket' = [ticket EXCEPT ![p] = commitSeq + 1]
                                   \/ ticket' = [ticket EXCEPT ![p] = 0]
                                /\ UNCHANGED revokeVars
    BY DEF Next, vars, reviewVars, SubmitProposal, BeginReview, LockHead, DrawTicket, Approve,
       ApproveCreate, ApproveRevise, ApproveReground, ApproveResolve, ApproveContradict,
       ApproveNoChange, Conclude, Reject, AbortReview, BeginRevoke, CommitRevoke, AbortRevoke
  <1> QED
    BY <1>4, <1>5, <1>6, <1>7, <1>8, <1>9, <1>10, RevokingMoves

\* what is committed keeps the sequence it was committed with
LEMMA TicketForever ==
  ASSUME TypeInv, [Next]_vars, NEW p \in Proposal, status[p] = "APPLIED"
  PROVE  ticket'[p] = ticket[p]
  <1>1. phase[p] = "idle" /\ ticket \in [Proposal -> Nat]
    BY DEF TypeInv, TypeOK, ReviewShape
  <1>2. ASSUME NEW q \in Proposal, BeginReview(q) \/ LockHead(q) \/ AbortReview(q)
        PROVE  ticket'[p] = ticket[p]
    <2>1. q # p
      BY <1>1, <1>2 DEF BeginReview, LockHead, AbortReview
    <2> QED
      BY <1>1, <1>2, <2>1 DEF BeginReview, LockHead, AbortReview, DrawTicket
  <1>3. \/ UNCHANGED ticket
        \/ \E q \in Proposal : BeginReview(q) \/ LockHead(q) \/ AbortReview(q)
    BY DEF Next, vars, reviewVars, SubmitProposal, Approve, ApproveCreate, ApproveRevise,
       ApproveReground, ApproveResolve, ApproveContradict, ApproveNoChange, Conclude, Reject,
       BeginRevoke, CommitRevoke, AbortRevoke
  <1> QED
    BY <1>2, <1>3

LEMMA RevokedForever ==
  ASSUME TypeInv, SequencesApart, [Next]_vars, NEW e \in Evidence, revokedAt[e] > 0
  PROVE  revokedAt'[e] = revokedAt[e]
  <1>1. CASE UNCHANGED revokeVars
    BY <1>1 DEF revokeVars
  <1>2. ASSUME NEW f \in Evidence, BeginRevoke(f) \/ AbortRevoke(f)
        PROVE  revokedAt'[e] = revokedAt[e]
    BY <1>2 DEF BeginRevoke, AbortRevoke
  <1>3. ASSUME NEW f \in Evidence, CommitRevoke(f) PROVE revokedAt'[e] = revokedAt[e]
    <2>1. revoking[f] > 0 /\ revokedAt \in [Evidence -> Nat]
      BY <1>3 DEF CommitRevoke, TypeInv, TypeOK
    <2>2. f # e
      BY <2>1 DEF SequencesApart
    <2> QED
      BY <1>3, <2>1, <2>2 DEF CommitRevoke
  <1> QED
    BY <1>1, <1>2, <1>3, RevokingMoves

LEMMA ApproveAnnounces ==
  ASSUME TypeInv, Tickets, NEW p \in Proposal, Approve(p)
  PROVE  /\ \E t \in {"CLAIM_VERSION_COMMITTED", "OPEN_ISSUE_CHANGED", "NO_CHANGE_RECORDED"} :
               outbox' = outbox \cup {[event |-> t, subject |-> p, seq |-> ticket[p]]}
         /\ \E o \in outbox' : o.subject = p /\ o.seq = ticket[p]
         /\ ticket[p] > 0 /\ ticket' = ticket /\ status'[p] = "APPLIED"
  <1>1. PICK t \in {"CLAIM_VERSION_COMMITTED", "OPEN_ISSUE_CHANGED", "NO_CHANGE_RECORDED"} :
           outbox' = outbox \cup {[event |-> t, subject |-> p, seq |-> ticket[p]]}
    BY DEF Approve, ApproveCreate, ApproveRevise, ApproveReground, ApproveResolve,
       ApproveContradict, ApproveNoChange, Conclude, Announce
  <1>2. ticket[p] > 0 /\ ticket' = ticket /\ status'[p] = "APPLIED"
    BY DEF Approve, ApproveCreate, ApproveRevise, ApproveReground, ApproveResolve,
       ApproveContradict, ApproveNoChange, Conclude, Tickets, TypeInv, TypeOK
  <1>3. [event |-> t, subject |-> p, seq |-> ticket[p]] \in outbox'
    BY <1>1
  <1> QED
    BY <1>1, <1>2, <1>3

\* a step announces nothing, a proposal without a sequence, an approval with the sequence
\* of its review, or a revocation with the sequence it holds
LEMMA OutboxMoves ==
  ASSUME TypeInv, Tickets, [Next]_vars
  PROVE  \/ UNCHANGED outbox /\ ~ \E p \in Proposal : Approve(p)
         \/ \E p \in Proposal, t \in {"PROPOSAL_CREATED", "PROPOSAL_REJECTED"} :
               /\ SubmitProposal(p) \/ Reject(p)
               /\ outbox' = outbox \cup {[event |-> t, subject |-> p, seq |-> 0]}
         \/ \E p \in Proposal, t \in {"CLAIM_VERSION_COMMITTED", "OPEN_ISSUE_CHANGED",
                                      "NO_CHANGE_RECORDED"} :
               /\ Approve(p) /\ ticket[p] > 0
               /\ outbox' = outbox \cup {[event |-> t, subject |-> p, seq |-> ticket[p]]}
         \/ \E e \in Evidence : CommitRevoke(e)
  <1>2. ASSUME NEW p \in Proposal, SubmitProposal(p) \/ Reject(p)
        PROVE  \E t \in {"PROPOSAL_CREATED", "PROPOSAL_REJECTED"} :
                  outbox' = outbox \cup {[event |-> t, subject |-> p, seq |-> 0]}
    BY <1>2 DEF SubmitProposal, Reject, Announce
  <1>3. ASSUME \/ UNCHANGED vars
               \/ \E p \in Proposal : BeginReview(p) \/ LockHead(p) \/ AbortReview(p)
               \/ \E e \in Evidence : BeginRevoke(e) \/ AbortRevoke(e)
        PROVE  UNCHANGED outbox
    BY <1>3 DEF vars, BeginReview, LockHead, AbortReview, BeginRevoke, AbortRevoke
  <1>4. CASE \A p \in Proposal : ~ Approve(p)
    BY <1>2, <1>3, <1>4 DEF Next
  <1>5. CASE \E p \in Proposal : Approve(p)
    BY <1>5, ApproveAnnounces
  <1> QED
    BY <1>4, <1>5

LEMMA RevokeAnnounces ==
  ASSUME NEW e \in Evidence, CommitRevoke(e)
  PROVE  /\ outbox \subseteq outbox'
         /\ \A o \in outbox' : o \in outbox \/ (o.subject = e /\ o.seq = revoking[e])
         /\ [event |-> "PURGE_EVIDENCE_DERIVATIVES", subject |-> e, seq |-> revoking[e]] \in outbox'
  <1> DEFINE O == {[event |-> t, subject |-> e, seq |-> revoking[e]] :
                      t \in {"EVIDENCE_REVOKED", "PURGE_EVIDENCE_DERIVATIVES"}}
  <1>1. outbox' = outbox \cup O
    BY DEF CommitRevoke
  <1>2. \A o \in O : o.subject = e /\ o.seq = revoking[e]
    OBVIOUS
  <1>3. [event |-> "PURGE_EVIDENCE_DERIVATIVES", subject |-> e, seq |-> revoking[e]] \in O
    OBVIOUS
  <1> HIDE DEF O
  <1> QED
    BY <1>1, <1>2, <1>3

LEMMA AnnouncedNext ==
  ASSUME AnnounceInv, AsOfInv', SequencesApart', [Next]_vars
  PROVE  EveryCommitAnnounced'
  <1>1. LiveInv /\ TypeInv /\ Tickets /\ TypeInv' /\ SequencesApart /\ EveryCommitAnnounced
    BY TypeNext DEF AnnounceInv, AsOfInv, OrderInv, ReplayInv, LiveInv
  <1>2. outbox \subseteq outbox'
    BY <1>1, OutboxMoves, RevokeAnnounces
  <1>3. ASSUME NEW v \in Proposal, number'[v] > 0
        PROVE  \E o \in outbox' : o.subject = v /\ o.seq = ticket'[v] /\ o.seq > 0
    <2>1. CASE number[v] > 0
      <3>1. ticket'[v] = ticket[v]
        BY <1>1, <2>1, TicketForever DEF TypeInv, VersionShape
      <3>2. \E o \in outbox : o.subject = v /\ o.seq = ticket[v] /\ o.seq > 0
        BY <1>1, <2>1 DEF EveryCommitAnnounced
      <3> QED
        BY <1>2, <3>1, <3>2
    <2>2. CASE ~ number[v] > 0
      <3>1. PICK p \in Proposal : \/ ApproveCreate(p) \/ ApproveRevise(p)
                                  \/ ApproveReground(p) \/ ApproveResolve(p)
        BY <1>3, <2>2, VersionMoves
      <3>2. p = v
        BY <1>1, <1>3, <2>2, <3>1 DEF ApproveCreate, ApproveRevise, ApproveReground,
           ApproveResolve, InsertVersion, TypeInv, TypeOK
      <3> QED
        <4>1. Approve(v)
          BY <3>1, <3>2 DEF Approve
        <4>2. /\ \E o \in outbox' : o.subject = v /\ o.seq = ticket[v]
              /\ ticket[v] > 0 /\ ticket' = ticket
          BY <1>1, <4>1, ApproveAnnounces
        <4> QED
          BY <4>2
    <2> QED
      BY <2>1, <2>2
  <1>4. ASSUME NEW h \in history' PROVE \E o \in outbox' : o.seq = h.seq
    <2>1. h.issue \in Proposal
      BY <1>1 DEF TypeInv, TypeOK, Transition
    <2>2. PICK i \in Proposal : h \in HistoryOf(i)'
      BY <2>1 DEF HistoryOf
    <2>3. CASE h \in HistoryOf(i)
      BY <1>1, <1>2, <2>3 DEF EveryCommitAnnounced, HistoryOf
    <2>4. CASE h \notin HistoryOf(i)
      <3>1. \/ \E p \in Proposal : Approve(p) /\ Extends(i, ticket[p])
            \/ \E e \in Evidence : CommitRevoke(e) /\ Extends(i, revoking[e])
        BY <1>1, <2>2, <2>4, ExtendedBy DEF Keeps, Approve
      <3>2. \A n : Extends(i, n) => h.seq = n
        BY <2>2, <2>4 DEF Extends, Step
      <3>3. ASSUME NEW p \in Proposal, Approve(p), Extends(i, ticket[p])
            PROVE  \E o \in outbox' : o.seq = h.seq
        BY <1>1, <3>2, <3>3, ApproveAnnounces
      <3>4. ASSUME NEW e \in Evidence, CommitRevoke(e), Extends(i, revoking[e])
            PROVE  \E o \in outbox' : o.seq = h.seq
        BY <3>2, <3>4, RevokeAnnounces
      <3> QED
        BY <3>1, <3>3, <3>4
    <2> QED
      BY <2>3, <2>4
  <1>5. ASSUME NEW e \in Evidence, revokedAt'[e] > 0
        PROVE  \E o \in outbox' : /\ o.event = "PURGE_EVIDENCE_DERIVATIVES"
                                  /\ o.subject = e
                                  /\ o.seq = revokedAt'[e]
    <2>1. CASE revokedAt[e] > 0
      BY <1>1, <1>2, <2>1, RevokedForever DEF EveryCommitAnnounced
    <2>2. CASE ~ revokedAt[e] > 0
      <3>1. revokedAt \in [Evidence -> Nat]
        BY <1>1 DEF TypeInv, TypeOK
      <3>2. PICK f \in Evidence : BeginRevoke(f) \/ CommitRevoke(f) \/ AbortRevoke(f)
        BY <1>5, <2>2, RevokingMoves DEF revokeVars
      <3>3. CommitRevoke(f) /\ f = e /\ revokedAt'[e] = revoking[e]
        BY <1>5, <2>2, <3>1, <3>2 DEF BeginRevoke, CommitRevoke, AbortRevoke
      <3> QED
        BY <3>3, RevokeAnnounces
    <2> QED
      BY <2>1, <2>2
  <1>6. ASSUME NEW o \in outbox', o.seq > 0
        PROVE  IF o.subject \in Proposal
               THEN status'[o.subject] = "APPLIED" /\ ticket'[o.subject] = o.seq
               ELSE o.subject \in Evidence /\ revokedAt'[o.subject] = o.seq
    <2>1. CASE o \in outbox
      <3>1. o.subject \in Proposal \cup Evidence
        BY <1>1, <2>1 DEF TypeInv, TypeOK, Event
      <3>2. IF o.subject \in Proposal
            THEN status[o.subject] = "APPLIED" /\ ticket[o.subject] = o.seq
            ELSE revokedAt[o.subject] = o.seq
        BY <1>1, <1>6, <2>1 DEF EveryCommitAnnounced
      <3> QED
        BY <1>1, <1>6, <3>1, <3>2, AppliedForever, TicketForever, RevokedForever
    <2>2. CASE o \notin outbox
      <3>1. ASSUME NEW e \in Evidence, CommitRevoke(e)
            PROVE  o.subject = e /\ e \notin Proposal /\ revokedAt'[e] = o.seq
        BY <1>1, <2>2, <3>1, RevokeAnnounces, IdentityAssumption DEF CommitRevoke, TypeInv, TypeOK
      <3>2. ASSUME NEW p \in Proposal, Approve(p),
                   o.subject = p /\ o.seq = ticket[p]
            PROVE  status'[p] = "APPLIED" /\ ticket'[p] = ticket[p]
        BY <1>1, <3>2, ApproveAnnounces
      <3>3. \/ \E e \in Evidence : CommitRevoke(e)
            \/ \E p \in Proposal : Approve(p) /\ o.subject = p /\ o.seq = ticket[p]
        BY <1>1, <1>6, <2>2, OutboxMoves
      <3> QED
        BY <3>1, <3>2, <3>3
    <2> QED
      BY <2>1, <2>2
  <1>7. ASSUME NEW o \in outbox', NEW q \in outbox', o.seq = q.seq, o.seq > 0
        PROVE  o.subject = q.subject
    BY <1>6, <1>7 DEF SequencesApart
  <1> QED
    BY <1>3, <1>4, <1>5, <1>6, <1>7 DEF EveryCommitAnnounced

\* Every governed commit is announced by events that carry its own sequence, and no
\* event announces a transaction that was rolled back.
THEOREM CommitsAnnounced == Spec => []EveryCommitAnnounced
  <1>1. AnnounceInv /\ [Next]_vars => AnnounceInv'
    BY AsOfNext, ApartNext, AnnouncedNext DEF AnnounceInv
  <1> QED
    BY <1>1, AnnounceInit, PTL DEF Spec, AnnounceInv
=============================================================================
