--------------------- MODULE CanonicalGovernanceProofs ---------------------
(* Theorems about CanonicalGovernance for every set of claims, evidence and *)
(* proposals, and every bound on the sequence.                              *)
EXTENDS CanonicalGovernance, TLAPS

-----------------------------------------------------------------------------
(* Type correctness.  A review is open only on a pending proposal, and a     *)
(* proposal names the version or issue its operation needs: without these    *)
(* two the versions and revisions the approvals compute have no type.        *)

ReviewShape ==
    /\ \A p \in Proposal : phase[p] # "idle" => status[p] = "PENDING_REVIEW"
    /\ \A p \in Proposal : status[p] # "NONE" =>
          /\ body[p].op # "CREATE" => body[p].expected \in Proposal
          /\ body[p].op = "RESOLVE" => body[p].issue \in Proposal

\* only an approval has inserted a version
VersionShape == \A v \in Proposal : number[v] > 0 => status[v] = "APPLIED"

TypeInv == TypeOK /\ ReviewShape /\ VersionShape

LEMMA TypeInit == Init => TypeInv
  BY DEF Init, TypeInv, TypeOK, ReviewShape, VersionShape, NoIssue, Issue, IssueStatus, Live

LEMMA SubmitType ==
  ASSUME TypeInv, NEW p \in Proposal, SubmitProposal(p)
  PROVE  TypeInv'
  <1>1. PICK op \in Ops, c \in Claim :
          /\ op # "CREATE" => head[c] # None
          /\ \E S \in SupportOf(op), C \in ContradictOf(op), i \in IssueOf(op, c),
                d \in DischargesOf(op) :
                body' = [body EXCEPT ![p] = Draft(op, c, S, C, i, d)]
    BY DEF SubmitProposal
  <1>2. PICK S \in SupportOf(op), C \in ContradictOf(op), i \in IssueOf(op, c),
             d \in DischargesOf(op) :
          body' = [body EXCEPT ![p] = Draft(op, c, S, C, i, d)]
    BY <1>1
  <1>3. /\ S \in SUBSET Evidence /\ C \in SUBSET Evidence /\ d \in BOOLEAN
        /\ i \in Proposal \cup {None} /\ (op = "RESOLVE" => i \in Proposal)
    BY CitedAssumption
    DEF SupportOf, ContradictOf, AdmissibleSets, IssueOf, DischargesOf
  <1>4. Draft(op, c, S, C, i, d) \in Body
    BY <1>1, <1>3 DEF TypeInv, TypeOK, Body, Issue, Draft
  <1>5. body'[p] = Draft(op, c, S, C, i, d)
    BY <1>2 DEF TypeInv, TypeOK
  <1>6. body'[p] \in Body /\ body' \in [Proposal -> Body \cup {None}]
    BY <1>2, <1>4, <1>5 DEF TypeInv, TypeOK
  <1>7. body'[p].op # "CREATE" => body'[p].expected \in Proposal
    BY <1>1, <1>5 DEF TypeInv, TypeOK, Draft
  <1>8. body'[p].op = "RESOLVE" => body'[p].issue \in Proposal
    BY <1>3, <1>5 DEF Draft
  <1>9. \A q \in Proposal : q # p => body'[q] = body[q]
    BY <1>2 DEF TypeInv, TypeOK
  <1>10. TypeOK'
    BY <1>6, <1>9 DEF SubmitProposal, TypeInv, TypeOK, Announce, Event,
       beliefVars, issueVars, revokeVars
  <1>11. ReviewShape'
    BY <1>6, <1>7, <1>8, <1>9 DEF SubmitProposal, TypeInv, TypeOK, ReviewShape
  <1>12. VersionShape'
    BY DEF SubmitProposal, TypeInv, TypeOK, VersionShape, beliefVars
  <1> QED
    BY <1>10, <1>11, <1>12 DEF TypeInv

\* steps that touch one review and draw a sequence
LEMMA DrawTicketType ==
  ASSUME TypeInv, NEW p \in Proposal, DrawTicket(p) \/ UNCHANGED <<ticket, commitSeq>>
  PROVE  ticket' \in [Proposal -> Nat] /\ commitSeq' \in Nat
  BY DEF DrawTicket, TypeInv, TypeOK

\* the version an approval under a locked head inserts has a number
LEMMA InsertVersionType ==
  ASSUME TypeInv, NEW p \in Proposal, phase[p] = "locked", body[p].op # "CREATE",
         InsertVersion(p, number[body[p].expected] + 1)
  PROVE  number' \in [Proposal -> Nat] /\ head' \in [Claim -> Proposal \cup {None}]
  <1>1. status[p] = "PENDING_REVIEW" /\ body[p] \in Body /\ body[p].expected \in Proposal
    BY DEF TypeInv, TypeOK, ReviewShape
  <1> QED
    BY <1>1 DEF InsertVersion, TypeInv, TypeOK, Body

\* the last writes of an approval keep the review variables typed
LEMMA ConcludeType ==
  ASSUME TypeInv, NEW p \in Proposal, phase[p] # "idle",
         NEW event \in {"CLAIM_VERSION_COMMITTED", "OPEN_ISSUE_CHANGED", "NO_CHANGE_RECORDED"},
         Conclude(p, event)
  PROVE  /\ status' \in [Proposal -> {"NONE", "PENDING_REVIEW", "APPLIED", "REJECTED"}]
         /\ body' = body /\ ticket' = ticket /\ commitSeq' = commitSeq
         /\ revoking' = revoking /\ revokedAt' = revokedAt
         /\ phase' \in [Proposal -> {"idle", "checked", "locked"}]
         /\ outbox' \subseteq Event
         /\ \A q \in Proposal : status'[q] # "NONE" => body'[q] \in Body
         /\ ReviewShape'
  <1>1. status[p] = "PENDING_REVIEW"
    BY DEF TypeInv, ReviewShape
  <1>2. ReviewShape'
    BY <1>1 DEF Conclude, TypeInv, TypeOK, ReviewShape
  <1>3. outbox' \subseteq Event
    BY DEF Conclude, Announce, Event, TypeInv, TypeOK
  <1> QED
    BY <1>1, <1>2, <1>3 DEF Conclude, TypeInv, TypeOK, revokeVars

LEMMA NewRelationsType ==
  ASSUME NEW p \in Proposal, NEW i \in Proposal, NEW E \in SUBSET Evidence,
         NEW type \in {"SUPPORT_BRANCH", "CONTRADICT_BRANCH", "RESOLUTION_CANDIDATE"}
  PROVE  NewRelations(p, i, E, type) \subseteq Relation
  BY DEF NewRelations, Relation

LEMMA GroundingType ==
  ASSUME TypeInv, NEW v \in Proposal
  PROVE  Grounding(v) \subseteq Evidence
  BY DEF Grounding, TypeInv, TypeOK, VersionShape, Body

LEMMA ContradictType ==
  ASSUME TypeInv, NEW p \in Proposal, NEW i \in Proposal, body[p] \in Body,
         body[p].expected \in Proposal, ContradictInto(p, i)
  PROVE  /\ relation' \subseteq Relation
         /\ issue' \in [Proposal -> Issue]
         /\ history' \subseteq Transition
  <1> DEFINE S == body[p].support \cup Grounding(body[p].expected)
             now == IF issue[i].status = "NONE" THEN "OPEN" ELSE issue[i].status
  <1>1. S \in SUBSET Evidence /\ body[p].contradict \in SUBSET Evidence
    BY GroundingType DEF Body
  <1>2. /\ NewRelations(p, i, S, "SUPPORT_BRANCH") \subseteq Relation
        /\ NewRelations(p, i, body[p].contradict, "CONTRADICT_BRANCH") \subseteq Relation
    BY <1>1, NewRelationsType
  <1>3. relation' \subseteq Relation
    BY <1>2 DEF ContradictInto, TypeInv, TypeOK
  <1>4. now \in IssueStatus /\ issue[i] \in Issue
    BY DEF TypeInv, TypeOK, Issue, IssueStatus, Live
  <1>5. issue' = [issue EXCEPT ![i] = [status |-> now, revision |-> issue[i].revision + 1,
                                       resolvedBy |-> None]]
    BY DEF ContradictInto
  <1>6. issue' \in [Proposal -> Issue]
    BY <1>4, <1>5 DEF TypeInv, TypeOK, Issue
  <1>7. history' \subseteq Transition
    BY <1>4 DEF ContradictInto, TypeInv, TypeOK, Transition, Issue
  <1> QED
    BY <1>3, <1>6, <1>7

LEMMA ApproveType ==
  ASSUME TypeInv, NEW p \in Proposal, Approve(p)
  PROVE  TypeInv'
  <1> USE DEF TypeInv
  <1>1. /\ status' = [status EXCEPT ![p] = "APPLIED"]
        /\ status \in [Proposal -> {"NONE", "PENDING_REVIEW", "APPLIED", "REJECTED"}]
        /\ \A v \in Proposal : v # p => number'[v] = number[v]
    BY DEF Approve, ApproveCreate, ApproveRevise, ApproveReground, ApproveResolve,
       ApproveContradict, ApproveNoChange, Conclude, InsertVersion, beliefVars, TypeOK
  <1>2. VersionShape'
    BY <1>1 DEF VersionShape
  <1>3. CASE ApproveCreate(p)
    <2>1. status[p] = "PENDING_REVIEW" /\ body[p] \in Body
      BY <1>3 DEF ApproveCreate, TypeOK, ReviewShape
    <2>2. number' \in [Proposal -> Nat] /\ head' \in [Claim -> Proposal \cup {None}]
      BY <1>3, <2>1 DEF ApproveCreate, InsertVersion, TypeOK, Body
    <2> QED
      BY <1>2, <1>3, <2>2, ConcludeType DEF ApproveCreate, TypeOK, issueVars
  <1>4. CASE ApproveRevise(p)
    BY <1>2, <1>4, InsertVersionType, ConcludeType DEF ApproveRevise, TypeOK, issueVars
  <1>5. CASE ApproveReground(p)
    BY <1>2, <1>5, InsertVersionType, ConcludeType DEF ApproveReground, TypeOK, issueVars
  <1>6. CASE ApproveResolve(p)
    <2>1. body[p] \in Body /\ body[p].issue \in Proposal
      BY <1>6 DEF ApproveResolve, TypeOK, ReviewShape
    <2>2. relation' \subseteq Relation
      BY <1>6, <2>1, NewRelationsType DEF ApproveResolve, TypeOK, Body
    <2>3. issue' \in [Proposal -> Issue]
      BY <1>6, <2>1 DEF ApproveResolve, TypeOK, Issue, IssueStatus
    <2>4. history' \subseteq Transition
      BY <1>6, <2>1 DEF ApproveResolve, TypeOK, Issue, IssueStatus, Transition
    <2> QED
      BY <1>2, <1>6, <2>2, <2>3, <2>4, InsertVersionType, ConcludeType
      DEF ApproveResolve, TypeOK
  <1>7. CASE ApproveContradict(p)
    <2>1. body[p] \in Body /\ body[p].expected \in Proposal /\ phase[p] # "idle"
      BY <1>7 DEF ApproveContradict, TypeOK, ReviewShape
    <2>2. PICK i \in ConflictIssue(p) : ContradictInto(p, i)
      BY <1>7 DEF ApproveContradict
    <2>3. i \in Proposal
      BY <2>2 DEF ConflictIssue, LiveIssues
    <2> QED
      BY <1>2, <1>7, <2>1, <2>2, <2>3, ContradictType, ConcludeType
      DEF ApproveContradict, TypeOK, beliefVars
  <1>8. CASE ApproveNoChange(p)
    BY <1>2, <1>8, ConcludeType DEF ApproveNoChange, TypeOK, beliefVars, issueVars
  <1> QED
    BY <1>3, <1>4, <1>5, <1>6, <1>7, <1>8 DEF Approve

LEMMA RevokeType ==
  ASSUME TypeInv, NEW e \in Evidence, CommitRevoke(e)
  PROVE  TypeInv'
  <1> USE DEF TypeInv
  <1>1. issue' \in [Proposal -> Issue]
    BY DEF CommitRevoke, TypeOK, Issue, IssueStatus, Live, AfterRevoke
  <1>2. Touched(e) \subseteq Proposal
    BY DEF Touched, Reopened
  <1>3. history' \subseteq Transition
    <2> SUFFICES ASSUME NEW i \in Touched(e)
                 PROVE  [issue |-> i, revision |-> issue[i].revision + 1,
                         from |-> issue[i].status, to |-> AfterRevoke(issue[i].status),
                         seq |-> revoking[e]] \in Transition
      BY DEF CommitRevoke, TypeOK
    <2> QED
      BY <1>2 DEF TypeOK, Issue, IssueStatus, Live, AfterRevoke, Transition
  <1>4. active' \subseteq Proposal \X Evidence
    BY DEF CommitRevoke, Resting, TypeOK
  <1>5. outbox' \subseteq Event
    BY DEF CommitRevoke, TypeOK, Event
  <1> QED
    BY <1>1, <1>3, <1>4, <1>5
    DEF CommitRevoke, TypeOK, ReviewShape, VersionShape, reviewVars

LEMMA TypeNext == TypeInv /\ [Next]_vars => TypeInv'
  <1> SUFFICES ASSUME TypeInv, [Next]_vars PROVE TypeInv'
    OBVIOUS
  <1>1. ASSUME NEW p \in Proposal, BeginReview(p) PROVE TypeInv'
    BY <1>1, DrawTicketType
    DEF BeginReview, TypeInv, TypeOK, ReviewShape, VersionShape, beliefVars, issueVars, revokeVars
  <1>2. ASSUME NEW p \in Proposal, LockHead(p) PROVE TypeInv'
    BY <1>2, DrawTicketType
    DEF LockHead, TypeInv, TypeOK, ReviewShape, VersionShape, beliefVars, issueVars, revokeVars
  <1>3. ASSUME NEW p \in Proposal, Reject(p) PROVE TypeInv'
    BY <1>3
    DEF Reject, Announce, Event, TypeInv, TypeOK, ReviewShape, VersionShape,
        beliefVars, issueVars, revokeVars
  <1>4. ASSUME NEW p \in Proposal, AbortReview(p) PROVE TypeInv'
    BY <1>4
    DEF AbortReview, TypeInv, TypeOK, ReviewShape, VersionShape, beliefVars, issueVars, revokeVars
  <1>5. ASSUME NEW e \in Evidence, BeginRevoke(e) \/ AbortRevoke(e) PROVE TypeInv'
    BY <1>5
    DEF BeginRevoke, AbortRevoke, TypeInv, TypeOK, ReviewShape, VersionShape,
        beliefVars, issueVars, reviewVars
  <1>6. CASE UNCHANGED vars
    BY <1>6
    DEF vars, beliefVars, issueVars, reviewVars, revokeVars,
        TypeInv, TypeOK, ReviewShape, VersionShape
  <1> QED
    BY <1>1, <1>2, <1>3, <1>4, <1>5, <1>6, SubmitType, ApproveType, RevokeType DEF Next

\* Every reachable state has the shape of the schema, whatever the proposals, their
\* number and the order in which their reviews interleave with revocations.
THEOREM TypeCorrect == Spec => []TypeOK
  <1>1. Spec => []TypeInv
    BY TypeInit, TypeNext, PTL DEF Spec
  <1> QED
    BY <1>1, PTL DEF TypeInv

-----------------------------------------------------------------------------
(* The version chain.  NoLostUpdate is not inductive: an approval computes    *)
(* the next number from the version its author saw, so it must still be the   *)
(* head when the approval commits.  The row lock on the head, taken when the  *)
(* comparison is made, is what guarantees it.                                 *)

HeadLocked ==
    /\ \A p \in Proposal : phase[p] = "locked" =>
          /\ body[p].op # "CREATE"
          /\ head[body[p].claim] = body[p].expected
    /\ \A p, q \in Proposal :
          phase[p] = "locked" /\ phase[q] = "locked" /\ body[p].claim = body[q].claim
             => p = q

\* heads and expected versions are versions of the claim in question
Lineage ==
    /\ \A c \in Claim : head[c] # None => VersionOf(head[c], c)
    /\ \A p \in Proposal : status[p] # "NONE" /\ body[p].op # "CREATE" =>
          VersionOf(body[p].expected, body[p].claim)

ChainInv == TypeInv /\ HeadLocked /\ Lineage /\ NoLostUpdate

LEMMA ChainInit == Init => ChainInv
  <1> SUFFICES ASSUME Init PROVE ChainInv
    OBVIOUS
  <1>1. TypeInv
    BY TypeInit
  <1> QED
    BY <1>1 DEF Init, ChainInv, HeadLocked, Lineage, NoLostUpdate, VersionOf

\* A submission adds a body that no other row refers to yet.
LEMMA SubmitChain ==
  ASSUME ChainInv, NEW p \in Proposal, SubmitProposal(p), TypeInv'
  PROVE  ChainInv'
  <1> USE DEF ChainInv, TypeInv
  <1>1. PICK op \in Ops, c \in Claim :
          /\ op # "CREATE" => head[c] # None
          /\ \E S \in SupportOf(op), C \in ContradictOf(op), i \in IssueOf(op, c),
                d \in DischargesOf(op) :
                body' = [body EXCEPT ![p] = Draft(op, c, S, C, i, d)]
    BY DEF SubmitProposal
  <1>2. /\ body'[p].op = op /\ body'[p].claim = c
        /\ op # "CREATE" => body'[p].expected = head[c]
        /\ \A q \in Proposal : q # p => body'[q] = body[q]
    BY <1>1 DEF Draft, TypeOK
  <1>3. /\ status[p] = "NONE" /\ number[p] = 0 /\ phase[p] = "idle"
        /\ status' = [status EXCEPT ![p] = "PENDING_REVIEW"]
        /\ UNCHANGED <<phase, number, head>>
    BY DEF SubmitProposal, beliefVars, TypeOK, ReviewShape, VersionShape
  <1>4. \A v \in Proposal : \A d \in Claim : VersionOf(v, d)' <=> VersionOf(v, d)
    BY <1>2, <1>3 DEF VersionOf
  <1>5. HeadLocked'
    BY <1>2, <1>3 DEF HeadLocked, TypeOK
  <1>6. Lineage'
    <2>1. \A d \in Claim : head'[d] # None => VersionOf(head[d], d)'
      BY <1>3, <1>4 DEF Lineage, TypeOK
    <2>2. ASSUME NEW q \in Proposal, status'[q] # "NONE", body'[q].op # "CREATE"
          PROVE  VersionOf(body[q].expected, body[q].claim)'
      <3>1. CASE q = p
        BY <1>1, <1>2, <1>3, <1>4, <2>2, <3>1 DEF Lineage, TypeOK
      <3>2. CASE q # p
        <4>1. /\ status[q] # "NONE" /\ body[q].op # "CREATE" /\ body'[q] = body[q]
              /\ body[q].expected \in Proposal /\ body[q].claim \in Claim
          BY <1>2, <1>3, <2>2, <3>2 DEF TypeOK, ReviewShape, Body
        <4> QED
          BY <1>4, <4>1 DEF Lineage
      <3> QED
        BY <3>1, <3>2
    <2> QED
      BY <1>3, <2>1, <2>2 DEF Lineage
  <1>7. NoLostUpdate'
    <2> SUFFICES ASSUME NEW d \in Claim
                 PROVE  /\ \A u, v \in Proposal :
                              VersionOf(u, d) /\ VersionOf(v, d) /\ number[u] = number[v] => u = v
                        /\ \A v \in Proposal : VersionOf(v, d) /\ number[v] > 1 =>
                              \E u \in Proposal : /\ u = body'[v].expected
                                                  /\ VersionOf(u, d)
                                                  /\ number[v] = number[u] + 1
                        /\ \A v \in Proposal : VersionOf(v, d) =>
                              \E h \in Proposal : h = head[d] /\ number[v] <= number[h]
      BY <1>3, <1>4 DEF NoLostUpdate
    <2>1. \A v \in Proposal : VersionOf(v, d) => v # p
      BY <1>3 DEF VersionOf
    <2> QED
      BY <1>2, <2>1 DEF NoLostUpdate
  <1> QED
    BY <1>5, <1>6, <1>7

\* the two ways an approval inserts a version
CreatesVersion(p) ==
    /\ body[p].op = "CREATE"
    /\ head[body[p].claim] = None
    /\ InsertVersion(p, 1)

ReplacesVersion(p) ==
    /\ phase[p] = "locked"
    /\ InsertVersion(p, number[body[p].expected] + 1)

\* An inserted version extends the chain of its claim and no other.
LEMMA InsertChain ==
  ASSUME ChainInv, TypeInv', NEW p \in Proposal, phase[p] # "idle",
         body' = body, phase' = [phase EXCEPT ![p] = "idle"],
         status' = [status EXCEPT ![p] = "APPLIED"],
         CreatesVersion(p) \/ ReplacesVersion(p)
  PROVE  ChainInv'
  <1> USE DEF ChainInv, TypeInv
  <1> DEFINE c == body[p].claim
             u == body[p].expected
  <1>1. status[p] = "PENDING_REVIEW" /\ body[p] \in Body /\ number[p] = 0 /\ c \in Claim
    BY DEF TypeOK, ReviewShape, VersionShape, Body
  <1>2. ASSUME ReplacesVersion(p)
        PROVE  /\ u \in Proposal /\ head[c] = u /\ VersionOf(u, c) /\ u # p
               /\ number'[p] = number[u] + 1
    BY <1>1, <1>2, NoneAssumption
    DEF ReplacesVersion, InsertVersion, HeadLocked, Lineage, ReviewShape, VersionOf, TypeOK
  <1>3. /\ head' = [head EXCEPT ![c] = p]
        /\ \A v \in Proposal : v # p => number'[v] = number[v]
        /\ number'[p] > 0
    BY <1>2 DEF CreatesVersion, ReplacesVersion, InsertVersion, TypeOK
  <1>4. \A v \in Proposal, d \in Claim : VersionOf(v, d)' <=> (VersionOf(v, d) \/ (v = p /\ d = c))
    BY <1>1, <1>3 DEF VersionOf
  <1>5. HeadLocked'
    <2>1. ASSUME NEW q \in Proposal, phase'[q] = "locked"
          PROVE  q # p /\ phase[q] = "locked" /\ body[q].claim # c /\ body[q].claim \in Claim
      <3>1. q # p /\ phase[q] = "locked" /\ body[q] \in Body
        BY <2>1 DEF TypeOK, ReviewShape
      <3>2. head[body[q].claim] = body[q].expected /\ body[q].expected \in Proposal
        BY <3>1 DEF HeadLocked, TypeOK, ReviewShape
      <3>3. CASE CreatesVersion(p)
        BY <3>1, <3>2, <3>3, NoneAssumption DEF CreatesVersion, Body
      <3>4. CASE ReplacesVersion(p)
        BY <3>1, <3>4 DEF ReplacesVersion, HeadLocked, Body
      <3> QED
        BY <3>1, <3>3, <3>4
    <2> QED
      BY <1>3, <2>1 DEF HeadLocked, TypeOK
  <1>6. Lineage'
    <2>1. \A d \in Claim : (head[d] # None => VersionOf(head[d], d))'
      BY <1>1, <1>3, <1>4, NoneAssumption DEF Lineage, TypeOK
    <2>2. \A q \in Proposal : status'[q] # "NONE" => status[q] # "NONE" /\ body[q] \in Body
      BY <1>1 DEF TypeOK
    <2>3. \A q \in Proposal : status'[q] # "NONE" /\ body[q].op # "CREATE" =>
             VersionOf(body[q].expected, body[q].claim)'
      BY <1>4, <2>2 DEF Lineage, ReviewShape, Body
    <2> QED
      BY <2>1, <2>3 DEF Lineage
  <1>7. NoLostUpdate'
    <2> SUFFICES ASSUME NEW d \in Claim
                 PROVE  /\ \A x, y \in Proposal :
                              VersionOf(x, d)' /\ VersionOf(y, d)' /\ number'[x] = number'[y] => x = y
                        /\ \A y \in Proposal : VersionOf(y, d)' /\ number'[y] > 1 =>
                              \E x \in Proposal : /\ x = body[y].expected
                                                  /\ VersionOf(x, d)'
                                                  /\ number'[y] = number'[x] + 1
                        /\ \A y \in Proposal : VersionOf(y, d)' =>
                              \E h \in Proposal : h = head'[d] /\ number'[y] <= number'[h]
      BY DEF NoLostUpdate
    <2>1. \A v \in Proposal : VersionOf(v, d) => v # p
      BY <1>1 DEF VersionOf
    <2>2. CASE d # c
      <3>1. \A v \in Proposal : /\ VersionOf(v, d)' <=> VersionOf(v, d)
                                /\ VersionOf(v, d) => number'[v] = number[v]
        BY <1>3, <1>4, <2>1, <2>2
      <3>2. head'[d] = head[d]
        BY <1>1, <1>3, <2>2 DEF TypeOK
      <3>3. /\ \A x, y \in Proposal :
                  VersionOf(x, d) /\ VersionOf(y, d) /\ number[x] = number[y] => x = y
            /\ \A y \in Proposal : VersionOf(y, d) /\ number[y] > 1 =>
                  \E x \in Proposal : /\ x = body[y].expected
                                      /\ VersionOf(x, d)
                                      /\ number[y] = number[x] + 1
            /\ \A y \in Proposal : VersionOf(y, d) =>
                  \E h \in Proposal : h = head[d] /\ number[y] <= number[h]
        BY DEF NoLostUpdate
      <3>4. \A y \in Proposal : VersionOf(y, d) =>
               \E h \in Proposal : h = head[d] /\ VersionOf(h, d)
        BY <3>3, NoneAssumption DEF Lineage
      <3>5. \A x, y \in Proposal :
               VersionOf(x, d)' /\ VersionOf(y, d)' /\ number'[x] = number'[y] => x = y
        BY <3>1, <3>3
      <3>6. ASSUME NEW y \in Proposal, VersionOf(y, d)', number'[y] > 1
            PROVE  \E x \in Proposal : /\ x = body[y].expected
                                       /\ VersionOf(x, d)'
                                       /\ number'[y] = number'[x] + 1
        BY <3>1, <3>3, <3>6
      <3>7. ASSUME NEW y \in Proposal, VersionOf(y, d)'
            PROVE  \E h \in Proposal : h = head'[d] /\ number'[y] <= number'[h]
        BY <3>1, <3>2, <3>3, <3>4, <3>7
      <3> QED
        BY <3>5, <3>6, <3>7
    <2>3. CASE d = c /\ CreatesVersion(p)
      <3>1. \A v \in Proposal : ~ VersionOf(v, c)
        BY <1>1, <2>3, NoneAssumption DEF NoLostUpdate, CreatesVersion
      <3>2. number'[p] = 1 /\ head'[c] = p
        BY <1>1, <2>3 DEF CreatesVersion, InsertVersion, TypeOK
      <3> QED
        BY <1>4, <2>3, <3>1, <3>2
    <2>4. CASE d = c /\ ReplacesVersion(p)
      <3>1. \A v \in Proposal : VersionOf(v, c) => number[v] <= number[u]
        BY <1>1, <1>2, <2>4 DEF NoLostUpdate
      <3>2. head'[c] = p /\ number'[p] = number[u] + 1 /\ number'[u] = number[u]
        BY <1>1, <1>2, <1>3, <2>4 DEF TypeOK
      <3>3. \A v \in Proposal : number[v] \in Nat
        BY DEF TypeOK
      <3>4. ASSUME NEW x \in Proposal, NEW y \in Proposal,
                   VersionOf(x, d)', VersionOf(y, d)', number'[x] = number'[y]
            PROVE  x = y
        BY <1>2, <1>3, <1>4, <2>1, <2>4, <3>1, <3>2, <3>3, <3>4 DEF NoLostUpdate
      <3>5. ASSUME NEW y \in Proposal, VersionOf(y, d)', number'[y] > 1
            PROVE  \E x \in Proposal : /\ x = body[y].expected
                                       /\ VersionOf(x, d)'
                                       /\ number'[y] = number'[x] + 1
        BY <1>2, <1>3, <1>4, <2>1, <2>4, <3>2, <3>5 DEF NoLostUpdate
      <3>6. ASSUME NEW y \in Proposal, VersionOf(y, d)'
            PROVE  \E h \in Proposal : h = head'[d] /\ number'[y] <= number'[h]
        BY <1>2, <1>3, <1>4, <2>1, <2>4, <3>1, <3>2, <3>3, <3>6
      <3> QED
        BY <3>4, <3>5, <3>6
    <2> QED
      BY <2>2, <2>3, <2>4
  <1> QED
    BY <1>5, <1>6, <1>7

LEMMA ApproveChain ==
  ASSUME ChainInv, TypeInv', NEW p \in Proposal, Approve(p)
  PROVE  ChainInv'
  <1>1. /\ phase[p] # "idle" /\ body' = body /\ phase' = [phase EXCEPT ![p] = "idle"]
        /\ status' = [status EXCEPT ![p] = "APPLIED"]
    BY DEF Approve, ApproveCreate, ApproveRevise, ApproveReground, ApproveResolve,
       ApproveContradict, ApproveNoChange, Conclude
  <1>2. CASE CreatesVersion(p) \/ ReplacesVersion(p)
    BY <1>1, <1>2, InsertChain
  <1>3. CASE ApproveContradict(p) \/ ApproveNoChange(p)
    <2>1. UNCHANGED <<number, head>>
      BY <1>3 DEF ApproveContradict, ApproveNoChange, beliefVars
    <2> QED
      BY <1>1, <2>1
      DEF ChainInv, TypeInv, TypeOK, HeadLocked, Lineage, NoLostUpdate, VersionOf, ReviewShape
  <1> QED
    BY <1>2, <1>3
    DEF Approve, ApproveCreate, ApproveRevise, ApproveReground, ApproveResolve,
        CreatesVersion, ReplacesVersion

LEMMA ChainNext == ChainInv /\ [Next]_vars => ChainInv'
  <1> SUFFICES ASSUME ChainInv, [Next]_vars PROVE ChainInv'
    OBVIOUS
  <1>1. TypeInv'
    BY TypeNext DEF ChainInv
  <1>2. ASSUME NEW p \in Proposal, LockHead(p) PROVE ChainInv'
    <2>1. /\ phase' = [phase EXCEPT ![p] = "locked"] /\ UNCHANGED <<status, body, number, head>>
          /\ body[p].op # "CREATE" /\ head[body[p].claim] = body[p].expected
          /\ \A q \in Proposal \ {p} : ~ (phase[q] = "locked" /\ body[q].claim = body[p].claim)
      BY <1>2 DEF LockHead, HeadFree, HeadExpected, beliefVars
    <2>2. HeadLocked'
      BY <2>1 DEF ChainInv, TypeInv, TypeOK, HeadLocked
    <2> QED
      BY <1>1, <2>1, <2>2 DEF ChainInv, Lineage, NoLostUpdate, VersionOf
  <1>3. ASSUME NEW p \in Proposal, BeginReview(p) \/ Reject(p) \/ AbortReview(p) PROVE ChainInv'
    <2>1. /\ UNCHANGED <<body, number, head>>
          /\ \A q \in Proposal : phase'[q] = "locked" => phase[q] = "locked"
          /\ \A q \in Proposal : status'[q] # "NONE" => status[q] # "NONE"
      BY <1>3 DEF BeginReview, Reject, AbortReview, beliefVars, ChainInv, TypeInv, TypeOK
    <2> QED
      BY <1>1, <2>1 DEF ChainInv, HeadLocked, Lineage, NoLostUpdate, VersionOf
  <1>4. CASE \/ UNCHANGED vars
             \/ \E e \in Evidence : BeginRevoke(e) \/ CommitRevoke(e) \/ AbortRevoke(e)
    <2>1. UNCHANGED <<status, body, phase, number, head>>
      BY <1>4 DEF vars, BeginRevoke, CommitRevoke, AbortRevoke, beliefVars, reviewVars
    <2> QED
      BY <1>1, <2>1 DEF ChainInv, HeadLocked, Lineage, NoLostUpdate, VersionOf
  <1> QED
    BY <1>1, <1>2, <1>3, <1>4, SubmitChain, ApproveChain DEF Next

LEMMA ChainInvariant == Spec => []ChainInv
  BY ChainInit, ChainNext, PTL DEF Spec

\* Concurrent reviews never lose an update: in every reachable state the versions of
\* a claim form one chain, each replacing the version its author saw.
THEOREM UpdatesNeverLost == Spec => []NoLostUpdate
  BY ChainInvariant, PTL DEF ChainInv

-----------------------------------------------------------------------------
(* Sequence order.  A review draws its sequence before it holds the head, so   *)
(* that a later sequence is not obviously a later version.  It is, because a   *)
(* draft can only expect a version that was committed before it was drafted.   *)

Tickets ==
    /\ \A p \in Proposal : ticket[p] <= commitSeq
    /\ \A p \in Proposal : status[p] = "NONE" => ticket[p] = 0
    /\ \A p \in Proposal :
          phase[p] = "locked" \/ (phase[p] = "checked" /\ body[p].op # "RESOLVE")
             => ticket[p] > 0
    /\ \A p \in Proposal : status[p] # "NONE" /\ body[p].op # "CREATE" /\ ticket[p] > 0 =>
          ticket[body[p].expected] < ticket[p]

OrderInv == ChainInv /\ Tickets /\ VersionsFollowSequence

LEMMA OrderInit == Init => OrderInv
  <1> SUFFICES ASSUME Init PROVE OrderInv
    OBVIOUS
  <1>1. ChainInv
    BY ChainInit
  <1> QED
    BY <1>1 DEF Init, OrderInv, Tickets, VersionsFollowSequence, VersionOf

\* the expected version of a proposal is another proposal, already applied
LEMMA ExpectedIsApplied ==
  ASSUME ChainInv, NEW p \in Proposal, status[p] # "NONE", body[p].op # "CREATE"
  PROVE  /\ body[p].expected \in Proposal
         /\ number[body[p].expected] > 0
         /\ status[body[p].expected] = "APPLIED"
  BY DEF ChainInv, TypeInv, Lineage, ReviewShape, VersionShape, VersionOf

LEMMA DrawOrder ==
  ASSUME OrderInv, NEW p \in Proposal, BeginReview(p) \/ LockHead(p)
  PROVE  Tickets' /\ VersionsFollowSequence'
  <1>1. /\ UNCHANGED <<status, body, number>>
        /\ status[p] = "PENDING_REVIEW" /\ number[p] = 0
        /\ phase' = [phase EXCEPT ![p] = "checked"] \/ phase' = [phase EXCEPT ![p] = "locked"]
    BY DEF BeginReview, LockHead, beliefVars, OrderInv, ChainInv, TypeInv, TypeOK,
           ReviewShape, VersionShape
  <1>2. CASE DrawTicket(p)
    <2>1. /\ commitSeq' = commitSeq + 1 /\ ticket'[p] = commitSeq + 1
          /\ \A q \in Proposal : q # p => ticket'[q] = ticket[q]
          /\ commitSeq \in Nat /\ \A q \in Proposal : ticket[q] \in Nat /\ ticket[q] <= commitSeq
      BY <1>2 DEF DrawTicket, OrderInv, ChainInv, TypeInv, TypeOK, Tickets
    <2>2. ASSUME NEW q \in Proposal, status[q] # "NONE", body[q].op # "CREATE", ticket'[q] > 0
          PROVE  ticket'[body[q].expected] < ticket'[q]
      <3>1. body[q].expected \in Proposal /\ body[q].expected # p
        BY <1>1, <2>2, ExpectedIsApplied DEF OrderInv
      <3>2. q # p => ticket[body[q].expected] < ticket[q]
        BY <2>1, <2>2 DEF OrderInv, Tickets
      <3> QED
        BY <2>1, <3>1, <3>2
    <2>3. Tickets'
      BY <1>1, <2>1, <2>2 DEF Tickets, OrderInv, ChainInv, TypeInv, TypeOK
    <2>4. VersionsFollowSequence'
      BY <1>1, <2>1 DEF OrderInv, VersionsFollowSequence, VersionOf, ChainInv, TypeInv, TypeOK
    <2> QED
      BY <2>3, <2>4
  <1>3. CASE UNCHANGED <<ticket, commitSeq>>
    <2>1. (phase'[p] = "checked" /\ body[p].op = "RESOLVE") \/ ticket[p] > 0
      BY <1>3 DEF BeginReview, LockHead, DrawTicket, OrderInv, Tickets, ChainInv, TypeInv, TypeOK
    <2>2. Tickets'
      BY <1>1, <1>3, <2>1 DEF Tickets, OrderInv, ChainInv, TypeInv, TypeOK
    <2> QED
      BY <1>1, <1>3, <2>2 DEF OrderInv, VersionsFollowSequence, VersionOf
  <1> QED
    BY <1>2, <1>3 DEF BeginReview, LockHead

LEMMA ApproveOrder ==
  ASSUME OrderInv, ChainInv', NEW p \in Proposal, Approve(p)
  PROVE  Tickets' /\ VersionsFollowSequence'
  <1>1. /\ phase[p] # "idle" /\ UNCHANGED <<body, ticket, commitSeq>>
        /\ phase' = [phase EXCEPT ![p] = "idle"] /\ status' = [status EXCEPT ![p] = "APPLIED"]
    BY DEF Approve, ApproveCreate, ApproveRevise, ApproveReground, ApproveResolve,
       ApproveContradict, ApproveNoChange, Conclude
  <1>2. status[p] = "PENDING_REVIEW" /\ number[p] = 0 /\ body[p] \in Body
    BY <1>1 DEF OrderInv, ChainInv, TypeInv, TypeOK, ReviewShape, VersionShape
  <1>3. Tickets'
    BY <1>1, <1>2 DEF OrderInv, Tickets, ChainInv, TypeInv, TypeOK
  <1>4. CASE number' = number
    BY <1>1, <1>3, <1>4 DEF OrderInv, VersionsFollowSequence, VersionOf
  <1>5. CASE CreatesVersion(p)
    <2>1. \A v \in Proposal : ~ VersionOf(v, body[p].claim)
      BY <1>2, <1>5, NoneAssumption
      DEF CreatesVersion, OrderInv, ChainInv, NoLostUpdate, Body
    <2>2. \A v \in Proposal : v # p => number'[v] = number[v]
      BY <1>5 DEF CreatesVersion, InsertVersion, OrderInv, ChainInv, TypeInv, TypeOK
    <2> QED
      BY <1>1, <1>2, <1>3, <2>1, <2>2
      DEF OrderInv, VersionsFollowSequence, VersionOf, ChainInv, TypeInv, TypeOK
  <1>6. CASE ReplacesVersion(p)
    <2> DEFINE c == body[p].claim
               u == body[p].expected
    <2>1. /\ u \in Proposal /\ c \in Claim /\ head[c] = u /\ VersionOf(u, c)
          /\ ticket[u] < ticket[p]
      BY <1>2, <1>6 DEF ReplacesVersion, OrderInv, ChainInv, TypeInv, ReviewShape, HeadLocked,
                        Lineage, Tickets, Body
    <2>2. /\ number'[p] = number[u] + 1
          /\ \A v \in Proposal : v # p => number'[v] = number[v]
          /\ \A v \in Proposal : number[v] \in Nat /\ ticket[v] \in Nat
      BY <1>6 DEF ReplacesVersion, InsertVersion, OrderInv, ChainInv, TypeInv, TypeOK
    <2>3. \A v \in Proposal : VersionOf(v, c) => number[v] <= number[u]
      BY <2>1 DEF OrderInv, ChainInv, NoLostUpdate
    <2>4. \A v \in Proposal : VersionOf(v, c) => ticket[v] <= ticket[u]
      BY <2>1, <2>2, <2>3 DEF OrderInv, ChainInv, NoLostUpdate, VersionsFollowSequence
    <2>5. ASSUME NEW d \in Claim, NEW x \in Proposal, NEW y \in Proposal,
                 VersionOf(x, d)', VersionOf(y, d)', number'[x] < number'[y]
          PROVE  ticket[x] < ticket[y]
      <3>1. CASE y = p
        <4>1. d = c /\ x # p
          BY <1>1, <2>2, <2>1, <2>5, <3>1 DEF VersionOf
        <4>2. VersionOf(x, c)
          BY <1>1, <2>2, <2>5, <4>1 DEF VersionOf
        <4> QED
          BY <2>1, <2>2, <2>4, <3>1, <4>2
      <3>2. CASE x = p
        <4>1. y # p /\ VersionOf(y, c)
          BY <1>1, <2>1, <2>2, <2>5, <3>2 DEF VersionOf
        <4> QED
          BY <2>1, <2>2, <2>3, <2>5, <3>2, <4>1
      <3>3. CASE x # p /\ y # p
        BY <1>1, <2>2, <2>5, <3>3 DEF OrderInv, VersionsFollowSequence, VersionOf
      <3> QED
        BY <3>1, <3>2, <3>3
    <2> QED
      BY <1>1, <1>3, <2>5 DEF VersionsFollowSequence
  <1>7. CreatesVersion(p) \/ ReplacesVersion(p) \/ number' = number
    BY DEF Approve, ApproveCreate, ApproveRevise, ApproveReground, ApproveResolve,
       ApproveContradict, ApproveNoChange, beliefVars, CreatesVersion, ReplacesVersion
  <1> QED
    BY <1>3, <1>4, <1>5, <1>6, <1>7

LEMMA OrderNext == OrderInv /\ [Next]_vars => OrderInv'
  <1> SUFFICES ASSUME OrderInv, [Next]_vars PROVE Tickets' /\ VersionsFollowSequence'
    BY ChainNext DEF OrderInv
  <1>1. ChainInv'
    BY ChainNext DEF OrderInv
  <1>2. ASSUME NEW p \in Proposal, SubmitProposal(p)
        PROVE  Tickets' /\ VersionsFollowSequence'
    <2>1. /\ status[p] = "NONE" /\ ticket[p] = 0 /\ number[p] = 0 /\ phase[p] = "idle"
          /\ status' = [status EXCEPT ![p] = "PENDING_REVIEW"]
          /\ UNCHANGED <<phase, ticket, number, commitSeq>>
          /\ \A q \in Proposal : q # p => body'[q] = body[q]
      BY <1>2 DEF SubmitProposal, beliefVars, OrderInv, ChainInv, TypeInv, TypeOK,
                  ReviewShape, VersionShape, Tickets
    <2>2. Tickets'
      BY <2>1 DEF OrderInv, Tickets, ChainInv, TypeInv, TypeOK
    <2> QED
      BY <2>1, <2>2 DEF OrderInv, VersionsFollowSequence, VersionOf
  <1>3. ASSUME NEW p \in Proposal, AbortReview(p)
        PROVE  Tickets' /\ VersionsFollowSequence'
    <2>1. /\ status[p] = "PENDING_REVIEW" /\ number[p] = 0
          /\ UNCHANGED <<status, body, number, commitSeq>>
          /\ phase'[p] = "idle" /\ ticket'[p] = 0
          /\ \A q \in Proposal : q # p => ticket'[q] = ticket[q] /\ phase'[q] = phase[q]
          /\ commitSeq \in Nat
      BY <1>3 DEF AbortReview, beliefVars, OrderInv, ChainInv, TypeInv, TypeOK,
                  ReviewShape, VersionShape
    <2>2. \A q \in Proposal : status[q] # "NONE" /\ body[q].op # "CREATE" =>
             body[q].expected \in Proposal /\ body[q].expected # p
      BY <2>1, ExpectedIsApplied DEF OrderInv
    <2>3. Tickets'
      BY <2>1, <2>2 DEF OrderInv, Tickets
    <2> QED
      BY <2>1, <2>3 DEF OrderInv, VersionsFollowSequence, VersionOf
  <1>4. ASSUME NEW p \in Proposal, Reject(p)
        PROVE  Tickets' /\ VersionsFollowSequence'
    BY <1>4 DEF Reject, beliefVars, OrderInv, Tickets, VersionsFollowSequence, VersionOf,
                ChainInv, TypeInv, TypeOK
  <1>5. CASE \/ UNCHANGED vars
             \/ \E e \in Evidence : BeginRevoke(e) \/ CommitRevoke(e) \/ AbortRevoke(e)
    <2>1. /\ UNCHANGED <<status, body, phase, ticket, number>>
          /\ commitSeq' \in {commitSeq, commitSeq + 1}
          /\ commitSeq \in Nat /\ \A q \in Proposal : ticket[q] \in Nat
      BY <1>5 DEF vars, BeginRevoke, CommitRevoke, AbortRevoke, beliefVars, reviewVars,
                  OrderInv, ChainInv, TypeInv, TypeOK
    <2> QED
      BY <2>1 DEF OrderInv, Tickets, VersionsFollowSequence, VersionOf
  <1> QED
    BY <1>1, <1>2, <1>3, <1>4, <1>5, DrawOrder, ApproveOrder DEF Next

\* The versions of a claim are ordered by commit sequence as they are by number,
\* however the draws of a sequence and the waits for the head lock interleave.
THEOREM VersionsOrdered == Spec => []VersionsFollowSequence
  BY OrderInit, OrderNext, PTL DEF Spec, OrderInv

-----------------------------------------------------------------------------
(* Blocks.  A block is written on a version that exists, and the head that a   *)
(* REGROUND releases is never the head again.                                  *)

BlocksAreOnVersions == \A b \in active \cup released : number[b[1]] > 0

BlockInv == ChainInv /\ BlocksAreOnVersions /\ NoRevivalInPlace

LEMMA BlockInit == Init => BlockInv
  <1> SUFFICES ASSUME Init PROVE BlockInv
    OBVIOUS
  <1>1. ChainInv
    BY ChainInit
  <1> QED
    BY <1>1 DEF Init, BlockInv, BlocksAreOnVersions, NoRevivalInPlace

\* an approval that inserts a version moves its head away from every older version
LEMMA InsertBlocks ==
  ASSUME BlockInv, ChainInv', NEW p \in Proposal, phase[p] # "idle", body' = body,
         CreatesVersion(p) \/ ReplacesVersion(p),
         active' \cup released' = active \cup released,
         \A b \in active : b \in active' \/ (body[p].op = "REGROUND" /\ phase[p] = "locked"
                                              /\ b[1] = body[p].expected)
  PROVE  BlocksAreOnVersions' /\ NoRevivalInPlace'
  <1> DEFINE c == body[p].claim
  <1>1. /\ body[p] \in Body /\ c \in Claim /\ number[p] = 0 /\ status[p] = "PENDING_REVIEW"
        /\ head' = [head EXCEPT ![c] = p]
        /\ \A v \in Proposal : v # p => number'[v] = number[v]
    BY DEF CreatesVersion, ReplacesVersion, InsertVersion, BlockInv, ChainInv, TypeInv,
           TypeOK, ReviewShape, VersionShape, Body
  <1>2. \A b \in active \cup released : b[1] \in Proposal /\ b[1] # p /\ number[b[1]] > 0
                                         /\ body[b[1]] \in Body
    BY <1>1 DEF BlockInv, BlocksAreOnVersions, ChainInv, TypeInv, TypeOK, VersionShape
  <1>3. BlocksAreOnVersions'
    BY <1>1, <1>2 DEF BlocksAreOnVersions
  <1>4. ASSUME NEW b \in active \cup released, head'[body[b[1]].claim] = b[1]
        PROVE  Blocked(b[1])'
    <2>1. body[b[1]].claim \in Claim /\ body[b[1]].claim # c
      BY <1>1, <1>2, <1>4 DEF Body, BlockInv, ChainInv, TypeInv, TypeOK
    <2>2. head[body[b[1]].claim] = b[1]
      BY <1>1, <1>4, <2>1 DEF BlockInv, ChainInv, TypeInv, TypeOK
    <2>3. PICK e \in Evidence : <<b[1], e>> \in active
      BY <2>2 DEF BlockInv, NoRevivalInPlace, Blocked
    <2>4. body[p].op = "REGROUND" /\ phase[p] = "locked" => body[body[p].expected].claim = c
      BY <1>1 DEF BlockInv, ChainInv, Lineage, VersionOf
    <2>5. <<b[1], e>> \in active'
      BY <2>1, <2>3, <2>4
    <2> QED
      BY <2>5 DEF Blocked
  <1> QED
    BY <1>3, <1>4 DEF NoRevivalInPlace

LEMMA BlockNext == BlockInv /\ [Next]_vars => BlockInv'
  <1> SUFFICES ASSUME BlockInv, [Next]_vars PROVE BlocksAreOnVersions' /\ NoRevivalInPlace'
    BY ChainNext DEF BlockInv
  <1>1. ChainInv'
    BY ChainNext DEF BlockInv
  <1>2. \A b \in active \cup released : b[1] \in Proposal
    BY DEF BlockInv, ChainInv, TypeInv, TypeOK
  <1>3. ASSUME NEW p \in Proposal, SubmitProposal(p)
        PROVE  BlocksAreOnVersions' /\ NoRevivalInPlace'
    <2>1. /\ UNCHANGED <<number, head, active, released>> /\ number[p] = 0
          /\ \A q \in Proposal : q # p => body'[q] = body[q]
      BY <1>3 DEF SubmitProposal, beliefVars, BlockInv, ChainInv, TypeInv, TypeOK, VersionShape
    <2>2. \A b \in active \cup released : body'[b[1]] = body[b[1]]
      BY <1>2, <2>1 DEF BlockInv, BlocksAreOnVersions
    <2> QED
      BY <2>1, <2>2 DEF BlockInv, BlocksAreOnVersions, NoRevivalInPlace, Blocked
  <1>4. ASSUME NEW p \in Proposal, Approve(p)
        PROVE  BlocksAreOnVersions' /\ NoRevivalInPlace'
    <2>1. CASE ApproveReground(p)
      <3>1. /\ phase[p] # "idle" /\ body' = body /\ ReplacesVersion(p)
            /\ active' \cup released' = active \cup released
            /\ \A b \in active : b \in active' \/ (body[p].op = "REGROUND" /\ phase[p] = "locked"
                                                    /\ b[1] = body[p].expected)
        BY <2>1 DEF ApproveReground, Conclude, ReplacesVersion
      <3> QED
        BY <1>1, <3>1, InsertBlocks
    <2>2. CASE ApproveCreate(p) \/ ApproveRevise(p) \/ ApproveResolve(p)
      <3>1. /\ phase[p] # "idle" /\ body' = body /\ UNCHANGED <<active, released>>
            /\ CreatesVersion(p) \/ ReplacesVersion(p)
        BY <2>2 DEF ApproveCreate, ApproveRevise, ApproveResolve, Conclude,
                    CreatesVersion, ReplacesVersion
      <3> QED
        BY <1>1, <3>1, InsertBlocks
    <2>3. CASE ApproveContradict(p) \/ ApproveNoChange(p)
      BY <2>3 DEF ApproveContradict, ApproveNoChange, Conclude, beliefVars,
                  BlockInv, BlocksAreOnVersions, NoRevivalInPlace, Blocked
    <2> QED
      BY <1>4, <2>1, <2>2, <2>3 DEF Approve
  <1>5. ASSUME NEW e \in Evidence, CommitRevoke(e)
        PROVE  BlocksAreOnVersions' /\ NoRevivalInPlace'
    <2>1. /\ UNCHANGED <<body, number, head, released>>
          /\ active' = active \cup ({v \in Proposal : e \in Grounding(v)} \X {e})
      BY <1>5 DEF CommitRevoke, Resting, reviewVars
    <2>2. \A b \in active' : b \in active \/ (b[1] \in Proposal /\ b[2] = e /\ e \in Grounding(b[1])
                                               /\ b = <<b[1], e>>)
      BY <2>1
    <2>3. \A v \in Proposal : Blocked(v) => Blocked(v)'
      BY <2>1 DEF Blocked
    <2>4. \A b \in active' : b \in active \/ (number[b[1]] > 0 /\ Blocked(b[1])')
      BY <2>2 DEF Grounding, Blocked
    <2> QED
      BY <1>2, <2>1, <2>3, <2>4 DEF BlockInv, BlocksAreOnVersions, NoRevivalInPlace
  <1>6. CASE \/ UNCHANGED vars
             \/ \E p \in Proposal : BeginReview(p) \/ LockHead(p) \/ Reject(p) \/ AbortReview(p)
             \/ \E e \in Evidence : BeginRevoke(e) \/ AbortRevoke(e)
    <2>1. UNCHANGED <<body, number, head, active, released>>
      BY <1>6 DEF vars, BeginReview, LockHead, Reject, AbortReview, BeginRevoke, AbortRevoke,
                  beliefVars, reviewVars
    <2> QED
      BY <2>1 DEF BlockInv, BlocksAreOnVersions, NoRevivalInPlace, Blocked
  <1> QED
    BY <1>3, <1>4, <1>5, <1>6 DEF Next

\* A version that was ever blocked is never the head of its claim without an active
\* block: only a REGROUND, which installs another version, releases blocks.
THEOREM BlockedStaysBlocked == Spec => []NoRevivalInPlace
  BY BlockInit, BlockNext, PTL DEF Spec, BlockInv
=============================================================================
