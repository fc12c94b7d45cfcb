------------------------- MODULE MCGovernanceIssues -------------------------
(* Instances of CanonicalGovernance for the questions about open issues: the *)
(* state space starts where the claim already exists, which leaves more      *)
(* proposals for contradictions and resolutions.                             *)
EXTENDS CanonicalGovernance, TLC

CONSTANTS
    founder,    \* the proposal whose CREATE made the claim
    founding,   \* the evidence it cited
    claim

\* no reference, or one: enough for two records to play different parts
AtMostOne == {E \in SUBSET Evidence : Cardinality(E) <= 1}

AnyEvidence == SUBSET Evidence

\* operations left to the other proposals
IssueRunOps == {"CONTRADICT", "RESOLVE"}

\* the state CREATE leaves when it was approved and nothing else has happened
Founded ==
    /\ status = [p \in Proposal |-> IF p = founder THEN "APPLIED" ELSE "NONE"]
    /\ body = [p \in Proposal |->
                  IF p = founder
                  THEN [op |-> "CREATE", claim |-> claim, expected |-> None,
                        support |-> founding, contradict |-> {},
                        issue |-> None, issueRevision |-> 0, discharges |-> FALSE]
                  ELSE None]
    /\ phase = [p \in Proposal |-> "idle"]
    /\ ticket = [p \in Proposal |-> IF p = founder THEN 1 ELSE 0]
    /\ number = [p \in Proposal |-> IF p = founder THEN 1 ELSE 0]
    /\ head = [c \in Claim |-> IF c = claim THEN founder ELSE None]
    /\ active = {}
    /\ released = {}
    /\ issue = [p \in Proposal |-> NoIssue]
    /\ relation = {}
    /\ history = {}
    /\ revoking = [e \in Evidence |-> 0]
    /\ revokedAt = [e \in Evidence |-> 0]
    /\ outbox = {[event |-> "PROPOSAL_CREATED", subject |-> founder, seq |-> 0],
                 [event |-> "CLAIM_VERSION_COMMITTED", subject |-> founder, seq |-> 1]}
    /\ commitSeq = 1

FoundedSpec == Founded /\ [][Next]_vars

\* with a founder the remaining proposals are interchangeable
Followers == Permutations(Proposal \ {founder})
=============================================================================
