------------------------ MODULE MCGovernanceSettled ------------------------
(* An instance of CanonicalGovernance that starts late in the life of a     *)
(* claim: founder created it, challenger contradicted it, settler resolved  *)
(* the issue, one after the other and nothing else.                         *)
EXTENDS CanonicalGovernance

CONSTANTS
    claim,
    founder, challenger, settler,       \* the three approved proposals
    founding, challenging, settling     \* the evidence each of them cited

AnyEvidence == SUBSET Evidence

\* what follows a settled issue
ReopenOps == {"REGROUND", "RESOLVE"}
ConflictOps == {"CONTRADICT"}

Founding == [op |-> "CREATE", claim |-> claim, expected |-> None,
             support |-> founding, contradict |-> {},
             issue |-> None, issueRevision |-> 0, discharges |-> FALSE]

Challenge == [op |-> "CONTRADICT", claim |-> claim, expected |-> founder,
              support |-> {}, contradict |-> challenging,
              issue |-> None, issueRevision |-> 0, discharges |-> FALSE]

Settlement == [op |-> "RESOLVE", claim |-> claim, expected |-> founder,
               support |-> settling, contradict |-> {},
               issue |-> challenger, issueRevision |-> 1, discharges |-> TRUE]

Steps == <<founder, challenger, settler>>

IssueRows(E, type, p) ==
    {[issue |-> challenger, evidence |-> e, by |-> p, type |-> type] : e \in E}

Settled ==
    /\ status = [p \in Proposal |->
                    IF \E k \in 1 .. 3 : Steps[k] = p THEN "APPLIED" ELSE "NONE"]
    /\ body = [p \in Proposal |-> CASE p = founder -> Founding
                                    [] p = challenger -> Challenge
                                    [] p = settler -> Settlement
                                    [] OTHER -> None]
    /\ phase = [p \in Proposal |-> "idle"]
    /\ ticket = [p \in Proposal |-> CASE p = founder -> 1
                                      [] p = challenger -> 2
                                      [] p = settler -> 3
                                      [] OTHER -> 0]
    /\ number = [p \in Proposal |-> CASE p = founder -> 1
                                      [] p = settler -> 2
                                      [] OTHER -> 0]
    /\ head = [c \in Claim |-> IF c = claim THEN settler ELSE None]
    /\ active = {}
    /\ released = {}
    /\ issue = [p \in Proposal |->
                   IF p = challenger
                   THEN [status |-> "RESOLVED", revision |-> 2, resolvedBy |-> settler]
                   ELSE NoIssue]
    /\ relation = IssueRows(founding, "SUPPORT_BRANCH", challenger)
                  \cup IssueRows(challenging, "CONTRADICT_BRANCH", challenger)
                  \cup IssueRows(settling, "RESOLUTION_CANDIDATE", settler)
    /\ history = {[issue |-> challenger, revision |-> 1, from |-> "NONE",
                   to |-> "OPEN", seq |-> 2],
                  [issue |-> challenger, revision |-> 2, from |-> "OPEN",
                   to |-> "RESOLVED", seq |-> 3]}
    /\ revoking = [e \in Evidence |-> 0]
    /\ revokedAt = [e \in Evidence |-> 0]
    /\ outbox = {[event |-> "PROPOSAL_CREATED", subject |-> Steps[k], seq |-> 0] : k \in 1 .. 3}
                \cup {[event |-> "CLAIM_VERSION_COMMITTED", subject |-> founder, seq |-> 1],
                      [event |-> "OPEN_ISSUE_CHANGED", subject |-> challenger, seq |-> 2],
                      [event |-> "OPEN_ISSUE_CHANGED", subject |-> settler, seq |-> 3]}
    /\ commitSeq = 3

SettledSpec == Settled /\ [][Next]_vars
=============================================================================
