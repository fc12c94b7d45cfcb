--------------------------- MODULE GovernedMemory ---------------------------
(***************************************************************************)
(* What canonical governance promises about the claims it keeps.  Every    *)
(* decision and every revocation is a single step on the state of that     *)
(* step: a version succeeds the one its author saw, a conflict stays on    *)
(* record until a discharging version settles it, a version whose evidence *)
(* was withdrawn is succeeded but never cleared.  Reviews in progress,     *)
(* locks, sequences, blocks and the rows of issues do not appear.          *)
(*                                                                         *)
(* Two things are not promised, since the procedures do not keep them: a   *)
(* version may rest on evidence that was revoked while it was under        *)
(* review, and a revocation need not reopen every conflict that was        *)
(* settled with the evidence.                                              *)
(***************************************************************************)
EXTENDS Integers, Sequences

CONSTANTS Claim, Evidence, Proposal, Ops, None

VARIABLES
    status,     \* what has become of a proposal
    request,    \* what it asks for
    ledger,     \* the versions of a claim, oldest first
    withdrawn,  \* versions whose evidence was revoked, with that evidence
    revoked,
    disputed    \* claims with a conflict that is not settled

vars == <<status, request, ledger, withdrawn, revoked, disputed>>

VersionOps == {"CREATE", "REVISE", "REGROUND", "RESOLVE"}

Latest(c) == IF ledger[c] = <<>> THEN None ELSE ledger[c][Len(ledger[c])]

Versions(c) == {ledger[c][n] : n \in 1 .. Len(ledger[c])}

Init ==
    /\ status = [p \in Proposal |-> "NONE"]
    /\ request = [p \in Proposal |-> None]
    /\ ledger = [c \in Claim |-> <<>>]
    /\ withdrawn = {}
    /\ revoked = {}
    /\ disputed = {}

\* a CREATE is for a claim to come, the rest for the version its author sees
Submit(p) ==
    /\ status[p] = "NONE"
    /\ status' = [status EXCEPT ![p] = "PENDING_REVIEW"]
    /\ \E c \in Claim :
          LET seen == Latest(c)
          IN  \E op \in Ops, S \in SUBSET Evidence, d \in BOOLEAN :
                /\ op # "CREATE" => seen # None
                /\ op \in VersionOps => S # {} /\ S \cap revoked = {}
                /\ request' = [request EXCEPT ![p] =
                      [op |-> op, claim |-> c, support |-> S, discharges |-> d,
                       expected |-> IF op = "CREATE" THEN None ELSE seen]]
    /\ UNCHANGED <<ledger, withdrawn, revoked, disputed>>

\* a decision is final and made for the version its author saw
Decide(p) ==
    /\ status[p] = "PENDING_REVIEW"
    /\ status' = [status EXCEPT ![p] = "APPLIED"]
    /\ request[p].expected = Latest(request[p].claim)
    /\ UNCHANGED <<request, revoked>>

Succeed(p) == ledger' = [ledger EXCEPT ![request[p].claim] = Append(@, p)]

Create(p) ==
    /\ Decide(p)
    /\ request[p].op = "CREATE"
    /\ Succeed(p)
    /\ UNCHANGED <<withdrawn, disputed>>

Revise(p) ==
    /\ Decide(p)
    /\ request[p].op = "REVISE"
    /\ Succeed(p)
    /\ UNCHANGED <<withdrawn, disputed>>

\* only a version that has lost evidence is grounded anew
Reground(p) ==
    /\ Decide(p)
    /\ request[p].op = "REGROUND"
    /\ \E e \in Evidence : <<request[p].expected, e>> \in withdrawn
    /\ Succeed(p)
    /\ UNCHANGED <<withdrawn, disputed>>

Resolve(p) ==
    /\ Decide(p)
    /\ request[p].op = "RESOLVE"
    /\ request[p].discharges
    /\ request[p].claim \in disputed
    /\ Succeed(p)
    /\ disputed' = disputed \ {request[p].claim}
    /\ UNCHANGED withdrawn

Contradict(p) ==
    /\ Decide(p)
    /\ request[p].op = "CONTRADICT"
    /\ disputed' = disputed \cup {request[p].claim}
    /\ UNCHANGED <<ledger, withdrawn>>

NoChange(p) ==
    /\ Decide(p)
    /\ request[p].op = "NO_CHANGE"
    /\ UNCHANGED <<ledger, withdrawn, disputed>>

Reject(p) ==
    /\ status[p] = "PENDING_REVIEW"
    /\ status' = [status EXCEPT ![p] = "REJECTED"]
    /\ UNCHANGED <<request, ledger, withdrawn, revoked, disputed>>

\* the versions that rest on the evidence
Dependent(e) == {v \in UNION {Versions(c) : c \in Claim} : e \in request[v].support}

\* claims with a version that settled a conflict by means of the evidence
Settled(e) ==
    {c \in Claim : \E v \in Versions(c) \cap Dependent(e) : request[v].op = "RESOLVE"}

Revoke(e) ==
    /\ e \notin revoked
    /\ revoked' = revoked \cup {e}
    /\ withdrawn' = withdrawn \cup (Dependent(e) \X {e})
    /\ \E reopened \in SUBSET Settled(e) : disputed' = disputed \cup reopened
    /\ UNCHANGED <<status, request, ledger>>

Next ==
    \/ \E p \in Proposal : \/ Submit(p)
                           \/ Create(p)
                           \/ Revise(p)
                           \/ Reground(p)
                           \/ Resolve(p)
                           \/ Contradict(p)
                           \/ NoChange(p)
                           \/ Reject(p)
    \/ \E e \in Evidence : Revoke(e)

Spec == Init /\ [][Next]_vars

=============================================================================
