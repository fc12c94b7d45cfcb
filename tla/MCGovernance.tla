---------------------------- MODULE MCGovernance ----------------------------
(* Bounded instances of CanonicalGovernance for TLC.                        *)
EXTENDS CanonicalGovernance, TLC

\* proposals and evidence records are interchangeable uuids
Interchangeable == Permutations(Proposal) \cup Permutations(Evidence)

\* no reference, or one: enough for two records to play different parts
AtMostOne == {E \in SUBSET Evidence : Cardinality(E) <= 1}

\* any references
AnyEvidence == SUBSET Evidence

\* operations exercised by the run about versions and groundings
VersionRunOps == {"CREATE", "REVISE", "REGROUND", "NO_CHANGE"}
=============================================================================
