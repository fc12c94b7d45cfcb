------------------------- MODULE MCEvidenceDeletion -------------------------
(* Bounded instances of EvidenceDeletion for TLC.                           *)
EXTENDS EvidenceDeletion, TLC

\* captures without a hold are interchangeable where no liveness is checked
Captures == Permutations(Evidence \ Held)
=============================================================================
