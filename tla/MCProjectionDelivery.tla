------------------------ MODULE MCProjectionDelivery ------------------------
(* Bounded instances of ProjectionDelivery for TLC.                         *)
EXTENDS ProjectionDelivery, TLC

\* worker processes are interchangeable
Replicas == Permutations(Worker)
=============================================================================
