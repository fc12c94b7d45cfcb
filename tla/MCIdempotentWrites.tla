------------------------ MODULE MCIdempotentWrites -------------------------
(* Bounded instance of IdempotentWrites for TLC: the three families of      *)
(* writes share no row but those of the evidence, and are offered in turn.  *)
EXTENDS IdempotentWrites, TLC

CONSTANTS n1, n2, n3, s1, s2, s3, p1, p2, p3

Notes == {n1, n2, n3}
States == {s1, s2, s3}
Proposals == {p1, p2, p3}
\* safety only: operation ids of a family, and connections, are interchangeable
Interchangeable == Permutations(Notes) \cup Permutations(States)
                   \cup Permutations(Proposals) \cup Permutations(Conn)

Families == {Notes, States, Proposals}
=============================================================================
