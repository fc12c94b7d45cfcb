--------------------------- MODULE WriteRequests ---------------------------
(***************************************************************************)
(* What a host may ask for with an operation id: notes (write_host_note),  *)
(* the working state of one scope (update_host_cognitive_state) and        *)
(* proposals about one claim (create_operation_proposal).  A record is     *)
(* named by the operation that creates it.                                 *)
(***************************************************************************)
EXTENDS Integers

CONSTANTS
    NoteKey, StateKey, ProposalKey,     \* operation ids of the three families
    Evidence,
    MaxVersion,     \* bound on the versions a host may expect
    None            \* SQL NULL, a value left out

ASSUME FamiliesAssumption ==
    /\ NoteKey \cap StateKey = {}
    /\ ProposalKey \cap (NoteKey \cup StateKey) = {}
ASSUME MaxVersionAssumption == MaxVersion \in Nat

Key == NoteKey \cup StateKey \cup ProposalKey

Request == [op : {"ADD", "UPDATE", "DELETE", "CREATE", "REPLACE", "PROPOSE"},
            target : Key \cup {None},
            expected : Nat,
            cites : (SUBSET Evidence) \cup {None}]

NoteRequests ==
    [op : {"ADD"}, target : {None}, expected : {0}, cites : SUBSET Evidence]
    \cup [op : {"UPDATE"}, target : NoteKey, expected : 1 .. MaxVersion,
          cites : (SUBSET Evidence) \cup {None}]
    \cup [op : {"DELETE"}, target : NoteKey, expected : 1 .. MaxVersion, cites : {None}]

StateRequests ==
    [op : {"CREATE"}, target : {None}, expected : {0}, cites : SUBSET Evidence]
    \cup [op : {"REPLACE"}, target : StateKey, expected : 1 .. MaxVersion,
          cites : SUBSET Evidence]

ProposalRequests ==
    [op : {"PROPOSE"}, target : {None}, expected : 0 .. MaxVersion, cites : SUBSET Evidence]

Requests(k) ==
    IF k \in NoteKey THEN NoteRequests
    ELSE IF k \in StateKey THEN StateRequests
    ELSE ProposalRequests

\* the record a request is about
Subject(k, q) == IF q.target = None THEN k ELSE q.target

\* the idempotency record of an operation id, with the response of its call
Receipt == [request : Request, status : {"DONE", "STALE"}, version : Nat]

ASSUME NoneAssumption == /\ None \notin Key \cup Receipt
                         /\ \A S \in SUBSET Evidence : S # None

=============================================================================
