----------------------- MODULE IdempotentWritesProofs -----------------------
(* Theorems about IdempotentWrites for every set of operation ids, of       *)
(* connections and of evidence.                                             *)
EXTENDS IdempotentWrites, FiniteSetTheorems, TLAPS

-----------------------------------------------------------------------------
(* The inductive invariant.                                                 *)

\* rows a call has locked
Holding(c) == call[c].stage \in {"absent", "ready", "stale"}

\* the entry of the idempotency row: one call at a time for notes and states,
\* one insertion at a time for proposals
KeyInv ==
    \A c \in Conn : call[c].stage # "idle" =>
        /\ call[c].request \in Requests(call[c].key)
        /\ call[c].key \notin ProposalKey \/ call[c].stage = "ready"
              => receipt[call[c].key] = None
        /\ \A d \in Conn \ {c} :
              call[d].stage # "idle" /\ call[d].key = call[c].key
                 => /\ call[c].key \in ProposalKey
                    /\ ~ (call[c].stage = "ready" /\ call[d].stage = "ready")

\* no two calls have locked the same row, and one at most has an entry in the
\* index of active states
LockInv ==
    \A c, d \in Conn : c # d =>
        /\ Holding(c) /\ Holding(d) /\ call[c].head # None => call[c].head # call[d].head
        /\ ~ (At(c, "ready", "CREATE") /\ At(d, "ready", "CREATE"))

\* what a call has found stays so while it holds the row
FoundNote(c) ==
    LET q == call[c].request
    IN  /\ q.op = "ADD" => call[c].head = None
        /\ q.op \in {"UPDATE", "DELETE"} => /\ call[c].head = q.target
                                            /\ standing[q.target] = "ACTIVE"
                                            /\ Len(chain[q.target]) = q.expected
        /\ q.op \in {"ADD", "UPDATE"} => Cited(q) \cap revoked = {}

FoundState(c) ==
    LET q == call[c].request
    IN  /\ q.op = "CREATE" => Active \subseteq {call[c].head}
        /\ q.op = "REPLACE" => /\ call[c].head = q.target
                               /\ q.target \in Active
                               /\ Len(chain[q.target]) = q.expected

FoundStale(c) ==
    LET q == call[c].request
    IN  /\ q.op \in {"CREATE", "REPLACE"}
        /\ call[c].head \in Active
        /\ q.op = "REPLACE" => /\ call[c].head = q.target
                               /\ Len(chain[q.target]) # q.expected

FoundLapsed(c) ==
    call[c].request.op = "CREATE" /\ call[c].head # None
        => call[c].head \in Active /\ call[c].head \in call[c].late

Found(c) ==
    /\ call[c].stage # "idle" => call[c].late \subseteq lapsed
    /\ call[c].stage \in {"seeking", "absent"} => call[c].request.op = "CREATE"
    /\ call[c].stage = "checked" => call[c].request.op = "PROPOSE"
    /\ call[c].stage # "idle" /\ call[c].request.op = "PROPOSE"
          => call[c].request.expected <= claim
    /\ call[c].stage \in {"absent", "ready"} => FoundLapsed(c)
    /\ call[c].stage = "ready" => FoundNote(c) /\ FoundState(c)
    /\ call[c].stage = "ready" /\ call[c].request.op = "PROPOSE" => call[c].head = None
    /\ call[c].stage = "stale" => FoundStale(c)

FoundInv == \A c \in Conn : Found(c)

\* a record exists once it has a version, and not before its operation is done
ChainInv ==
    \A k \in Key : /\ chain[k] = <<>> <=> standing[k] = "NONE"
                   /\ receipt[k] = None => chain[k] = <<>>

SingleState == \A r, s \in Active : r = s

IInv == /\ TypeOK /\ KeyInv /\ LockInv /\ FoundInv
        /\ ChainInv /\ EffectOnce /\ NoLostUpdate /\ SingleState

-----------------------------------------------------------------------------
(* Requests and the records they are about.                                 *)

LEMMA RequestShape ==
  ASSUME NEW k \in Key, NEW q \in Requests(k)
  PROVE  /\ q \in Request
         /\ q.op \in {"ADD", "UPDATE", "DELETE"} => k \in NoteKey
         /\ q.op \in {"CREATE", "REPLACE"} => k \in StateKey
         /\ q.op = "PROPOSE" <=> k \in ProposalKey
         /\ q.op \in {"ADD", "CREATE", "PROPOSE"} => q.target = None
         /\ q.op \in {"ADD", "CREATE"} => q.expected = 0
         /\ q.op \in {"UPDATE", "DELETE"} => q.target \in NoteKey
         /\ q.op = "REPLACE" => q.target \in StateKey
         /\ q.op \in {"UPDATE", "DELETE", "REPLACE"} => q.expected \in Nat \ {0}
         /\ q.op \in {"ADD", "CREATE", "REPLACE", "PROPOSE"} => q.cites \in SUBSET Evidence
  <1> USE FamiliesAssumption, MaxVersionAssumption
      DEF Requests, NoteRequests, StateRequests, ProposalRequests, Request, Key
  <1>1. CASE k \in NoteKey
    BY <1>1
  <1>2. CASE k \in StateKey
    BY <1>2
  <1>3. CASE k \in ProposalKey
    BY <1>3
  <1> QED
    BY <1>1, <1>2, <1>3

LEMMA SubjectShape ==
  ASSUME NEW k \in Key, NEW q \in Requests(k)
  PROVE  /\ Subject(k, q) \in Key
         /\ q.op \in {"ADD", "CREATE", "PROPOSE"} => Subject(k, q) = k
         /\ q.op \in {"UPDATE", "DELETE", "REPLACE"} => Subject(k, q) = q.target
  BY RequestShape, NoneAssumption DEF Subject, Request, Key

-----------------------------------------------------------------------------
(* Type correctness.                                                        *)

ChainEntry == [by : Key, cites : SUBSET Evidence]

LEMMA CallType ==
  ASSUME TypeOK, NEW c \in Conn, call[c].stage # "idle"
  PROVE  call[c] \in Call
  BY DEF TypeOK, Idle

LEMMA MovesType ==
  ASSUME TypeOK, NEW c \in Conn, call[c].stage # "idle",
         NEW stage \in Stage, NEW head \in Key \cup {None}, Moves(c, stage, head)
  PROVE  TypeOK'
  <1>1. call[c] \in Call
    BY CallType
  <1>2. [call[c] EXCEPT !.stage = stage, !.head = head] \in Call
    BY <1>1 DEF Call
  <1>3. call' \in [Conn -> Call \cup {Idle}]
    BY <1>2 DEF Moves, TypeOK
  <1> QED
    BY <1>3 DEF Moves, TypeOK, storeVars, worldVars

LEMMA CitedType ==
  ASSUME TypeOK, NEW k \in Key, NEW q \in Requests(k),
         q.op = "UPDATE" => chain[q.target] # <<>>
  PROVE  Cited(q) \in SUBSET Evidence
  <1>1. CASE q.op = "UPDATE" /\ q.cites = None
    <2>1. q.target \in Key
      BY <1>1, RequestShape DEF Key
    <2>2. chain[q.target] \in Seq(ChainEntry)
      BY <2>1 DEF TypeOK, ChainEntry
    <2>3. Len(chain[q.target]) \in DOMAIN chain[q.target]
      BY <1>1, <2>2
    <2>4. chain[q.target][Len(chain[q.target])] \in ChainEntry
      BY <2>2, <2>3
    <2> QED
      BY <1>1, <2>4 DEF Cited, ChainEntry
  <1>2. CASE q.op = "UPDATE" /\ q.cites # None
    BY <1>2, RequestShape DEF Cited, Request
  <1>3. CASE q.op = "DELETE"
    BY <1>3 DEF Cited
  <1>4. CASE q.op \in {"ADD", "CREATE", "REPLACE", "PROPOSE"}
    BY <1>4, RequestShape, NoneAssumption DEF Cited
  <1> QED
    BY <1>1, <1>2, <1>3, <1>4, RequestShape DEF Request

\* what Commit adds to the chain of its record
Entry(c) == [by |-> call[c].key, cites |-> Cited(call[c].request)]

CommitSubject(c) == Subject(call[c].key, call[c].request)

\* a call about to commit: its request, its record, and the state it has found
LEMMA ReadyShape ==
  ASSUME IInv, NEW c \in Conn, call[c].stage = "ready"
  PROVE  /\ call[c] \in Call
         /\ call[c].key \in Key
         /\ call[c].request \in Requests(call[c].key)
         /\ receipt[call[c].key] = None
         /\ CommitSubject(c) \in Key
         /\ call[c].request.op \in {"ADD", "CREATE", "PROPOSE"}
               => CommitSubject(c) = call[c].key /\ chain[call[c].key] = <<>>
         /\ call[c].request.op \in {"UPDATE", "DELETE", "REPLACE"}
               => /\ CommitSubject(c) = call[c].request.target
                  /\ call[c].head = call[c].request.target
                  /\ standing[call[c].request.target] = "ACTIVE"
                  /\ chain[call[c].request.target] # <<>>
                  /\ Len(chain[call[c].request.target]) = call[c].request.expected
         /\ Entry(c) \in ChainEntry
  <1> DEFINE k == call[c].key
             q == call[c].request
  <1>1. call[c] \in Call /\ k \in Key /\ q \in Request
    BY CallType DEF IInv, Call
  <1>2. q \in Requests(k) /\ receipt[k] = None
    BY <1>1 DEF IInv, KeyInv
  <1>3. CommitSubject(c) \in Key
    BY <1>1, <1>2, SubjectShape DEF CommitSubject
  <1>4. q.op \in {"ADD", "CREATE", "PROPOSE"}
           => CommitSubject(c) = k /\ chain[k] = <<>>
    BY <1>1, <1>2, SubjectShape DEF CommitSubject, IInv, ChainInv
  <1>5. q.op \in {"UPDATE", "DELETE", "REPLACE"}
           => /\ CommitSubject(c) = q.target
              /\ call[c].head = q.target
              /\ standing[q.target] = "ACTIVE"
              /\ Len(chain[q.target]) = q.expected
    BY <1>1, <1>2, SubjectShape
    DEF CommitSubject, IInv, FoundInv, Found, FoundNote, FoundState, Active
  <1>6. q.op \in {"UPDATE", "DELETE", "REPLACE"} => chain[q.target] # <<>>
    BY <1>3, <1>5 DEF IInv, ChainInv
  <1>7. Cited(q) \in SUBSET Evidence
    BY <1>1, <1>2, <1>6, CitedType DEF IInv
  <1> QED
    BY <1>1, <1>2, <1>3, <1>4, <1>5, <1>6, <1>7 DEF Entry, ChainEntry

LEMMA LateType ==
  ASSUME TypeOK, NEW c \in Conn, Commit(c)
  PROVE  call' \in [Conn -> Call \cup {Idle}]
  <1> DEFINE q == call[c].request
  <1>1. ASSUME NEW d \in Conn, call[d].stage # "idle"
        PROVE  [call[d] EXCEPT !.late = @ \ Renewed(q)] \in Call
    BY <1>1, CallType DEF Call
  <1> QED
    BY <1>1 DEF Commit

LEMMA CommitType ==
  ASSUME IInv, NEW c \in Conn, Commit(c)
  PROVE  TypeOK'
  <1> DEFINE k == call[c].key
             q == call[c].request
             r == CommitSubject(c)
  <1>1. /\ call[c].stage = "ready"
        /\ call[c] \in Call
        /\ k \in Key /\ q \in Request /\ r \in Key
        /\ Entry(c) \in ChainEntry
    BY ReadyShape DEF Commit, Call
  <1>2. chain' \in [Key -> Seq(ChainEntry)]
    <2>1. chain' = [chain EXCEPT ![r] = Append(@, Entry(c))]
      BY DEF Commit, Entry, CommitSubject
    <2>2. chain \in [Key -> Seq(ChainEntry)]
      BY DEF IInv, TypeOK, ChainEntry
    <2>3. Append(chain[r], Entry(c)) \in Seq(ChainEntry)
      BY <1>1, <2>2
    <2> QED
      BY <1>1, <2>1, <2>2, <2>3
  <1>3. receipt' \in [Key -> Receipt \cup {None}]
    <2>1. Len(chain[r]) \in Nat
      BY <1>1 DEF IInv, TypeOK
    <2> QED
      BY <1>1, <2>1 DEF Commit, Recorded, CommitSubject, IInv, TypeOK, Receipt
  <1>4. standing' \in [Key -> Standing]
    BY DEF Commit, NewStanding, Standing, IInv, TypeOK
  <1>5. call' \in [Conn -> Call \cup {Idle}]
    BY LateType DEF IInv
  <1> QED
    BY <1>2, <1>3, <1>4, <1>5 DEF Commit, IInv, TypeOK, ChainEntry, worldVars

LEMMA TypeStep ==
  ASSUME IInv, [Next]_vars
  PROVE  TypeOK'
  <1> USE DEF IInv
  <1>1. ASSUME NEW c \in Conn, NEW k \in Key, NEW q \in Requests(k), Begin(c, k, q)
        PROVE  TypeOK'
    <2>1. q \in Request
      BY RequestShape
    <2>2. [stage |-> "keyed", key |-> k, request |-> q, head |-> None, late |-> lapsed]
             \in Call
      BY <2>1 DEF Call, Stage, TypeOK
    <2> QED
      BY <1>1, <2>2 DEF Begin, TypeOK, storeVars, worldVars
  <1>2. ASSUME NEW c \in Conn,
               CheckNote(c) \/ CheckState(c) \/ CheckProposal(c) \/ InsertReceipt(c)
        PROVE  TypeOK'
    <2>1. call[c].stage # "idle" /\ call[c] \in Call
      BY <1>2, CallType DEF CheckNote, CheckState, CheckProposal, InsertReceipt, At
    <2>2. call[c].request.target \in Key \cup {None}
      BY <2>1 DEF Call, Request
    <2>3. \E stage \in Stage, head \in Key \cup {None} : Moves(c, stage, head)
      BY <1>2, <2>2 DEF CheckNote, CheckState, CheckProposal, InsertReceipt, Stage
    <2> QED
      BY <2>1, <2>3, MovesType
  <1>3. ASSUME NEW c \in Conn, SeekState(c) \/ FindState(c) \/ InsertState(c)
        PROVE  TypeOK'
    <2>1. call[c].stage # "idle" /\ call[c] \in Call
      BY <1>3, CallType DEF SeekState, FindState, InsertState, At
    <2>2. call[c].head \in Key \cup {None} /\ Active \subseteq Key
      BY <2>1 DEF Call, Active, Key
    <2>3. \E stage \in Stage, head \in Key \cup {None} : Moves(c, stage, head)
      BY <1>3, <2>2 DEF SeekState, FindState, InsertState, Stage
    <2> QED
      BY <2>1, <2>3, MovesType
  <1>4. ASSUME NEW c \in Conn, Commit(c) PROVE TypeOK'
    BY <1>4, CommitType
  <1>5. ASSUME NEW c \in Conn, CommitStale(c) PROVE TypeOK'
    <2>1. call[c].stage = "stale" /\ call[c] \in Call
      BY <1>5, CallType DEF CommitStale
    <2>2. call[c].head \in Key
      BY <2>1 DEF FoundInv, Found, FoundStale, Active, Key
    <2>3. Len(chain[call[c].head]) \in Nat
      BY <2>2 DEF TypeOK
    <2> QED
      BY <1>5, <2>1, <2>3 DEF CommitStale, Recorded, TypeOK, Call, Receipt, worldVars
  <1>6. ASSUME NEW c \in Conn, Abort(c) PROVE TypeOK'
    BY <1>6 DEF Abort, TypeOK, storeVars, worldVars
  <1>7. ASSUME NEW r \in StateKey, Lapse(r) PROVE TypeOK'
    BY <1>7 DEF Lapse, TypeOK, worldVars
  <1>8. ASSUME NEW k \in ProposalKey, Review(k) PROVE TypeOK'
    <2>1. standing' \in [Key -> Standing]
      BY <1>8 DEF Review, TypeOK, Standing
    <2>2. claim' \in Nat
      BY <1>8 DEF Review, TypeOK
    <2> QED
      BY <1>8, <2>1, <2>2 DEF Review, TypeOK
  <1>9. ASSUME NEW e \in Evidence, Revoke(e) PROVE TypeOK'
    BY <1>9 DEF Revoke, TypeOK, storeVars
  <1>10. ASSUME UNCHANGED vars PROVE TypeOK'
    BY <1>10 DEF vars, TypeOK, storeVars, worldVars
  <1> QED
    BY <1>1, <1>2, <1>3, <1>4, <1>5, <1>6, <1>7, <1>8, <1>9, <1>10 DEF Next

-----------------------------------------------------------------------------
(* What the actions of one connection leave of the calls of the others.     *)

LEMMA MovesEffect ==
  ASSUME TypeOK, NEW c \in Conn, call[c].stage # "idle",
         NEW stage \in Stage, NEW head, Moves(c, stage, head)
  PROVE  /\ call'[c].stage = stage /\ call'[c].head = head
         /\ call'[c].key = call[c].key /\ call'[c].request = call[c].request
         /\ call'[c].late = call[c].late
         /\ \A d \in Conn \ {c} : call'[d] = call[d]
         /\ UNCHANGED <<receipt, chain, standing, lapsed, claim, revoked>>
  <1>1. call[c] \in Call
    BY CallType
  <1> QED
    BY <1>1 DEF Moves, TypeOK, Call, storeVars, worldVars

LEMMA EndEffect ==
  ASSUME TypeOK, NEW c \in Conn, call' = [call EXCEPT ![c] = Idle]
  PROVE  /\ call'[c].stage = "idle"
         /\ \A d \in Conn \ {c} : call'[d] = call[d]
  BY DEF TypeOK, Idle

LEMMA BeginEffect ==
  ASSUME TypeOK, NEW c \in Conn, NEW k \in Key, NEW q \in Requests(k), Begin(c, k, q)
  PROVE  /\ call'[c].stage = "keyed" /\ call'[c].head = None
         /\ call'[c].key = k /\ call'[c].request = q /\ call'[c].late = lapsed
         /\ \A d \in Conn \ {c} : call'[d] = call[d]
         /\ UNCHANGED <<receipt, chain, standing, lapsed, claim, revoked>>
  BY DEF Begin, TypeOK, storeVars, worldVars

LEMMA CommitEffect ==
  ASSUME TypeOK, NEW c \in Conn, Commit(c)
  PROVE  /\ call'[c].stage = "idle"
         /\ \A d \in Conn \ {c} :
               /\ call'[d].stage = call[d].stage
               /\ call[d].stage # "idle"
                    => /\ call'[d].key = call[d].key
                       /\ call'[d].request = call[d].request
                       /\ call'[d].head = call[d].head
                       /\ call'[d].late = call[d].late \ Renewed(call[c].request)
  <1>1. call'[c].stage = "idle"
    BY DEF Commit, Idle
  <1>2. ASSUME NEW d \in Conn \ {c}, call[d].stage = "idle"
        PROVE  call'[d].stage = "idle"
    BY <1>2 DEF Commit, Idle
  <1>3. ASSUME NEW d \in Conn \ {c}, call[d].stage # "idle"
        PROVE  /\ call'[d].stage = call[d].stage
               /\ call'[d].key = call[d].key
               /\ call'[d].request = call[d].request
               /\ call'[d].head = call[d].head
               /\ call'[d].late = call[d].late \ Renewed(call[c].request)
    <2>1. call[d] \in Call
      BY <1>3, CallType
    <2>2. call'[d] = [call[d] EXCEPT !.late = @ \ Renewed(call[c].request)]
      BY <1>3 DEF Commit
    <2> QED
      BY <2>1, <2>2 DEF Call
  <1> QED
    BY <1>1, <1>2, <1>3

\* every step of Next, with the moves of a call within its transaction together
MovesTo(c, stage, head) ==
    /\ call[c].stage # "idle"
    /\ Moves(c, stage, head)
    /\ CheckNote(c) \/ SeekState(c) \/ FindState(c) \/ InsertState(c)
       \/ CheckState(c) \/ CheckProposal(c) \/ InsertReceipt(c)

LEMMA MovesCases ==
  ASSUME NEW c \in Conn,
         CheckNote(c) \/ SeekState(c) \/ FindState(c) \/ InsertState(c)
         \/ CheckState(c) \/ CheckProposal(c) \/ InsertReceipt(c)
  PROVE  \E stage \in Stage : \E head : MovesTo(c, stage, head)
  <1>1. call[c].stage # "idle"
    BY DEF CheckNote, SeekState, FindState, InsertState, CheckState, CheckProposal,
           InsertReceipt, At
  <1>2. \E stage \in Stage : \E head : Moves(c, stage, head)
    BY DEF CheckNote, SeekState, FindState, InsertState, CheckState, CheckProposal,
           InsertReceipt, Stage
  <1> QED
    BY <1>1, <1>2 DEF MovesTo

-----------------------------------------------------------------------------
(* The idempotency rows.                                                    *)

LEMMA KeyMoves ==
  ASSUME IInv, NEW c \in Conn, NEW stage \in Stage, NEW head, MovesTo(c, stage, head)
  PROVE  KeyInv'
  <1> DEFINE k == call[c].key
  <1>1. /\ call'[c].stage = stage
        /\ call'[c].key = k /\ call'[c].request = call[c].request
        /\ \A d \in Conn \ {c} : call'[d] = call[d]
        /\ UNCHANGED receipt
    BY MovesEffect DEF MovesTo, IInv
  <1>2. call[c].stage # "idle" /\ k \in Key /\ call[c].request \in Requests(k)
    BY CallType DEF MovesTo, IInv, KeyInv, Call
  <1>3. ASSUME stage = "ready"
        PROVE  /\ receipt[k] = None
               /\ \A d \in Conn \ {c} :
                     call[d].stage = "ready" /\ call[d].key = k => k \notin ProposalKey
    <2>1. CASE InsertReceipt(c)
      <3>1. receipt[k] = None
        BY <2>1 DEF InsertReceipt
      <3>2. ASSUME NEW d \in Conn \ {c}, call[d].stage = "ready", call[d].key = k
            PROVE  k \notin ProposalKey
        <4>1. call[d].request \in Requests(k)
          BY <3>2 DEF IInv, KeyInv
        <4>2. k \in ProposalKey => call[d].request.op = "PROPOSE"
          BY <1>2, <4>1, RequestShape
        <4> QED
          BY <2>1, <3>2, <4>2 DEF InsertReceipt, At
      <3> QED
        BY <3>1, <3>2
    <2>2. CASE CheckNote(c)
      BY <1>2, <2>2, RequestShape, FamiliesAssumption DEF CheckNote, IInv, KeyInv
    <2>3. CASE InsertState(c) \/ CheckState(c)
      BY <1>2, <2>3, RequestShape, FamiliesAssumption
      DEF InsertState, CheckState, At, IInv, KeyInv
    <2>4. CASE SeekState(c) \/ FindState(c) \/ CheckProposal(c)
      <3>1. stage # "ready"
        BY <1>1, <2>4, MovesEffect, <1>2
        DEF SeekState, FindState, CheckProposal, IInv, Stage
      <3> QED
        BY <1>3, <3>1
    <2> QED
      BY <2>1, <2>2, <2>3, <2>4 DEF MovesTo
  <1> QED
    BY <1>1, <1>2, <1>3 DEF IInv, KeyInv

LEMMA KeyStep ==
  ASSUME IInv, [Next]_vars
  PROVE  KeyInv'
  <1> USE DEF IInv
  <1>1. ASSUME NEW c \in Conn, NEW k \in Key, NEW q \in Requests(k), Begin(c, k, q)
        PROVE  KeyInv'
    <2>1. /\ receipt[k] = None
          /\ k \notin ProposalKey => ~ KeyHeld(c, k)
      BY <1>1 DEF Begin
    <2> QED
      BY <1>1, <2>1, BeginEffect DEF KeyHeld, KeyInv
  <1>2. ASSUME NEW c \in Conn,
               CheckNote(c) \/ SeekState(c) \/ FindState(c) \/ InsertState(c)
               \/ CheckState(c) \/ CheckProposal(c) \/ InsertReceipt(c)
        PROVE  KeyInv'
    BY <1>2, MovesCases, KeyMoves
  <1>3. ASSUME NEW c \in Conn, Commit(c) PROVE KeyInv'
    <2>1. \A k \in Key : receipt'[k] = None <=> receipt[k] = None /\ k # call[c].key
      <3>1. receipt' = [receipt EXCEPT ![call[c].key] =
                [request |-> call[c].request, status |-> "DONE",
                 version |-> Len(chain[CommitSubject(c)]) + 1]]
        BY <1>3 DEF Commit, Recorded, CommitSubject
      <3>2. receipt' \in [Key -> Receipt \cup {None}]
        BY <1>3, CommitType DEF TypeOK
      <3>3. /\ call[c].key \in Key
            /\ [request |-> call[c].request, status |-> "DONE",
                version |-> Len(chain[CommitSubject(c)]) + 1] \in Receipt
        <4>1. call[c].stage = "ready" /\ call[c].key \in Key /\ call[c].request \in Request
              /\ CommitSubject(c) \in Key
          BY <1>3, ReadyShape DEF Commit, Call
        <4> QED
          BY <4>1 DEF Receipt, TypeOK
      <3> QED
        BY <3>1, <3>3, NoneAssumption DEF TypeOK
    <2>2. call[c].stage = "ready"
      BY <1>3 DEF Commit
    <2>3. \A d \in Conn : call[d].stage # "idle" => call[d].key \in Key
      BY CallType DEF Call
    <2> QED
      BY <1>3, <2>1, <2>2, <2>3, CommitEffect DEF KeyInv
  <1>4. ASSUME NEW c \in Conn, CommitStale(c) PROVE KeyInv'
    <2>1. call[c].stage = "stale" /\ call[c].request.op \in {"CREATE", "REPLACE"}
      BY <1>4 DEF CommitStale, FoundInv, Found, FoundStale
    <2>2. call[c].key \in StateKey /\ call[c].request \in Requests(call[c].key)
      BY <2>1, CallType, RequestShape DEF KeyInv, Call
    <2>3. \A k \in Key : k # call[c].key => receipt'[k] = receipt[k]
      BY <1>4 DEF CommitStale, Recorded, TypeOK
    <2>4. \A d \in Conn : call[d].stage # "idle" => call[d].key \in Key
      BY CallType DEF Call
    <2>5. \A d \in Conn \ {c} : call[d].stage # "idle" => call[d].key # call[c].key
      BY <2>1, <2>2, FamiliesAssumption DEF KeyInv
    <2>6. /\ call'[c].stage = "idle"
          /\ \A d \in Conn \ {c} : call'[d] = call[d]
      BY <1>4, EndEffect DEF CommitStale
    <2> QED
      BY <2>3, <2>4, <2>5, <2>6 DEF KeyInv
  <1>5. ASSUME NEW c \in Conn, Abort(c) PROVE KeyInv'
    <2>1. /\ call'[c].stage = "idle"
          /\ \A d \in Conn \ {c} : call'[d] = call[d]
          /\ UNCHANGED receipt
      BY <1>5, EndEffect DEF Abort, storeVars
    <2> QED
      BY <2>1 DEF KeyInv
  <1>6. ASSUME NEW r \in StateKey, Lapse(r) PROVE KeyInv'
    BY <1>6 DEF Lapse, KeyInv
  <1>7. ASSUME NEW k \in ProposalKey, Review(k) PROVE KeyInv'
    BY <1>7 DEF Review, KeyInv
  <1>8. ASSUME NEW e \in Evidence, Revoke(e) PROVE KeyInv'
    BY <1>8 DEF Revoke, KeyInv, storeVars
  <1>9. ASSUME UNCHANGED vars PROVE KeyInv'
    BY <1>9 DEF vars, KeyInv, storeVars
  <1> QED
    BY <1>1, <1>2, <1>3, <1>4, <1>5, <1>6, <1>7, <1>8, <1>9 DEF Next

-----------------------------------------------------------------------------
(* The rows of records and the index of active states.                      *)

LEMMA LockMoves ==
  ASSUME IInv, NEW c \in Conn, NEW stage \in Stage, NEW head, MovesTo(c, stage, head)
  PROVE  LockInv'
  <1> USE DEF IInv
  <1>1. /\ call'[c].stage = stage /\ call'[c].head = head
        /\ call'[c].request = call[c].request
        /\ \A d \in Conn \ {c} : call'[d] = call[d]
    BY MovesEffect DEF MovesTo
  \* a row newly locked is free, or was locked by this call before
  <1>2. ASSUME stage \in {"absent", "ready", "stale"}, head # None,
               NEW d \in Conn \ {c}, Holding(d)
        PROVE  call[d].head # head
    <2>1. CASE CheckNote(c)
      <3>1. head = call[c].request.target
        BY <1>1, <2>1, MovesEffect DEF CheckNote, MovesTo, Stage
      <3>2. call[c].request.op # "ADD"
        <4>1. call[c].key \in Key /\ call[c].request \in Requests(call[c].key)
          BY CallType DEF MovesTo, KeyInv, Call
        <4> QED
          BY <1>2, <3>1, <4>1, RequestShape
      <3> QED
        BY <1>2, <2>1, <3>1, <3>2 DEF CheckNote, HeadHeld, Holding
    <2>2. CASE SeekState(c)
      BY <1>1, <1>2, <2>2, MovesEffect DEF SeekState, MovesTo, HeadHeld, Holding, Stage
    <2>3. CASE FindState(c)
      BY <1>1, <1>2, <2>3, MovesEffect DEF FindState, MovesTo, HeadHeld, Holding, Stage
    <2>4. CASE InsertState(c)
      <3>1. head = call[c].head /\ Holding(c)
        BY <1>1, <2>4, MovesEffect DEF InsertState, MovesTo, Holding, At, Stage
      <3> QED
        BY <1>2, <3>1 DEF LockInv
    <2>5. CASE CheckState(c)
      <3>1. head = call[c].request.target /\ ~ HeadHeld(c, head)
        BY <1>1, <2>5, MovesEffect DEF CheckState, MovesTo, Stage
      <3> QED
        BY <1>2, <3>1 DEF HeadHeld, Holding
    <2>6. CASE CheckProposal(c) \/ InsertReceipt(c)
      BY <1>1, <1>2, <2>6, MovesEffect DEF CheckProposal, InsertReceipt, MovesTo, Stage
    <2> QED
      BY <2>1, <2>2, <2>3, <2>4, <2>5, <2>6 DEF MovesTo
  <1>3. ASSUME stage = "ready", call[c].request.op = "CREATE", NEW d \in Conn \ {c}
        PROVE  ~ At(d, "ready", "CREATE")
    <2>1. InsertState(c)
      <3>1. ~ (SeekState(c) \/ FindState(c))
        BY <1>1, <1>3, MovesEffect DEF SeekState, FindState, MovesTo, Stage
      <3> QED
        BY <1>3, <3>1 DEF MovesTo, CheckNote, CheckState, CheckProposal, InsertReceipt, At
    <2> QED
      BY <2>1 DEF InsertState, IndexHeld
  <1> QED
    BY <1>1, <1>2, <1>3 DEF LockInv, Holding, At

LEMMA LockStep ==
  ASSUME IInv, [Next]_vars
  PROVE  LockInv'
  <1> USE DEF IInv
  <1>1. ASSUME NEW c \in Conn, NEW k \in Key, NEW q \in Requests(k), Begin(c, k, q)
        PROVE  LockInv'
    <2>1. /\ call'[c].stage = "keyed"
          /\ \A d \in Conn \ {c} : call'[d] = call[d]
      BY <1>1, BeginEffect
    <2> QED
      BY <2>1 DEF LockInv, Holding, At
  <1>2. ASSUME NEW c \in Conn,
               CheckNote(c) \/ SeekState(c) \/ FindState(c) \/ InsertState(c)
               \/ CheckState(c) \/ CheckProposal(c) \/ InsertReceipt(c)
        PROVE  LockInv'
    BY <1>2, MovesCases, LockMoves
  <1>3. ASSUME NEW c \in Conn, Commit(c) PROVE LockInv'
    <2>1. /\ call'[c].stage = "idle"
          /\ \A d \in Conn \ {c} : /\ call'[d].stage = call[d].stage
                                   /\ call[d].stage # "idle"
                                        => /\ call'[d].request = call[d].request
                                           /\ call'[d].head = call[d].head
      BY <1>3, CommitEffect
    <2> QED
      BY <2>1 DEF LockInv, Holding, At
  <1>4. ASSUME NEW c \in Conn, CommitStale(c) \/ Abort(c) PROVE LockInv'
    <2>1. /\ call'[c].stage = "idle"
          /\ \A d \in Conn \ {c} : call'[d] = call[d]
      BY <1>4, EndEffect DEF CommitStale, Abort
    <2> QED
      BY <2>1 DEF LockInv, Holding, At
  <1>5. ASSUME UNCHANGED call PROVE LockInv'
    BY <1>5 DEF LockInv, Holding, At
  <1> QED
    BY <1>1, <1>2, <1>3, <1>4, <1>5 DEF Next, Lapse, Review, Revoke, vars

-----------------------------------------------------------------------------
(* What a call has found.                                                   *)

LEMMA FoundSame ==
  ASSUME NEW d \in Conn, Found(d), call'[d] = call[d],
         UNCHANGED <<chain, standing, revoked, claim>>, lapsed \subseteq lapsed'
  PROVE  Found(d)'
  BY DEF Found, FoundLapsed, FoundNote, FoundState, FoundStale, Cited, Active

\* the rows a commit writes
LEMMA CommitRows ==
  ASSUME IInv, NEW c \in Conn, Commit(c)
  PROVE  LET r == CommitSubject(c)
         IN  /\ r \in Key
             /\ \A k \in Key \ {r} : chain'[k] = chain[k]
             /\ chain'[r] = Append(chain[r], Entry(c))
             /\ \A k \in Key \ {r} :
                   standing'[k] = IF call[c].request.op = "CREATE" /\ k = call[c].head
                                  THEN "EXPIRED" ELSE standing[k]
             /\ standing'[r] = NewStanding(call[c].request)
             /\ call[c].request.op = "CREATE" => Active' = {r}
             /\ call[c].request.op # "CREATE" => Active' = Active
  <1> DEFINE r == CommitSubject(c)
             q == call[c].request
  <1>1. call[c].stage = "ready" /\ r \in Key /\ call[c].key \in Key
        /\ q \in Requests(call[c].key)
    BY ReadyShape DEF Commit
  <1>2. /\ \A k \in Key \ {r} : chain'[k] = chain[k]
        /\ chain'[r] = Append(chain[r], Entry(c))
    BY <1>1 DEF Commit, CommitSubject, Entry, IInv, TypeOK
  <1>3. /\ \A k \in Key \ {r} :
              standing'[k] = IF q.op = "CREATE" /\ k = call[c].head
                             THEN "EXPIRED" ELSE standing[k]
        /\ standing'[r] = NewStanding(q)
    BY <1>1 DEF Commit, CommitSubject
  <1>4. ASSUME q.op = "CREATE" PROVE Active' = {r}
    <2>1. r \in StateKey /\ standing'[r] = "ACTIVE"
      BY <1>1, <1>3, <1>4, RequestShape, SubjectShape DEF CommitSubject, NewStanding
    <2>2. \A k \in Active : k = call[c].head
      BY <1>1, <1>4 DEF IInv, FoundInv, Found, FoundState
    <2> QED
      BY <1>3, <1>4, <2>1, <2>2 DEF Active, Key
  <1>5. ASSUME q.op # "CREATE" PROVE Active' = Active
    <2>1. \A k \in Key \ {r} : standing'[k] = standing[k]
      BY <1>3, <1>5
    <2>2. CASE q.op = "REPLACE"
      <3>1. r \in Active /\ standing'[r] = "ACTIVE"
        BY <1>1, <1>3, <2>2, ReadyShape, RequestShape DEF NewStanding, Active
      <3> QED
        BY <2>1, <3>1 DEF Active, Key
    <2>3. CASE q.op # "REPLACE"
      <3>1. r \notin StateKey
        BY <1>1, <1>5, <2>3, RequestShape, SubjectShape, FamiliesAssumption
        DEF CommitSubject, Request
      <3> QED
        BY <2>1, <3>1 DEF Active, Key
    <2> QED
      BY <2>2, <2>3
  <1> QED
    BY <1>1, <1>2, <1>3, <1>4, <1>5

\* the row another call holds is none of those
LEMMA CommitElsewhere ==
  ASSUME IInv, NEW c \in Conn, Commit(c), NEW d \in Conn \ {c}, Holding(d),
         call[d].head \in Key, standing[call[d].head] = "ACTIVE"
  PROVE  /\ chain'[call[d].head] = chain[call[d].head]
         /\ standing'[call[d].head] = "ACTIVE"
         /\ call[c].request.op = "CREATE" => call[d].head \notin Active
         /\ call[d].head \notin Renewed(call[c].request)
  <1> DEFINE t == call[d].head
  <1>1. call[c].stage = "ready" /\ Holding(c)
    BY DEF Commit, Holding
  <1>2. t # None /\ t # call[c].head
    BY <1>1, NoneAssumption DEF IInv, LockInv
  <1>3. chain[t] # <<>>
    BY DEF IInv, ChainInv
  <1>4. t # CommitSubject(c)
    BY <1>1, <1>2, <1>3, ReadyShape, RequestShape DEF Request
  <1>5. call[c].request.op = "CREATE" => t \notin Active
    BY <1>1, <1>2 DEF IInv, FoundInv, Found, FoundState
  <1>6. t \notin Renewed(call[c].request)
    BY <1>1, <1>2, ReadyShape DEF Renewed
  <1> QED
    BY <1>2, <1>4, <1>5, <1>6, CommitRows

LEMMA FoundCommit ==
  ASSUME IInv, NEW c \in Conn, Commit(c), NEW d \in Conn \ {c}
  PROVE  Found(d)'
  <1> USE DEF IInv
  <1> DEFINE q == call[d].request
             t == call[d].head
  <1>1. CASE call[d].stage = "idle"
    BY <1>1, CommitEffect DEF Found
  <1>2. CASE call[d].stage # "idle"
    <2>1. /\ call'[d].stage = call[d].stage /\ call'[d].request = q /\ call'[d].head = t
          /\ call'[d].late = call[d].late \ Renewed(call[c].request)
          /\ call[d] \in Call /\ call[d].key \in Key /\ q \in Requests(call[d].key)
          /\ Found(d)
      BY <1>2, CommitEffect, CallType DEF KeyInv, FoundInv, Call
    <2>2. call'[d].late \subseteq lapsed'
      BY <1>2, <2>1 DEF Commit, Found
    <2>3. call[c].stage = "ready" /\ UNCHANGED <<claim, revoked>>
      BY DEF Commit, worldVars
    <2>4. call[c].request.op = "CREATE" /\ call[d].stage = "ready" => q.op # "CREATE"
      BY <2>3 DEF LockInv, At
    <2>5. Holding(d) /\ t \in Active
             => t \in Active' /\ chain'[t] = chain[t] /\ call[c].request.op # "CREATE"
                /\ t \notin Renewed(call[c].request)
      BY CommitElsewhere, CommitRows DEF Active, Key
    <2>6. Holding(d) /\ t \in NoteKey /\ standing[t] = "ACTIVE"
             => standing'[t] = "ACTIVE" /\ chain'[t] = chain[t]
      BY CommitElsewhere DEF Key
    <2>7. call[d].stage \in {"absent", "ready"} => FoundLapsed(d)'
      BY <2>1, <2>5 DEF Found, FoundLapsed, Holding
    <2>8. call[d].stage = "ready" => FoundNote(d)'
      BY <2>1, <2>3, <2>6, RequestShape, NoneAssumption
      DEF Found, FoundNote, Holding, Cited
    <2>9. call[d].stage = "ready" => FoundState(d)'
      BY <2>1, <2>4, <2>5, CommitRows DEF Found, FoundState, Holding
    <2>10. call[d].stage = "stale" => FoundStale(d)'
      BY <2>1, <2>5 DEF Found, FoundStale, Holding
    <2> QED
      BY <2>1, <2>2, <2>3, <2>7, <2>8, <2>9, <2>10 DEF Found
  <1> QED
    BY <1>1, <1>2

\* what the call itself has found by a step of its own
LEMMA FoundMoves ==
  ASSUME IInv, NEW c \in Conn, NEW stage \in Stage, NEW head, MovesTo(c, stage, head)
  PROVE  Found(c)'
  <1> USE DEF IInv
  <1> DEFINE q == call[c].request
  <1>1. /\ call'[c].stage = stage /\ call'[c].head = head
        /\ call'[c].request = q /\ call'[c].late = call[c].late
        /\ UNCHANGED <<chain, standing, lapsed, claim, revoked>>
    BY MovesEffect DEF MovesTo
  <1>2. /\ call[c] \in Call /\ call[c].key \in Key /\ q \in Requests(call[c].key)
        /\ Found(c) /\ call[c].late \subseteq lapsed
        /\ q.op = "PROPOSE" => q.expected <= claim
    BY CallType DEF MovesTo, KeyInv, FoundInv, Found, Call
  <1>3. UNCHANGED Active /\ Cited(q)' = Cited(q)
    BY <1>1 DEF Active, Cited
  <1>4. CASE CheckNote(c)
    <2>1. stage = "ready" /\ head = q.target
      BY <1>1, <1>4, MovesEffect DEF CheckNote, MovesTo, Stage
    <2>2. FoundNote(c)'
      BY <1>1, <1>2, <1>3, <1>4, <2>1, RequestShape DEF CheckNote, FoundNote
    <2> QED
      BY <1>1, <1>2, <1>4, <2>1, <2>2 DEF CheckNote, Found, FoundState, FoundLapsed
  <1>5. CASE SeekState(c)
    <2>1. q.op = "CREATE"
      BY <1>5 DEF SeekState, At
    <2>2. \/ stage = "absent" /\ head \in Active \cap call[c].late
          \/ stage = "seeking"
          \/ stage = "absent" /\ head = None
      BY <1>1, <1>5, MovesEffect DEF SeekState, MovesTo, Stage
    <2> QED
      BY <1>1, <1>2, <1>3, <2>1, <2>2 DEF Found, FoundLapsed
  <1>6. CASE FindState(c)
    <2>1. q.op = "CREATE"
      BY <1>6 DEF FindState, At
    <2>2. \/ stage = "stale" /\ head \in Active
          \/ stage = "absent" /\ head = None
      BY <1>1, <1>6, MovesEffect DEF FindState, MovesTo, Stage
    <2> QED
      BY <1>1, <1>2, <1>3, <2>1, <2>2 DEF Found, FoundLapsed, FoundStale
  <1>7. CASE InsertState(c)
    <2>1. q.op = "CREATE" /\ call[c].stage = "absent" /\ Active \subseteq {call[c].head}
      BY <1>7 DEF InsertState, At
    <2>2. stage = "ready" /\ head = call[c].head
      BY <1>1, <1>7, MovesEffect DEF InsertState, MovesTo, Stage
    <2> QED
      BY <1>1, <1>2, <1>3, <2>1, <2>2 DEF Found, FoundLapsed, FoundState, FoundNote
  <1>8. CASE CheckState(c)
    <2>1. q.op = "REPLACE" /\ q.target \in Active /\ head = q.target
      BY <1>1, <1>8, MovesEffect DEF CheckState, At, MovesTo, Stage
    <2>2. \/ stage = "stale" /\ Len(chain[q.target]) # q.expected
          \/ stage = "ready" /\ Len(chain[q.target]) = q.expected
      BY <1>1, <1>8, MovesEffect DEF CheckState, MovesTo, Stage
    <2> QED
      BY <1>1, <1>2, <1>3, <2>1, <2>2
      DEF Found, FoundLapsed, FoundState, FoundNote, FoundStale
  <1>9. CASE CheckProposal(c) \/ InsertReceipt(c)
    <2>1. q.op = "PROPOSE" /\ stage \in {"checked", "ready"} /\ head = None
      BY <1>1, <1>9, MovesEffect DEF CheckProposal, InsertReceipt, At, MovesTo, Stage
    <2> QED
      BY <1>1, <1>2, <2>1 DEF Found, FoundLapsed, FoundState, FoundNote
  <1> QED
    BY <1>4, <1>5, <1>6, <1>7, <1>8, <1>9 DEF MovesTo

LEMMA FoundStep ==
  ASSUME IInv, [Next]_vars
  PROVE  FoundInv'
  <1> USE DEF IInv
  <1>1. ASSUME NEW c \in Conn, NEW k \in Key, NEW q \in Requests(k), Begin(c, k, q)
        PROVE  FoundInv'
    <2>1. Found(c)'
      <3>1. q.op = "PROPOSE" => q.expected <= claim
        BY <1>1 DEF Begin, Readable
      <3> QED
        BY <1>1, <3>1, BeginEffect DEF Found
    <2>2. ASSUME NEW d \in Conn \ {c} PROVE Found(d)'
      BY <1>1, BeginEffect, FoundSame DEF FoundInv
    <2> QED
      BY <2>1, <2>2 DEF FoundInv
  <1>2. ASSUME NEW c \in Conn,
               CheckNote(c) \/ SeekState(c) \/ FindState(c) \/ InsertState(c)
               \/ CheckState(c) \/ CheckProposal(c) \/ InsertReceipt(c)
        PROVE  FoundInv'
    <2>1. PICK stage \in Stage : \E head : MovesTo(c, stage, head)
      BY <1>2, MovesCases
    <2>2. PICK head : MovesTo(c, stage, head)
      BY <2>1
    <2>3. Found(c)'
      BY <2>2, FoundMoves
    <2>4. ASSUME NEW d \in Conn \ {c} PROVE Found(d)'
      <3>1. call'[d] = call[d] /\ UNCHANGED <<chain, standing, lapsed, claim, revoked>>
        BY <2>2, MovesEffect DEF MovesTo
      <3> QED
        BY <3>1, FoundSame DEF FoundInv
    <2> QED
      BY <2>3, <2>4 DEF FoundInv
  <1>3. ASSUME NEW c \in Conn, Commit(c) PROVE FoundInv'
    <2>1. Found(c)'
      BY <1>3, CommitEffect DEF Found
    <2>2. ASSUME NEW d \in Conn \ {c} PROVE Found(d)'
      BY <1>3, FoundCommit
    <2> QED
      BY <2>1, <2>2 DEF FoundInv
  <1>4. ASSUME NEW c \in Conn, CommitStale(c) \/ Abort(c) PROVE FoundInv'
    <2>1. /\ call'[c].stage = "idle"
          /\ \A d \in Conn \ {c} : call'[d] = call[d]
          /\ UNCHANGED <<chain, standing, lapsed, claim, revoked>>
      BY <1>4, EndEffect DEF CommitStale, Abort, storeVars, worldVars
    <2>2. Found(c)'
      BY <2>1 DEF Found
    <2>3. ASSUME NEW d \in Conn \ {c} PROVE Found(d)'
      BY <2>1, FoundSame DEF FoundInv
    <2> QED
      BY <2>2, <2>3 DEF FoundInv
  <1>5. ASSUME NEW r \in StateKey, Lapse(r) PROVE FoundInv'
    BY <1>5, FoundSame DEF Lapse, worldVars, FoundInv
  <1>6. ASSUME NEW k \in ProposalKey, Review(k) PROVE FoundInv'
    <2>1. UNCHANGED <<call, chain, lapsed, revoked>>
          /\ \A n \in NoteKey \cup StateKey : standing'[n] = standing[n]
      BY <1>6, FamiliesAssumption DEF Review, TypeOK, Key
    <2>2. UNCHANGED Active
      BY <2>1 DEF Active
    <2>3. ASSUME NEW d \in Conn PROVE Found(d)'
      <3> claim' = claim + 1 /\ claim \in Nat
        BY <1>6 DEF Review, TypeOK
      <3> call[d].stage # "idle" => call[d].request.expected \in Nat
        BY CallType DEF Call, Request
      <3>1. CASE call[d].stage = "ready"
        <4>1. call[d].key \in Key /\ call[d].request \in Requests(call[d].key)
          BY <3>1, CallType DEF KeyInv, Call
        <4> QED
          BY <2>1, <2>2, <3>1, <4>1, RequestShape
          DEF FoundInv, Found, FoundLapsed, FoundNote, FoundState, Cited
      <3>2. CASE call[d].stage # "ready"
        BY <2>1, <2>2, <3>2 DEF FoundInv, Found, FoundLapsed, FoundStale
      <3> QED
        BY <3>1, <3>2
    <2> QED
      BY <2>3 DEF FoundInv
  <1>7. ASSUME NEW e \in Evidence, Revoke(e) PROVE FoundInv'
    <2>1. /\ UNCHANGED <<call, chain, standing, lapsed, claim>>
          /\ revoked' = revoked \cup {e} /\ ~ SourceHeld(e)
      BY <1>7 DEF Revoke, storeVars
    <2>2. ASSUME NEW d \in Conn PROVE Found(d)'
      BY <2>1 DEF FoundInv, Found, FoundLapsed, FoundNote, FoundState, FoundStale, Cited,
                  Active, SourceHeld
    <2> QED
      BY <2>2 DEF FoundInv
  <1>8. ASSUME UNCHANGED vars PROVE FoundInv'
    BY <1>8, FoundSame DEF vars, storeVars, worldVars, FoundInv
  <1> QED
    BY <1>1, <1>2, <1>3, <1>4, <1>5, <1>6, <1>7, <1>8 DEF Next

-----------------------------------------------------------------------------
(* Chains, receipts and the active state.                                   *)

LEMMA CommitReceipt ==
  ASSUME IInv, NEW c \in Conn, Commit(c)
  PROVE  LET done == [request |-> call[c].request, status |-> "DONE",
                      version |-> Len(chain[CommitSubject(c)]) + 1]
         IN  /\ done \in Receipt /\ done # None
             /\ call[c].key \in Key
             /\ receipt[call[c].key] = None
             /\ receipt' = [receipt EXCEPT ![call[c].key] = done]
             /\ receipt'[call[c].key] = done
             /\ \A k \in Key \ {call[c].key} : receipt'[k] = receipt[k]
  <1> DEFINE done == [request |-> call[c].request, status |-> "DONE",
                      version |-> Len(chain[CommitSubject(c)]) + 1]
  <1>1. /\ call[c].stage = "ready" /\ call[c].key \in Key /\ call[c].request \in Request
        /\ CommitSubject(c) \in Key /\ receipt[call[c].key] = None
    BY ReadyShape DEF Commit, Call
  <1>2. Len(chain[CommitSubject(c)]) \in Nat
    BY <1>1 DEF IInv, TypeOK
  <1>3. done \in Receipt
    BY <1>1, <1>2 DEF Receipt
  <1>4. receipt' = [receipt EXCEPT ![call[c].key] = done]
    BY DEF Commit, Recorded, CommitSubject
  <1> QED
    BY <1>1, <1>3, <1>4, NoneAssumption DEF IInv, TypeOK

\* the versions of the record a commit adds one to
LEMMA CommitChain ==
  ASSUME IInv, NEW c \in Conn, Commit(c)
  PROVE  LET r == CommitSubject(c)
         IN  /\ Len(chain[r]) \in Nat
             /\ chain'[r] # <<>>
             /\ Len(chain'[r]) = Len(chain[r]) + 1
             /\ chain'[r][Len(chain[r]) + 1] = Entry(c)
             /\ \A i \in DOMAIN chain'[r] :
                   i # Len(chain[r]) + 1
                     => i \in DOMAIN chain[r] /\ chain'[r][i] = chain[r][i]
  <1> DEFINE r == CommitSubject(c)
  <1>1. r \in Key /\ chain'[r] = Append(chain[r], Entry(c))
    BY CommitRows
  <1>2. chain[r] \in Seq(ChainEntry) /\ Entry(c) \in ChainEntry
    BY <1>1, ReadyShape DEF Commit, IInv, TypeOK, ChainEntry
  <1> QED
    BY <1>1, <1>2

LEMMA ChainStep ==
  ASSUME IInv, [Next]_vars
  PROVE  ChainInv'
  <1> USE DEF IInv
  <1>1. ASSUME NEW c \in Conn, Commit(c) PROVE ChainInv'
    <2> DEFINE r == CommitSubject(c)
    <2>1. /\ r \in Key /\ chain'[r] # <<>>
          /\ r = call[c].key \/ chain[r] # <<>>
      <3>1. call[c].stage = "ready" /\ call[c].request \in Request
        BY <1>1, ReadyShape DEF Commit, Call
      <3>2. call[c].request.op \in {"ADD", "UPDATE", "DELETE", "CREATE", "REPLACE", "PROPOSE"}
        BY <3>1 DEF Request
      <3> QED
        BY <1>1, <3>1, <3>2, CommitRows, CommitChain, ReadyShape
    <2>2. standing'[r] # "NONE"
      BY <1>1, CommitRows DEF NewStanding
    <2>3. ASSUME NEW k \in Key \ {r}
          PROVE  standing'[k] = "NONE" <=> standing[k] = "NONE"
      <3>1. call[c].stage = "ready" /\ call[c].request.op = "CREATE" /\ k = call[c].head
               => standing[k] = "ACTIVE"
        BY NoneAssumption DEF FoundInv, Found, FoundLapsed, Active
      <3> QED
        BY <1>1, <3>1, CommitRows DEF Commit
    <2>4. ASSUME NEW k \in Key, receipt'[k] = None
          PROVE  chain'[k] = <<>>
      <3>1. receipt[k] = None /\ k # call[c].key
        BY <1>1, <2>4, CommitReceipt
      <3> QED
        BY <1>1, <2>1, <3>1, CommitRows DEF ChainInv
    <2> QED
      BY <1>1, <2>1, <2>2, <2>3, <2>4, CommitRows DEF ChainInv
  <1>2. ASSUME NEW c \in Conn, CommitStale(c) PROVE ChainInv'
    <2>1. call[c].stage = "stale" /\ call[c] \in Call /\ call[c].head \in Key
      BY <1>2, CallType DEF CommitStale, FoundInv, Found, FoundStale, Active, Key
    <2>2. [request |-> call[c].request, status |-> "STALE",
           version |-> Len(chain[call[c].head])] \in Receipt
      BY <2>1 DEF Receipt, Call, TypeOK
    <2>3. \A k \in Key : receipt'[k] = None => receipt[k] = None
      BY <1>2, <2>2, NoneAssumption DEF CommitStale, Recorded, TypeOK
    <2> QED
      BY <1>2, <2>3 DEF CommitStale, ChainInv
  <1>3. ASSUME NEW k \in ProposalKey, Review(k) PROVE ChainInv'
    BY <1>3 DEF Review, ChainInv, TypeOK
  <1>4. ASSUME UNCHANGED <<receipt, chain, standing>> PROVE ChainInv'
    BY <1>4 DEF ChainInv
  <1>5. ASSUME NEW c \in Conn,
               CheckNote(c) \/ SeekState(c) \/ FindState(c) \/ InsertState(c)
               \/ CheckState(c) \/ CheckProposal(c) \/ InsertReceipt(c)
        PROVE  UNCHANGED <<receipt, chain, standing>>
    BY <1>5, MovesCases, MovesEffect DEF MovesTo
  <1> QED
    BY <1>1, <1>2, <1>3, <1>4, <1>5
    DEF Next, Begin, Abort, Lapse, Revoke, vars, storeVars

LEMMA EntryType ==
  ASSUME TypeOK, NEW k \in Key, NEW i \in DOMAIN chain[k]
  PROVE  chain[k][i].by \in Key
  <1>1. chain[k] \in Seq(ChainEntry)
    BY DEF TypeOK, ChainEntry
  <1>2. chain[k][i] \in ChainEntry
    BY <1>1
  <1> QED
    BY <1>2 DEF ChainEntry

\* a version recorded by another operation id than that of a commit
LEMMA EffectElsewhere ==
  ASSUME IInv, NEW c \in Conn, Commit(c), NEW k \in Key, NEW i \in DOMAIN chain[k]
  PROVE  receipt'[chain[k][i].by] = receipt[chain[k][i].by]
  <1>1. chain[k][i].by \in Key
    BY EntryType DEF IInv
  <1>2. receipt[chain[k][i].by] # None
    BY DEF IInv, EffectOnce
  <1> QED
    BY <1>1, <1>2, CommitReceipt

LEMMA EffectCommit ==
  ASSUME IInv, NEW c \in Conn, Commit(c)
  PROVE  EffectOnce' /\ NoLostUpdate'
  <1> USE DEF IInv
  <1> DEFINE r == CommitSubject(c)
  <1>1. r \in Key /\ Len(chain[r]) \in Nat
    BY CommitRows, CommitChain
  <1>2. ASSUME NEW k \in Key, NEW i \in DOMAIN chain'[k],
               ~ (k = r /\ i = Len(chain[r]) + 1)
        PROVE  /\ i \in DOMAIN chain[k]
               /\ chain'[k][i] = chain[k][i]
               /\ receipt'[chain[k][i].by] = receipt[chain[k][i].by]
    <2>1. i \in DOMAIN chain[k] /\ chain'[k][i] = chain[k][i]
      BY <1>2, CommitRows, CommitChain
    <2> QED
      BY <2>1, EffectElsewhere
  <1>3. LET done == receipt'[chain'[r][Len(chain[r]) + 1].by]
        IN  /\ chain'[r][Len(chain[r]) + 1].by = call[c].key
            /\ done # None /\ done.status = "DONE" /\ done.version = Len(chain[r]) + 1
            /\ done.request = call[c].request
            /\ Subject(call[c].key, done.request) = r
    <2>1. chain'[r][Len(chain[r]) + 1].by = call[c].key
      <3>1. chain'[r][Len(chain[r]) + 1] = Entry(c)
        BY CommitChain
      <3>2. Entry(c).by = call[c].key
        BY DEF Entry
      <3> QED
        BY <3>1, <3>2
    <2>2. /\ receipt'[call[c].key] # None
          /\ receipt'[call[c].key].status = "DONE"
          /\ receipt'[call[c].key].version = Len(chain[r]) + 1
          /\ receipt'[call[c].key].request = call[c].request
      <3>1. /\ receipt'[call[c].key] # None
            /\ receipt'[call[c].key] =
                  [request |-> call[c].request, status |-> "DONE",
                   version |-> Len(chain[r]) + 1]
        BY CommitReceipt
      <3> QED
        BY <3>1
    <2>3. Subject(call[c].key, call[c].request) = r
      BY DEF CommitSubject
    <2> QED
      BY <2>1, <2>2, <2>3
  <1>4. Len(chain[r]) + 1 > 1 => call[c].request.expected = Len(chain[r])
    <2>1. call[c].stage = "ready" /\ call[c].request \in Request
      BY ReadyShape DEF Commit, Call
    <2> QED
      BY <2>1, ReadyShape DEF Request
  <1>5. EffectOnce'
    BY <1>1, <1>2, <1>3 DEF EffectOnce
  <1>6. NoLostUpdate'
    <2> SUFFICES ASSUME NEW k \in Key, NEW i \in DOMAIN chain'[k], i > 1
                 PROVE  receipt'[chain'[k][i].by].request.expected = i - 1
      BY DEF NoLostUpdate
    <2>1. CASE k = r /\ i = Len(chain[r]) + 1
      BY <1>1, <1>3, <1>4, <2>1
    <2>2. CASE ~ (k = r /\ i = Len(chain[r]) + 1)
      BY <1>2, <2>2 DEF NoLostUpdate
    <2> QED
      BY <2>1, <2>2
  <1> QED
    BY <1>5, <1>6

LEMMA EffectStep ==
  ASSUME IInv, [Next]_vars
  PROVE  EffectOnce' /\ NoLostUpdate'
  <1> USE DEF IInv
  <1>1. ASSUME NEW c \in Conn, Commit(c) PROVE EffectOnce' /\ NoLostUpdate'
    BY <1>1, EffectCommit
  <1>2. ASSUME NEW c \in Conn, CommitStale(c) PROVE EffectOnce' /\ NoLostUpdate'
    <2>1. call[c].stage = "stale" /\ call[c].request.op \in {"CREATE", "REPLACE"}
          /\ call[c].key \in Key /\ call[c].request \in Requests(call[c].key)
      BY <1>2, CallType DEF CommitStale, FoundInv, Found, FoundStale, KeyInv, Call
    <2>2. receipt[call[c].key] = None
      BY <2>1, RequestShape, FamiliesAssumption DEF KeyInv
    <2>3. \A k \in Key : k # call[c].key => receipt'[k] = receipt[k]
      BY <1>2 DEF CommitStale, Recorded, TypeOK
    <2>4. ASSUME NEW k \in Key, NEW i \in DOMAIN chain[k]
          PROVE  receipt'[chain[k][i].by] = receipt[chain[k][i].by]
      <3>1. chain[k][i].by \in Key
        BY EntryType
      <3> QED
        BY <2>2, <2>3, <3>1 DEF EffectOnce
    <2>5. UNCHANGED chain
      BY <1>2 DEF CommitStale
    <2> QED
      BY <2>4, <2>5 DEF EffectOnce, NoLostUpdate
  <1>3. ASSUME UNCHANGED <<receipt, chain>> PROVE EffectOnce' /\ NoLostUpdate'
    BY <1>3 DEF EffectOnce, NoLostUpdate
  <1>4. ASSUME NEW c \in Conn,
               CheckNote(c) \/ SeekState(c) \/ FindState(c) \/ InsertState(c)
               \/ CheckState(c) \/ CheckProposal(c) \/ InsertReceipt(c)
        PROVE  UNCHANGED <<receipt, chain>>
    BY <1>4, MovesCases, MovesEffect DEF MovesTo
  <1> QED
    BY <1>1, <1>2, <1>3, <1>4
    DEF Next, Begin, Abort, Lapse, Review, Revoke, vars, storeVars

LEMMA SingleStep ==
  ASSUME IInv, [Next]_vars
  PROVE  SingleState'
  <1> USE DEF IInv
  <1>1. ASSUME NEW c \in Conn, Commit(c) PROVE SingleState'
    BY <1>1, CommitRows DEF SingleState
  <1>2. ASSUME NEW k \in ProposalKey, Review(k) PROVE SingleState'
    BY <1>2, FamiliesAssumption DEF Review, SingleState, Active, TypeOK, Key
  <1>3. ASSUME UNCHANGED standing PROVE SingleState'
    BY <1>3 DEF SingleState, Active
  <1>4. ASSUME NEW c \in Conn,
               CheckNote(c) \/ SeekState(c) \/ FindState(c) \/ InsertState(c)
               \/ CheckState(c) \/ CheckProposal(c) \/ InsertReceipt(c)
        PROVE  UNCHANGED standing
    BY <1>4, MovesCases, MovesEffect DEF MovesTo
  <1> QED
    BY <1>1, <1>2, <1>3, <1>4
    DEF Next, Begin, CommitStale, Abort, Lapse, Revoke, vars, storeVars

-----------------------------------------------------------------------------
LEMMA InitInv == Init => IInv
  <1> SUFFICES ASSUME Init PROVE IInv
    OBVIOUS
  <1>1. TypeOK
    <2>1. chain \in [Key -> Seq([by : Key, cites : SUBSET Evidence])]
      BY DEF Init
    <2> QED
      BY <2>1 DEF Init, TypeOK, Standing
  <1>2. KeyInv /\ LockInv /\ FoundInv
    BY DEF Init, Idle, KeyInv, LockInv, FoundInv, Found, Holding, At
  <1>3. ChainInv /\ EffectOnce /\ NoLostUpdate /\ SingleState
    BY DEF Init, ChainInv, EffectOnce, NoLostUpdate, SingleState, Active, Key
  <1> QED
    BY <1>1, <1>2, <1>3 DEF IInv

LEMMA StepInv == IInv /\ [Next]_vars => IInv'
  BY TypeStep, KeyStep, LockStep, FoundStep, ChainStep, EffectStep, SingleStep DEF IInv

LEMMA Invariance == Spec => []IInv
  BY InitInv, StepInv, PTL DEF Spec

(* Every reachable state is typed.                                          *)
THEOREM TypeCorrect == Spec => []TypeOK
  <1>1. IInv => TypeOK
    BY DEF IInv
  <1> QED
    BY Invariance, <1>1, PTL

(* An operation id takes effect once, whatever is repeated and however many *)
(* attempts overlap, and its receipt names what it did.                     *)
THEOREM OperationsTakeEffectOnce == Spec => []EffectOnce
  <1>1. IInv => EffectOnce
    BY DEF IInv
  <1> QED
    BY Invariance, <1>1, PTL

(* Whoever writes a later version had read the one before it.               *)
THEOREM NoUpdateIsLost == Spec => []NoLostUpdate
  <1>1. IInv => NoLostUpdate
    BY DEF IInv
  <1> QED
    BY Invariance, <1>1, PTL

(* A scope never has two active working states.                             *)
THEOREM ActiveStateIsUnique == Spec => []OneActiveState
  <1>1. IInv => OneActiveState
    <2> SUFFICES ASSUME IInv PROVE Cardinality(Active) <= 1
      BY DEF OneActiveState
    <2>1. CASE Active = {}
      BY <2>1, FS_EmptySet
    <2>2. ASSUME NEW r \in Active PROVE Cardinality(Active) <= 1
      <3>1. Active = {r}
        BY DEF IInv, SingleState
      <3> QED
        BY <3>1, FS_Singleton
    <2> QED
      BY <2>1, <2>2
  <1> QED
    BY Invariance, <1>1, PTL

-----------------------------------------------------------------------------
(* The refinement.  A commit is the atomic write, the steps before it are   *)
(* not visible, and what it has found still holds when it commits.          *)

LEMMA MappingSame ==
  ASSUME UNCHANGED chain
  PROVE  UNCHANGED <<Versions, Rests>>
  BY DEF Versions, Rests

\* the parameters of the two modules are the same
LEMMA SameParameters ==
  /\ Atomic!Key = Key
  /\ \A k : Atomic!Requests(k) = Requests(k)
  /\ Atomic!Active = Active
  BY DEF Atomic!Key, Key, Atomic!Requests, Requests, Atomic!NoteRequests, NoteRequests,
         Atomic!StateRequests, StateRequests, Atomic!ProposalRequests, ProposalRequests,
         Atomic!Active, Active

LEMMA MappingCommit ==
  ASSUME IInv, NEW c \in Conn, Commit(c)
  PROVE  LET r == CommitSubject(c)
         IN  /\ Versions' = [Versions EXCEPT ![r] = @ + 1]
             /\ Rests' = [Rests EXCEPT ![r] = Cited(call[c].request)]
             /\ Atomic!Conclude(call[c].key, call[c].request, "DONE", Versions[r] + 1)
  <1> DEFINE r == CommitSubject(c)
             q == call[c].request
  <1>1. r \in Key /\ \A k \in Key \ {r} : chain'[k] = chain[k]
    BY CommitRows
  <1>2. /\ Len(chain'[r]) = Len(chain[r]) + 1
        /\ chain'[r] # <<>>
        /\ chain'[r][Len(chain'[r])] = Entry(c)
    BY CommitChain
  <1>3. Entry(c).cites = Cited(q)
    BY DEF Entry
  <1>4. Versions' = [Versions EXCEPT ![r] = @ + 1]
    BY <1>1, <1>2 DEF Versions
  <1>5. Rests' = [Rests EXCEPT ![r] = Cited(q)]
    BY <1>1, <1>2, <1>3 DEF Rests
  <1>6. Versions[r] = Len(chain[r])
    BY <1>1 DEF Versions
  <1>7. receipt' = [receipt EXCEPT ![call[c].key] =
                      [request |-> q, status |-> "DONE", version |-> Versions[r] + 1]]
    BY <1>6, CommitReceipt
  <1> QED
    BY <1>4, <1>5, <1>7 DEF Atomic!Conclude

LEMMA AtomicCommit ==
  ASSUME IInv, NEW c \in Conn, Commit(c)
  PROVE  \E k \in Key : Atomic!Execute(k)
  <1> DEFINE k == call[c].key
             q == call[c].request
             r == CommitSubject(c)
  <1>1. /\ call[c].stage = "ready" /\ k \in Key /\ q \in Requests(k) /\ q \in Request
        /\ receipt[k] = None /\ r \in Key
        /\ FoundNote(c) /\ FoundState(c) /\ FoundLapsed(c)
        /\ call[c].late \subseteq lapsed
        /\ q.op = "PROPOSE" => q.expected <= claim
    BY ReadyShape DEF Commit, Call, IInv, FoundInv, Found
  <1>2. /\ Versions' = [Versions EXCEPT ![r] = @ + 1]
        /\ Rests' = [Rests EXCEPT ![r] = Cited(q)]
        /\ Atomic!Conclude(k, q, "DONE", Versions[r] + 1)
        /\ UNCHANGED <<claim, revoked>>
    BY MappingCommit DEF Commit, worldVars
  <1>3. Atomic!Supersede(k, q, r, Cited(q))
    BY <1>2 DEF Atomic!Supersede
  <1>4. /\ lapsed' = lapsed \ Renewed(q)
        /\ standing' = [n \in Key |->
                            IF n = r THEN NewStanding(q)
                            ELSE IF q.op = "CREATE" /\ n = call[c].head THEN "EXPIRED"
                            ELSE standing[n]]
    BY DEF Commit, CommitSubject
  <1>5. /\ q.op \in {"ADD", "CREATE", "PROPOSE"} => r = k /\ Versions[k] = 0
        /\ q.op \in {"UPDATE", "DELETE", "REPLACE"}
              => r = q.target /\ standing[r] = "ACTIVE" /\ Versions[r] = q.expected
    BY <1>1, ReadyShape DEF Versions
  <1>6. CASE q.op = "ADD"
    <2>1. Cited(q) = q.cites
      BY <1>1, <1>6, RequestShape, NoneAssumption DEF Cited
    <2>2. standing' = [standing EXCEPT ![k] = "ACTIVE"] /\ UNCHANGED lapsed
      BY <1>4, <1>5, <1>6 DEF NewStanding, Renewed, IInv, TypeOK
    <2>3. Atomic!AddNote(k, q)
      BY <1>1, <1>3, <1>5, <1>6, <2>1, <2>2 DEF Atomic!AddNote, FoundNote
    <2> QED
      BY <1>1, <2>3, SameParameters DEF Atomic!Execute, Atomic!Fresh
  <1>7. CASE q.op = "UPDATE"
    <2>1. Cited(q) = IF q.cites = None THEN Rests[q.target] ELSE q.cites
      BY <1>1, <1>5, <1>7, ReadyShape DEF Cited, Rests
    <2>2. UNCHANGED <<standing, lapsed>>
      BY <1>1, <1>4, <1>5, <1>7 DEF NewStanding, Renewed, IInv, TypeOK
    <2>3. Atomic!UpdateNote(k, q)
      BY <1>1, <1>3, <1>5, <1>7, <2>1, <2>2 DEF Atomic!UpdateNote, FoundNote
    <2> QED
      BY <1>1, <2>3, SameParameters DEF Atomic!Execute, Atomic!Fresh
  <1>8. CASE q.op = "DELETE"
    <2>1. Cited(q) = {}
      BY <1>8 DEF Cited
    <2>2. standing' = [standing EXCEPT ![r] = "DELETED"] /\ UNCHANGED lapsed
      BY <1>4, <1>8 DEF NewStanding, Renewed, IInv, TypeOK
    <2>3. Atomic!DeleteNote(k, q)
      BY <1>3, <1>5, <1>8, <2>1, <2>2 DEF Atomic!DeleteNote
    <2> QED
      BY <1>1, <2>3, SameParameters DEF Atomic!Execute, Atomic!Fresh
  <1>9. CASE q.op = "CREATE"
    <2>1. Cited(q) = q.cites
      BY <1>1, <1>9, RequestShape, NoneAssumption DEF Cited
    <2>2. Active \subseteq lapsed
      BY <1>1, <1>9, NoneAssumption DEF FoundState, FoundLapsed, Active, Key
    <2>3. call[c].head # None => call[c].head \in Active
      BY <1>1, <1>9 DEF FoundLapsed
    <2>4. \A n \in Key : n \in Active <=> n = call[c].head
      BY <1>1, <1>9, <2>3, NoneAssumption DEF FoundState, Active, Key
    <2>5. standing' = [n \in Key |-> IF n = k THEN "ACTIVE"
                                     ELSE IF n \in Active THEN "EXPIRED"
                                     ELSE standing[n]]
      BY <1>4, <1>5, <1>9, <2>4 DEF NewStanding
    <2>6. UNCHANGED lapsed
      BY <1>4, <1>9 DEF Renewed
    <2>7. Atomic!CreateState(k, q)
      BY <1>3, <1>5, <1>9, <2>1, <2>2, <2>5, <2>6, SameParameters DEF Atomic!CreateState
    <2> QED
      BY <1>1, <2>7, SameParameters DEF Atomic!Execute, Atomic!Fresh
  <1>10. CASE q.op = "REPLACE"
    <2>1. Cited(q) = q.cites
      BY <1>1, <1>10, RequestShape, NoneAssumption DEF Cited
    <2>2. UNCHANGED standing /\ lapsed' = lapsed \ {q.target}
      BY <1>1, <1>4, <1>5, <1>10 DEF NewStanding, Renewed, IInv, TypeOK
    <2>3. Atomic!ReplaceState(k, q)
      BY <1>3, <1>5, <1>10, <2>1, <2>2 DEF Atomic!ReplaceState
    <2> QED
      BY <1>1, <2>3, SameParameters DEF Atomic!Execute, Atomic!Fresh
  <1>11. CASE q.op = "PROPOSE"
    <2>1. Cited(q) = q.cites
      BY <1>1, <1>11, RequestShape, NoneAssumption DEF Cited
    <2>2. standing' = [standing EXCEPT ![k] = "PENDING_REVIEW"] /\ UNCHANGED lapsed
      BY <1>4, <1>5, <1>11 DEF NewStanding, Renewed, IInv, TypeOK
    <2>3. Atomic!Propose(k, q)
      BY <1>1, <1>3, <1>5, <1>11, <2>1, <2>2 DEF Atomic!Propose
    <2> QED
      BY <1>1, <2>3, SameParameters DEF Atomic!Execute, Atomic!Fresh
  <1> QED
    BY <1>1, <1>6, <1>7, <1>8, <1>9, <1>10, <1>11 DEF Request

LEMMA AtomicStale ==
  ASSUME IInv, NEW c \in Conn, CommitStale(c)
  PROVE  \E k \in Key : Atomic!Execute(k)
  <1> DEFINE k == call[c].key
             q == call[c].request
             r == call[c].head
  <1>1. /\ call[c].stage = "stale" /\ k \in Key /\ q \in Requests(k)
        /\ q.op \in {"CREATE", "REPLACE"} /\ r \in Active
        /\ q.op = "REPLACE" => r = q.target /\ Len(chain[r]) # q.expected
    BY CallType DEF CommitStale, IInv, FoundInv, Found, FoundStale, KeyInv, Call
  <1>2. receipt[k] = None
    BY <1>1, RequestShape, FamiliesAssumption DEF IInv, KeyInv
  <1>3. r \in Key /\ Versions[r] = Len(chain[r])
    BY <1>1 DEF Versions, Active, Key
  <1>4. chain[r] # <<>> /\ chain[r] \in Seq(ChainEntry)
    BY <1>1, <1>3 DEF Active, IInv, ChainInv, TypeOK, ChainEntry
  <1>5. Versions[r] # q.expected
    <2>1. Len(chain[r]) # 0
      BY <1>4
    <2> QED
      BY <1>1, <1>3, <2>1, RequestShape
  <1>6. Atomic!Conclude(k, q, "STALE", Versions[r])
    BY <1>3 DEF CommitStale, Recorded, Atomic!Conclude
  <1>7. UNCHANGED <<Versions, standing, Rests, lapsed, claim, revoked>>
    BY MappingSame DEF CommitStale, worldVars
  <1>8. Atomic!FindStale(k, q)
    BY <1>1, <1>5, <1>6, <1>7, SameParameters DEF Atomic!FindStale
  <1> QED
    BY <1>1, <1>2, <1>8, SameParameters DEF Atomic!Execute, Atomic!Fresh

LEMMA AtomicInit == Init => Atomic!Init
  <1> SUFFICES ASSUME Init PROVE Atomic!Init
    OBVIOUS
  <1>1. Versions = [k \in Key |-> 0] /\ Rests = [k \in Key |-> {}]
    BY DEF Init, Versions, Rests
  <1> QED
    BY <1>1, SameParameters DEF Init, Atomic!Init

LEMMA AtomicStep == IInv /\ [Next]_vars => [Atomic!Next]_(Atomic!vars)
  <1> SUFFICES ASSUME IInv, [Next]_vars PROVE [Atomic!Next]_(Atomic!vars)
    OBVIOUS
  <1>1. ASSUME NEW c \in Conn, Commit(c) \/ CommitStale(c) PROVE Atomic!Next
    BY <1>1, AtomicCommit, AtomicStale, SameParameters DEF Atomic!Next
  <1>2. ASSUME NEW r \in StateKey, Lapse(r) PROVE Atomic!Next
    BY <1>2, MappingSame, SameParameters DEF Lapse, worldVars, Atomic!Lapse, Atomic!Next
  <1>3. ASSUME NEW k \in ProposalKey, Review(k) PROVE Atomic!Next
    BY <1>3, MappingSame DEF Review, Atomic!Review, Atomic!Next
  <1>4. ASSUME NEW e \in Evidence, Revoke(e) PROVE Atomic!Next
    BY <1>4, MappingSame DEF Revoke, storeVars, Atomic!Revoke, Atomic!Next
  <1>5. ASSUME UNCHANGED <<receipt, chain, standing, lapsed, claim, revoked>>
        PROVE  UNCHANGED Atomic!vars
    BY <1>5, MappingSame DEF Atomic!vars
  <1>6. ASSUME NEW c \in Conn,
               CheckNote(c) \/ SeekState(c) \/ FindState(c) \/ InsertState(c)
               \/ CheckState(c) \/ CheckProposal(c) \/ InsertReceipt(c)
        PROVE  UNCHANGED <<receipt, chain, standing, lapsed, claim, revoked>>
    BY <1>6, MovesCases, MovesEffect DEF MovesTo, IInv
  <1> QED
    BY <1>1, <1>2, <1>3, <1>4, <1>5, <1>6
    DEF Next, Begin, Abort, vars, storeVars, worldVars

(* The transactions, with their locks, retries and aborts, implement the    *)
(* atomic writes: what a host sees of its calls and of those of others is a *)
(* run in which each of them took effect in one step or not at all.         *)
THEOREM WritesAreAtomic == Spec => ImplementsAtomicWrites
  <1>1. Spec => Atomic!Spec
    BY AtomicInit, AtomicStep, Invariance, PTL DEF Spec, Atomic!Spec
  <1> QED
    BY <1>1 DEF ImplementsAtomicWrites
=============================================================================
