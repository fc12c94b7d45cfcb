------------------------ MODULE GovernedMemoryProofs ------------------------
(* CanonicalGovernance implements GovernedMemory: reviews and revocations    *)
(* that interleave act on claims as if each took effect in a single step.    *)
EXTENDS GovernanceHistoryProofs, Sequences

-----------------------------------------------------------------------------
(* What the mapping rests on, beyond the invariants of the other proofs.     *)

\* no number below the head's is missing
Dense ==
    \A c \in Claim : \A n \in 1 .. Height(c) :
        \E v \in Proposal : VersionOf(v, c) /\ number[v] = n

\* a REGROUND holds a head that has lost evidence
RegroundsWithdrawn ==
    \A p \in Proposal : phase[p] = "locked" /\ body[p].op = "REGROUND" =>
        \E e \in Evidence : <<body[p].expected, e>> \in Withdrawn

\* a resolved issue names the version that resolved it, and a candidate the
\* reference of the proposal that wrote it
ResolverOnRecord ==
    \A i \in Proposal : issue[i].status = "RESOLVED" =>
        \E v \in Proposal : /\ v = issue[i].resolvedBy
                            /\ number[v] > 0
                            /\ body[v].op = "RESOLVE"
                            /\ body[v].issue = i

CandidatesCited ==
    \A r \in relation : r.type = "RESOLUTION_CANDIDATE" =>
        r.evidence \in body[r.by].support

CreatesNameNone ==
    \A p \in Proposal : status[p] # "NONE" /\ body[p].op = "CREATE" => body[p].expected = None

MemoryInv ==
    /\ AnnounceInv /\ ClosingInv /\ BlockInv /\ BranchInv
    /\ Dense /\ RegroundsWithdrawn /\ ResolverOnRecord /\ CandidatesCited /\ CreatesNameNone

LEMMA MemoryInit == Init => MemoryInv
  <1> SUFFICES ASSUME Init PROVE MemoryInv
    OBVIOUS
  <1>1. AnnounceInv /\ ClosingInv /\ BlockInv /\ BranchInv
    BY AnnounceInit, ClosingInit, BlockInit, BranchInit
  <1>2. \A c \in Claim : Height(c) = 0
    BY DEF Init, Height
  <1>3. Dense
    BY <1>2 DEF Dense
  <1> QED
    BY <1>1, <1>3
    DEF Init, MemoryInv, RegroundsWithdrawn, ResolverOnRecord, CandidatesCited, NoIssue,
        CreatesNameNone

\* the parts of the invariant the lemmas below use, by their names
LEMMA MemoryParts ==
  ASSUME MemoryInv
  PROVE  /\ TypeInv /\ ChainInv /\ LiveInv /\ AsOfInv /\ SequencesApart
         /\ ClosingInv /\ BlockInv /\ BranchInv /\ RelationsApplied
         /\ HeadLocked /\ Lineage /\ NoLostUpdate /\ ResolvesItsClaim
         /\ OneLiveIssuePerClaim /\ IssueShape /\ BlocksAreOnVersions
  BY DEF MemoryInv, AnnounceInv, AsOfInv, OrderInv, ChainInv, ClosingInv, BlockInv, BranchInv,
         LiveInv

-----------------------------------------------------------------------------
(* The ledger.  Its entries are chosen by number; there is one of each.      *)

\* the head bears the greatest number of its claim
LEMMA HeadIsHighest ==
  ASSUME ChainInv, NEW c \in Claim
  PROVE  /\ Height(c) \in Nat
         /\ head[c] = None <=> Height(c) = 0
         /\ head[c] # None => head[c] \in Proposal /\ VersionOf(head[c], c)
                                                   /\ number[head[c]] = Height(c)
         /\ \A v \in Proposal : VersionOf(v, c) => number[v] \in 1 .. Height(c)
  <1>1. head[c] \in Proposal \cup {None} /\ \A v \in Proposal : number[v] \in Nat
    BY DEF ChainInv, TypeInv, TypeOK
  <1>2. head[c] # None => VersionOf(head[c], c)
    BY DEF ChainInv, Lineage
  <1>3. head[c] # None => number[head[c]] \in Nat /\ number[head[c]] > 0
    BY <1>1, <1>2 DEF VersionOf
  <1>4. \A v \in Proposal : VersionOf(v, c) =>
           head[c] \in Proposal /\ number[v] <= number[head[c]]
    BY DEF ChainInv, NoLostUpdate
  <1> QED
    BY <1>1, <1>2, <1>3, <1>4, NoneAssumption DEF Height, VersionOf

Lists(s, c) ==
    /\ s \in [1 .. Height(c) -> Proposal]
    /\ \A n \in 1 .. Height(c) : VersionOf(s[n], c) /\ number[s[n]] = n

LEMMA SameFunction ==
  ASSUME NEW D, NEW S, NEW f \in [D -> S], NEW g \in [D -> S], \A x \in D : f[x] = g[x]
  PROVE  f = g
  OBVIOUS

OneLedger ==
    \A c \in Claim : /\ Lists(Ledger[c], c)
                     /\ \A s : Lists(s, c) => s = Ledger[c]

LEMMA LedgerIsUnique == MemoryInv => OneLedger
  <1> SUFFICES ASSUME MemoryInv, NEW c \in Claim
               PROVE  /\ Lists(Ledger[c], c)
                      /\ \A s : Lists(s, c) => s = Ledger[c]
    BY DEF OneLedger
  <1>1. Ledger[c] = [n \in 1 .. Height(c) |->
                        CHOOSE v \in Proposal : VersionOf(v, c) /\ number[v] = n]
    BY DEF Ledger
  <1>2. ASSUME NEW n \in 1 .. Height(c)
        PROVE  /\ Ledger[c][n] \in Proposal
               /\ VersionOf(Ledger[c][n], c) /\ number[Ledger[c][n]] = n
    <2>1. \E v \in Proposal : VersionOf(v, c) /\ number[v] = n
      BY DEF MemoryInv, Dense
    <2>2. Ledger[c][n] = CHOOSE v \in Proposal : VersionOf(v, c) /\ number[v] = n
      BY <1>1
    <2> QED
      BY <2>1, <2>2
  <1>3. Lists(Ledger[c], c)
    BY <1>1, <1>2 DEF Lists
  <1>4. ASSUME NEW s, Lists(s, c) PROVE s = Ledger[c]
    <2>1. \A n \in 1 .. Height(c) : s[n] = Ledger[c][n]
      BY <1>2, <1>4, MemoryParts DEF Lists, NoLostUpdate
    <2>2. s \in [1 .. Height(c) -> Proposal] /\ Ledger[c] \in [1 .. Height(c) -> Proposal]
      BY <1>3, <1>4 DEF Lists
    <2> DEFINE D == 1 .. Height(c)
               L == Ledger[c]
    <2>3. s \in [D -> Proposal] /\ L \in [D -> Proposal] /\ \A n \in D : s[n] = L[n]
      BY <2>1, <2>2
    <2> HIDE DEF D, L
    <2>4. s = L
      BY <2>3, SameFunction
    <2> QED
      BY <2>4 DEF L
  <1> QED
    BY <1>3, <1>4

LEMMA LedgerStaysUnique == MemoryInv' => OneLedger'
  BY LedgerIsUnique, PTL

LEMMA FunctionIsSequence ==
  ASSUME NEW n \in Nat, NEW S, NEW s \in [1 .. n -> S]
  PROVE  s \in Seq(S) /\ Len(s) = n
  OBVIOUS

LEMMA AppendedSequence ==
  ASSUME NEW S, NEW s \in Seq(S), NEW x \in S, NEW n \in Nat, Len(s) = n
  PROVE  /\ Append(s, x) \in [1 .. n + 1 -> S]
         /\ Append(s, x)[n + 1] = x
         /\ \A i \in 1 .. n : Append(s, x)[i] = s[i]
  <1>1. Append(s, x) \in Seq(S) /\ Len(Append(s, x)) = n + 1
    OBVIOUS
  <1>2. \A t \in Seq(S) : t \in [1 .. Len(t) -> S]
    OBVIOUS
  <1>3. Append(s, x)[n + 1] = x
    OBVIOUS
  <1>4. \A i \in 1 .. n : Append(s, x)[i] = s[i]
    OBVIOUS
  <1> QED
    BY <1>1, <1>2, <1>3, <1>4

LEMMA LedgerIsSequence ==
  ASSUME MemoryInv, NEW c \in Claim
  PROVE  Ledger[c] \in Seq(Proposal) /\ Len(Ledger[c]) = Height(c)
  <1>1. Ledger[c] \in [1 .. Height(c) -> Proposal] /\ Height(c) \in Nat
    BY LedgerIsUnique, HeadIsHighest, MemoryParts DEF OneLedger, Lists
  <1> QED
    BY <1>1, FunctionIsSequence

LEMMA LatestIsHead ==
  ASSUME MemoryInv, NEW c \in Claim
  PROVE  Memory!Latest(c) = head[c]
  <1>1. /\ Ledger[c] \in Seq(Proposal) /\ Len(Ledger[c]) = Height(c)
        /\ Lists(Ledger[c], c)
    BY LedgerIsSequence, LedgerIsUnique DEF OneLedger
  <1>2. CASE head[c] = None
    <2>1. Len(Ledger[c]) = 0
      BY <1>1, <1>2, HeadIsHighest, MemoryParts
    <2>2. Ledger[c] = <<>>
      BY <1>1, <2>1
    <2> QED
      BY <1>2, <2>2 DEF Memory!Latest
  <1>3. CASE head[c] # None
    <2>1. /\ Height(c) \in Nat /\ Height(c) # 0
          /\ head[c] \in Proposal /\ VersionOf(head[c], c) /\ number[head[c]] = Height(c)
      BY <1>3, HeadIsHighest, MemoryParts
    <2>2. Ledger[c] # <<>>
      BY <1>1, <2>1
    <2>3. /\ Ledger[c][Height(c)] \in Proposal /\ VersionOf(Ledger[c][Height(c)], c)
          /\ number[Ledger[c][Height(c)]] = Height(c)
      BY <1>1, <2>1 DEF Lists
    <2>4. Ledger[c][Height(c)] = head[c]
      BY <2>1, <2>3, MemoryParts DEF NoLostUpdate
    <2> QED
      BY <1>1, <2>2, <2>4 DEF Memory!Latest
  <1> QED
    BY <1>2, <1>3

LEMMA VersionsAre ==
  ASSUME MemoryInv, NEW c \in Claim
  PROVE  Memory!Versions(c) = {v \in Proposal : VersionOf(v, c)}
  <1>1. Len(Ledger[c]) = Height(c) /\ Lists(Ledger[c], c)
    BY LedgerIsSequence, LedgerIsUnique DEF OneLedger
  <1>2. Memory!Versions(c) = {Ledger[c][n] : n \in 1 .. Height(c)}
    BY <1>1 DEF Memory!Versions
  <1>3. ASSUME NEW v \in Proposal, VersionOf(v, c)
        PROVE  \E n \in 1 .. Height(c) : v = Ledger[c][n]
    <2>1. number[v] \in 1 .. Height(c)
      BY <1>3, HeadIsHighest, MemoryParts
    <2>2. v = Ledger[c][number[v]]
      BY <1>1, <1>3, <2>1, MemoryParts DEF Lists, NoLostUpdate
    <2> QED
      BY <2>1, <2>2
  <1> QED
    BY <1>1, <1>2, <1>3 DEF Lists

LEMMA DependentAre ==
  ASSUME MemoryInv, NEW e \in Evidence
  PROVE  Memory!Dependent(e) = {v \in Proposal : e \in Grounding(v)}
  <1>1. UNION {Memory!Versions(c) : c \in Claim} = {v \in Proposal : number[v] > 0}
    <2>1. \A v \in Proposal : number[v] > 0 => body[v].claim \in Claim
      BY MemoryParts DEF TypeInv, TypeOK, VersionShape, Body
    <2> QED
      BY <2>1, VersionsAre DEF VersionOf
  <1>2. \A v \in Proposal : number[v] > 0 => Requested[v].support = body[v].support
    BY MemoryParts DEF Requested, Asked, TypeInv, VersionShape
  <1> QED
    BY <1>1, <1>2 DEF Memory!Dependent, Grounding

-----------------------------------------------------------------------------
(* How a step moves the versions: not at all, or by the next one of a claim.  *)

Inserts(p) ==
    /\ body[p].claim \in Claim
    /\ number[p] = 0
    /\ body' = body
    /\ InsertVersion(p, Height(body[p].claim) + 1)

KeepsVersions ==
    /\ UNCHANGED <<number, head>>
    /\ \A v \in Proposal, c \in Claim : VersionOf(v, c)' <=> VersionOf(v, c)

LEMMA ApprovalInserts ==
  ASSUME ChainInv, NEW p \in Proposal,
         ApproveCreate(p) \/ ApproveRevise(p) \/ ApproveReground(p) \/ ApproveResolve(p)
  PROVE  Inserts(p)
  <1>1. /\ body' = body /\ number[p] = 0 /\ body[p].claim \in Claim
        /\ CreatesVersion(p) \/ ReplacesVersion(p)
    BY DEF ApproveCreate, ApproveRevise, ApproveReground, ApproveResolve, Conclude,
       CreatesVersion, ReplacesVersion, ChainInv, TypeInv, TypeOK, ReviewShape, VersionShape, Body
  <1>2. CASE CreatesVersion(p)
    BY <1>1, <1>2 DEF CreatesVersion, Inserts, Height
  <1>3. CASE ReplacesVersion(p)
    <2>1. body[p].expected \in Proposal /\ head[body[p].claim] = body[p].expected
      BY <1>1, <1>3 DEF ReplacesVersion, ChainInv, HeadLocked, TypeInv, ReviewShape
    <2> QED
      BY <1>1, <1>3, <2>1, NoneAssumption DEF ReplacesVersion, Inserts, Height
  <1> QED
    BY <1>1, <1>2, <1>3

LEMMA SubmitKeepsVersions ==
  ASSUME TypeInv, NEW p \in Proposal, SubmitProposal(p)
  PROVE  KeepsVersions
  <1>1. /\ UNCHANGED <<number, head>> /\ number[p] = 0
        /\ \A v \in Proposal : v # p => body'[v] = body[v]
    BY DEF SubmitProposal, beliefVars, TypeInv, TypeOK, VersionShape
  <1> QED
    BY <1>1 DEF KeepsVersions, VersionOf

LEMMA VersionSteps ==
  ASSUME ChainInv, [Next]_vars
  PROVE  KeepsVersions \/ \E p \in Proposal : Inserts(p)
  <1>1. ASSUME UNCHANGED <<number, head, body>> PROVE KeepsVersions
    BY <1>1 DEF KeepsVersions, VersionOf
  <1>2. ASSUME NEW p \in Proposal, Approve(p) PROVE KeepsVersions \/ Inserts(p)
    <2>1. CASE ApproveContradict(p) \/ ApproveNoChange(p)
      BY <1>1, <2>1 DEF ApproveContradict, ApproveNoChange, Conclude, beliefVars
    <2> QED
      BY <1>2, <2>1, ApprovalInserts DEF Approve
  <1>3. CASE \/ UNCHANGED vars
             \/ \E p \in Proposal : BeginReview(p) \/ LockHead(p) \/ Reject(p) \/ AbortReview(p)
             \/ \E e \in Evidence : BeginRevoke(e) \/ CommitRevoke(e) \/ AbortRevoke(e)
    BY <1>1, <1>3 DEF vars, BeginReview, LockHead, Reject, AbortReview, BeginRevoke,
       CommitRevoke, AbortRevoke, beliefVars, reviewVars
  <1> QED
    BY <1>2, <1>3, SubmitKeepsVersions DEF Next, ChainInv

LEMMA InsertMoves ==
  ASSUME ChainInv, NEW p \in Proposal, Inserts(p), NEW c \in Claim
  PROVE  /\ \A v \in Proposal : VersionOf(v, c)' <=> VersionOf(v, c) \/ (v = p /\ c = body[p].claim)
         /\ \A v \in Proposal : v # p => number'[v] = number[v]
         /\ number'[p] = Height(body[p].claim) + 1
         /\ Height(c)' = IF c = body[p].claim THEN Height(c) + 1 ELSE Height(c)
  <1> DEFINE d == body[p].claim
  <1>1. /\ d \in Claim /\ number[p] = 0 /\ body' = body
        /\ number' = [number EXCEPT ![p] = Height(d) + 1]
        /\ head' = [head EXCEPT ![d] = p]
    BY DEF Inserts, InsertVersion
  <1>2. /\ number'[p] = Height(d) + 1 /\ Height(d) \in Nat
        /\ \A v \in Proposal : v # p => number'[v] = number[v]
        /\ head'[d] = p /\ (c # d => head'[c] = head[c])
    BY <1>1, HeadIsHighest DEF ChainInv, TypeInv, TypeOK
  <1>3. \A v \in Proposal : VersionOf(v, c)' <=> VersionOf(v, c) \/ (v = p /\ c = d)
    BY <1>1, <1>2 DEF VersionOf
  <1>4. Height(c)' = IF c = d THEN Height(c) + 1 ELSE Height(c)
    <2>1. CASE c = d
      BY <1>2, <2>1, NoneAssumption DEF Height
    <2>2. CASE c # d
      <3>1. head[c] # None => head[c] \in Proposal /\ number[head[c]] > 0
        BY HeadIsHighest DEF VersionOf
      <3>2. head[c] # p
        BY <1>1, <3>1, NoneAssumption
      <3> QED
        BY <1>2, <2>2, <3>1, <3>2 DEF Height
    <2> QED
      BY <2>1, <2>2
  <1> QED
    BY <1>2, <1>3, <1>4

LEMMA DenseNext ==
  ASSUME ChainInv, Dense, [Next]_vars
  PROVE  Dense'
  <1>1. ASSUME KeepsVersions PROVE Dense'
    <2>1. \A c \in Claim : Height(c)' = Height(c)
      BY <1>1 DEF KeepsVersions, Height
    <2> QED
      BY <1>1, <2>1 DEF KeepsVersions, Dense
  <1>2. ASSUME NEW p \in Proposal, Inserts(p) PROVE Dense'
    <2> SUFFICES ASSUME NEW c \in Claim, NEW n \in 1 .. Height(c)'
                 PROVE  \E v \in Proposal : VersionOf(v, c)' /\ number'[v] = n
      BY DEF Dense
    <2>1. Height(c) \in Nat /\ n \in Nat
      BY HeadIsHighest, <1>2, InsertMoves
    <2>2. CASE n \in 1 .. Height(c)
      <3>1. PICK v \in Proposal : VersionOf(v, c) /\ number[v] = n
        BY <2>2 DEF Dense
      <3>2. v # p
        BY <1>2, <3>1 DEF Inserts, VersionOf
      <3> QED
        BY <1>2, <3>1, <3>2, InsertMoves
    <2>3. CASE n \notin 1 .. Height(c)
      <3>1. c = body[p].claim /\ n = Height(c) + 1
        BY <1>2, <2>1, <2>3, InsertMoves
      <3> QED
        BY <1>2, <3>1, InsertMoves
    <2> QED
      BY <2>2, <2>3
  <1> QED
    BY <1>1, <1>2, VersionSteps

\* the ledger after the step
LEMMA LedgerKept ==
  ASSUME MemoryInv, MemoryInv', KeepsVersions
  PROVE  Ledger' = Ledger
  <1>1. OneLedger /\ OneLedger'
    BY LedgerIsUnique, LedgerStaysUnique
  <1>2. \A c \in Claim : Height(c)' = Height(c)
    BY DEF KeepsVersions, Height
  <1>3. ASSUME NEW c \in Claim PROVE Ledger'[c] = Ledger[c]
    <2>1. \A s : Lists(s, c) => Lists(s, c)'
      BY <1>2 DEF KeepsVersions, Lists
    <2> QED
      BY <1>1, <2>1 DEF OneLedger
  <1> QED
    BY <1>3 DEF Ledger

LEMMA LedgerAppended ==
  ASSUME MemoryInv, MemoryInv', NEW p \in Proposal, Inserts(p)
  PROVE  Ledger' = [Ledger EXCEPT ![body[p].claim] = Append(@, p)]
  <1>1. OneLedger /\ OneLedger'
    BY LedgerIsUnique, LedgerStaysUnique
  <1>2. \A v \in Proposal, c \in Claim : VersionOf(v, c) => v # p
    BY DEF Inserts, VersionOf
  <1>3. ASSUME NEW c \in Claim, c # body[p].claim PROVE Ledger'[c] = Ledger[c]
    <2>1. /\ Height(c)' = Height(c)
          /\ \A v \in Proposal : VersionOf(v, c) => VersionOf(v, c)' /\ number'[v] = number[v]
      BY <1>2, <1>3, InsertMoves, MemoryParts
    <2>2. \A s : Lists(s, c) => Lists(s, c)'
      BY <2>1 DEF Lists
    <2> QED
      BY <1>1, <2>2 DEF OneLedger
  <1>4. ASSUME NEW d \in Claim, d = body[p].claim PROVE Ledger'[d] = Append(Ledger[d], p)
    <2>1. PICK L \in Seq(Proposal) : L = Ledger[d] /\ Len(L) = Height(d)
      BY LedgerIsSequence
    <2>2. PICK H \in Nat : H = Height(d)
      BY HeadIsHighest, MemoryParts
    <2>3. PICK s : s = Append(L, p)
      OBVIOUS
    <2>4. /\ s \in [1 .. H + 1 -> Proposal] /\ s[H + 1] = p
          /\ \A n \in 1 .. H : s[n] = L[n]
      BY <2>1, <2>2, <2>3, AppendedSequence
    <2>5. /\ Height(d)' = H + 1 /\ number'[p] = H + 1 /\ VersionOf(p, d)'
          /\ \A v \in Proposal : VersionOf(v, d) => VersionOf(v, d)' /\ number'[v] = number[v]
      BY <1>2, <1>4, <2>2, InsertMoves, MemoryParts
    <2>6. \A n \in 1 .. H : L[n] \in Proposal /\ VersionOf(L[n], d) /\ number[L[n]] = n
      BY <1>1, <2>1, <2>2 DEF OneLedger, Lists
    <2>7. ASSUME NEW n \in 1 .. H + 1 PROVE VersionOf(s[n], d)' /\ number'[s[n]] = n
      <3>1. CASE n = H + 1
        BY <2>4, <2>5, <3>1
      <3>2. CASE n # H + 1
        BY <2>4, <2>5, <2>6, <3>2
      <3> QED
        BY <3>1, <3>2
    <2>8. Lists(s, d)'
      BY <2>4, <2>5, <2>7 DEF Lists
    <2> QED
      BY <1>1, <2>1, <2>3, <2>8 DEF OneLedger
  <1>5. body[p].claim \in Claim
    BY DEF Inserts
  <1> QED
    BY <1>3, <1>4, <1>5 DEF Ledger

-----------------------------------------------------------------------------
(* The other parts of the invariant.                                         *)

\* a block that is lifted stays on record
LEMMA WithdrawnGrows ==
  ASSUME [Next]_vars
  PROVE  Withdrawn \subseteq Withdrawn'
  <1>1. CASE UNCHANGED <<active, released>>
    BY <1>1 DEF Withdrawn
  <1>2. ASSUME NEW p \in Proposal, ApproveReground(p) PROVE Withdrawn \subseteq Withdrawn'
    BY <1>2 DEF ApproveReground, Withdrawn
  <1>3. ASSUME NEW e \in Evidence, CommitRevoke(e) PROVE Withdrawn \subseteq Withdrawn'
    BY <1>3 DEF CommitRevoke, Withdrawn
  <1>4. \/ UNCHANGED <<active, released>>
        \/ \E p \in Proposal : ApproveReground(p)
        \/ \E e \in Evidence : CommitRevoke(e)
    BY DEF Next, vars, beliefVars, SubmitProposal, BeginReview, LockHead, Approve, ApproveCreate,
       ApproveRevise, ApproveResolve, ApproveContradict, ApproveNoChange, Reject, AbortReview,
       BeginRevoke, AbortRevoke
  <1> QED
    BY <1>1, <1>2, <1>3, <1>4

LEMMA RegroundsNext ==
  ASSUME TypeInv, RegroundsWithdrawn, [Next]_vars
  PROVE  RegroundsWithdrawn'
  <1> SUFFICES ASSUME NEW p \in Proposal, phase'[p] = "locked", body'[p].op = "REGROUND"
               PROVE  \E e \in Evidence : <<body'[p].expected, e>> \in Withdrawn'
    BY DEF RegroundsWithdrawn
  <1>1. CASE LockHead(p)
    <2>1. body' = body /\ Blocked(body[p].expected)
      BY <1>1 DEF LockHead, BlockAllows
    <2> QED
      BY <2>1, WithdrawnGrows DEF Blocked, Withdrawn
  <1>2. CASE phase[p] = "locked"
    <2>1. status[p] = "PENDING_REVIEW"
      BY <1>2 DEF TypeInv, ReviewShape
    <2>2. body'[p] = body[p]
      BY <2>1, SubmittedOnce DEF SubmitProposal
    <2> QED
      BY <1>2, <2>2, WithdrawnGrows DEF RegroundsWithdrawn
  <1> QED
    BY <1>1, <1>2, LockedBefore

\* whatever makes an issue resolved is the approval of a resolution that names it
LEMMA BecomesResolved ==
  ASSUME MemoryInv, [Next]_vars, NEW i \in Proposal,
         issue'[i] # issue[i], issue'[i].status = "RESOLVED"
  PROVE  \E p \in Proposal : /\ ApproveResolve(p)
                             /\ body[p].op = "RESOLVE"
                             /\ body' = body
                             /\ i = body[p].issue
                             /\ issue'[i].resolvedBy = p
  <1>1. ASSUME NEW p \in Proposal, ApproveContradict(p) PROVE FALSE
    <2>1. PICK j \in ConflictIssue(p) : ContradictInto(p, j)
      BY <1>1 DEF ApproveContradict
    <2>2. j \in Proposal /\ status[p] = "PENDING_REVIEW"
      BY <1>1, <2>1, MemoryParts
      DEF ConflictIssue, LiveIssues, ApproveContradict, TypeInv, ReviewShape
    <2>3. i = j
      BY <2>1, <2>2, ContradictMoves, MemoryParts DEF Keeps
    <2>4. issue[j].status = "NONE" \/ issue[j].status \in Live
      BY <2>1, <2>2, MemoryParts DEF ConflictIssue, LiveIssues, IssueShape
    <2> QED
      BY <2>1, <2>2, <2>3, <2>4, MemoryParts DEF ContradictInto, TypeInv, TypeOK, Live
  <1>2. ASSUME NEW e \in Evidence, CommitRevoke(e) PROVE FALSE
    <2>1. i \in Touched(e)
      BY <1>2, RevokeMoves, MemoryParts DEF Keeps
    <2>2. issue'[i].status = AfterRevoke(issue[i].status)
      BY <1>2, <2>1, RevokeMoves, MemoryParts
    <2> QED
      BY <2>2 DEF AfterRevoke
  <1>3. PICK p \in Proposal : ApproveResolve(p)
    BY <1>1, <1>2, OtherMoves DEF issueVars
  <1>4. body[p].op = "RESOLVE" /\ body[p].issue \in Proposal /\ body' = body
    BY <1>3, MemoryParts DEF ApproveResolve, Conclude, TypeInv, ReviewShape
  <1>5. i = body[p].issue /\ issue'[i].resolvedBy = p
    BY <1>3, <1>4, ResolveMoves, MemoryParts DEF Keeps
  <1> QED
    BY <1>3, <1>4, <1>5

LEMMA ResolverNext ==
  ASSUME MemoryInv, [Next]_vars
  PROVE  ResolverOnRecord'
  <1> SUFFICES ASSUME NEW i \in Proposal, issue'[i].status = "RESOLVED"
               PROVE  \E v \in Proposal : /\ v = issue'[i].resolvedBy
                                          /\ number'[v] > 0
                                          /\ body'[v].op = "RESOLVE"
                                          /\ body'[v].issue = i
    BY DEF ResolverOnRecord
  <1>1. CASE issue'[i] = issue[i]
    <2>1. PICK v \in Proposal : /\ v = issue[i].resolvedBy
                                /\ number[v] > 0
                                /\ body[v].op = "RESOLVE"
                                /\ body[v].issue = i
      BY <1>1 DEF MemoryInv, ResolverOnRecord
    <2>2. number'[v] > 0 /\ body'[v] = body[v]
      BY <2>1, GroundingForever, AppliedForever, MemoryParts DEF TypeInv, VersionShape
    <2> QED
      BY <1>1, <2>1, <2>2
  <1>2. CASE issue'[i] # issue[i]
    <2>1. PICK p \in Proposal : /\ ApproveResolve(p)
                                /\ body[p].op = "RESOLVE"
                                /\ body' = body
                                /\ i = body[p].issue
                                /\ issue'[i].resolvedBy = p
      BY <1>2, BecomesResolved
    <2>2. number'[p] > 0
      <3>1. Inserts(p) /\ body[p].claim \in Claim
        BY <2>1, ApprovalInserts, MemoryParts DEF Inserts
      <3> QED
        BY <3>1, InsertMoves, HeadIsHighest, MemoryParts
    <2> QED
      BY <2>1, <2>2
  <1> QED
    BY <1>1, <1>2

LEMMA CandidatesNext ==
  ASSUME MemoryInv, [Next]_vars
  PROVE  CandidatesCited'
  <1> SUFFICES ASSUME NEW r \in relation', r.type = "RESOLUTION_CANDIDATE"
               PROVE  r.evidence \in body'[r.by].support
    BY DEF CandidatesCited
  <1>1. CASE r \in relation
    <2>1. r.by \in Proposal /\ status[r.by] = "APPLIED"
      BY <1>1, MemoryParts DEF RelationsApplied, TypeInv, TypeOK, Relation
    <2> QED
      BY <1>1, <2>1, AppliedForever, MemoryParts DEF MemoryInv, CandidatesCited
  <1>2. ASSUME NEW p \in Proposal, ApproveContradict(p) PROVE r \in relation
    <2>1. PICK i \in ConflictIssue(p) : ContradictInto(p, i)
      BY <1>2 DEF ApproveContradict
    <2> QED
      BY <2>1 DEF ContradictInto, NewRelations
  <1>3. ASSUME NEW p \in Proposal, ApproveResolve(p), r \notin relation
        PROVE  r.evidence \in body'[r.by].support
    BY <1>3 DEF ApproveResolve, NewRelations, Conclude
  <1> QED
    BY <1>1, <1>2, <1>3, OtherMoves DEF issueVars, CommitRevoke

LEMMA CreatesNext ==
  ASSUME TypeInv, CreatesNameNone, [Next]_vars
  PROVE  CreatesNameNone'
  <1> SUFFICES ASSUME NEW p \in Proposal, status'[p] # "NONE", body'[p].op = "CREATE"
               PROVE  body'[p].expected = None
    BY DEF CreatesNameNone
  <1>1. CASE SubmitProposal(p)
    <2>1. PICK op \in Ops, c \in Claim : \E S \in SupportOf(op), C \in ContradictOf(op),
             i \in IssueOf(op, c), d \in DischargesOf(op) :
                body' = [body EXCEPT ![p] = Draft(op, c, S, C, i, d)]
      BY <1>1 DEF SubmitProposal
    <2> QED
      BY <2>1 DEF Draft, TypeInv, TypeOK
  <1>2. CASE ~ SubmitProposal(p)
    BY <1>2, SubmittedOnce DEF CreatesNameNone
  <1> QED
    BY <1>1, <1>2

LEMMA MemoryNext == MemoryInv /\ [Next]_vars => MemoryInv'
  <1> SUFFICES ASSUME MemoryInv, [Next]_vars PROVE MemoryInv'
    OBVIOUS
  <1>1. AnnounceInv' /\ ClosingInv' /\ BlockInv' /\ BranchInv'
    BY AsOfNext, ApartNext, AnnouncedNext, ClosingNext, BlockNext, BranchNext
    DEF MemoryInv, AnnounceInv
  <1>2. Dense' /\ RegroundsWithdrawn' /\ CreatesNameNone'
    BY DenseNext, RegroundsNext, CreatesNext, MemoryParts DEF MemoryInv
  <1> QED
    BY <1>1, <1>2, ResolverNext, CandidatesNext DEF MemoryInv

LEMMA MemoryInvariant == Spec => []MemoryInv
  BY MemoryInit, MemoryNext, PTL DEF Spec

-----------------------------------------------------------------------------
(* The steps.                                                                *)

LEMMA SameOps == Memory!VersionOps = VersionOps
  BY DEF Memory!VersionOps, VersionOps

LEMMA DisputedAre ==
  /\ Disputed = {c \in Claim : \E i \in Proposal : issue[i].status \in Live /\ body[i].claim = c}
  /\ Disputed' = {c \in Claim : \E i \in Proposal : issue'[i].status \in Live /\ body'[i].claim = c}
  BY DEF Disputed, LiveIssues

LEMMA DisputedKept ==
  ASSUME MemoryInv, [Next]_vars, UNCHANGED issue
  PROVE  Disputed' = Disputed
  <1>1. \A i \in Proposal : issue[i].status \in Live => body'[i] = body[i]
    BY AppliedForever, MemoryParts DEF IssueShape, Live
  <1> QED
    BY <1>1, DisputedAre

LEMMA SubmitStep ==
  ASSUME MemoryInv, MemoryInv', NEW p \in Proposal, SubmitProposal(p)
  PROVE  Memory!Submit(p)
  <1>1. PICK op \in Ops, c \in Claim :
          /\ op # "CREATE" => head[c] # None
          /\ \E S \in SupportOf(op), C \in ContradictOf(op), i \in IssueOf(op, c),
                d \in DischargesOf(op) :
                body' = [body EXCEPT ![p] = Draft(op, c, S, C, i, d)]
    BY DEF SubmitProposal
  <1>2. PICK S \in SupportOf(op), C \in ContradictOf(op), i \in IssueOf(op, c),
             d \in DischargesOf(op) :
          body' = [body EXCEPT ![p] = Draft(op, c, S, C, i, d)]
    BY <1>1
  <1>3. /\ status[p] = "NONE" /\ status' = [status EXCEPT ![p] = "PENDING_REVIEW"]
        /\ UNCHANGED <<issue, active, released, revokedAt>>
    BY DEF SubmitProposal, beliefVars, issueVars, revokeVars
  <1>4. /\ S \in SUBSET Evidence /\ d \in BOOLEAN
        /\ op \in VersionOps => S # {} /\ S \cap RevokedEvidence = {}
    <2>1. /\ S \in SUBSET Evidence /\ d \in BOOLEAN
          /\ op \in VersionOps => Admissible(S)
      BY CitedAssumption DEF SupportOf, AdmissibleSets, DischargesOf
    <2>2. Admissible(S) => S # {} /\ \A e \in S : ~ revokedAt[e] > 0
      BY DEF Admissible
    <2> QED
      BY <2>1, <2>2 DEF RevokedEvidence
  <1>5. Requested' = [Requested EXCEPT ![p] =
           [op |-> op, claim |-> c, support |-> S, discharges |-> d,
            expected |-> IF op = "CREATE" THEN None ELSE head[c]]]
    <2>1. Asked(body'[p]) = [op |-> op, claim |-> c, support |-> S, discharges |-> d,
                             expected |-> IF op = "CREATE" THEN None ELSE head[c]]
      BY <1>2, MemoryParts DEF Asked, Draft, TypeInv, TypeOK
    <2>2. \A q \in Proposal : q # p => status'[q] = status[q] /\ body'[q] = body[q]
      BY <1>2, <1>3, MemoryParts DEF TypeInv, TypeOK
    <2>3. status'[p] # "NONE"
      BY <1>3, MemoryParts DEF TypeInv, TypeOK
    <2> QED
      BY <2>1, <2>2, <2>3 DEF Requested
  <1>6. Ledger' = Ledger
    BY SubmitKeepsVersions, LedgerKept, MemoryParts
  <1>7. Disputed' = Disputed
    BY <1>3, DisputedKept DEF Next
  <1>8. Memory!Latest(c) = head[c]
    BY LatestIsHead
  <1> QED
    BY <1>1, <1>3, <1>4, <1>5, <1>6, <1>7, <1>8, SameOps
    DEF Memory!Submit, Withdrawn, RevokedEvidence

\* every approval decides for the version its author saw
LEMMA ApproveDecides ==
  ASSUME MemoryInv, NEW p \in Proposal, Approve(p)
  PROVE  /\ Memory!Decide(p) /\ body[p] \in Body
         /\ Requested[p] = Asked(body[p])
  <1>1. /\ status' = [status EXCEPT ![p] = "APPLIED"] /\ body' = body
        /\ UNCHANGED revokedAt /\ phase[p] # "idle"
    BY DEF Approve, ApproveCreate, ApproveRevise, ApproveReground, ApproveResolve,
       ApproveContradict, ApproveNoChange, Conclude, revokeVars
  <1>2. status[p] = "PENDING_REVIEW" /\ body[p] \in Body
    BY <1>1, MemoryParts DEF TypeInv, TypeOK, ReviewShape
  <1>3. head[body[p].claim] = body[p].expected
    <2>1. CASE ApproveCreate(p)
      BY <1>2, <2>1 DEF ApproveCreate, MemoryInv, CreatesNameNone
    <2>2. CASE phase[p] = "locked"
      BY <2>2, MemoryParts DEF HeadLocked
    <2> QED
      BY <2>1, <2>2 DEF Approve, ApproveRevise, ApproveReground, ApproveResolve,
         ApproveContradict, ApproveNoChange
  <1>4. Requested[p] = Asked(body[p])
    BY <1>2 DEF Requested
  <1>5. Memory!Latest(Requested[p].claim) = Requested[p].expected
    BY <1>2, <1>3, <1>4, LatestIsHead DEF Asked, Body
  <1>6. Requested' = Requested
    <2>1. \A q \in Proposal : status'[q] = "NONE" <=> status[q] = "NONE"
      BY <1>1, <1>2, MemoryParts DEF TypeInv, TypeOK
    <2> QED
      BY <1>1, <2>1 DEF Requested
  <1> QED
    BY <1>1, <1>2, <1>4, <1>5, <1>6 DEF Memory!Decide, RevokedEvidence

LEMMA InsertSucceeds ==
  ASSUME MemoryInv, MemoryInv', NEW p \in Proposal,
         ApproveCreate(p) \/ ApproveRevise(p) \/ ApproveReground(p) \/ ApproveResolve(p)
  PROVE  Memory!Succeed(p)
  <1>1. Requested[p] = Asked(body[p])
    BY ApproveDecides DEF Approve
  <1>2. Ledger' = [Ledger EXCEPT ![body[p].claim] = Append(@, p)]
    BY ApprovalInserts, LedgerAppended, MemoryParts
  <1> QED
    BY <1>1, <1>2 DEF Memory!Succeed, Asked

LEMMA NoInsertKeeps ==
  ASSUME MemoryInv, MemoryInv', UNCHANGED <<number, head, body>>
  PROVE  Ledger' = Ledger
  BY LedgerKept DEF KeepsVersions, VersionOf

LEMMA ResolveStep ==
  ASSUME MemoryInv, MemoryInv', NEW p \in Proposal, ApproveResolve(p)
  PROVE  Memory!Resolve(p)
  <1> DEFINE i == body[p].issue
             c == body[p].claim
  <1>1. /\ Memory!Decide(p) /\ body[p] \in Body /\ Requested[p] = Asked(body[p])
        /\ Memory!Succeed(p)
    BY ApproveDecides, InsertSucceeds DEF Approve
  <1>2. /\ body[p].op = "RESOLVE" /\ phase[p] = "locked" /\ body' = body
        /\ IssueExpected(p) /\ UNCHANGED <<active, released>>
    BY DEF ApproveResolve, Conclude
  <1>3. /\ i \in Proposal /\ c \in Claim /\ body[p].discharges
        /\ issue[i].status \in Live /\ body[i].claim = c
    BY <1>1, <1>2, MemoryParts
    DEF IssueExpected, ResolvesItsClaim, TypeInv, ReviewShape, Body
  <1>4. /\ issue'[i].status = "RESOLVED"
        /\ \A j \in Proposal : j # i => issue'[j] = issue[j]
    BY <1>3, MemoryParts DEF ApproveResolve, TypeInv, TypeOK
  <1>5. \A j \in Proposal : issue[j].status \in Live /\ body[j].claim = c => j = i
    BY <1>3, MemoryParts DEF OneLiveIssuePerClaim
  <1>6. Disputed' = Disputed \ {c}
    BY <1>2, <1>3, <1>4, <1>5, DisputedAre DEF Live
  <1>7. c \in Disputed
    BY <1>3, DisputedAre
  <1> QED
    BY <1>1, <1>2, <1>3, <1>6, <1>7 DEF Memory!Resolve, Withdrawn, Asked

LEMMA ContradictStep ==
  ASSUME MemoryInv, MemoryInv', NEW p \in Proposal, ApproveContradict(p)
  PROVE  Memory!Contradict(p)
  <1> DEFINE c == body[p].claim
  <1>1. /\ Memory!Decide(p) /\ body[p] \in Body /\ Requested[p] = Asked(body[p])
    BY ApproveDecides DEF Approve
  <1>2. /\ body[p].op = "CONTRADICT" /\ body' = body
        /\ UNCHANGED <<number, head, active, released>>
    BY DEF ApproveContradict, Conclude, beliefVars
  <1>3. PICK i \in ConflictIssue(p) : ContradictInto(p, i)
    BY DEF ApproveContradict
  <1>4. i \in Proposal /\ body[i].claim = c /\ (issue[i].status \in Live \/ i = p)
    BY <1>3 DEF ConflictIssue, LiveIssues
  <1>5. status[p] = "PENDING_REVIEW"
    BY MemoryParts DEF ApproveContradict, TypeInv, ReviewShape
  <1>6. /\ issue'[i].status \in Live
        /\ \A j \in Proposal : j # i => issue'[j] = issue[j]
    BY <1>3, <1>4, <1>5, MemoryParts DEF ContradictInto, TypeInv, TypeOK, IssueShape, Live
  <1>7. c \in Claim
    BY <1>1 DEF Body
  <1>8. Disputed' = Disputed \cup {c}
    BY <1>2, <1>4, <1>6, <1>7, DisputedAre
  <1>9. Ledger' = Ledger
    BY <1>2, NoInsertKeeps
  <1> QED
    BY <1>1, <1>2, <1>8, <1>9 DEF Memory!Contradict, Withdrawn, Asked

LEMMA ApproveStep ==
  ASSUME MemoryInv, MemoryInv', [Next]_vars, NEW p \in Proposal, Approve(p)
  PROVE  Memory!Next
  <1>1. Memory!Decide(p) /\ body[p] \in Body /\ Requested[p] = Asked(body[p])
    BY ApproveDecides
  <1>2. Requested[p].op = body[p].op /\ Requested[p].expected = body[p].expected
    BY <1>1 DEF Asked
  <1>3. CASE ApproveCreate(p) \/ ApproveRevise(p)
    <2>1. Disputed' = Disputed /\ Withdrawn' = Withdrawn
      BY <1>3, DisputedKept DEF ApproveCreate, ApproveRevise, issueVars, Withdrawn
    <2>2. Memory!Succeed(p)
      BY <1>3, InsertSucceeds
    <2>3. Memory!Create(p) \/ Memory!Revise(p)
      BY <1>1, <1>2, <1>3, <2>1, <2>2
      DEF ApproveCreate, ApproveRevise, Memory!Create, Memory!Revise
    <2> QED
      BY <2>3 DEF Memory!Next
  <1>4. CASE ApproveReground(p)
    <2>1. \E e \in Evidence : <<body[p].expected, e>> \in Withdrawn
      BY <1>4 DEF ApproveReground, MemoryInv, RegroundsWithdrawn
    <2>2. Disputed' = Disputed /\ Withdrawn' = Withdrawn
      BY <1>4, DisputedKept DEF ApproveReground, issueVars, Withdrawn
    <2>3. Memory!Succeed(p)
      BY <1>4, InsertSucceeds
    <2>4. Memory!Reground(p)
      BY <1>1, <1>2, <1>4, <2>1, <2>2, <2>3 DEF ApproveReground, Memory!Reground
    <2> QED
      BY <2>4 DEF Memory!Next
  <1>5. CASE ApproveNoChange(p)
    <2>1. Ledger' = Ledger
      BY <1>5, NoInsertKeeps DEF ApproveNoChange, Conclude, beliefVars
    <2>2. Disputed' = Disputed /\ Withdrawn' = Withdrawn
      BY <1>5, DisputedKept DEF ApproveNoChange, beliefVars, issueVars, Withdrawn
    <2>3. Memory!NoChange(p)
      BY <1>1, <1>2, <1>5, <2>1, <2>2 DEF ApproveNoChange, Memory!NoChange
    <2> QED
      BY <2>3 DEF Memory!Next
  <1> QED
    BY <1>3, <1>4, <1>5, ResolveStep, ContradictStep DEF Approve, Memory!Next

LEMMA RejectStep ==
  ASSUME MemoryInv, MemoryInv', NEW p \in Proposal, Reject(p)
  PROVE  Memory!Reject(p)
  <1>1. /\ status[p] = "PENDING_REVIEW" /\ status' = [status EXCEPT ![p] = "REJECTED"]
        /\ UNCHANGED <<body, number, head, active, released, issue, revokedAt>>
    BY DEF Reject, beliefVars, issueVars, revokeVars
  <1>2. Requested' = Requested
    <2>1. \A q \in Proposal : status'[q] = "NONE" <=> status[q] = "NONE"
      BY <1>1, MemoryParts DEF TypeInv, TypeOK
    <2> QED
      BY <1>1, <2>1 DEF Requested
  <1>3. Ledger' = Ledger
    BY <1>1, NoInsertKeeps
  <1>4. Disputed' = Disputed
    BY <1>1, DisputedAre
  <1> QED
    BY <1>1, <1>2, <1>3, <1>4 DEF Memory!Reject, Withdrawn, RevokedEvidence

\* the issues a revocation reopens were settled by versions that rest on the evidence
LEMMA ReopenedWereSettled ==
  ASSUME MemoryInv, NEW e \in Evidence, NEW i \in Reopened(e)
  PROVE  body[i].claim \in Memory!Settled(e)
  <1>1. /\ i \in Proposal /\ issue[i].status = "RESOLVED"
        /\ \E r \in relation : /\ r.issue = i
                               /\ r.evidence = e
                               /\ r.type = "RESOLUTION_CANDIDATE"
                               /\ r.by = issue[i].resolvedBy
    BY DEF Reopened
  <1>2. PICK v \in Proposal : /\ v = issue[i].resolvedBy
                              /\ number[v] > 0
                              /\ body[v].op = "RESOLVE"
                              /\ body[v].issue = i
    BY <1>1 DEF MemoryInv, ResolverOnRecord
  <1>3. e \in body[v].support
    BY <1>1, <1>2 DEF MemoryInv, CandidatesCited
  <1>4. status[v] = "APPLIED" /\ body[v] \in Body
    BY <1>2, MemoryParts DEF TypeInv, TypeOK, VersionShape
  <1>5. body[i].claim = body[v].claim /\ body[v].claim \in Claim
    BY <1>2, <1>4, MemoryParts DEF ResolvesItsClaim, Body
  <1>6. v \in Memory!Versions(body[i].claim) \cap Memory!Dependent(e)
    BY <1>2, <1>3, <1>5, VersionsAre, DependentAre DEF VersionOf, Grounding
  <1>7. Requested[v].op = "RESOLVE"
    BY <1>2, <1>4 DEF Requested, Asked
  <1> QED
    BY <1>5, <1>6, <1>7 DEF Memory!Settled

LEMMA RevokeStep ==
  ASSUME MemoryInv, MemoryInv', NEW e \in Evidence, CommitRevoke(e)
  PROVE  Memory!Revoke(e)
  <1>1. /\ UNCHANGED <<status, body, number, head, released>>
        /\ revokedAt' = [revokedAt EXCEPT ![e] = revoking[e]]
        /\ active' = active \cup ({v \in Proposal : e \in Grounding(v)} \X {e})
    BY DEF CommitRevoke, Resting, reviewVars
  <1>2. revoking[e] > 0 /\ revokedAt[e] = 0
    BY MemoryParts DEF CommitRevoke, SequencesApart, TypeInv, TypeOK
  <1>3. e \notin RevokedEvidence /\ RevokedEvidence' = RevokedEvidence \cup {e}
    BY <1>1, <1>2, MemoryParts DEF RevokedEvidence, TypeInv, TypeOK
  <1>4. Withdrawn' = Withdrawn \cup (Memory!Dependent(e) \X {e})
    BY <1>1, DependentAre DEF Withdrawn
  <1>5. Requested' = Requested /\ Ledger' = Ledger
    BY <1>1, NoInsertKeeps DEF Requested
  <1>6. Disputed' = Disputed \cup {body[i].claim : i \in Reopened(e)}
    <2>1. \A i \in Proposal : issue'[i].status \in Live <=>
             issue[i].status \in Live \/ i \in Reopened(e)
      BY DEF CommitRevoke, Touched, Reopened, AfterRevoke, Live
    <2>2. \A i \in Reopened(e) : i \in Proposal /\ body[i].claim \in Claim
      BY ReopenedWereSettled DEF Reopened, Memory!Settled
    <2> QED
      BY <1>1, <2>1, <2>2, DisputedAre
  <1>7. {body[i].claim : i \in Reopened(e)} \in SUBSET Memory!Settled(e)
    BY ReopenedWereSettled
  <1> QED
    BY <1>1, <1>3, <1>4, <1>5, <1>6, <1>7 DEF Memory!Revoke

LEMMA MemoryStep == MemoryInv /\ MemoryInv' /\ [Next]_vars => AtomicStep
  <1> SUFFICES ASSUME MemoryInv, MemoryInv', [Next]_vars PROVE AtomicStep
    OBVIOUS
  <1>1. ASSUME NEW p \in Proposal, SubmitProposal(p) \/ Reject(p) PROVE Memory!Next
    BY <1>1, SubmitStep, RejectStep DEF Memory!Next
  <1>2. ASSUME NEW e \in Evidence, CommitRevoke(e) PROVE Memory!Next
    BY <1>2, RevokeStep DEF Memory!Next
  <1>3. CASE \/ UNCHANGED vars
             \/ \E p \in Proposal : BeginReview(p) \/ LockHead(p) \/ AbortReview(p)
             \/ \E e \in Evidence : BeginRevoke(e) \/ AbortRevoke(e)
    BY <1>3 DEF vars, BeginReview, LockHead, AbortReview, BeginRevoke, AbortRevoke,
       beliefVars, issueVars, reviewVars, revokeVars, AtomicStep
  <1> QED
    BY <1>1, <1>2, <1>3, ApproveStep DEF Next, AtomicStep

\* Every step of a review or a revocation is one step of the governed memory or none
\* that it sees, however they interleave and wherever they abort.
THEOREM EveryDecisionIsAtomic == Spec => DecisionsAreAtomic
  <1>1. MemoryInv /\ MemoryInv' /\ [Next]_vars => [AtomicStep]_vars
    BY MemoryStep
  <1> QED
    BY <1>1, MemoryInvariant, PTL DEF Spec, DecisionsAreAtomic

-----------------------------------------------------------------------------
(* The refinement.                                                           *)

LEMMA MemoryInitial == Init => Memory!Init
  <1> SUFFICES ASSUME Init PROVE Memory!Init
    OBVIOUS
  <1>1. Requested = [p \in Proposal |-> None]
    BY DEF Init, Requested
  <1>2. Ledger = [c \in Claim |-> <<>>]
    <2>1. OneLedger /\ \A c \in Claim : Height(c) = 0
      BY MemoryInit, LedgerIsUnique DEF Init, Height
    <2>2. \A c \in Claim : Lists(<<>>, c)
      BY <2>1 DEF Lists
    <2> QED
      BY <2>1, <2>2 DEF OneLedger, Ledger
  <1>3. Withdrawn = {} /\ RevokedEvidence = {}
    BY DEF Init, Withdrawn, RevokedEvidence
  <1>4. Disputed = {}
    BY DEF Init, Disputed, LiveIssues, NoIssue, Live
  <1> QED
    BY <1>1, <1>2, <1>3, <1>4 DEF Init, Memory!Init

\* a step that leaves the rows of a decision alone is not seen
LEMMA UnseenStep ==
  ASSUME MemoryInv, MemoryInv', [Next]_vars,
         UNCHANGED <<status, beliefVars, issue, revokedAt>>
  PROVE  UNCHANGED Memory!vars
  <1>1. UNCHANGED <<status, number, head, active, released, issue, revokedAt>>
    BY DEF beliefVars
  <1>2. \A p \in Proposal : body'[p] = body[p]
    <2>1. \A p \in Proposal : ~ SubmitProposal(p)
      BY <1>1, MemoryParts DEF SubmitProposal, TypeInv, TypeOK
    <2> QED
      BY <2>1, SubmittedOnce, MemoryParts
  <1>3. Requested' = Requested
    BY <1>1, <1>2 DEF Requested
  <1>4. Ledger' = Ledger
    BY <1>1, <1>2, LedgerKept DEF KeepsVersions, VersionOf
  <1>5. Disputed' = Disputed
    BY <1>1, DisputedKept
  <1> QED
    BY <1>1, <1>3, <1>4, <1>5 DEF Memory!vars, Withdrawn, RevokedEvidence

\* The reviews and revocations of the code, with their row locks, stale reads, aborts
\* and retries, implement the governed memory: what becomes of claims is what would
\* become of them if every decision and every revocation were a single step.
THEOREM GovernanceImplementsMemory == Spec => ImplementsGovernedMemory
  <1>1. MemoryInv /\ MemoryInv' /\ [Next]_vars => [Memory!Next]_(Memory!vars)
    BY MemoryStep, UnseenStep DEF AtomicStep
  <1>2. Spec => Memory!Spec
    BY <1>1, MemoryInitial, MemoryInvariant, PTL DEF Spec, Memory!Spec
  <1> QED
    BY <1>2 DEF ImplementsGovernedMemory
=============================================================================
