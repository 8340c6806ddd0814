------------------------- MODULE ExecutionOwner_proofs -------------------------
(***************************************************************************)
(* Theorems about ExecutionOwner, for any works, sizes, outcomes and       *)
(* limits, and for any nesting of the validators.                          *)
(***************************************************************************)
EXTENDS ExecutionOwner, FiniteSetTheorems, WellFoundedInduction, TLAPS

-----------------------------------------------------------------------------
(* Identities and receipts. *)

LEMMA IdentityNumber ==
  /\ \A n : Identity(n).execution = n
  /\ \A identity \in Identities :
       /\ identity.execution \in 1..(LastNext - 1)
       /\ identity = Identity(identity.execution)
BY DEF Identity, Identities

LEMMA InitialType ==
  ASSUME NEW identity \in Identities
  PROVE  Initial(identity) \in AllReceipts /\ WellFormed(Initial(identity))
BY DEF Initial, Receipt, AllReceipts, States, WellFormed

(* The cursor of an execution that is accepted. *)
LEMMA StartType ==
  ASSUME NEW identity \in Identities
  PROVE  LET cursor == start(offer, identity, Initial(identity))
         IN /\ cursor \in Cursors
            /\ cursor.identity = identity
            /\ cursor.evidence = Initial(identity)
            /\ cursor.online
            /\ cursor.can_cancel = offer.cancel
BY InitialType, OwnerAssumption DEF start, Cursors

LEMMA PrecedesTransitive ==
  ASSUME NEW r1 \in AllReceipts, NEW r2 \in AllReceipts, NEW r3 \in AllReceipts,
         Precedes(r1, r2), Precedes(r2, r3)
  PROVE  Precedes(r1, r3)
BY DEF Precedes, AllReceipts, Rank, States

(* A receipt that moves the cursor comes after the one it had. *)
LEMMA AdvancedPrecedes ==
  ASSUME NEW cursor \in Cursors, NEW receipt \in AllReceipts,
         Disposition(cursor, receipt) = "Advanced"
  PROVE  /\ Precedes(cursor.evidence, receipt)
         /\ cursor.evidence.state # "Terminal"
         /\ receipt.identity = cursor.identity
         /\ WellFormed(receipt)
<1>1. Admits(cursor, receipt)
  BY DEF Disposition
<1>2. /\ receipt.sequence > cursor.evidence.sequence
      /\ Follows(cursor.evidence, receipt)
  BY <1>1 DEF Disposition
<1>3. cursor.evidence \in AllReceipts
  BY DEF Cursors
<1>4. Precedes(cursor.evidence, receipt)
  BY <1>2, <1>3 DEF Follows, Precedes, Rank, AllReceipts, States
<1> QED BY <1>1, <1>2, <1>4 DEF Admits, Follows

(* What observe keeps of a cursor, and what it may put in it. *)
LEMMA ObserveType ==
  ASSUME NEW cursor \in Cursors, NEW receipt \in AllReceipts,
         WellFormed(cursor.evidence), cursor.evidence.identity = cursor.identity
  PROVE  LET seen == observe(cursor, receipt)
         IN /\ seen \in Cursors
            /\ seen = [cursor EXCEPT !.evidence = seen.evidence]
            /\ seen.evidence \in {cursor.evidence, receipt}
            /\ Precedes(cursor.evidence, seen.evidence)
            /\ WellFormed(seen.evidence)
            /\ seen.evidence.identity = cursor.identity
<1>1. CASE Disposition(cursor, receipt) = "Advanced"
  BY <1>1, AdvancedPrecedes DEF observe, Cursors
<1>2. CASE Disposition(cursor, receipt) # "Advanced"
  BY <1>2 DEF observe, Cursors, Precedes
<1> QED BY <1>1, <1>2

-----------------------------------------------------------------------------
(* A submission is committed. *)

LEMMA NextIsNat ==
  ASSUME OwnerTypeOK
  PROVE  next \in Nat /\ next \in 1..LastNext
<1>1. next \in 1..LastNext
  BY DEF OwnerTypeOK
<1>2. LastNext \in Nat
  BY OwnerAssumption
<1> QED BY <1>1, <1>2

LEMMA CandidateType ==
  ASSUME NEW sequence \in 1..(LastNext - 1), NEW work \in Works
  PROVE  LET candidate == Candidate(sequence, work)
         IN /\ candidate.sequence = sequence
            /\ candidate.execution \in Executions
            /\ candidate.execution.work = work
            /\ candidate.execution.reserved = Size[work]
            /\ candidate.execution.cursor =
                 start(offer, Identity(sequence), Initial(Identity(sequence)))
            /\ candidate \in
                 [sequence : 1..(LastNext - 1), execution : Executions]
<1>1. Identity(sequence) \in Identities
  BY DEF Identities
<1>2. start(offer, Identity(sequence), Initial(Identity(sequence))) \in Cursors
  BY <1>1, StartType
<1> QED BY <1>2, OwnerAssumption DEF Candidate, Executions

(* The number of a committed candidate is new. *)
LEMMA CommitFacts ==
  ASSUME OwnerInv, NEW work \in Works, Fits(work),
         Commit(Candidate(next, work))
  PROVE  /\ next \in 1..(LastNext - 1)
         /\ Identity(next) \in Identities
         /\ Identity(next) \notin DOMAIN executions
         /\ DOMAIN executions' = DOMAIN executions \cup {Identity(next)}
         /\ \A i \in DOMAIN executions : executions'[i] = executions[i]
         /\ executions'[Identity(next)] = Candidate(next, work).execution
         /\ reserved' = reserved + Size[work]
         /\ next' = next + 1
         /\ published' = published \cup {Initial(Identity(next))}
         /\ handed' = handed
<1>1. next \in 1..(LastNext - 1)
  BY OwnerAssumption DEF OwnerInv, OwnerTypeOK, Fits
<1>2. Identity(next) \in Identities
  BY <1>1 DEF Identities
<1>3. Identity(next) \notin DOMAIN executions
  BY <1>1, <1>2, IdentityNumber DEF OwnerInv, PlansGoWithRunning, Known
<1>4. /\ Candidate(next, work).execution.cursor.identity = Identity(next)
      /\ latest(Candidate(next, work).execution.cursor) = Initial(Identity(next))
      /\ Candidate(next, work).execution.reserved = Size[work]
  BY <1>1, <1>2, CandidateType, StartType DEF latest
<1>5. executions' = [i \in DOMAIN executions \cup {Identity(next)} |->
                       IF i = Identity(next)
                       THEN Candidate(next, work).execution ELSE executions[i]]
  BY <1>4 DEF Commit
<1>6. /\ DOMAIN executions' = DOMAIN executions \cup {Identity(next)}
      /\ \A i \in DOMAIN executions : executions'[i] = executions[i]
      /\ executions'[Identity(next)] = Candidate(next, work).execution
  BY <1>3, <1>5
<1> QED BY <1>1, <1>2, <1>3, <1>4, <1>6 DEF Commit

(* Candidates stay valid while no number is taken and room is only given. *)
LEMMA CandidatesKept ==
  ASSUME OwnerInv,
         \A k \in 1..Len(proposals') :
           \E j \in 1..Len(proposals) : proposals'[k] = proposals[j],
         next' \in Nat,
         \/ next' > next
         \/ next' = next /\ \A work \in Works : Fits(work) => Fits(work)'
  PROVE  CandidatesStand'
<1> SUFFICES ASSUME NEW k \in 1..Len(proposals')
             PROVE  (LET candidate == proposals[k]
                     IN /\ candidate.execution.work \in Works
                        /\ candidate.sequence \in 1..(LastNext - 1)
                        /\ candidate = Candidate(candidate.sequence,
                                                 candidate.execution.work)
                        /\ candidate.sequence <= next
                        /\ candidate.sequence = next =>
                             Fits(candidate.execution.work))'
  BY DEF CandidatesStand
<1>1. PICK j \in 1..Len(proposals) : proposals'[k] = proposals[j]
  OBVIOUS
<1>2. PICK work \in Works : work = proposals[j].execution.work
  BY DEF OwnerInv, CandidatesStand
<1>3. PICK sequence \in 1..(LastNext - 1) : sequence = proposals[j].sequence
  BY DEF OwnerInv, CandidatesStand
<1>4. /\ proposals[j] = Candidate(sequence, work)
      /\ sequence <= next
      /\ sequence = next => Fits(work)
  BY <1>2, <1>3 DEF OwnerInv, CandidatesStand
<1>5. next \in Nat /\ sequence \in Nat
  <2>1. LastNext \in Nat
    BY OwnerAssumption
  <2> QED BY <2>1, NextIsNat DEF OwnerInv
<1>6. sequence <= next' /\ (sequence = next' => Fits(work)')
  BY <1>4, <1>5
<1>7. /\ proposals'[k].execution.work = work
      /\ proposals'[k].sequence = sequence
      /\ proposals'[k] = Candidate(sequence, work)
  BY <1>1, <1>2, <1>3, <1>4
<1> QED BY <1>6, <1>7 DEF Fits

ProposalType == Seq([sequence : 1..(LastNext - 1), execution : Executions])

(* What the type says of one execution. *)
LEMMA ExecutionType ==
  ASSUME OwnerTypeOK, NEW identity \in DOMAIN executions
  PROVE  /\ identity \in Identities
         /\ executions[identity] \in Executions
         /\ executions[identity].cursor \in Cursors
         /\ Latest(identity) \in AllReceipts
         /\ executions[identity].cursor.identity = identity
         /\ Latest(identity).identity = identity
         /\ WellFormed(Latest(identity))
         /\ executions[identity].work \in Works
         /\ executions[identity].reserved = Size[executions[identity].work]
         /\ executions[identity].reserved \in Nat
<1>1. executions[identity] \in Executions
  BY DEF OwnerTypeOK
<1>2. executions[identity].cursor \in Cursors
  BY <1>1 DEF Executions
<1>3. Latest(identity) \in AllReceipts
  BY <1>2 DEF Cursors, Latest, latest
<1>4. executions[identity].work \in Works /\ executions[identity].reserved \in Nat
  BY <1>1 DEF Executions
<1> QED BY <1>1, <1>2, <1>3, <1>4 DEF OwnerTypeOK, Latest, latest

LEMMA CommitKeepsType ==
  ASSUME OwnerInv, NEW work \in Works, Fits(work),
         Commit(Candidate(next, work)), proposals' \in ProposalType
  PROVE  OwnerTypeOK'
<1> DEFINE new == Identity(next)
<1>1. /\ Candidate(next, work).execution \in Executions
      /\ Candidate(next, work).execution.work = work
      /\ Candidate(next, work).execution.reserved = Size[work]
      /\ Candidate(next, work).execution.cursor = start(offer, new, Initial(new))
  BY CommitFacts, CandidateType
<1>2. executions' \in [DOMAIN executions' -> Executions]
  <2>1. \A i \in DOMAIN executions' : executions'[i] \in Executions
    BY <1>1, CommitFacts, ExecutionType DEF OwnerInv
  <2>2. executions' = [i \in DOMAIN executions' |-> executions'[i]]
    BY DEF Commit
  <2> QED BY <2>1, <2>2
<1>3. DOMAIN executions' \subseteq Identities
  BY CommitFacts DEF OwnerInv, OwnerTypeOK
<1>4. \A i \in DOMAIN executions' :
        LET cursor == executions'[i].cursor
        IN /\ cursor.identity = i
           /\ cursor.evidence.identity = i
           /\ WellFormed(cursor.evidence)
           /\ cursor.online
           /\ cursor.can_cancel = offer.cancel
           /\ executions'[i].reserved = Size[executions'[i].work]
  <2>1. \A i \in DOMAIN executions :
          LET cursor == executions'[i].cursor
          IN /\ cursor.identity = i
             /\ cursor.evidence.identity = i
             /\ WellFormed(cursor.evidence)
             /\ cursor.online
             /\ cursor.can_cancel = offer.cancel
             /\ executions'[i].reserved = Size[executions'[i].work]
    BY CommitFacts DEF OwnerInv, OwnerTypeOK
  <2>2. /\ Initial(new).identity = new
        /\ WellFormed(Initial(new))
    BY CommitFacts, InitialType DEF Initial, Receipt
  <2> QED BY <2>1, <2>2, <1>1, CommitFacts, StartType
<1>5. reserved' \in Int
  BY CommitFacts, OwnerAssumption DEF OwnerInv, OwnerTypeOK
<1>6. next' \in 1..LastNext
  <2>1. LastNext \in Nat
    BY OwnerAssumption
  <2> QED BY <2>1, CommitFacts
<1>7. handed' \in [Identities -> Nat]
  BY CommitFacts DEF OwnerInv, OwnerTypeOK
<1>8. published' \subseteq AllReceipts
  BY CommitFacts, InitialType DEF OwnerInv, OwnerTypeOK
<1> QED BY <1>2, <1>3, <1>4, <1>5, <1>6, <1>7, <1>8 DEF OwnerTypeOK, ProposalType

LEMMA CommitKeepsQuota ==
  ASSUME OwnerInv, NEW work \in Works, Fits(work), Commit(Candidate(next, work))
  PROVE  IsFiniteSet(DOMAIN executions') /\ WithinQuota'
<1>1. /\ IsFiniteSet(DOMAIN executions')
      /\ Cardinality(DOMAIN executions') = Cardinality(DOMAIN executions) + 1
  BY CommitFacts, FS_AddElement DEF OwnerInv
<1>2. Cardinality(DOMAIN executions) \in Nat
  BY FS_CardinalityType DEF OwnerInv
<1>3. Cardinality(DOMAIN executions') <= max_executions
  BY <1>1, <1>2, OwnerAssumption DEF Fits
<1>4. reserved' <= max_bytes
  BY CommitFacts, OwnerAssumption DEF Fits, OwnerInv, OwnerTypeOK
<1> QED BY <1>1, <1>3, <1>4 DEF WithinQuota

LEMMA CommitKeepsHistory ==
  ASSUME OwnerInv, NEW work \in Works, Fits(work), Commit(Candidate(next, work))
  PROVE  PlansGoWithRunning' /\ LatestIsLast' /\ ReceiptsAgree'
<1> DEFINE new == Identity(next)
<1>1. /\ Candidate(next, work).execution.cursor = start(offer, new, Initial(new))
      /\ start(offer, new, Initial(new)).evidence = Initial(new)
      /\ Initial(new).identity = new
      /\ Initial(new).state = "Submitted"
      /\ new.execution = next
  BY CommitFacts, CandidateType, StartType, IdentityNumber DEF Initial, Receipt
<1>2. next \in Nat
  BY NextIsNat DEF OwnerInv
<1>3. PlansGoWithRunning'
  <2> SUFFICES ASSUME NEW i \in Identities
               PROVE (/\ Known(i) => i.execution < next
                      /\ handed[i] <= 1
                      /\ \/ i.execution >= next
                         \/ Known(i) /\ Latest(i).state = "Submitted"
                         => handed[i] = 0)'
    BY DEF PlansGoWithRunning
  <2>1. /\ Known(i) => i.execution < next
        /\ handed[i] <= 1
        /\ \/ i.execution >= next
           \/ Known(i) /\ Latest(i).state = "Submitted"
           => handed[i] = 0
    BY DEF OwnerInv, PlansGoWithRunning
  <2>2. i.execution \in Nat
    BY IdentityNumber, OwnerAssumption
  <2>3. CASE i = new
    BY <1>1, <1>2, <2>1, <2>3, CommitFacts
  <2>4. CASE i # new
    BY <1>2, <2>1, <2>2, <2>4, CommitFacts DEF Known, Latest
  <2> QED BY <2>3, <2>4
<1>4. \A receipt \in published :
        receipt.identity.execution < next /\ receipt.identity # new
  BY <1>1, <1>2, IdentityNumber DEF OwnerInv, LatestIsLast
<1>5. LatestIsLast'
  <2> SUFFICES ASSUME NEW receipt \in published'
               PROVE (/\ receipt.identity.execution < next
                      /\ Known(receipt.identity) =>
                           Precedes(receipt, Latest(receipt.identity)))'
    BY DEF LatestIsLast
  <2>1. CASE receipt = Initial(new)
    BY <1>1, <1>2, <2>1, CommitFacts DEF Known, Latest, latest, Precedes
  <2>2. CASE receipt \in published
    <3>1. /\ receipt.identity.execution < next
          /\ Known(receipt.identity) => Precedes(receipt, Latest(receipt.identity))
      BY <2>2 DEF OwnerInv, LatestIsLast
    <3>2. receipt \in AllReceipts
      BY <2>2 DEF OwnerInv, OwnerTypeOK
    <3>3. receipt.identity.execution \in Nat
      BY <3>2, IdentityNumber, OwnerAssumption DEF AllReceipts
    <3> QED BY <3>1, <3>3, <1>2, <1>4, <2>2, CommitFacts DEF Known, Latest
  <2> QED BY <2>1, <2>2, CommitFacts
<1>6. ReceiptsAgree'
  BY <1>1, <1>4, CommitFacts DEF OwnerInv, ReceiptsAgree, Precedes
<1> QED BY <1>3, <1>5, <1>6

-----------------------------------------------------------------------------
(* The cursor of an execution moves. *)

LEMMA AdvanceFacts ==
  ASSUME OwnerInv, NEW identity \in DOMAIN executions, NEW receipt \in AllReceipts,
         Advance(identity, receipt)
  PROVE  /\ DOMAIN executions' = DOMAIN executions
         /\ \A i \in DOMAIN executions \ {identity} : executions'[i] = executions[i]
         /\ executions'[identity] \in Executions
         /\ executions'[identity].work = executions[identity].work
         /\ executions'[identity].reserved = executions[identity].reserved
         /\ executions'[identity].cursor = observe(executions[identity].cursor, receipt)
         /\ executions'[identity].cursor.identity = identity
         /\ executions'[identity].cursor.evidence.identity = identity
         /\ executions'[identity].cursor.online = executions[identity].cursor.online
         /\ executions'[identity].cursor.can_cancel =
              executions[identity].cursor.can_cancel
         /\ executions'[identity].cursor.evidence \in AllReceipts
         /\ executions'[identity].cursor.evidence \in {Latest(identity), receipt}
         /\ Precedes(Latest(identity), executions'[identity].cursor.evidence)
         /\ WellFormed(executions'[identity].cursor.evidence)
         /\ published' = published \cup {executions'[identity].cursor.evidence}
         /\ UNCHANGED <<reserved, next, proposals>>
<1> DEFINE cursor == executions[identity].cursor
           seen   == observe(cursor, receipt)
<1>1. /\ executions[identity] \in Executions
      /\ cursor \in Cursors
      /\ cursor.identity = identity
      /\ cursor.evidence.identity = identity
      /\ WellFormed(cursor.evidence)
  BY ExecutionType DEF OwnerInv, Latest, latest
<1>2. /\ seen \in Cursors
      /\ seen = [cursor EXCEPT !.evidence = seen.evidence]
      /\ seen.evidence \in {cursor.evidence, receipt}
      /\ Precedes(cursor.evidence, seen.evidence)
      /\ WellFormed(seen.evidence)
      /\ seen.evidence.identity = identity
  BY <1>1, ObserveType
<1>3. /\ executions' = [executions EXCEPT ![identity].cursor = seen]
      /\ published' = published \cup {seen.evidence}
      /\ UNCHANGED <<reserved, next, proposals>>
  BY DEF Advance, latest
<1>4. /\ DOMAIN executions' = DOMAIN executions
      /\ \A i \in DOMAIN executions \ {identity} : executions'[i] = executions[i]
      /\ executions'[identity] = [executions[identity] EXCEPT !.cursor = seen]
  <2>1. executions \in [DOMAIN executions -> Executions]
    BY DEF OwnerInv, OwnerTypeOK
  <2> HIDE DEF seen
  <2> QED BY <1>3, <2>1
<1>5. /\ executions'[identity] \in Executions
      /\ executions'[identity].work = executions[identity].work
      /\ executions'[identity].reserved = executions[identity].reserved
      /\ executions'[identity].cursor = seen
  <2> HIDE DEF seen
  <2> QED BY <1>1, <1>2, <1>4 DEF Executions
<1>6. /\ seen.identity = identity
      /\ seen.online = cursor.online
      /\ seen.can_cancel = cursor.can_cancel
      /\ seen.evidence \in AllReceipts
  <2> HIDE DEF seen
  <2> QED BY <1>1, <1>2 DEF Cursors
<1> QED BY <1>2, <1>3, <1>4, <1>5, <1>6 DEF Latest, latest

(* What an advance must say of the plans handed out. *)
Hands(identity) ==
  /\ handed' \in [Identities -> Nat]
  /\ \A i \in Identities \ {identity} : handed'[i] = handed[i]
  /\ handed'[identity] <= 1
  /\ Latest(identity)'.state = "Submitted" => handed'[identity] = 0

LEMMA AdvanceKeeps ==
  ASSUME OwnerInv, NEW identity \in DOMAIN executions, NEW receipt \in AllReceipts,
         Advance(identity, receipt), Hands(identity)
  PROVE  OwnerInv'
<1> DEFINE seen == executions'[identity].cursor
<1>1. identity \in Identities
  BY DEF OwnerInv, OwnerTypeOK
<1>2. OwnerTypeOK'
  <2>1. executions' \in [DOMAIN executions' -> Executions]
    <3>1. \A i \in DOMAIN executions' : executions'[i] \in Executions
      BY AdvanceFacts, ExecutionType DEF OwnerInv
    <3>2. executions' = [i \in DOMAIN executions' |-> executions'[i]]
      BY DEF Advance, OwnerInv, OwnerTypeOK
    <3> QED BY <3>1, <3>2
  <2>2. \A i \in DOMAIN executions' :
          LET cursor == executions'[i].cursor
          IN /\ cursor.identity = i
             /\ cursor.evidence.identity = i
             /\ WellFormed(cursor.evidence)
             /\ cursor.online
             /\ cursor.can_cancel = offer.cancel
             /\ executions'[i].reserved = Size[executions'[i].work]
    <3>1. \A i \in DOMAIN executions :
            LET cursor == executions[i].cursor
            IN /\ cursor.identity = i
               /\ cursor.evidence.identity = i
               /\ WellFormed(cursor.evidence)
               /\ cursor.online
               /\ cursor.can_cancel = offer.cancel
               /\ executions[i].reserved = Size[executions[i].work]
      BY DEF OwnerInv, OwnerTypeOK
    <3> QED BY <3>1, AdvanceFacts
  <2>3. published' \subseteq AllReceipts
    BY AdvanceFacts DEF OwnerInv, OwnerTypeOK
  <2> QED BY <2>1, <2>2, <2>3, AdvanceFacts DEF OwnerInv, OwnerTypeOK, Hands
<1>3. IsFiniteSet(DOMAIN executions') /\ WithinQuota'
  BY AdvanceFacts DEF OwnerInv, WithinQuota
<1>4. CandidatesStand'
  <2>1. \A work \in Works : Fits(work) => Fits(work)'
    BY AdvanceFacts DEF Fits
  <2>2. next' = next /\ next' \in Nat /\ proposals' = proposals
    BY AdvanceFacts, NextIsNat DEF OwnerInv
  <2> QED BY <2>1, <2>2, CandidatesKept
<1>5. PlansGoWithRunning'
  <2>1. ASSUME NEW i \in Identities, i # identity
        PROVE (/\ Known(i) => i.execution < next
               /\ handed[i] <= 1
               /\ \/ i.execution >= next
                  \/ Known(i) /\ Latest(i).state = "Submitted"
                  => handed[i] = 0)'
    BY <2>1, AdvanceFacts DEF OwnerInv, PlansGoWithRunning, Known, Latest, Hands
  <2>2. identity.execution < next
    BY <1>1 DEF OwnerInv, PlansGoWithRunning, Known
  <2>3. identity.execution \in Nat /\ next \in Nat
    BY <1>1, IdentityNumber, NextIsNat, OwnerAssumption DEF OwnerInv
  <2>4. ~(identity.execution >= next')
    BY <2>2, <2>3, AdvanceFacts
  <2> QED BY <2>1, <2>2, <2>4, AdvanceFacts DEF PlansGoWithRunning, Hands
<1>6. \A r \in published : r.identity = identity => Precedes(r, seen.evidence)
  <2> SUFFICES ASSUME NEW r \in published, r.identity = identity
               PROVE  Precedes(r, seen.evidence)
    OBVIOUS
  <2>1. Precedes(r, Latest(identity))
    BY DEF OwnerInv, LatestIsLast, Known
  <2>2. r \in AllReceipts /\ Latest(identity) \in AllReceipts
    BY ExecutionType DEF OwnerInv, OwnerTypeOK
  <2> QED BY <2>1, <2>2, AdvanceFacts, PrecedesTransitive
<1>7. LatestIsLast'
  <2> SUFFICES ASSUME NEW r \in published'
               PROVE (/\ r.identity.execution < next
                      /\ Known(r.identity) => Precedes(r, Latest(r.identity)))'
    BY DEF LatestIsLast
  <2>1. CASE r = seen.evidence
    BY <1>1, <2>1, AdvanceFacts
    DEF OwnerInv, PlansGoWithRunning, Known, Latest, latest, Precedes
  <2>2. CASE r \in published /\ r.identity = identity
    BY <1>6, <2>2, AdvanceFacts DEF OwnerInv, LatestIsLast, Known, Latest, latest
  <2>3. CASE r \in published /\ r.identity # identity
    BY <2>3, AdvanceFacts DEF OwnerInv, LatestIsLast, Known, Latest, latest
  <2> QED BY <2>1, <2>2, <2>3, AdvanceFacts
<1>8. ReceiptsAgree'
  <2> SUFFICES ASSUME NEW r1 \in published', NEW r2 \in published',
                      r1.identity = r2.identity
               PROVE  Precedes(r1, r2) \/ Precedes(r2, r1)
    BY DEF ReceiptsAgree
  <2>1. CASE r1 \in published /\ r2 \in published
    BY <2>1 DEF OwnerInv, ReceiptsAgree
  <2>2. CASE r1 = seen.evidence \/ r2 = seen.evidence
    BY <1>6, <2>2, AdvanceFacts DEF Precedes
  <2> QED BY <2>1, <2>2, AdvanceFacts
<1> QED BY <1>2, <1>3, <1>4, <1>5, <1>7, <1>8 DEF OwnerInv

-----------------------------------------------------------------------------
(* Each step keeps the invariant. *)

LEMMA OwnerInitInv == OwnerInit => OwnerInv
<1> SUFFICES ASSUME OwnerInit PROVE OwnerInv
  OBVIOUS
<1> USE DEF OwnerInit
<1>1. DOMAIN executions = {}
  OBVIOUS
<1>2. LastNext \in Nat \ {0} /\ max_executions \in Nat /\ max_bytes \in Nat
  BY OwnerAssumption
<1>3. OwnerTypeOK
  BY <1>1, <1>2 DEF OwnerTypeOK
<1>4. IsFiniteSet(DOMAIN executions) /\ WithinQuota
  BY <1>1, <1>2, FS_EmptySet DEF WithinQuota
<1>5. CandidatesStand /\ PlansGoWithRunning /\ LatestIsLast /\ ReceiptsAgree
  BY <1>1 DEF CandidatesStand, PlansGoWithRunning, LatestIsLast, ReceiptsAgree, Known
<1> QED BY <1>3, <1>4, <1>5 DEF OwnerInv

LEMMA SubmitKeeps ==
  ASSUME OwnerInv, NEW work \in Works, Fits(work),
         Commit(Candidate(next, work)), proposals' \in ProposalType,
         \A k \in 1..Len(proposals') :
           \E j \in 1..Len(proposals) : proposals'[k] = proposals[j]
  PROVE  OwnerInv'
<1>1. next' \in Nat /\ next' > next
  BY CommitFacts, NextIsNat DEF OwnerInv
<1> QED BY <1>1, CommitKeepsType, CommitKeepsQuota, CommitKeepsHistory, CandidatesKept
    DEF OwnerInv

(* Returning from a validator leaves the candidates around it. *)
LEMMA ReturnType ==
  ASSUME OwnerTypeOK, Len(proposals) > 0, Return
  PROVE  /\ proposals' \in ProposalType
         /\ \A k \in 1..Len(proposals') :
              \E j \in 1..Len(proposals) : proposals'[k] = proposals[j]
<1>1. proposals \in ProposalType
  BY DEF OwnerTypeOK, ProposalType
<1> DEFINE Proposal == [sequence : 1..(LastNext - 1), execution : Executions]
<1>2. proposals \in Seq(Proposal)
  BY <1>1 DEF ProposalType
<1> HIDE DEF Proposal
<1>3. /\ Len(proposals) \in Nat
      /\ \A k \in 1..Len(proposals) : proposals[k] \in Proposal
  BY <1>2
<1>4. proposals' = [k \in 1..(Len(proposals) - 1) |-> proposals[k]]
  BY <1>3 DEF Return
<1>5. /\ proposals' \in Seq(Proposal)
      /\ Len(proposals') = Len(proposals) - 1
      /\ \A k \in 1..Len(proposals') : proposals'[k] = proposals[k]
  BY <1>3, <1>4
<1>6. \A k \in 1..Len(proposals') : k \in 1..Len(proposals)
  BY <1>3, <1>5
<1> QED BY <1>5, <1>6 DEF ProposalType, Proposal

LEMMA ProposeKeeps ==
  ASSUME OwnerInv, NEW work \in Works, Propose(work)
  PROVE  OwnerInv'
<1> DEFINE new == Candidate(next, work)
<1>1. next \in 1..(LastNext - 1) /\ LastNext \in Nat
  <2>1. LastNext \in Nat
    BY OwnerAssumption
  <2> QED BY <2>1, NextIsNat DEF OwnerInv, Propose, Fits
<1>2. /\ new \in [sequence : 1..(LastNext - 1), execution : Executions]
      /\ new.sequence = next
      /\ new.execution.work = work
  BY <1>1, CandidateType
<1>3. proposals \in ProposalType
  BY DEF OwnerInv, OwnerTypeOK, ProposalType
<1>4. proposals' = Append(proposals, new)
  BY DEF Propose
<1>5. proposals' \in ProposalType
  <2> HIDE DEF new
  <2> QED BY <1>2, <1>3, <1>4 DEF ProposalType
<1>6. OwnerTypeOK'
  BY <1>5 DEF OwnerInv, OwnerTypeOK, Propose, ProposalType
<1>7. CandidatesStand'
  <2> SUFFICES ASSUME NEW k \in 1..Len(proposals')
               PROVE  (LET candidate == proposals[k]
                       IN /\ candidate.execution.work \in Works
                          /\ candidate.sequence \in 1..(LastNext - 1)
                          /\ candidate = Candidate(candidate.sequence,
                                                   candidate.execution.work)
                          /\ candidate.sequence <= next
                          /\ candidate.sequence = next =>
                               Fits(candidate.execution.work))'
    BY DEF CandidatesStand
  <2>1. \/ k \in 1..Len(proposals) /\ proposals'[k] = proposals[k]
        \/ proposals'[k] = new
    <3> HIDE DEF new
    <3> QED BY <1>2, <1>3, <1>4 DEF ProposalType
  <2>2. UNCHANGED <<executions, reserved, next>> /\ Fits(work)
    BY DEF Propose
  <2>3. CASE k \in 1..Len(proposals) /\ proposals'[k] = proposals[k]
    BY <2>2, <2>3 DEF OwnerInv, CandidatesStand, Fits
  <2>4. CASE proposals'[k] = new
    <3>1. next' = next /\ next <= next
      BY <1>1, <2>2
    <3> QED BY <1>1, <1>2, <2>2, <2>4, <3>1 DEF Fits
  <2> QED BY <2>1, <2>3, <2>4
<1>8. /\ IsFiniteSet(DOMAIN executions') /\ WithinQuota' /\ PlansGoWithRunning'
      /\ LatestIsLast' /\ ReceiptsAgree'
  BY DEF OwnerInv, Propose, WithinQuota, PlansGoWithRunning, LatestIsLast,
         ReceiptsAgree, Known, Latest
<1> QED BY <1>6, <1>7, <1>8 DEF OwnerInv

LEMMA PublishKeeps ==
  ASSUME OwnerInv, Publish
  PROVE  OwnerInv'
<1>1. Len(proposals) \in 1..Len(proposals)
  BY DEF OwnerInv, OwnerTypeOK, Publish
<1>2. PICK work \in Works : work = proposals[Len(proposals)].execution.work
  BY <1>1 DEF OwnerInv, CandidatesStand
<1>3. proposals[Len(proposals)] = Candidate(next, work) /\ Fits(work)
  BY <1>1, <1>2 DEF OwnerInv, CandidatesStand, Publish
<1>4. Commit(Candidate(next, work))
  BY <1>3 DEF Publish
<1>5. /\ proposals' \in ProposalType
      /\ \A k \in 1..Len(proposals') :
           \E j \in 1..Len(proposals) : proposals'[k] = proposals[j]
  BY ReturnType DEF OwnerInv, Publish
<1> QED BY <1>3, <1>4, <1>5, SubmitKeeps

LEMMA WithdrawKeeps ==
  ASSUME OwnerInv, Withdraw
  PROVE  OwnerInv'
<1>1. /\ proposals' \in ProposalType
      /\ \A k \in 1..Len(proposals') :
           \E j \in 1..Len(proposals) : proposals'[k] = proposals[j]
  BY ReturnType DEF OwnerInv, Withdraw
<1>2. OwnerTypeOK'
  BY <1>1 DEF OwnerInv, OwnerTypeOK, Withdraw, ProposalType
<1>3. CandidatesStand'
  <2>1. \A work \in Works : Fits(work) => Fits(work)'
    BY DEF Withdraw, Fits
  <2>2. next' = next /\ next' \in Nat
    BY NextIsNat DEF OwnerInv, Withdraw
  <2> QED BY <1>1, <2>1, <2>2, CandidatesKept
<1>4. /\ IsFiniteSet(DOMAIN executions') /\ WithinQuota' /\ PlansGoWithRunning'
      /\ LatestIsLast' /\ ReceiptsAgree'
  BY DEF OwnerInv, Withdraw, WithinQuota, PlansGoWithRunning, LatestIsLast,
         ReceiptsAgree, Known, Latest
<1> QED BY <1>2, <1>3, <1>4 DEF OwnerInv

(* A receipt with a new sequence is refused or becomes the latest one. *)
LEMMA NewerAdvances ==
  ASSUME NEW cursor \in Cursors, NEW receipt \in AllReceipts,
         receipt.sequence > cursor.evidence.sequence, Observes(cursor, receipt)
  PROVE  observe(cursor, receipt).evidence = receipt
<1>1. cursor.evidence \in AllReceipts
  BY DEF Cursors
<1>2. Disposition(cursor, receipt) = "Advanced"
  BY <1>1 DEF Observes, Disposition, AllReceipts
<1> QED BY <1>2 DEF observe, Cursors

LEMMA AdvanceToNewer ==
  ASSUME OwnerInv, NEW identity \in DOMAIN executions, NEW receipt \in AllReceipts,
         Advance(identity, receipt), receipt.sequence > Latest(identity).sequence
  PROVE  Latest(identity)' = receipt
<1>1. executions[identity].cursor \in Cursors
  BY ExecutionType DEF OwnerInv
<1>2. Observes(executions[identity].cursor, receipt)
  BY DEF Advance
<1>3. observe(executions[identity].cursor, receipt).evidence = receipt
  BY <1>1, <1>2, NewerAdvances DEF Latest, latest
<1> QED BY <1>3, AdvanceFacts DEF Latest, latest

LEMMA TakeFacts ==
  ASSUME OwnerInv, NEW identity \in DOMAIN executions, Take(identity)
  PROVE  LET receipt == Receipt(identity, Latest(identity).sequence + 1, "Running",
                                NoOutcome, Latest(identity).cancel_requested)
         IN /\ Latest(identity).state = "Submitted"
            /\ receipt \in AllReceipts
            /\ Advance(identity, receipt)
            /\ Latest(identity)' = receipt
            /\ Hands(identity)
<1> DEFINE receipt == Receipt(identity, Latest(identity).sequence + 1, "Running",
                              NoOutcome, Latest(identity).cancel_requested)
<1>1. /\ identity \in Identities
      /\ Latest(identity) \in AllReceipts
      /\ executions[identity].cursor \in Cursors
  BY ExecutionType DEF OwnerInv
<1>2. receipt \in AllReceipts
  BY <1>1 DEF AllReceipts, States, Receipt
<1>3. /\ Latest(identity).state = "Submitted"
      /\ Advance(identity, receipt)
      /\ handed' = [handed EXCEPT ![identity] = @ + 1]
  BY DEF Take
<1>4. receipt.sequence > Latest(identity).sequence
  BY <1>1 DEF AllReceipts, Receipt
<1>5. Latest(identity)' = receipt
  <2> HIDE DEF receipt
  <2> QED BY <1>2, <1>3, <1>4, AdvanceToNewer
<1>6. Hands(identity)
  <2>1. handed[identity] = 0 /\ handed \in [Identities -> Nat]
    BY <1>1, <1>3 DEF OwnerInv, PlansGoWithRunning, Known, OwnerTypeOK
  <2> QED BY <1>1, <1>3, <1>5, <2>1 DEF Hands, Receipt
<1> QED BY <1>2, <1>3, <1>5, <1>6

LEMMA TakeKeeps ==
  ASSUME OwnerInv, NEW identity \in DOMAIN executions, Take(identity)
  PROVE  OwnerInv'
BY TakeFacts, AdvanceKeeps

(* The acknowledgement of a cancellation leaves the state as it is. *)
LEMMA CancelFacts ==
  ASSUME OwnerInv, NEW identity \in Identities, Cancel(identity), ~UNCHANGED ownerVars
  PROVE  LET receipt == Receipt(identity, Latest(identity).sequence + 1,
                                Latest(identity).state, NoOutcome, TRUE)
         IN /\ identity \in DOMAIN executions
            /\ Latest(identity).state \in {"Submitted", "Running"}
            /\ receipt \in AllReceipts
            /\ Advance(identity, receipt)
            /\ Latest(identity)' = receipt
            /\ Hands(identity)
            /\ UNCHANGED handed
<1> DEFINE receipt == Receipt(identity, Latest(identity).sequence + 1,
                              Latest(identity).state, NoOutcome, TRUE)
<1>1. identity \in DOMAIN executions
  BY DEF Cancel, Known
<1>2. /\ Latest(identity) \in AllReceipts
      /\ executions[identity].cursor \in Cursors
  BY <1>1, ExecutionType DEF OwnerInv
<1>3. /\ cancel_action(executions[identity].cursor) = "Send"
      /\ Advance(identity, receipt)
      /\ UNCHANGED handed
  BY DEF Cancel
<1>4. Latest(identity).state \in {"Submitted", "Running"}
  BY <1>2, <1>3 DEF cancel_action, Latest, latest, AllReceipts, States
<1>5. receipt \in AllReceipts
  BY <1>2 DEF AllReceipts, Receipt
<1>6. receipt.sequence > Latest(identity).sequence
  BY <1>2 DEF AllReceipts, Receipt
<1>7. Latest(identity)' = receipt
  <2> HIDE DEF receipt
  <2> QED BY <1>1, <1>3, <1>5, <1>6, AdvanceToNewer
<1>8. Hands(identity)
  BY <1>1, <1>3, <1>7 DEF Hands, OwnerInv, OwnerTypeOK, PlansGoWithRunning, Known, Receipt
<1> QED BY <1>1, <1>3, <1>4, <1>5, <1>7, <1>8

LEMMA CancelKeeps ==
  ASSUME OwnerInv, NEW identity \in Identities, Cancel(identity), ~UNCHANGED ownerVars
  PROVE  OwnerInv'
BY CancelFacts, AdvanceKeeps

(* The outcomes are the first ones of the execution, or those it has. *)
LEMMA CompleteFacts ==
  ASSUME OwnerInv, NEW identity \in Identities,
         NEW outcomes \in Outcomes \cup Foreign, Complete(identity, outcomes)
  PROVE  LET sequence == IF Latest(identity).state = "Terminal"
                         THEN Latest(identity).sequence
                         ELSE Latest(identity).sequence + 1
             receipt == Receipt(identity, sequence, "Terminal", outcomes,
                                Latest(identity).cancel_requested)
         IN /\ identity \in DOMAIN executions
            /\ outcomes \in Outcomes
            /\ receipt \in AllReceipts
            /\ Advance(identity, receipt)
            /\ \/ /\ Latest(identity).state # "Terminal"
                  /\ Latest(identity)' = receipt
               \/ UNCHANGED Latest(identity)
            /\ Hands(identity)
            /\ UNCHANGED handed
<1> DEFINE sequence == IF Latest(identity).state = "Terminal"
                       THEN Latest(identity).sequence
                       ELSE Latest(identity).sequence + 1
           receipt == Receipt(identity, sequence, "Terminal", outcomes,
                              Latest(identity).cancel_requested)
<1>1. identity \in DOMAIN executions /\ outcomes \in Outcomes
  BY DEF Complete, Known
<1>2. /\ Latest(identity) \in AllReceipts
      /\ executions[identity].cursor \in Cursors
  BY <1>1, ExecutionType DEF OwnerInv
<1>3. receipt \in AllReceipts
  BY <1>1, <1>2 DEF AllReceipts, Receipt, States
<1>4. Advance(identity, receipt) /\ UNCHANGED handed
  BY DEF Complete
<1>5. CASE Latest(identity).state = "Terminal"
  <2>1. ~(receipt.sequence > executions[identity].cursor.evidence.sequence)
    BY <1>2, <1>5 DEF AllReceipts, Receipt, Latest, latest
  <2>2. observe(executions[identity].cursor, receipt) = executions[identity].cursor
    BY <2>1 DEF observe, Disposition
  <2>3. UNCHANGED Latest(identity)
    BY <1>1, <1>3, <1>4, <2>2, AdvanceFacts DEF Latest, latest
  <2> QED BY <1>1, <1>3, <1>4, <1>5, <2>3 DEF Hands, OwnerInv, OwnerTypeOK,
             PlansGoWithRunning
<1>6. CASE Latest(identity).state # "Terminal"
  <2>1. receipt.sequence > Latest(identity).sequence
    BY <1>2, <1>6 DEF AllReceipts, Receipt
  <2>2. Latest(identity)' = receipt
    <3> HIDE DEF receipt
    <3> QED BY <1>1, <1>3, <1>4, <2>1, AdvanceToNewer
  <2> QED BY <1>1, <1>3, <1>4, <1>6, <2>2 DEF Hands, OwnerInv, OwnerTypeOK,
             PlansGoWithRunning, Receipt
<1> QED BY <1>5, <1>6

LEMMA CompleteKeeps ==
  ASSUME OwnerInv, NEW identity \in Identities,
         NEW outcomes \in Outcomes \cup Foreign, Complete(identity, outcomes)
  PROVE  OwnerInv'
BY CompleteFacts, AdvanceKeeps

LEMMA ReleaseKeeps ==
  ASSUME OwnerInv, NEW identity \in Identities, Release(identity)
  PROVE  OwnerInv'
<1>1. identity \in DOMAIN executions
  BY DEF Release, Known
<1>2. /\ executions' = [i \in DOMAIN executions \ {identity} |-> executions[i]]
      /\ reserved' = reserved - executions[identity].reserved
      /\ UNCHANGED <<next, proposals, handed, published>>
  BY DEF Release, Drop, Restrict
<1>3. reserved \in Int /\ executions[identity].reserved \in Nat
  BY <1>1, ExecutionType DEF OwnerInv, OwnerTypeOK
<1>4. OwnerTypeOK'
  BY <1>2, <1>3 DEF OwnerInv, OwnerTypeOK
<1>5. /\ IsFiniteSet(DOMAIN executions')
      /\ Cardinality(DOMAIN executions') = Cardinality(DOMAIN executions) - 1
      /\ Cardinality(DOMAIN executions) \in Nat
  BY <1>1, <1>2, FS_RemoveElement, FS_CardinalityType DEF OwnerInv
<1>6. max_executions \in Nat /\ max_bytes \in Nat /\ Size \in [Works -> Nat]
  BY OwnerAssumption
<1>7. WithinQuota'
  BY <1>2, <1>3, <1>5, <1>6 DEF OwnerInv, WithinQuota
<1>8. CandidatesStand'
  <2>1. \A work \in Works : Fits(work) => Fits(work)'
    BY <1>2, <1>3, <1>5, <1>6 DEF Fits
  <2>2. next' = next /\ next' \in Nat /\ proposals' = proposals
    BY <1>2, NextIsNat DEF OwnerInv
  <2> QED BY <2>1, <2>2, CandidatesKept
<1>9. PlansGoWithRunning' /\ LatestIsLast' /\ ReceiptsAgree'
  BY <1>2 DEF OwnerInv, PlansGoWithRunning, LatestIsLast, ReceiptsAgree, Known, Latest
<1> QED BY <1>4, <1>5, <1>7, <1>8, <1>9 DEF OwnerInv

LEMMA OwnerStepInv ==
  ASSUME OwnerInv, [OwnerNext]_ownerVars
  PROVE  OwnerInv'
<1>1. ASSUME NEW work \in Works, Submit(work)
      PROVE  OwnerInv'
  <2>1. proposals' = proposals /\ proposals \in ProposalType
    BY <1>1 DEF Submit, OwnerInv, OwnerTypeOK, ProposalType
  <2> QED BY <1>1, <2>1, SubmitKeeps DEF Submit
<1>2. ASSUME NEW identity \in Identities, NEW plan_id, NEW policy,
             ReplanScheme(identity, plan_id, policy)
      PROVE  OwnerInv'
  <2>1. executions[identity].work \in Works
    BY <1>2, ExecutionType DEF OwnerInv, ReplanScheme, Selects, Known
  <2> QED BY <1>1, <1>2, <2>1 DEF ReplanScheme
<1>3. ASSUME NEW identity \in Identities, NEW plan_id, NEW policy,
             Claim(identity) \/ ClaimScheme(identity, plan_id, policy)
      PROVE  OwnerInv'
  BY <1>3, TakeKeeps DEF Claim, ClaimScheme, Selects, Known
<1>4. CASE UNCHANGED ownerVars
  BY <1>4 DEF ownerVars, OwnerInv, OwnerTypeOK, WithinQuota, CandidatesStand, Fits,
     PlansGoWithRunning, LatestIsLast, ReceiptsAgree, Known, Latest
<1>5. ASSUME NEW identity \in Identities, Cancel(identity)
      PROVE  OwnerInv'
  BY <1>4, <1>5, CancelKeeps
<1> QED BY <1>1, <1>2, <1>3, <1>4, <1>5, ProposeKeeps, PublishKeeps, WithdrawKeeps,
           CompleteKeeps, ReleaseKeeps DEF OwnerNext

-----------------------------------------------------------------------------
(* The theorems. *)

(* Session keeps its quota, its identities and its history through every   *)
(* sequence of calls, re-entrant submissions included.                     *)
THEOREM OwnerInvariant == OwnerSpec => []OwnerInv
<1>1. OwnerInit => OwnerInv
  BY OwnerInitInv
<1>2. OwnerInv /\ [OwnerNext]_ownerVars => OwnerInv'
  BY OwnerStepInv
<1> QED BY <1>1, <1>2, PTL DEF OwnerSpec

(* Every execution of Session is kept under its own identity.              *)
THEOREM OwnerTypeCorrect == OwnerSpec => []OwnerTypeOK
<1>1. OwnerInv => OwnerTypeOK
  BY DEF OwnerInv
<1> QED BY <1>1, OwnerInvariant, PTL

(* submit never takes Session over max_executions or max_bytes.            *)
THEOREM QuotaIsKept == OwnerSpec => []WithinQuota
<1>1. OwnerInv => WithinQuota
  BY DEF OwnerInv
<1> QED BY <1>1, OwnerInvariant, PTL

(* claim and claim_scheme hand out a plan at most once.                    *)
THEOREM PlansAreHandedOnce == OwnerSpec => []HandedOnce
<1>1. OwnerInv => HandedOnce
  BY DEF OwnerInv, PlansGoWithRunning, HandedOnce
<1> QED BY <1>1, OwnerInvariant, PTL

(* The receipts of an identity are one history, whoever asks for them.     *)
THEOREM ReceiptsAreOneHistory == OwnerSpec => []ReceiptsAgree
<1>1. OwnerInv => ReceiptsAgree
  BY DEF OwnerInv
<1> QED BY <1>1, OwnerInvariant, PTL

-----------------------------------------------------------------------------
(* What the executions reserve, summed. *)


(* Induction over the natural numbers, for a set: a number outside it would *)
(* have a least one.                                                        *)
LEMMA Induction ==
  ASSUME NEW S, 0 \in S, \A n \in Nat : n \in S => n + 1 \in S
  PROVE  Nat \subseteq S
<1> DEFINE R == {p \in Nat \X Nat : p[1] < p[2]}
           Out == Nat \ S
<1>1. IsWellFoundedOn(R, Nat)
  BY NatLessThanWellFounded DEF OpToRel
<1>2. Out \subseteq Nat
  OBVIOUS
<1>3. ASSUME Out # {} PROVE FALSE
  <2>1. PICK n \in Out : \A m \in Out : <<m, n>> \notin R
    <3> HIDE DEF R, Out
    <3> QED BY <1>1, <1>2, <1>3, WFMin
  <2>2. n # 0 /\ n \in Nat /\ n \notin S
    BY <2>1
  <2>3. n - 1 \in Nat /\ n - 1 < n
    BY <2>2
  <2>4. n - 1 \in S
    BY <2>1, <2>2, <2>3
  <2>5. n - 1 + 1 = n
    BY <2>2
  <2> QED BY <2>2, <2>3, <2>4, <2>5
<1> QED BY <1>3

(* What the executions of m reserve together.                              *)
SumOf(m) == MapThenSumSet(LAMBDA i : m[i].reserved, DOMAIN m)

(* The function that MapThenSumSet is defined by, as an equation.          *)
Choice(s) == CHOOSE x \in s : TRUE
Sums(m, S, g) ==
  g = [s \in SUBSET S |-> IF s = {} THEN 0
                          ELSE m[Choice(s)].reserved + g[s \ {Choice(s)}]]

Counted(m, S) == \A i \in S : m[i].reserved \in Nat
Alike(m, k, S) == \A i \in S : m[i].reserved = k[i].reserved

(* Induction over the subsets of a finite set. *)
LEMMA SubsetInduction ==
  ASSUME NEW S, IsFiniteSet(S), NEW P, {} \in P,
         \A s \in SUBSET S : s # {} /\ (\A x \in s : s \ {x} \in P) => s \in P
  PROVE  SUBSET S \subseteq P
<1> DEFINE Good == {n \in Nat : \A s \in SUBSET S : Cardinality(s) = n => s \in P}
<1>1. \A s \in SUBSET S : IsFiniteSet(s) /\ Cardinality(s) \in Nat
  BY FS_Subset, FS_CardinalityType
<1>2. 0 \in Good
  BY <1>1, FS_EmptySet
<1>3. ASSUME NEW n \in Nat, n \in Good PROVE n + 1 \in Good
  <2> SUFFICES ASSUME NEW s \in SUBSET S, Cardinality(s) = n + 1 PROVE s \in P
    OBVIOUS
  <2>1. s # {}
    BY FS_EmptySet
  <2>2. ASSUME NEW x \in s PROVE s \ {x} \in P
    <3>1. Cardinality(s \ {x}) = n
      BY <1>1, FS_RemoveElement
    <3> QED BY <1>3, <3>1
  <2> QED BY <2>1, <2>2
<1>4. Nat \subseteq Good
  <2> HIDE DEF Good
  <2> QED BY <1>2, <1>3, Induction
<1> QED BY <1>1, <1>4

(* The sums are defined: each takes one execution out of its set. *)
LEMMA SumsExist ==
  ASSUME NEW m, NEW S, IsFiniteSet(S)
  PROVE  \E g : Sums(m, S, g)
<1> DEFINE term(g, s) == IF s = {} THEN 0
                         ELSE m[Choice(s)].reserved + g[s \ {Choice(s)}]
           Within(n) == {s \in SUBSET S : Cardinality(s) <= n}
           Short(n) == \E g : g = [s \in Within(n) |-> term(g, s)]
           Shorts == {n \in Nat : Short(n)}
<1>1. \A s \in SUBSET S : IsFiniteSet(s) /\ Cardinality(s) \in Nat
  BY FS_Subset, FS_CardinalityType
<1>2. \A s \in SUBSET S : s # {} => Choice(s) \in s
  BY DEF Choice
<1>3. 0 \in Shorts
  <2>1. \A s \in Within(0) : s = {}
    BY <1>1, FS_EmptySet
  <2> DEFINE g == [s \in Within(0) |-> 0]
  <2>2. g = [s \in Within(0) |-> term(g, s)]
    BY <2>1
  <2>3. Short(0)
    <3> HIDE DEF g
    <3> QED BY <2>2
  <2> HIDE DEF Short
  <2> QED BY <2>3
<1>4. ASSUME NEW n \in Nat, n \in Shorts PROVE n + 1 \in Shorts
  <2>1. PICK f : f = [s \in Within(n) |-> term(f, s)]
    BY <1>4
  <2> DEFINE g == [s \in Within(n + 1) |-> term(f, s)]
  <2>2. ASSUME NEW s \in Within(n + 1) PROVE g[s] = term(g, s)
    <3>1. CASE s = {}
      BY <3>1
    <3>2. CASE s # {}
      <4> DEFINE r == s \ {Choice(s)}
      <4>1. r \in SUBSET S /\ Cardinality(r) = Cardinality(s) - 1 /\ Cardinality(s) \in Nat
        BY <1>1, <1>2, <3>2, FS_RemoveElement
      <4>2. r \in Within(n) /\ r \in Within(n + 1)
        BY <4>1
      <4>3. g[r] = f[r]
        <5> HIDE DEF Within, r
        <5> QED BY <4>2, <2>1
      <4> QED BY <3>2, <4>3
    <3> QED BY <3>1, <3>2
  <2>3. g = [s \in Within(n + 1) |-> term(g, s)]
    <3> HIDE DEF Within
    <3> QED BY <2>2
  <2>4. Short(n + 1)
    <3> HIDE DEF g
    <3> QED BY <2>3
  <2> HIDE DEF Short
  <2> QED BY <2>4, <1>4
<1>5. Nat \subseteq Shorts
  <2> HIDE DEF Shorts
  <2> QED BY <1>3, <1>4, Induction
<1>6. Short(Cardinality(S))
  <2>1. Cardinality(S) \in Nat
    BY FS_CardinalityType
  <2> HIDE DEF Short
  <2> QED BY <1>5, <2>1
<1>7. Within(Cardinality(S)) = SUBSET S
  BY FS_Subset
<1> HIDE DEF Within
<1> QED BY <1>6, <1>7 DEF Sums

LEMMA SumOfSums ==
  ASSUME NEW m, IsFiniteSet(DOMAIN m)
  PROVE  \E g : Sums(m, DOMAIN m, g) /\ SumOf(m) = g[DOMAIN m]
<1> DEFINE g == CHOOSE g : Sums(m, DOMAIN m, g)
<1>1. Sums(m, DOMAIN m, g)
  BY SumsExist
<1>2. SumOf(m) = g[DOMAIN m]
  BY DEF SumOf, MapThenSumSet, MapThenFoldSet, Sums, Choice
<1> QED BY <1>1, <1>2

(* The sum of a set is that of the same executions in a larger one. *)
LEMMA SumsAgree ==
  ASSUME NEW m, NEW k, NEW S, NEW T, S \subseteq T, IsFiniteSet(S),
         NEW g, NEW h, Sums(m, S, g), Sums(k, T, h), Counted(m, S),
         Alike(m, k, S)
  PROVE  \A s \in SUBSET S : g[s] = h[s] /\ g[s] \in Nat
<1> DEFINE P == {s \in SUBSET S : g[s] = h[s] /\ g[s] \in Nat}
<1>1. g[{}] = 0 /\ h[{}] = 0
  BY DEF Sums
<1>2. ASSUME NEW s \in SUBSET S, s # {}, \A x \in s : s \ {x} \in P
      PROVE  s \in P
  <2>1. Choice(s) \in s
    BY <1>2 DEF Choice
  <2>2. /\ g[s] = m[Choice(s)].reserved + g[s \ {Choice(s)}]
        /\ h[s] = k[Choice(s)].reserved + h[s \ {Choice(s)}]
    BY <1>2 DEF Sums
  <2>3. s \ {Choice(s)} \in P
    BY <1>2, <2>1
  <2> QED BY <2>1, <2>2, <2>3 DEF Counted, Alike
<1>3. {} \in P
  BY <1>1
<1>4. SUBSET S \subseteq P
  <2> HIDE DEF P
  <2> QED BY <1>2, <1>3, SubsetInduction
<1> QED BY <1>4

(* Any execution of s may be the one that is counted first. *)
Takes(m, g, s) == \A y \in s : g[s] = m[y].reserved + g[s \ {y}]

(* Which execution is counted first makes no difference. *)
LEMMA SumsTake ==
  ASSUME NEW m, NEW S, IsFiniteSet(S), NEW g, Sums(m, S, g), Counted(m, S)
  PROVE  \A s \in SUBSET S : Takes(m, g, s)
<1> DEFINE P == {s \in SUBSET S : Takes(m, g, s)}
<1>0. \A s \in SUBSET S : g[s] \in Nat
  <2>1. Alike(m, m, S) /\ S \subseteq S
    BY DEF Alike
  <2> QED BY <2>1, SumsAgree
<1>1. {} \in P
  BY DEF Takes
<1>2. ASSUME NEW s \in SUBSET S, s # {}, \A x \in s : s \ {x} \in P
      PROVE  s \in P
  <2> SUFFICES ASSUME NEW y \in s PROVE g[s] = m[y].reserved + g[s \ {y}]
    BY DEF Takes
  <2> DEFINE x == Choice(s)
  <2>1. x \in s
    BY <1>2 DEF Choice
  <2>2. g[s] = m[x].reserved + g[s \ {x}]
    BY <1>2 DEF Sums
  <2> HIDE DEF x
  <2>3. CASE x = y
    BY <2>2, <2>3
  <2>4. CASE x # y
    <3>1. g[s \ {x}] = m[y].reserved + g[(s \ {x}) \ {y}]
      BY <1>2, <2>1, <2>4 DEF Takes
    <3>2. g[s \ {y}] = m[x].reserved + g[(s \ {y}) \ {x}]
      BY <1>2, <2>1, <2>4 DEF Takes
    <3>3. (s \ {x}) \ {y} = (s \ {y}) \ {x}
      OBVIOUS
    <3>4. g[(s \ {x}) \ {y}] \in Nat
      BY <1>0
    <3>5. m[x].reserved \in Nat /\ m[y].reserved \in Nat
      BY <2>1 DEF Counted
    <3>6. \A a, b, c \in Nat : a + (b + c) = b + (a + c)
      OBVIOUS
    <3>7. g[s] = m[x].reserved + (m[y].reserved + g[(s \ {x}) \ {y}])
      BY <2>2, <3>1
    <3>8. g[s \ {y}] = m[x].reserved + g[(s \ {x}) \ {y}]
      BY <3>2, <3>3
    <3>9. m[x].reserved + (m[y].reserved + g[(s \ {x}) \ {y}])
            = m[y].reserved + (m[x].reserved + g[(s \ {x}) \ {y}])
      BY <3>4, <3>5, <3>6
    <3> HIDE DEF P
    <3> QED BY <3>7, <3>8, <3>9, Zenon
  <2> QED BY <2>3, <2>4
<1>3. SUBSET S \subseteq P
  <2> HIDE DEF P
  <2> QED BY <1>1, <1>2, SubsetInduction
<1> QED BY <1>3

LEMMA SumsGrow ==
  ASSUME NEW m, NEW k, NEW S, NEW T, S \subseteq T, IsFiniteSet(S), IsFiniteSet(T),
         NEW g, NEW h, Sums(m, S, g), Sums(k, T, h), Counted(m, S), Counted(k, T),
         Alike(m, k, S),
         NEW y \in T, S = T \ {y}
  PROVE  h[T] = g[S] + k[y].reserved /\ g[S] \in Nat
<1>1. \A s \in SUBSET S : g[s] = h[s] /\ g[s] \in Nat
  BY SumsAgree
<1>2. \A s \in SUBSET T : Takes(k, h, s)
  BY SumsTake
<1>3. k[y].reserved \in Nat
  BY DEF Counted
<1>4. h[T] = k[y].reserved + h[S] /\ g[S] = h[S] /\ g[S] \in Nat
  BY <1>1, <1>2 DEF Takes
<1> QED BY <1>3, <1>4

(* One execution more, and executions that reserve what they did.          *)
LEMMA SumWithOneMore ==
  ASSUME NEW m, NEW k, NEW y, IsFiniteSet(DOMAIN m), y \notin DOMAIN m,
         DOMAIN k = DOMAIN m \cup {y}, Counted(k, DOMAIN k),
         Alike(m, k, DOMAIN m)
  PROVE  SumOf(k) = SumOf(m) + k[y].reserved /\ SumOf(m) \in Nat
<1>1. IsFiniteSet(DOMAIN k)
  BY FS_AddElement
<1>2. PICK g : Sums(m, DOMAIN m, g) /\ SumOf(m) = g[DOMAIN m]
  BY SumOfSums
<1>3. PICK h : Sums(k, DOMAIN k, h) /\ SumOf(k) = h[DOMAIN k]
  BY <1>1, SumOfSums
<1>4. Sums(m, DOMAIN m, g) /\ Sums(k, DOMAIN k, h)
  BY <1>2, <1>3
<1>5. Counted(m, DOMAIN m)
  BY DEF Counted, Alike
<1>6. DOMAIN m \subseteq DOMAIN k /\ y \in DOMAIN k /\ DOMAIN m = DOMAIN k \ {y}
  OBVIOUS
<1>7. h[DOMAIN k] = g[DOMAIN m] + k[y].reserved /\ g[DOMAIN m] \in Nat
  BY <1>1, <1>4, <1>5, <1>6, SumsGrow, Zenon
<1> QED BY <1>2, <1>3, <1>7

(* The same executions, with the reservations they had. *)
LEMMA SumOfSame ==
  ASSUME NEW m, NEW k, IsFiniteSet(DOMAIN m), DOMAIN k = DOMAIN m, Counted(m, DOMAIN m),
         Alike(m, k, DOMAIN m)
  PROVE  SumOf(k) = SumOf(m)
<1>1. PICK g : Sums(m, DOMAIN m, g) /\ SumOf(m) = g[DOMAIN m]
  BY SumOfSums
<1>2. PICK h : Sums(k, DOMAIN m, h) /\ SumOf(k) = h[DOMAIN m]
  BY SumOfSums
<1>3. Sums(m, DOMAIN m, g) /\ Sums(k, DOMAIN m, h) /\ DOMAIN m \subseteq DOMAIN m
  BY <1>1, <1>2
<1>4. \A s \in SUBSET DOMAIN m : g[s] = h[s] /\ g[s] \in Nat
  BY <1>3, SumsAgree
<1> QED BY <1>1, <1>2, <1>4

LEMMA SumOfNothing ==
  ASSUME NEW m, DOMAIN m = {}
  PROVE  SumOf(m) = 0
<1>1. PICK g : Sums(m, DOMAIN m, g) /\ SumOf(m) = g[DOMAIN m]
  BY SumOfSums, FS_EmptySet
<1> QED BY <1>1 DEF Sums

-----------------------------------------------------------------------------
(* The reservation stays the sum. *)

(* `reserved` with the sum named: what the steps are shown to keep.        *)
ReservedMatches == reserved = SumOf(executions)

LEMMA ExecutionsCounted ==
  ASSUME OwnerTypeOK
  PROVE  Counted(executions, DOMAIN executions)
BY ExecutionType DEF Counted

(* A submission reserves what its execution does. *)
LEMMA CommitKeepsSum ==
  ASSUME OwnerInv, OwnerInv', ReservedMatches, NEW work \in Works, Fits(work),
         Commit(Candidate(next, work))
  PROVE  ReservedMatches'
<1>1. /\ next \in 1..(LastNext - 1)
      /\ Identity(next) \notin DOMAIN executions
      /\ DOMAIN executions' = DOMAIN executions \cup {Identity(next)}
      /\ \A i \in DOMAIN executions : executions'[i] = executions[i]
      /\ executions'[Identity(next)] = Candidate(next, work).execution
      /\ reserved' = reserved + Size[work]
  BY CommitFacts
<1>2. executions'[Identity(next)].reserved = Size[work]
  BY <1>1, CandidateType
<1>3. Alike(executions, executions', DOMAIN executions)
  BY <1>1 DEF Alike
<1>4. Counted(executions', DOMAIN executions')
  <2>1. OwnerTypeOK'
    BY DEF OwnerInv
  <2>2. Counted(executions, DOMAIN executions)'
    BY <2>1, ExecutionType DEF Counted, OwnerTypeOK, Executions
  <2> QED BY <2>2 DEF Counted
<1>5. IsFiniteSet(DOMAIN executions)
  BY DEF OwnerInv
<1>6. SumOf(executions') = SumOf(executions) + executions'[Identity(next)].reserved
  BY <1>1, <1>3, <1>4, <1>5, SumWithOneMore
<1> QED BY <1>1, <1>2, <1>6 DEF ReservedMatches

(* A cursor that moves reserves nothing and gives nothing back. *)
LEMMA AdvanceKeepsSum ==
  ASSUME OwnerInv, ReservedMatches, NEW identity \in DOMAIN executions,
         NEW receipt \in AllReceipts, Advance(identity, receipt)
  PROVE  ReservedMatches'
<1>1. /\ DOMAIN executions' = DOMAIN executions
      /\ \A i \in DOMAIN executions \ {identity} : executions'[i] = executions[i]
      /\ executions'[identity].reserved = executions[identity].reserved
      /\ reserved' = reserved
  BY AdvanceFacts
<1>2. Alike(executions, executions', DOMAIN executions)
  BY <1>1 DEF Alike
<1>3. Counted(executions, DOMAIN executions) /\ IsFiniteSet(DOMAIN executions)
  BY ExecutionsCounted DEF OwnerInv
<1>4. SumOf(executions') = SumOf(executions)
  BY <1>1, <1>2, <1>3, SumOfSame
<1> QED BY <1>1, <1>4 DEF ReservedMatches

(* A release gives back what its execution reserved, once. *)
LEMMA ReleaseKeepsSum ==
  ASSUME OwnerInv, ReservedMatches, NEW identity \in Identities, Release(identity)
  PROVE  ReservedMatches'
<1>1. identity \in DOMAIN executions
  BY DEF Release, Known
<1>2. /\ executions' = [i \in DOMAIN executions \ {identity} |-> executions[i]]
      /\ reserved' = reserved - executions[identity].reserved
  BY DEF Release, Drop, Restrict
<1>3. Counted(executions, DOMAIN executions) /\ IsFiniteSet(DOMAIN executions)
  BY ExecutionsCounted DEF OwnerInv
<1>4. /\ DOMAIN executions' = DOMAIN executions \ {identity}
      /\ DOMAIN executions = DOMAIN executions' \cup {identity}
      /\ identity \notin DOMAIN executions'
  BY <1>1, <1>2
<1>5. IsFiniteSet(DOMAIN executions')
  BY <1>3, <1>4, FS_RemoveElement
<1>6. Alike(executions', executions, DOMAIN executions')
  BY <1>2 DEF Alike
<1>7. /\ SumOf(executions) = SumOf(executions') + executions[identity].reserved
      /\ SumOf(executions') \in Nat
  BY <1>3, <1>4, <1>5, <1>6, SumWithOneMore
<1>8. executions[identity].reserved \in Nat
  BY <1>1, <1>3 DEF Counted
<1> QED BY <1>2, <1>7, <1>8 DEF ReservedMatches

LEMMA StepKeepsSum ==
  ASSUME OwnerInv, OwnerInv', ReservedMatches, [OwnerNext]_ownerVars
  PROVE  ReservedMatches'
<1>1. ASSUME NEW work \in Works, Submit(work)
      PROVE  ReservedMatches'
  BY <1>1, CommitKeepsSum DEF Submit
<1>2. ASSUME UNCHANGED <<executions, reserved>>
      PROVE  ReservedMatches'
  BY <1>2 DEF ReservedMatches
<1>3. ASSUME Publish
      PROVE  ReservedMatches'
  <2>1. Len(proposals) \in 1..Len(proposals)
    BY <1>3 DEF OwnerInv, OwnerTypeOK, Publish
  <2>2. PICK work \in Works : work = proposals[Len(proposals)].execution.work
    BY <2>1 DEF OwnerInv, CandidatesStand
  <2>3. proposals[Len(proposals)] = Candidate(next, work) /\ Fits(work)
    BY <1>3, <2>1, <2>2 DEF OwnerInv, CandidatesStand, Publish
  <2>4. Commit(Candidate(next, work))
    BY <1>3, <2>3 DEF Publish
  <2> QED BY <2>3, <2>4, CommitKeepsSum
<1>4. ASSUME NEW identity \in Identities, NEW plan_id, NEW policy,
             ReplanScheme(identity, plan_id, policy)
      PROVE  ReservedMatches'
  <2>1. executions[identity].work \in Works
    BY <1>4, ExecutionType DEF OwnerInv, ReplanScheme, Selects, Known
  <2> QED BY <1>1, <1>4, <2>1 DEF ReplanScheme
<1>5. ASSUME NEW identity \in Identities, NEW plan_id, NEW policy,
             Claim(identity) \/ ClaimScheme(identity, plan_id, policy)
      PROVE  ReservedMatches'
  <2>1. identity \in DOMAIN executions /\ Take(identity)
    BY <1>5 DEF Claim, ClaimScheme, Selects, Known
  <2> QED BY <2>1, TakeFacts, AdvanceKeepsSum
<1>6. ASSUME NEW identity \in Identities, Cancel(identity)
      PROVE  ReservedMatches'
  <2>1. CASE UNCHANGED ownerVars
    BY <1>2, <2>1 DEF ownerVars
  <2>2. CASE ~UNCHANGED ownerVars
    BY <1>6, <2>2, CancelFacts, AdvanceKeepsSum
  <2> QED BY <2>1, <2>2
<1>7. ASSUME NEW identity \in Identities, NEW outcomes \in Outcomes \cup Foreign,
             Complete(identity, outcomes)
      PROVE  ReservedMatches'
  BY <1>7, CompleteFacts, AdvanceKeepsSum
<1>8. CASE UNCHANGED ownerVars
  BY <1>2, <1>8 DEF ownerVars
<1>9. ASSUME NEW work \in Works, Propose(work) PROVE ReservedMatches'
  BY <1>2, <1>9 DEF Propose
<1>10. ASSUME Withdraw PROVE ReservedMatches'
  BY <1>2, <1>10 DEF Withdraw
<1> QED BY <1>1, <1>3, <1>4, <1>5, <1>6, <1>7, <1>8, <1>9, <1>10, ReleaseKeepsSum
    DEF OwnerNext

(* What Session counts as reserved is what its executions reserve: no      *)
(* space leaks on release, and none is given back twice.                   *)
THEOREM ReservationsAreSummed == OwnerSpec => []ReservedIsSum
<1>1. OwnerInit => ReservedMatches
  <2> SUFFICES ASSUME OwnerInit PROVE ReservedMatches
    OBVIOUS
  <2>1. DOMAIN executions = {} /\ reserved = 0
    BY DEF OwnerInit
  <2> QED BY <2>1, SumOfNothing DEF ReservedMatches
<1>2. OwnerInv /\ OwnerInv' /\ ReservedMatches /\ [OwnerNext]_ownerVars
        => ReservedMatches'
  BY StepKeepsSum
<1>3. ReservedMatches => ReservedIsSum
  BY DEF ReservedMatches, ReservedIsSum, SumOf
<1> QED BY <1>1, <1>2, <1>3, OwnerInvariant, PTL DEF OwnerSpec

-----------------------------------------------------------------------------
(* Session implements ExecutionLifecycle. *)

LEMMA LifeOf ==
  /\ life = [identity \in Identities |-> life[identity]]
  /\ \A identity \in Identities :
       /\ Known(identity) =>
            life[identity] =
              [stage |-> Latest(identity).state,
               work |-> executions[identity].work,
               acknowledged |-> Latest(identity).cancel_requested,
               outcomes |-> Latest(identity).outcomes]
       /\ ~Known(identity) /\ identity.execution < next =>
            life[identity] = Lifecycle!Released
       /\ ~Known(identity) /\ ~(identity.execution < next) =>
            life[identity] = Lifecycle!Unused
BY DEF life, Lifecycle!Released, Lifecycle!Unused

(* A step that changes one life changes it as its action says. *)
LEMMA OneLife ==
  ASSUME NEW identity \in Identities, NEW new,
         life'[identity] = new,
         \A i \in Identities \ {identity} : life'[i] = life[i]
  PROVE  life' = [life EXCEPT ![identity] = new]
BY DEF life

LEMMA CommitAccepts ==
  ASSUME OwnerInv, NEW work \in Works, Fits(work), Commit(Candidate(next, work))
  PROVE  Lifecycle!Next
<1>0. PICK new \in Identities : new = Identity(next)
  BY CommitFacts
<1>1. ~Known(new) /\ new.execution = next
  BY <1>0, CommitFacts, IdentityNumber DEF Known
<1>2. next \in Nat /\ next' = next + 1 /\ ~(new.execution < next)
  BY CommitFacts, NextIsNat, <1>1 DEF OwnerInv
<1>3. life[new] = Lifecycle!Unused
  BY <1>1, <1>2, LifeOf
<1>4. life'[new] = Lifecycle!Live("Submitted", work, FALSE, NoOutcome)
  <2>1. /\ Candidate(next, work).execution.work = work
        /\ Candidate(next, work).execution.cursor.evidence = Initial(new)
    BY <1>0, CommitFacts, CandidateType, StartType
  <2>2. Known(new)' /\ executions'[new] = Candidate(next, work).execution
    BY <1>0, CommitFacts DEF Known
  <2>3. life'[new] = [stage |-> Latest(new)'.state,
                      work |-> executions'[new].work,
                      acknowledged |-> Latest(new)'.cancel_requested,
                      outcomes |-> Latest(new)'.outcomes]
    BY <1>1, <2>2 DEF life, Latest, Known
  <2>4. Latest(new)' = Initial(new) /\ executions'[new].work = work
    BY <2>1, <2>2 DEF Latest, latest
  <2> QED BY <2>3, <2>4 DEF Lifecycle!Live, Initial, Receipt
<1>5. \A i \in Identities \ {new} : life'[i] = life[i]
  <2> SUFFICES ASSUME NEW i \in Identities \ {new} PROVE life'[i] = life[i]
    OBVIOUS
  <2>1. i.execution \in Nat /\ i.execution # next
    <3>1. LastNext \in Nat
      BY OwnerAssumption
    <3> QED BY <3>1, <1>0, IdentityNumber
  <2>2. Known(i)' <=> Known(i)
    BY <1>0, CommitFacts DEF Known
  <2>3. i.execution < next' <=> i.execution < next
    BY <1>2, <2>1
  <2>4. Known(i) => executions'[i] = executions[i]
    BY CommitFacts DEF Known
  <2> QED BY <2>2, <2>3, <2>4 DEF life, Latest, Known
<1>6. life' = [life EXCEPT ![new] = Lifecycle!Live("Submitted", work, FALSE, NoOutcome)]
  BY <1>1, <1>4, <1>5, OneLife
<1>7. Lifecycle!Accept(new, work)
  BY <1>3, <1>6 DEF Lifecycle!Accept
<1> QED BY <1>1, <1>7 DEF Lifecycle!Next

LEMMA AdvanceLife ==
  ASSUME OwnerInv, NEW identity \in DOMAIN executions, NEW receipt \in AllReceipts,
         Advance(identity, receipt)
  PROVE  /\ identity \in Identities
         /\ life[identity] =
              [stage |-> Latest(identity).state,
               work |-> executions[identity].work,
               acknowledged |-> Latest(identity).cancel_requested,
               outcomes |-> Latest(identity).outcomes]
         /\ life'[identity] =
              [stage |-> Latest(identity)'.state,
               work |-> executions[identity].work,
               acknowledged |-> Latest(identity)'.cancel_requested,
               outcomes |-> Latest(identity)'.outcomes]
         /\ \A i \in Identities \ {identity} : life'[i] = life[i]
<1>1. identity \in Identities /\ Known(identity) /\ Known(identity)'
  BY AdvanceFacts DEF OwnerInv, OwnerTypeOK, Known
<1>2. executions'[identity].work = executions[identity].work /\ next' = next
  BY AdvanceFacts
<1>3. \A i \in Identities \ {identity} :
        /\ Known(i)' <=> Known(i)
        /\ Known(i) => executions'[i] = executions[i]
  BY AdvanceFacts DEF Known
<1> QED BY <1>1, <1>2, <1>3 DEF life, Latest, Known

LEMMA TakeTakes ==
  ASSUME OwnerInv, NEW identity \in DOMAIN executions, Take(identity)
  PROVE  Lifecycle!Next
<1> DEFINE receipt == Receipt(identity, Latest(identity).sequence + 1, "Running",
                              NoOutcome, Latest(identity).cancel_requested)
<1>1. /\ Latest(identity).state = "Submitted"
      /\ receipt \in AllReceipts
      /\ Advance(identity, receipt)
      /\ Latest(identity)' = receipt
  BY TakeFacts
<1>2. /\ Latest(identity) \in AllReceipts
      /\ Latest(identity).outcomes = NoOutcome
  BY <1>1, ExecutionType DEF OwnerInv, WellFormed
<1>3. /\ identity \in Identities
      /\ life[identity] =
           [stage |-> "Submitted", work |-> executions[identity].work,
            acknowledged |-> Latest(identity).cancel_requested,
            outcomes |-> NoOutcome]
      /\ life'[identity] =
           [stage |-> "Running", work |-> executions[identity].work,
            acknowledged |-> Latest(identity).cancel_requested,
            outcomes |-> NoOutcome]
      /\ \A i \in Identities \ {identity} : life'[i] = life[i]
  <2>1. /\ receipt.state = "Running" /\ receipt.outcomes = NoOutcome
        /\ receipt.cancel_requested = Latest(identity).cancel_requested
    BY DEF Receipt
  <2> HIDE DEF receipt
  <2> QED BY <1>1, <1>2, <2>1, AdvanceLife
<1>4. life'[identity] = Lifecycle!Live("Running", life[identity].work,
                                      life[identity].acknowledged, NoOutcome)
  BY <1>3 DEF Lifecycle!Live
<1>5. Lifecycle!Take(identity)
  BY <1>3, <1>4, LifeOf, OneLife DEF Lifecycle!Take
<1> QED BY <1>3, <1>5 DEF Lifecycle!Next

LEMMA CancelAcknowledges ==
  ASSUME OwnerInv, NEW identity \in Identities, Cancel(identity), ~UNCHANGED ownerVars
  PROVE  Lifecycle!Next
<1> DEFINE receipt == Receipt(identity, Latest(identity).sequence + 1,
                              Latest(identity).state, NoOutcome, TRUE)
<1>1. /\ identity \in DOMAIN executions
      /\ Latest(identity).state \in {"Submitted", "Running"}
      /\ receipt \in AllReceipts
      /\ Advance(identity, receipt)
      /\ Latest(identity)' = receipt
  BY CancelFacts
<1>2. Latest(identity).outcomes = NoOutcome
  BY <1>1, ExecutionType DEF OwnerInv, WellFormed
<1>3. /\ life[identity] =
           [stage |-> Latest(identity).state, work |-> executions[identity].work,
            acknowledged |-> Latest(identity).cancel_requested,
            outcomes |-> NoOutcome]
      /\ life'[identity] =
           [stage |-> Latest(identity).state, work |-> executions[identity].work,
            acknowledged |-> TRUE, outcomes |-> NoOutcome]
      /\ \A i \in Identities \ {identity} : life'[i] = life[i]
  <2>1. /\ receipt.state = Latest(identity).state /\ receipt.outcomes = NoOutcome
        /\ receipt.cancel_requested = TRUE
    BY DEF Receipt
  <2> HIDE DEF receipt
  <2> QED BY <1>1, <1>2, <2>1, AdvanceLife
<1>4. life'[identity] = Lifecycle!Live(life[identity].stage, life[identity].work,
                                      TRUE, NoOutcome)
  BY <1>3 DEF Lifecycle!Live
<1>5. life' = [life EXCEPT ![identity] = life'[identity]]
  BY <1>3, OneLife
<1>6. life' = [life EXCEPT ![identity] = Lifecycle!Live(@.stage, @.work, TRUE, NoOutcome)]
  BY <1>4, <1>5 DEF life
<1>7. life[identity].stage \in Lifecycle!Pending
  BY <1>1, <1>3 DEF Lifecycle!Pending
<1>8. Lifecycle!Acknowledge(identity)
  BY <1>6, <1>7 DEF Lifecycle!Acknowledge
<1> QED BY <1>8 DEF Lifecycle!Next

LEMMA CompleteFinishes ==
  ASSUME OwnerInv, NEW identity \in Identities,
         NEW outcomes \in Outcomes \cup Foreign, Complete(identity, outcomes)
  PROVE  [Lifecycle!Next]_life
<1> DEFINE sequence == IF Latest(identity).state = "Terminal"
                       THEN Latest(identity).sequence
                       ELSE Latest(identity).sequence + 1
           receipt == Receipt(identity, sequence, "Terminal", outcomes,
                              Latest(identity).cancel_requested)
<1>1. /\ identity \in DOMAIN executions
      /\ outcomes \in Outcomes
      /\ receipt \in AllReceipts
      /\ Advance(identity, receipt)
      /\ \/ Latest(identity).state # "Terminal" /\ Latest(identity)' = receipt
         \/ UNCHANGED Latest(identity)
  BY CompleteFacts
<1>2. CASE UNCHANGED Latest(identity)
  <2>1. life'[identity] = life[identity]
    <3> HIDE DEF receipt
    <3> QED BY <1>1, <1>2, AdvanceLife
  <2>2. \A i \in Identities \ {identity} : life'[i] = life[i]
    <3> HIDE DEF receipt
    <3> QED BY <1>1, AdvanceLife
  <2> QED BY <2>1, <2>2 DEF life
<1>3. CASE Latest(identity).state # "Terminal" /\ Latest(identity)' = receipt
  <2>1. /\ Latest(identity).outcomes = NoOutcome
        /\ Latest(identity).state \in {"Submitted", "Running"}
    BY <1>1, <1>3, ExecutionType DEF OwnerInv, WellFormed, AllReceipts, States
  <2>2. /\ life[identity] =
             [stage |-> Latest(identity).state, work |-> executions[identity].work,
              acknowledged |-> Latest(identity).cancel_requested,
              outcomes |-> NoOutcome]
        /\ life'[identity] =
             [stage |-> "Terminal", work |-> executions[identity].work,
              acknowledged |-> Latest(identity).cancel_requested,
              outcomes |-> outcomes]
        /\ \A i \in Identities \ {identity} : life'[i] = life[i]
    <3>1. /\ receipt.state = "Terminal" /\ receipt.outcomes = outcomes
          /\ receipt.cancel_requested = Latest(identity).cancel_requested
      BY DEF Receipt
    <3> HIDE DEF receipt
    <3> QED BY <1>1, <1>3, <2>1, <3>1, AdvanceLife
  <2>3. life'[identity] = Lifecycle!Live("Terminal", life[identity].work,
                                         life[identity].acknowledged, outcomes)
    BY <2>2 DEF Lifecycle!Live
  <2>4. life' = [life EXCEPT ![identity] = life'[identity]]
    BY <2>2, OneLife
  <2>5. life[identity].stage \in Lifecycle!Pending
    BY <2>1, <2>2 DEF Lifecycle!Pending
  <2>6. life' = [life EXCEPT ![identity] =
                   Lifecycle!Live("Terminal", @.work, @.acknowledged, outcomes)]
    BY <2>3, <2>4 DEF life
  <2>7. Lifecycle!Finish(identity, outcomes)
    BY <2>5, <2>6 DEF Lifecycle!Finish
  <2> QED BY <1>1, <2>7 DEF Lifecycle!Next
<1> QED BY <1>1, <1>2, <1>3

LEMMA ReleaseForgets ==
  ASSUME OwnerInv, NEW identity \in Identities, Release(identity)
  PROVE  Lifecycle!Next
<1>1. /\ identity \in DOMAIN executions
      /\ Latest(identity).state = "Terminal"
      /\ executions' = [i \in DOMAIN executions \ {identity} |-> executions[i]]
      /\ next' = next
  BY DEF Release, Drop, Restrict, Known
<1>2. identity.execution < next
  BY <1>1 DEF OwnerInv, PlansGoWithRunning, Known
<1>3. life'[identity] = Lifecycle!Released
  BY <1>1, <1>2 DEF life, Known, Lifecycle!Released
<1>4. \A i \in Identities \ {identity} : life'[i] = life[i]
  BY <1>1 DEF life, Known, Latest
<1>5. life[identity].stage = "Terminal"
  BY <1>1, LifeOf DEF Known
<1>6. Lifecycle!Forget(identity)
  BY <1>3, <1>4, <1>5, OneLife DEF Lifecycle!Forget
<1> QED BY <1>6 DEF Lifecycle!Next

(* Whatever the owner does, it is a step in the life of one identity, or   *)
(* of none: Session implements the abstract life cycle of executions.      *)
THEOREM OwnerKeepsLifecycle == OwnerSpec => KeepsLifecycle
<1>1. OwnerInit => Lifecycle!Init
  <2> SUFFICES ASSUME OwnerInit PROVE Lifecycle!Init
    OBVIOUS
  <2>1. \A identity \in Identities : ~Known(identity) /\ ~(identity.execution < next)
    <3>1. LastNext \in Nat
      BY OwnerAssumption
    <3> QED BY <3>1, IdentityNumber DEF OwnerInit, Known
  <2> QED BY <2>1, LifeOf DEF Lifecycle!Init
<1>2. OwnerInv /\ [OwnerNext]_ownerVars => [Lifecycle!Next]_life
  <2> SUFFICES ASSUME OwnerInv, [OwnerNext]_ownerVars PROVE [Lifecycle!Next]_life
    OBVIOUS
  <2>1. ASSUME UNCHANGED <<executions, next>>
        PROVE  UNCHANGED life
    BY <2>1 DEF life, Known, Latest
  <2>2. ASSUME NEW work \in Works, Submit(work)
        PROVE  Lifecycle!Next
    BY <2>2, CommitAccepts DEF Submit
  <2>3. ASSUME NEW identity \in Identities, NEW plan_id, NEW policy,
               ReplanScheme(identity, plan_id, policy)
        PROVE  Lifecycle!Next
    <3>1. executions[identity].work \in Works
      BY <2>3, ExecutionType DEF OwnerInv, ReplanScheme, Selects, Known
    <3> QED BY <2>2, <2>3, <3>1 DEF ReplanScheme
  <2>4. ASSUME NEW identity \in Identities, NEW plan_id, NEW policy,
               Claim(identity) \/ ClaimScheme(identity, plan_id, policy)
        PROVE  Lifecycle!Next
    BY <2>4, TakeTakes DEF Claim, ClaimScheme, Selects, Known
  <2>5. ASSUME Publish PROVE Lifecycle!Next
    <3>1. Len(proposals) \in 1..Len(proposals)
      BY <2>5 DEF OwnerInv, OwnerTypeOK, Publish
    <3>2. PICK work \in Works : work = proposals[Len(proposals)].execution.work
      BY <3>1 DEF OwnerInv, CandidatesStand
    <3>3. proposals[Len(proposals)] = Candidate(next, work) /\ Fits(work)
      BY <2>5, <3>1, <3>2 DEF OwnerInv, CandidatesStand, Publish
    <3> QED BY <2>5, <3>3, CommitAccepts DEF Publish
  <2>6. ASSUME NEW identity \in Identities, Cancel(identity)
        PROVE  [Lifecycle!Next]_life
    BY <2>1, <2>6, CancelAcknowledges DEF ownerVars
  <2>7. ASSUME NEW work \in Works, Propose(work) \/ Withdraw
        PROVE  UNCHANGED life
    BY <2>1, <2>7 DEF Propose, Withdraw
  <2>8. ASSUME Withdraw PROVE UNCHANGED life
    BY <2>1, <2>8 DEF Withdraw
  <2>9. ASSUME UNCHANGED ownerVars PROVE UNCHANGED life
    BY <2>1, <2>9 DEF ownerVars
  <2> QED BY <2>2, <2>3, <2>4, <2>5, <2>6, <2>7, <2>8, <2>9,
             CompleteFinishes, ReleaseForgets DEF OwnerNext
<1> QED BY <1>1, <1>2, OwnerInvariant, PTL DEF OwnerSpec, KeepsLifecycle, Lifecycle!Spec
=============================================================================
