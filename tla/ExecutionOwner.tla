---------------------------- MODULE ExecutionOwner ----------------------------
(***************************************************************************)
(* The in-memory owner of executions                                       *)
(* (pkgs/morphir-engine/execution/executions, Session).  Callers serialize *)
(* their access, so every method is one step, with one exception: submit   *)
(* calls a validator before it commits, and the validator may call the     *)
(* owner again.  The submissions whose validator is running are the stack  *)
(* `proposals`; only the innermost one can return.                         *)
(*                                                                         *)
(* A method that raises changes nothing and is no step.  Planning a unit   *)
(* is deterministic, so a plan is the work it was made from.               *)
(***************************************************************************)
EXTENDS Receipts, FiniteSets, Sequences, Functions, FiniteSetsExt

CONSTANTS
  offer,          \* [authority, cancel]: whom it speaks for, what it offers
  Works,          \* [input, kind]: a unit and its suite, and how it runs
  Size,           \* what a work reserves: snapshot, suite, boundary, receipt
  max_executions, \* executions the owner keeps at once
  max_bytes,      \* what they may reserve together
  LastNext,       \* the Int32 limit at which identities run out
  MaxDepth        \* bound: validators that call submit inside each other

Policies == {"Strict", "Permissive"}
Kinds    == Policies \cup {"Legacy"}

Identity(n) == [authority |-> offer.authority, execution |-> n]
Identities  == {Identity(n) : n \in 1..(LastNext - 1)}

ASSUME OwnerAssumption ==
  /\ offer.cancel \in BOOLEAN
  /\ \A work \in Works : work.kind \in Kinds
  /\ Size \in [Works -> Nat]
  /\ max_executions \in Nat \ {0}
  /\ max_bytes \in Nat
  /\ LastNext \in Nat \ {0}
  /\ MaxDepth \in Nat

VARIABLES
  executions, \* identity -> the work, its reservation and its cursor
  reserved,   \* the sum of the reservations
  next,       \* the number of the next identity
  proposals,  \* candidates whose validator runs, innermost last
  handed,     \* history: how many plans a claim returned for each identity
  published   \* history: the receipts the owner has returned

ownerVars == <<executions, reserved, next, proposals, handed, published>>

OwnerInit ==
  /\ executions = << >>
  /\ reserved = 0
  /\ next = 1
  /\ proposals = << >>
  /\ handed = [identity \in Identities |-> 0]
  /\ published = {}

-----------------------------------------------------------------------------
(* Submission. *)

Latest(identity) == latest(executions[identity].cursor)

(* Fault: one execution too many is let in. *)
FitsOver(work) ==
  /\ Cardinality(DOMAIN executions) <= max_executions
  /\ next # LastNext
  /\ Size[work] <= max_bytes - reserved

Fits(work) ==
  /\ Cardinality(DOMAIN executions) < max_executions
  /\ next # LastNext
  /\ Size[work] <= max_bytes - reserved

Candidate(sequence, work) ==
  [sequence |-> sequence,
   execution |->
     [work |-> work, reserved |-> Size[work],
      cursor |-> start(offer, Identity(sequence),
                       Initial(Identity(sequence)))]]

(* Fault: the space of the candidate is not counted. *)
CommitUncounted(candidate) ==
  LET identity == candidate.execution.cursor.identity
  IN /\ executions' =
          [i \in DOMAIN executions \cup {identity} |->
             IF i = identity THEN candidate.execution ELSE executions[i]]
     /\ next' = next + 1
     /\ published' = published \cup {latest(candidate.execution.cursor)}
     /\ UNCHANGED <<reserved, handed>>

Commit(candidate) ==
  LET identity == candidate.execution.cursor.identity
  IN /\ executions' =
          [i \in DOMAIN executions \cup {identity} |->
             IF i = identity THEN candidate.execution ELSE executions[i]]
     /\ reserved' = reserved + candidate.execution.reserved
     /\ next' = next + 1
     /\ published' = published \cup {latest(candidate.execution.cursor)}
     /\ UNCHANGED handed

(* Nothing observes the submission before it is committed. *)
Submit(work) ==
  /\ Fits(work)
  /\ Commit(Candidate(next, work))
  /\ UNCHANGED proposals

(* The validator of the submission is called. *)
Propose(work) ==
  /\ work.kind \in Policies
  /\ Fits(work)
  /\ Len(proposals) < MaxDepth
  /\ proposals' = Append(proposals, Candidate(next, work))
  /\ UNCHANGED <<executions, reserved, next, handed, published>>

Return == proposals' = SubSeq(proposals, 1, Len(proposals) - 1)

(* Fault: a submission that was overtaken is committed all the same. *)
PublishUnguarded ==
  /\ Len(proposals) > 0
  /\ Commit(proposals[Len(proposals)])
  /\ Return

(* The validator accepts, and nothing was submitted meanwhile. *)
Publish ==
  /\ Len(proposals) > 0
  /\ next = proposals[Len(proposals)].sequence
  /\ Commit(proposals[Len(proposals)])
  /\ Return

(* The validator raises, or another submission took the identity. *)
Withdraw ==
  /\ Len(proposals) > 0
  /\ Return
  /\ UNCHANGED <<executions, reserved, next, handed, published>>

-----------------------------------------------------------------------------
(* The methods on an accepted execution. *)

Known(identity) == identity \in DOMAIN executions

(* advance: the owner's own cursor admits every receipt it returns. *)
Advance(identity, receipt) ==
  LET cursor == executions[identity].cursor
  IN /\ Observes(cursor, receipt)
     /\ executions' = [executions EXCEPT ![identity].cursor =
                         observe(cursor, receipt)]
     /\ published' = published \cup {latest(observe(cursor, receipt))}
     /\ UNCHANGED <<reserved, next, proposals>>

Take(identity) ==
  LET seen == Latest(identity)
  IN /\ seen.state = "Submitted"
     /\ Advance(identity, Receipt(identity, seen.sequence + 1, "Running",
                                  NoOutcome, seen.cancel_requested))
     /\ handed' = [handed EXCEPT ![identity] = @ + 1]

Claim(identity) ==
  /\ Known(identity)
  /\ executions[identity].work.kind = "Legacy"
  /\ Take(identity)

(* check_scheme_selection: the plan and the policy are those accepted. *)
Selects(identity, plan_id, policy) ==
  /\ Known(identity)
  /\ plan_id = identity.execution
  /\ policy = executions[identity].work.kind

ClaimScheme(identity, plan_id, policy) ==
  /\ Selects(identity, plan_id, policy)
  /\ Take(identity)

(* A new execution of the same input; the old one stays as it is. *)
ReplanScheme(identity, plan_id, policy) ==
  /\ Selects(identity, plan_id, policy)
  /\ Submit(executions[identity].work)

Cancel(identity) ==
  /\ Known(identity)
  /\ LET seen == Latest(identity)
     IN \/ /\ cancel_action(executions[identity].cursor) = "Send"
           /\ Advance(identity, Receipt(identity, seen.sequence + 1,
                                        seen.state, NoOutcome, TRUE))
           /\ UNCHANGED handed
        \/ /\ cancel_action(executions[identity].cursor)
                \in {"AlreadyTerminal", "Pending"}
           /\ UNCHANGED ownerVars

(* A worker's outcomes; a second completion must repeat the first. *)
Complete(identity, outcomes) ==
  /\ Known(identity)
  /\ outcomes \notin Foreign
  /\ LET seen == Latest(identity)
         sequence == IF seen.state = "Terminal" THEN seen.sequence
                     ELSE seen.sequence + 1
     IN Advance(identity, Receipt(identity, sequence, "Terminal", outcomes,
                                  seen.cancel_requested))
  /\ UNCHANGED handed

Drop(identity) ==
  /\ executions' = Restrict(executions, DOMAIN executions \ {identity})
  /\ reserved' = reserved - executions[identity].reserved
  /\ UNCHANGED <<next, proposals, handed, published>>

(* Fault: work that is still pending is evicted. *)
ReleasePending(identity) ==
  /\ Known(identity)
  /\ Drop(identity)

Release(identity) ==
  /\ Known(identity)
  /\ Latest(identity).state = "Terminal"
  /\ Drop(identity)

OwnerNext ==
  \/ \E work \in Works : Submit(work)
  \/ \E work \in Works : Propose(work)
  \/ Publish
  \/ Withdraw
  \/ \E identity \in Identities :
       \/ Claim(identity)
       \/ \E plan_id \in 1..(LastNext - 1), policy \in Policies :
            \/ ClaimScheme(identity, plan_id, policy)
            \/ ReplanScheme(identity, plan_id, policy)
       \/ Cancel(identity)
       \/ \E outcomes \in Outcomes \cup Foreign : Complete(identity, outcomes)
       \/ Release(identity)

OwnerSpec == OwnerInit /\ [][OwnerNext]_ownerVars

-----------------------------------------------------------------------------
(* Properties. *)

AllReceipts ==
  [identity : Identities, sequence : Nat, state : States,
   outcomes : Outcomes \cup {NoOutcome}, cancel_requested : BOOLEAN]

Cursors ==
  [identity : Identities, evidence : AllReceipts, can_cancel : BOOLEAN,
   online : BOOLEAN]

Executions == [work : Works, reserved : Nat, cursor : Cursors]

(* Every execution of Session is kept under its own identity, with a       *)
(* connected cursor of the owner's offer: lookup and advance rely on it.   *)
OwnerTypeOK ==
  /\ DOMAIN executions \subseteq Identities
  /\ executions \in [DOMAIN executions -> Executions]
  /\ \A identity \in DOMAIN executions :
       LET cursor == executions[identity].cursor
       IN /\ cursor.identity = identity
          /\ cursor.evidence.identity = identity
          /\ WellFormed(cursor.evidence)
          /\ cursor.online
          /\ cursor.can_cancel = offer.cancel
          /\ executions[identity].reserved = Size[executions[identity].work]
  /\ reserved \in Int
  /\ next \in 1..LastNext
  /\ proposals \in Seq([sequence : 1..(LastNext - 1), execution : Executions])
  /\ handed \in [Identities -> Nat]
  /\ published \subseteq AllReceipts

(* However submit, its validators and release interleave, Session never    *)
(* keeps more executions or more reserved bytes than it was created for.   *)
WithinQuota ==
  /\ Cardinality(DOMAIN executions) <= max_executions
  /\ reserved <= max_bytes

(* `reserved` of Session is what its executions reserve: space neither     *)
(* leaks when an execution is released nor is given back twice.            *)
ReservedIsSum ==
  reserved = MapThenSumSet(LAMBDA i : executions[i].reserved,
                           DOMAIN executions)

(* claim and claim_scheme return the plan of an identity at most once,     *)
(* even after the execution was released: there is no retry lease.         *)
HandedOnce == \A identity \in Identities : handed[identity] <= 1

Rank(state) == CASE state = "Submitted" -> 0
                 [] state = "Running"   -> 1
                 [] state = "Terminal"  -> 2

Precedes(r1, r2) ==
  \/ r1 = r2
  \/ /\ r1.sequence < r2.sequence
     /\ r1.state # "Terminal"
     /\ Rank(r1.state) <= Rank(r2.state)
     /\ r1.cancel_requested => r2.cancel_requested

(* The receipts a caller of submit, query, cancel and complete ever gets   *)
(* of one identity form one history: two with a sequence agree, a later    *)
(* one never goes back in state, takes back the acknowledgement of cancel  *)
(* or follows the end.                                                     *)
ReceiptsAgree ==
  \A r1, r2 \in published :
    r1.identity = r2.identity => Precedes(r1, r2) \/ Precedes(r2, r1)

(* Session implements the life cycle of each of its identities.            *)
life ==
  [identity \in Identities |->
     IF Known(identity)
     THEN [stage |-> Latest(identity).state,
           work |-> executions[identity].work,
           acknowledged |-> Latest(identity).cancel_requested,
           outcomes |-> Latest(identity).outcomes]
     ELSE [stage |-> IF identity.execution < next
                     THEN "Released" ELSE "Unused"]]

Lifecycle == INSTANCE ExecutionLifecycle

KeepsLifecycle == Lifecycle!Spec

-----------------------------------------------------------------------------
(* Why it holds: the inductive invariant. *)

(* A candidate that was not overtaken still fits: owners only get room.    *)
CandidatesStand ==
  \A k \in 1..Len(proposals) :
    LET candidate == proposals[k]
    IN /\ candidate.execution.work \in Works
       /\ candidate.sequence \in 1..(LastNext - 1)
       /\ candidate = Candidate(candidate.sequence, candidate.execution.work)
       /\ candidate.sequence <= next
       /\ candidate.sequence = next => Fits(candidate.execution.work)

(* A number is used once it is passed; a plan is handed out with Running.  *)
PlansGoWithRunning ==
  \A identity \in Identities :
    /\ Known(identity) => identity.execution < next
    /\ handed[identity] <= 1
    /\ \/ identity.execution >= next
       \/ Known(identity) /\ Latest(identity).state = "Submitted"
       => handed[identity] = 0

(* The receipt of the cursor is the last of the published ones.            *)
LatestIsLast ==
  \A receipt \in published :
    /\ receipt.identity.execution < next
    /\ Known(receipt.identity) => Precedes(receipt, Latest(receipt.identity))

(* What makes the properties of Session hold whatever its callers do.      *)
OwnerInv ==
  /\ OwnerTypeOK
  /\ IsFiniteSet(DOMAIN executions)
  /\ WithinQuota
  /\ CandidatesStand
  /\ PlansGoWithRunning
  /\ LatestIsLast
  /\ ReceiptsAgree
=============================================================================
