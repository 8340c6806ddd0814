------------------------- MODULE NativeService_proofs -------------------------
(***************************************************************************)
(* Theorems about NativeService, for any works, values, callers, limits    *)
(* and number of workers, and any order of requests, processes and close.  *)
(***************************************************************************)
EXTENDS NativeService, ExecutionOwner_proofs, SequenceTheorems

-----------------------------------------------------------------------------
(* What a call of the owner does, as far as the service can tell. *)

(* The owner says of an identity what it said before. *)
SameFor(identity) ==
  /\ Known(identity)' <=> Known(identity)
  /\ Known(identity) =>
       /\ Latest(identity)'.state = Latest(identity).state
       /\ Latest(identity)'.outcomes = Latest(identity).outcomes

LEMMA OwnerUnchanged ==
  ASSUME UNCHANGED ownerVars
  PROVE  next' = next /\ \A identity : SameFor(identity)
BY DEF ownerVars, SameFor, Known, Latest

LEMMA SubmitEffect ==
  ASSUME OwnerInv, NEW work \in Works, Submit(work)
  PROVE  /\ next' = next + 1
         /\ Identity(next) \in Identities
         /\ \E new \in Identities :
              /\ new = Identity(next)
              /\ new.execution = next
              /\ ~Known(new)
              /\ Known(new)'
              /\ Latest(new)'.state = "Submitted"
              /\ \A i \in Identities \ {new} : SameFor(i)
<1>1. Fits(work) /\ Commit(Candidate(next, work))
  BY DEF Submit
<1>2. PICK new \in Identities : new = Identity(next)
  BY <1>1, CommitFacts
<1>3. /\ new \notin DOMAIN executions
      /\ DOMAIN executions' = DOMAIN executions \cup {new}
      /\ \A i \in DOMAIN executions : executions'[i] = executions[i]
      /\ executions'[new] = Candidate(next, work).execution
      /\ next' = next + 1
      /\ next \in 1..(LastNext - 1)
  BY <1>1, <1>2, CommitFacts
<1>4. executions'[new].cursor.evidence = Initial(new)
  BY <1>2, <1>3, CandidateType, StartType
<1>5. Latest(new)'.state = "Submitted"
  BY <1>4 DEF Latest, latest, Initial, Receipt
<1>6. \A i \in Identities \ {new} : SameFor(i)
  BY <1>3 DEF SameFor, Known, Latest
<1> QED BY <1>2, <1>3, <1>5, <1>6, IdentityNumber DEF Known

(* An advance moves one execution. *)
LEMMA AdvanceEffect ==
  ASSUME OwnerInv, NEW identity \in DOMAIN executions, NEW receipt \in AllReceipts,
         Advance(identity, receipt)
  PROVE  /\ next' = next
         /\ Known(identity)'
         /\ \A i \in Identities \ {identity} : SameFor(i)
BY AdvanceFacts DEF SameFor, Known, Latest

LEMMA TakeEffect ==
  ASSUME OwnerInv, NEW identity \in Identities, Known(identity), Take(identity)
  PROVE  /\ next' = next
         /\ Latest(identity).state = "Submitted"
         /\ Known(identity)'
         /\ Latest(identity)'.state = "Running"
         /\ \A i \in Identities \ {identity} : SameFor(i)
<1> DEFINE receipt == Receipt(identity, Latest(identity).sequence + 1, "Running",
                              NoOutcome, Latest(identity).cancel_requested)
<1>1. identity \in DOMAIN executions
  BY DEF Known
<1>2. /\ Latest(identity).state = "Submitted"
      /\ receipt \in AllReceipts
      /\ Advance(identity, receipt)
      /\ Latest(identity)' = receipt
  BY <1>1, TakeFacts
<1>3. receipt.state = "Running"
  BY DEF Receipt
<1> HIDE DEF receipt
<1> QED BY <1>1, <1>2, <1>3, AdvanceEffect

LEMMA CancelEffect ==
  ASSUME OwnerInv, NEW identity \in Identities, Cancel(identity)
  PROVE  next' = next /\ \A i \in Identities : SameFor(i)
<1>1. CASE UNCHANGED ownerVars
  BY <1>1, OwnerUnchanged
<1>2. CASE ~UNCHANGED ownerVars
  <2> DEFINE receipt == Receipt(identity, Latest(identity).sequence + 1,
                                Latest(identity).state, NoOutcome, TRUE)
  <2>1. /\ identity \in DOMAIN executions
        /\ Latest(identity).state \in {"Submitted", "Running"}
        /\ receipt \in AllReceipts
        /\ Advance(identity, receipt)
        /\ Latest(identity)' = receipt
    BY <1>2, CancelFacts
  <2>2. /\ receipt.state = Latest(identity).state
        /\ receipt.outcomes = NoOutcome
    BY DEF Receipt
  <2>3. Latest(identity).outcomes = NoOutcome
    BY <2>1, ExecutionType DEF OwnerInv, WellFormed
  <2> HIDE DEF receipt
  <2>4. next' = next /\ Known(identity)' /\ \A i \in Identities \ {identity} : SameFor(i)
    BY <2>1, AdvanceEffect
  <2>5. SameFor(identity)
    BY <2>1, <2>2, <2>3, <2>4 DEF SameFor, Known
  <2> QED BY <2>4, <2>5
<1> QED BY <1>1, <1>2

LEMMA CompleteEffect ==
  ASSUME OwnerInv, NEW identity \in Identities, NEW outcomes \in Outcomes \cup Foreign,
         Complete(identity, outcomes), Latest(identity).state # "Terminal"
  PROVE  /\ next' = next
         /\ Known(identity)'
         /\ Latest(identity)'.state = "Terminal"
         /\ Latest(identity)'.outcomes = outcomes
         /\ \A i \in Identities \ {identity} : SameFor(i)
<1> DEFINE receipt == Receipt(identity, Latest(identity).sequence + 1, "Terminal",
                              outcomes, Latest(identity).cancel_requested)
<1>1. /\ identity \in DOMAIN executions
      /\ receipt \in AllReceipts
      /\ Advance(identity, receipt)
  BY CompleteFacts
<1>2. receipt.sequence > Latest(identity).sequence
  BY <1>1, ExecutionType DEF OwnerInv, AllReceipts, Receipt
<1>3. receipt.state = "Terminal" /\ receipt.outcomes = outcomes
  BY DEF Receipt
<1> HIDE DEF receipt
<1>4. Latest(identity)' = receipt
  BY <1>1, <1>2, AdvanceToNewer
<1> QED BY <1>1, <1>3, <1>4, AdvanceEffect

LEMMA ReleaseEffect ==
  ASSUME OwnerInv, NEW identity \in Identities, Release(identity)
  PROVE  /\ next' = next
         /\ Known(identity)
         /\ identity.execution < next
         /\ Latest(identity).state = "Terminal"
         /\ ~Known(identity)'
         /\ \A i \in Identities \ {identity} : SameFor(i)
<1>1. /\ Known(identity)
      /\ Latest(identity).state = "Terminal"
      /\ executions' = [i \in DOMAIN executions \ {identity} |-> executions[i]]
      /\ next' = next
  BY DEF Release, Drop, Restrict
<1>2. identity.execution < next
  BY <1>1 DEF OwnerInv, PlansGoWithRunning
<1>3. \A i \in Identities \ {identity} : SameFor(i)
  BY <1>1 DEF SameFor, Known, Latest
<1> QED BY <1>1, <1>2, <1>3 DEF Known

-----------------------------------------------------------------------------
(* The completion of an execution that has not ended does not fail. *)

LEMMA OutcomesDiffer ==
  /\ Cancelled \in Outcomes /\ Cancelled \notin Foreign
  /\ Failed \in Outcomes /\ Failed \notin Foreign
  /\ Cancelled # Failed
  /\ Cancelled.status # "captured"
  /\ Failed.status # "captured"
  /\ \A value, cleanup : /\ Captured(value, cleanup).status = "captured"
                         /\ Captured(value, cleanup).value = value
                         /\ Captured(value, cleanup) # Cancelled
                         /\ Captured(value, cleanup) # Failed
<1>1. Cancelled \in Outcomes /\ Failed \in Outcomes
  BY ServiceAssumption
<1>2. Cancelled.status = "cancelled" /\ Failed.status = "failed"
  BY DEF Cancelled, Failed
<1>3. \A value, cleanup : /\ Captured(value, cleanup).status = "captured"
                          /\ Captured(value, cleanup).value = value
  BY DEF Captured
<1> QED BY <1>1, <1>2, <1>3, OutcomesAssumption

LEMMA CapturedOutcomes ==
  ASSUME NEW value \in Values, NEW cleanup \in BOOLEAN
  PROVE  /\ Captured(value, cleanup) \in Outcomes \cup Foreign
         /\ value \notin Other => Captured(value, cleanup) \notin Foreign
<1>1. CASE value \in Other
  BY <1>1, ServiceAssumption
<1>2. CASE value \notin Other
  <2>1. Captured(value, cleanup) \in Outcomes
    BY <1>2, ServiceAssumption
  <2> QED BY <2>1, OutcomesAssumption
<1> QED BY <1>1, <1>2

(* What `complete` gives the owner is always accepted. *)
LEMMA EvidenceIsAccepted ==
  ASSUME NEW identity \in Identities, NEW outcomes \in Outcomes \cup Foreign,
         Known(identity), Latest(identity).state # "Terminal"
  PROVE  /\ Recorded(identity, outcomes)
         /\ Recorded(identity, outcomes) = TRUE
         /\ Evidence(identity, outcomes) \in Outcomes
         /\ Evidence(identity, outcomes) \in {outcomes, Failed}
         /\ outcomes \notin Foreign /\ ~Oversized(outcomes) =>
              Evidence(identity, outcomes) = outcomes
<1>1. Accepts(identity, Failed)
  BY OutcomesDiffer DEF Accepts
<1>2. outcomes \notin Foreign => Accepts(identity, outcomes)
  BY DEF Accepts
<1>3. outcomes \notin Foreign => outcomes \in Outcomes
  OBVIOUS
<1>4. ~Accepts(identity, outcomes) => outcomes \in Foreign
  BY <1>2
<1>5. Accepts(identity, outcomes) => outcomes \notin Foreign
  BY DEF Accepts
<1>6. /\ Recorded(identity, outcomes)
      /\ Evidence(identity, outcomes) \in Outcomes
      /\ Evidence(identity, outcomes) \in {outcomes, Failed}
      /\ outcomes \notin Foreign /\ ~Oversized(outcomes) =>
           Evidence(identity, outcomes) = outcomes
  BY <1>1, <1>2, <1>3, <1>4, <1>5, OutcomesDiffer DEF Recorded, Evidence
<1>7. Recorded(identity, outcomes) = TRUE
  BY <1>6 DEF Recorded, Accepts
<1> QED BY <1>6, <1>7

LEMMA CompleteExecutionEffect ==
  ASSUME OwnerInv, NEW identity \in Identities, NEW outcomes \in Outcomes \cup Foreign,
         Known(identity), Latest(identity).state # "Terminal",
         uncertain \in BOOLEAN, CompleteExecution(identity, outcomes)
  PROVE  /\ uncertain' = uncertain
         /\ next' = next
         /\ Known(identity)'
         /\ Latest(identity)'.state = "Terminal"
         /\ Latest(identity)'.outcomes = Evidence(identity, outcomes)
         /\ \A i \in Identities \ {identity} : SameFor(i)
         /\ OwnerInv' /\ OwnerNext
<1>1. /\ Recorded(identity, outcomes)
      /\ Evidence(identity, outcomes) \in Outcomes \cup Foreign
  BY EvidenceIsAccepted
<1>2. Complete(identity, Evidence(identity, outcomes)) /\ uncertain' = uncertain
  BY <1>1 DEF CompleteExecution
<1>3. OwnerInv'
  BY <1>1, <1>2, CompleteKeeps
<1>4. OwnerNext
  BY <1>1, <1>2 DEF OwnerNext
<1> QED BY <1>1, <1>2, <1>3, <1>4, CompleteEffect

-----------------------------------------------------------------------------
(* The invariant, record by record. *)

Begins(record) == record.task \notin {"None", "Ended"}

(* What a record of an execution says is what has happened to it. *)
Holds(identity) ==
  LET record == records[identity]
  IN /\ record \in Records
     /\ identity.execution < next
     /\ record.done => record.task \in {"None", "Ended"}
     /\ record.task = "Ended" => record.done
     /\ ~record.done /\ record.task \in {"None", "Spawned"} =>
          Known(identity) /\ Latest(identity).state = "Submitted"
     /\ record.task \in {"Claimed", "Child", "Exited", "Lost"} =>
          Known(identity) /\ Latest(identity).state = "Running"
     /\ record.done /\ Known(identity) => Latest(identity).state = "Terminal"
     /\ closed /\ Begins(record) => record.stop # ""
     /\ identity \in closing =>
          record.task = "None" /\ ~record.done /\ record.stop # ""
     /\ identity \in alive <=> record.task \in {"Child", "Lost"}
     /\ ~record.done => record.captured = returned[identity]
     /\ ~record.done /\ record.task \in {"None", "Spawned", "Claimed"} =>
          returned[identity] = NoValue /\ record.stop # "fault"

(* What the owner says of an execution that ended is what it returned. *)
Survives(identity) ==
  Terminal(identity) =>
    LET outcomes == Latest(identity).outcomes
        value == returned[identity]
    IN /\ value \in Values \ (Large \cup Other) =>
            outcomes.status = "captured" /\ outcomes.value = value
       /\ outcomes = Cancelled =>
            /\ value = NoValue
            /\ HasRecord(identity) =>
                 records[identity].stop \in {"cancel", "shutdown"}

Shape ==
  /\ ServiceTypeOK
  /\ alive \subseteq DOMAIN records
  /\ closing # {} => closed /\ queue = << >>

(* An execution that no worker has taken has returned nothing. *)
NothingReturned ==
  \A identity \in Identities :
    /\ ~HasRecord(identity)
    /\ \/ identity.execution >= next
       \/ Known(identity) /\ Latest(identity).state = "Submitted"
    => returned[identity] = NoValue

IInv ==
  /\ OwnerInv
  /\ Shape
  /\ \A identity \in DOMAIN records : Holds(identity)
  /\ \A identity \in Identities : Survives(identity)
  /\ SlotsCounted
  /\ QueueWaits
  /\ DrainedOnce
  /\ TerminalRecorded
  /\ AnswersStand
  /\ UncertainIsLost
  /\ QuietAfterShutdown
  /\ NothingReturned

LEMMA InvariantParts == IInv => ServiceInv /\ ReturnedSurvives
<1> SUFFICES ASSUME IInv PROVE ServiceInv /\ ReturnedSurvives
  OBVIOUS
<1> USE DEF IInv
<1>1. \A identity \in DOMAIN records :
        Holds(identity) /\ identity \in Identities /\ records[identity] \in Records
  BY DEF Shape, ServiceTypeOK
<1>2. RecordsAgree
  BY <1>1 DEF Holds, RecordsAgree, Terminal
<1>3. ClosedStops
  BY <1>1 DEF Holds, Begins, ClosedStops, Begun, Shape, ServiceTypeOK
<1>4. ExitConfirmed
  BY <1>1 DEF Holds, ExitConfirmed, Shape, Terminal
<1>5. ReturnsAgree
  BY <1>1 DEF Holds, ReturnsAgree, NothingReturned
<1>6. ReturnedSurvives
  BY DEF Survives, ReturnedSurvives, OwnerInv, OwnerTypeOK
<1> QED BY <1>2, <1>3, <1>4, <1>5, <1>6 DEF ServiceInv, Shape

LEMMA IdentitiesAreFinite == IsFiniteSet(Identities)
<1> DEFINE Numbers == 1..(LastNext - 1)
           f == [n \in Numbers |-> Identity(n)]
<1>1. IsFiniteSet(Numbers)
  BY FS_Interval, OwnerAssumption
<1>2. \A identity \in Identities : \E n \in Numbers : identity = Identity(n)
  BY DEF Identities
<1>3. \A n \in Numbers : Identity(n) \in Identities
  BY DEF Identities
<1>4. f \in Surjection(Numbers, Identities)
  BY <1>2, <1>3 DEF Surjection
<1> HIDE DEF f, Numbers
<1> QED BY <1>1, <1>4, FS_Surjection

LEMMA InitIInv == ServiceInit => IInv
<1> SUFFICES ASSUME ServiceInit PROVE IInv
  OBVIOUS
<1> USE DEF ServiceInit
<1>1. OwnerInv /\ DOMAIN executions = {} /\ DOMAIN records = {}
  BY OwnerInitInv DEF OwnerInit
<1>2. Shape
  <2>1. records \in [DOMAIN records -> Records] /\ queue \in Seq(DOMAIN records)
    BY <1>1
  <2>2. calls \in [Callers -> Requests]
    BY DEF Requests
  <2> QED BY <1>1, <2>1, <2>2 DEF Shape, ServiceTypeOK
<1>3. Begun = {} /\ SlotsCounted
  BY <1>1, FS_EmptySet, ServiceAssumption DEF Begun, SlotsCounted
<1>4. \A identity \in Identities : Survives(identity)
  BY <1>1 DEF Survives, Terminal, Known
<1>5. QueueWaits /\ DrainedOnce
  BY DEF QueueWaits, DrainedOnce
<1>6. TerminalRecorded /\ UncertainIsLost
  BY <1>1 DEF TerminalRecorded, UncertainIsLost
<1>7. AnswersStand
  BY DEF AnswersStand, Idle
<1>8. QuietAfterShutdown /\ NothingReturned
  BY DEF QuietAfterShutdown, NothingReturned
<1> QED BY <1>1, <1>2, <1>3, <1>4, <1>5, <1>6, <1>7, <1>8 DEF IInv

-----------------------------------------------------------------------------
(* What a step leaves alone. *)

LEMMA NextGrows ==
  ASSUME OwnerInv, next' \in {next, next + 1}, NEW identity \in Identities
  PROVE  /\ next \in Nat /\ identity.execution \in Nat
         /\ identity.execution < next => identity.execution < next'
BY NextIsNat, IdentityNumber, OwnerAssumption DEF OwnerInv

LEMMA HoldsKept ==
  ASSUME NEW identity, Holds(identity), SameFor(identity),
         identity.execution < next',
         records'[identity] = records[identity],
         closed' = closed,
         identity \in closing' => identity \in closing,
         identity \in alive' <=> identity \in alive,
         returned'[identity] = returned[identity]
  PROVE  Holds(identity)'
BY DEF Holds, SameFor, Begins

LEMMA SurvivesKept ==
  ASSUME NEW identity, Survives(identity), SameFor(identity),
         returned'[identity] = returned[identity],
         HasRecord(identity)' => /\ HasRecord(identity)
                                 /\ records'[identity].stop = records[identity].stop
  PROVE  Survives(identity)'
BY DEF Survives, SameFor, Terminal, HasRecord

LEMMA NoReturnKept ==
  ASSUME IInv, next' \in {next, next + 1},
         \A i \in Identities : HasRecord(i) => HasRecord(i)',
         \A i \in Identities : ~HasRecord(i) =>
           /\ returned'[i] = returned[i]
           /\ i.execution < next => SameFor(i)
  PROVE  NothingReturned'
<1> SUFFICES ASSUME NEW i \in Identities, ~HasRecord(i)',
                    \/ i.execution >= next'
                    \/ Known(i)' /\ Latest(i)'.state = "Submitted"
             PROVE  returned'[i] = NoValue
  BY DEF NothingReturned
<1>1. ~HasRecord(i) /\ returned'[i] = returned[i]
  OBVIOUS
<1>2. /\ next \in Nat /\ i.execution \in Nat
      /\ i.execution < next => i.execution < next'
  BY NextGrows DEF IInv
<1>3. CASE i.execution >= next
  BY <1>1, <1>3 DEF IInv, NothingReturned
<1>4. CASE i.execution < next
  BY <1>1, <1>2, <1>4 DEF IInv, NothingReturned, SameFor
<1> QED BY <1>2, <1>3, <1>4

(* What the answers that are still to be applied say of an execution. *)
Unmet(identity) ==
  ~HasRecord(identity) /\ Known(identity) /\ Latest(identity).state = "Submitted"

Gone(identity) ==
  /\ ~Known(identity)
  /\ identity.execution < next
  /\ HasRecord(identity) => records[identity].done

LEMMA RequestType ==
  ASSUME NEW request \in Requests
  PROVE  /\ request.stage = "Answered" =>
              /\ request.operation \in {"Submit", "Cancel", "Release"}
              /\ request.identity \in Identities
         /\ request.stage = "Sent" /\ request.operation = "Submit" =>
              request.work \in Works
         /\ request.stage = "Sent" /\ request.operation \in {"Cancel", "Release"} =>
              request.identity \in Identities
BY DEF Requests, Idle

LEMMA AnswersKept ==
  ASSUME IInv, calls' \in [Callers -> Requests],
         \A c \in Callers : calls'[c].stage = "Answered" =>
           \/ calls'[c] = calls[c]
           \/ calls'[c].operation = "Cancel"
           \/ /\ calls'[c].operation = "Release"
              /\ \E i \in Identities : calls'[c].identity = i /\ Gone(i)',
         \A i \in Identities :
           (Unmet(i) => Unmet(i)') /\ (Gone(i) => Gone(i)')
  PROVE  AnswersStand'
<1>1. \A c \in Callers :
        calls[c].stage = "Answered" => calls[c].identity \in Identities
  BY RequestType DEF IInv, Shape, ServiceTypeOK
<1>2. ASSUME NEW c \in Callers, calls'[c].stage = "Answered",
             calls'[c].operation = "Submit"
      PROVE  calls'[c] = calls[c] /\ Unmet(calls[c].identity)
  BY <1>2 DEF IInv, AnswersStand, Unmet
<1>3. ASSUME NEW c \in Callers, calls'[c].stage = "Answered",
             calls'[c].operation = "Release"
      PROVE  \E i \in Identities : calls'[c].identity = i /\ Gone(i)'
  BY <1>1, <1>3 DEF IInv, AnswersStand, Gone
<1>4. ASSUME NEW c \in Callers, calls'[c].stage = "Answered",
             calls'[c].operation = "Submit"
      PROVE  \E i \in Identities : calls'[c].identity = i /\ Unmet(i)'
  BY <1>1, <1>2, <1>4
<1>5. \A c, d \in Callers :
        /\ calls'[c].stage = "Answered" /\ calls'[c].operation = "Submit"
        /\ calls'[d].stage = "Answered" /\ calls'[d].operation = "Submit"
        /\ calls'[c].identity = calls'[d].identity
        => c = d
  BY <1>2 DEF IInv, AnswersStand
<1> QED BY <1>3, <1>4, <1>5 DEF AnswersStand, Gone, Unmet

(* Steps that change the owner and the requests only. *)
LEMMA RecordsUntouched ==
  ASSUME IInv, OwnerInv',
         UNCHANGED <<records, queue, active, closed, uncertain, closing, shutdown,
                     alive, returned>>,
         next' \in {next, next + 1},
         calls' \in [Callers -> Requests],
         \A i \in Identities :
           \/ SameFor(i)
           \/ /\ Known(i)
              /\ Latest(i).state = "Terminal"
              /\ ~Known(i)'
           \/ /\ i.execution = next
              /\ Latest(i)'.state = "Submitted",
         AnswersStand'
  PROVE  IInv'
<1>1. Shape'
  BY DEF IInv, Shape, ServiceTypeOK
<1>2. ASSUME NEW i \in DOMAIN records PROVE Holds(i)'
  <2>1. Holds(i) /\ i \in Identities /\ i.execution < next
    BY DEF IInv, Shape, ServiceTypeOK, Holds
  <2>2. i.execution < next' /\ i.execution # next
    BY <2>1, NextGrows DEF IInv
  <2>3. CASE SameFor(i)
    BY <2>1, <2>2, <2>3, HoldsKept
  <2>4. CASE Known(i) /\ Latest(i).state = "Terminal" /\ ~Known(i)'
    BY <2>1, <2>2, <2>4 DEF Holds, Begins, Records, Tasks
  <2> QED BY <2>1, <2>2, <2>3, <2>4
<1>3. ASSUME NEW i \in Identities PROVE Survives(i)'
  <2>1. Survives(i)
    BY DEF IInv
  <2>2. CASE SameFor(i)
    BY <2>1, <2>2, SurvivesKept DEF HasRecord
  <2> QED BY <2>2 DEF Survives, Terminal
<1>4. TerminalRecorded'
  <2> SUFFICES ASSUME NEW i \in DOMAIN executions', Terminal(i)'
               PROVE  HasRecord(i)' /\ records'[i].done
    BY DEF TerminalRecorded
  <2>1. i \in Identities
    BY DEF OwnerInv, OwnerTypeOK
  <2>2. SameFor(i)
    BY <2>1 DEF Terminal
  <2>3. i \in DOMAIN executions /\ Terminal(i)
    BY <2>2 DEF SameFor, Terminal, Known
  <2> QED BY <2>3 DEF IInv, TerminalRecorded, HasRecord
<1>5. NothingReturned'
  <2> SUFFICES ASSUME NEW i \in Identities, ~HasRecord(i)',
                      \/ i.execution >= next'
                      \/ Known(i)' /\ Latest(i)'.state = "Submitted"
               PROVE  returned'[i] = NoValue
    BY DEF NothingReturned
  <2>1. ~HasRecord(i) /\ returned'[i] = returned[i]
    BY DEF HasRecord
  <2>2. next \in Nat /\ i.execution \in Nat
    BY NextGrows DEF IInv
  <2>3. CASE SameFor(i)
    BY <2>1, <2>2, <2>3 DEF IInv, NothingReturned, SameFor
  <2>4. CASE i.execution = next
    BY <2>1, <2>2, <2>4 DEF IInv, NothingReturned
  <2>5. CASE Known(i) /\ ~Known(i)'
    <3>1. i.execution < next
      BY <2>5 DEF IInv, OwnerInv, PlansGoWithRunning
    <3> QED BY <2>2, <2>5, <3>1
  <2> QED BY <2>3, <2>4, <2>5
<1>6. SlotsCounted' /\ QueueWaits' /\ DrainedOnce' /\ UncertainIsLost' /\ QuietAfterShutdown'
  <2>1. Begun' = Begun
    BY DEF Begun
  <2> QED BY <2>1 DEF IInv, SlotsCounted, QueueWaits, DrainedOnce, UncertainIsLost,
             QuietAfterShutdown
<1> QED BY <1>1, <1>2, <1>3, <1>4, <1>5, <1>6 DEF IInv

-----------------------------------------------------------------------------
(* Requests, and the answers of the owner. *)

(* A request is sent or abandoned: nothing but the caller changes. *)
LEMMA CallsOnly ==
  ASSUME IInv, NEW c \in Callers, NEW request \in Requests,
         request.stage # "Answered",
         calls' = [calls EXCEPT ![c] = request],
         UNCHANGED <<ownerVars, records, queue, active, closed, uncertain, closing,
                     shutdown, alive, returned>>
  PROVE  IInv'
<1>1. calls \in [Callers -> Requests]
  BY DEF IInv, Shape, ServiceTypeOK
<1>2. /\ calls' \in [Callers -> Requests]
      /\ \A d \in Callers : calls'[d].stage = "Answered" => calls'[d] = calls[d]
  BY <1>1
<1>3. next' = next /\ \A i : SameFor(i)
  BY OwnerUnchanged
<1>4. OwnerInv'
  BY OwnerStepInv DEF IInv
<1>5. \A i \in Identities : (Unmet(i) => Unmet(i)') /\ (Gone(i) => Gone(i)')
  BY <1>3 DEF Unmet, Gone, SameFor, HasRecord
<1>6. AnswersStand'
  BY <1>2, <1>5, AnswersKept
<1> QED BY <1>2, <1>3, <1>4, <1>6, RecordsUntouched

LEMMA IdleIsRequest == Idle \in Requests /\ Idle.stage # "Answered"
BY DEF Requests, Idle

LEMMA RequestSubmitKeeps ==
  ASSUME IInv, NEW c \in Callers, NEW work \in Works, RequestSubmit(c, work)
  PROVE  IInv'
<1> DEFINE request == [stage |-> "Sent", operation |-> "Submit", work |-> work]
<1>1. request \in Requests /\ request.stage # "Answered"
  BY DEF Requests
<1>2. /\ calls' = [calls EXCEPT ![c] = request]
      /\ UNCHANGED <<ownerVars, records, queue, active, closed, uncertain, closing,
                     shutdown, alive, returned>>
  BY DEF RequestSubmit, Ask
<1> QED BY <1>1, <1>2, CallsOnly

LEMMA RequestOnKeeps ==
  ASSUME IInv, NEW c \in Callers, NEW operation \in {"Cancel", "Release"},
         NEW identity \in Identities, RequestOn(c, operation, identity)
  PROVE  IInv'
<1> DEFINE request == [stage |-> "Sent", operation |-> operation,
                       identity |-> identity]
<1>1. request \in Requests /\ request.stage # "Answered"
  BY DEF Requests
<1>2. /\ calls' = [calls EXCEPT ![c] = request]
      /\ UNCHANGED <<ownerVars, records, queue, active, closed, uncertain, closing,
                     shutdown, alive, returned>>
  BY DEF RequestOn, Ask
<1> QED BY <1>1, <1>2, CallsOnly

LEMMA AbandonKeeps ==
  ASSUME IInv, NEW c \in Callers, Abandon(c)
  PROVE  IInv'
<1>1. /\ calls' = [calls EXCEPT ![c] = Idle]
      /\ UNCHANGED <<ownerVars, records, queue, active, closed, uncertain, closing,
                     shutdown, alive, returned>>
  BY DEF Abandon
<1> QED BY <1>1, CallsOnly, IdleIsRequest

LEMMA AnswerFacts ==
  ASSUME IInv, NEW c \in Callers, NEW operation \in {"Submit", "Cancel", "Release"},
         NEW identity \in Identities, Answer(c, operation, identity)
  PROVE  /\ calls[c] \in Requests
         /\ calls[c].stage = "Sent" /\ calls[c].operation = operation
         /\ calls' \in [Callers -> Requests]
         /\ calls'[c].stage = "Answered"
         /\ calls'[c].operation = operation
         /\ calls'[c].identity = identity
         /\ \A d \in Callers \ {c} : calls'[d] = calls[d]
         /\ UNCHANGED <<records, queue, active, closed, uncertain, closing,
                        shutdown, alive, returned>>
<1> DEFINE request == [stage |-> "Answered", operation |-> operation,
                       identity |-> identity]
<1>1. calls \in [Callers -> Requests]
  BY DEF IInv, Shape, ServiceTypeOK
<1>2. request \in Requests
  BY DEF Requests
<1>3. calls' = [calls EXCEPT ![c] = request]
  BY DEF Answer
<1> QED BY <1>1, <1>2, <1>3 DEF Answer

(* The new execution has no record yet, and no other answer is its own.    *)
LEMMA AnswerSubmitKeeps ==
  ASSUME IInv, NEW c \in Callers, AnswerSubmit(c)
  PROVE  IInv' /\ [OwnerNext]_ownerVars
<1>1. calls[c] \in Requests /\ calls[c].stage = "Sent" /\ calls[c].operation = "Submit"
  BY DEF AnswerSubmit, Answer, IInv, Shape, ServiceTypeOK
<1>2. PICK work \in Works : work = calls[c].work
  BY <1>1, RequestType
<1>3. Submit(work)
  BY <1>2 DEF AnswerSubmit
<1>4. OwnerNext /\ OwnerInv'
  BY <1>3, OwnerStepInv DEF OwnerNext, IInv
<1>5. PICK new \in Identities :
        /\ new = Identity(next)
        /\ new.execution = next
        /\ ~Known(new)
        /\ Known(new)'
        /\ Latest(new)'.state = "Submitted"
        /\ \A i \in Identities \ {new} : SameFor(i)
  BY <1>3, SubmitEffect DEF IInv
<1>6. next' = next + 1 /\ next \in Nat
  BY <1>3, SubmitEffect, NextIsNat DEF IInv, OwnerInv
<1>7. Answer(c, "Submit", new)
  BY <1>5 DEF AnswerSubmit
<1>8. /\ calls' \in [Callers -> Requests]
      /\ calls'[c].stage = "Answered"
      /\ calls'[c].operation = "Submit"
      /\ calls'[c].identity = new
      /\ \A d \in Callers \ {c} : calls'[d] = calls[d]
      /\ UNCHANGED <<records, queue, active, closed, uncertain, closing,
                     shutdown, alive, returned>>
  BY <1>7, AnswerFacts
<1>9. ~HasRecord(new)
  <2>1. \A i \in DOMAIN records : i.execution < next
    BY DEF IInv, Holds
  <2> QED BY <1>5, <1>6, <2>1 DEF HasRecord
<1>10. AnswersStand'
  <2>1. \A i \in Identities : Unmet(i) => i # new /\ Unmet(i)'
    BY <1>5, <1>8 DEF Unmet, SameFor, HasRecord
  <2>2. \A i \in Identities : Gone(i) => i # new /\ Gone(i)'
    BY <1>5, <1>6, <1>8, NextGrows DEF IInv, Gone, SameFor, HasRecord
  <2>3. Unmet(new)'
    BY <1>5, <1>8, <1>9 DEF Unmet, HasRecord
  <2>4. \A d \in Callers : calls[d].stage = "Answered" =>
          calls[d].identity \in Identities
    BY RequestType DEF IInv, Shape, ServiceTypeOK
  <2>5. ASSUME NEW d \in Callers \ {c}, calls'[d].stage = "Answered"
        PROVE  \E i \in Identities :
                 /\ calls'[d].identity = i
                 /\ calls'[d].operation = "Submit" => i # new /\ Unmet(i)'
                 /\ calls'[d].operation = "Release" => Gone(i)'
    <3>1. PICK i \in Identities : calls[d].identity = i
      BY <1>8, <2>4, <2>5
    <3>2. /\ calls[d].operation = "Submit" => Unmet(i)
          /\ calls[d].operation = "Release" => Gone(i)
      BY <1>8, <2>5, <3>1 DEF IInv, AnswersStand, Unmet, Gone
    <3> QED BY <1>8, <2>1, <2>2, <3>1, <3>2
  <2>6. \A d \in Callers \ {c} :
          calls'[d].stage = "Answered" /\ calls'[d].operation = "Submit" =>
            calls'[d].identity # new
    BY <2>5
  <2>7. \A d, e \in Callers :
          /\ calls'[d].stage = "Answered" /\ calls'[d].operation = "Submit"
          /\ calls'[e].stage = "Answered" /\ calls'[e].operation = "Submit"
          /\ calls'[d].identity = calls'[e].identity
          => d = e
    BY <1>8, <2>6 DEF IInv, AnswersStand
  <2>8. ASSUME NEW d \in Callers, calls'[d].stage = "Answered"
        PROVE  \E i \in Identities :
                 /\ calls'[d].identity = i
                 /\ calls'[d].operation = "Submit" => Unmet(i)'
                 /\ calls'[d].operation = "Release" => Gone(i)'
    BY <1>8, <2>3, <2>5, <2>8
  <2> QED BY <2>7, <2>8 DEF AnswersStand, Unmet, Gone
<1>11. \A i \in Identities :
         SameFor(i) \/ (i.execution = next /\ Latest(i)'.state = "Submitted")
  BY <1>5
<1> QED BY <1>4, <1>6, <1>8, <1>10, <1>11, RecordsUntouched

LEMMA AnswerCancelKeeps ==
  ASSUME IInv, NEW c \in Callers, AnswerCancel(c)
  PROVE  IInv' /\ [OwnerNext]_ownerVars
<1>1. calls[c] \in Requests /\ calls[c].stage = "Sent" /\ calls[c].operation = "Cancel"
  BY DEF AnswerCancel, Answer, IInv, Shape, ServiceTypeOK
<1>2. PICK identity \in Identities : identity = calls[c].identity
  BY <1>1, RequestType
<1>3. Cancel(identity) /\ Answer(c, "Cancel", identity)
  BY <1>2 DEF AnswerCancel
<1>4. OwnerNext /\ OwnerInv'
  BY <1>3, OwnerStepInv DEF OwnerNext, IInv
<1>5. next' = next /\ \A i \in Identities : SameFor(i)
  BY <1>3, CancelEffect DEF IInv
<1>6. /\ calls' \in [Callers -> Requests]
      /\ calls'[c].operation = "Cancel"
      /\ \A d \in Callers \ {c} : calls'[d] = calls[d]
      /\ UNCHANGED <<records, queue, active, closed, uncertain, closing,
                     shutdown, alive, returned>>
  BY <1>3, AnswerFacts
<1>7. \A i \in Identities : (Unmet(i) => Unmet(i)') /\ (Gone(i) => Gone(i)')
  BY <1>5, <1>6 DEF Unmet, Gone, SameFor, HasRecord
<1>8. AnswersStand'
  BY <1>6, <1>7, AnswersKept
<1> QED BY <1>4, <1>5, <1>6, <1>8, RecordsUntouched

(* What is released had ended, and its record is done. *)
LEMMA AnswerReleaseKeeps ==
  ASSUME IInv, NEW c \in Callers, AnswerRelease(c)
  PROVE  IInv' /\ [OwnerNext]_ownerVars
<1>1. calls[c] \in Requests /\ calls[c].stage = "Sent" /\ calls[c].operation = "Release"
  BY DEF AnswerRelease, Answer, IInv, Shape, ServiceTypeOK
<1>2. PICK identity \in Identities : identity = calls[c].identity
  BY <1>1, RequestType
<1>3. Release(identity) /\ Answer(c, "Release", identity)
  BY <1>2 DEF AnswerRelease
<1>4. OwnerNext /\ OwnerInv'
  BY <1>3, OwnerStepInv DEF OwnerNext, IInv
<1>5. /\ next' = next
      /\ Known(identity)
      /\ identity.execution < next
      /\ Latest(identity).state = "Terminal"
      /\ ~Known(identity)'
      /\ \A i \in Identities \ {identity} : SameFor(i)
  BY <1>3, ReleaseEffect DEF IInv
<1>6. /\ calls' \in [Callers -> Requests]
      /\ calls'[c].operation = "Release"
      /\ calls'[c].identity = identity
      /\ \A d \in Callers \ {c} : calls'[d] = calls[d]
      /\ UNCHANGED <<records, queue, active, closed, uncertain, closing,
                     shutdown, alive, returned>>
  BY <1>3, AnswerFacts
<1>7. HasRecord(identity) => records[identity].done
  BY <1>5 DEF IInv, TerminalRecorded, Terminal, Known
<1>8. Gone(identity)'
  BY <1>5, <1>6, <1>7 DEF Gone, HasRecord
<1>9. \A i \in Identities : (Unmet(i) => Unmet(i)') /\ (Gone(i) => Gone(i)')
  BY <1>5, <1>6 DEF Unmet, Gone, SameFor, HasRecord
<1>10. AnswersStand'
  BY <1>6, <1>8, <1>9, AnswersKept
<1> QED BY <1>4, <1>5, <1>6, <1>10, RecordsUntouched

-----------------------------------------------------------------------------
(* A run goes on. *)

LEMMA RecordType ==
  ASSUME IInv, NEW identity \in DOMAIN records
  PROVE  /\ identity \in Identities
         /\ Holds(identity)
         /\ records[identity] \in Records
         /\ records \in [DOMAIN records -> Records]
         /\ HasRecord(identity)
BY DEF IInv, Shape, ServiceTypeOK, HasRecord

(* A record that begins to run, or runs, is not done. *)
LEMMA BegunFacts ==
  ASSUME IInv, NEW identity \in Begun
  PROVE  /\ identity \in DOMAIN records
         /\ identity \in Identities
         /\ Holds(identity)
         /\ records[identity] \in Records
         /\ ~records[identity].done
         /\ Known(identity)
         /\ Latest(identity).state \in {"Submitted", "Running"}
         /\ identity \notin closing
         /\ shutdown # "Returned"
<1>1. /\ identity \in DOMAIN records
      /\ records[identity].task \notin {"None", "Ended"}
  BY DEF Begun
<1>2. Holds(identity) /\ records[identity] \in Records
  BY <1>1, RecordType
<1>3. shutdown # "Returned"
  BY DEF IInv, QuietAfterShutdown
<1> QED BY <1>1, <1>2, <1>3, RecordType DEF Holds, Records, Tasks

(* One run moves on, and stays begun. *)
LEMMA MoveKeeps ==
  ASSUME IInv, OwnerInv', NEW identity \in Begun,
         records' \in [DOMAIN records -> Records],
         \A i \in DOMAIN records \ {identity} : records'[i] = records[i],
         Begins(records'[identity]),
         next' = next,
         \A i \in Identities \ {identity} : SameFor(i),
         UNCHANGED <<queue, active, closed, closing, shutdown>>,
         alive' \in SUBSET DOMAIN records,
         \A i \in DOMAIN records \ {identity} : i \in alive' <=> i \in alive,
         returned' \in [Identities -> Values \cup {NoValue}],
         \A i \in Identities \ {identity} : returned'[i] = returned[i],
         calls' \in [Callers -> Requests],
         \A c \in Callers : calls'[c].stage = "Answered" => calls'[c] = calls[c],
         Holds(identity)',
         uncertain' \in BOOLEAN, uncertain => uncertain',
         UncertainIsLost'
  PROVE  IInv'
<1>1. /\ identity \in DOMAIN records /\ identity \in Identities
      /\ Known(identity) /\ ~records[identity].done
      /\ shutdown # "Returned"
  BY BegunFacts
<1>2. DOMAIN records' = DOMAIN records
  OBVIOUS
<1>3. ~records'[identity].done
  BY DEF Holds, Begins
<1>4. Shape'
  BY <1>2 DEF IInv, Shape, ServiceTypeOK
<1>5. ASSUME NEW i \in DOMAIN records' PROVE Holds(i)'
  <2>1. CASE i # identity
    <3>1. Holds(i) /\ i.execution < next /\ i \in Identities
      BY <1>2, RecordType DEF Holds
    <3> QED BY <1>2, <2>1, <3>1, HoldsKept
  <2> QED BY <2>1
<1>6. ASSUME NEW i \in Identities PROVE Survives(i)'
  <2>1. CASE i = identity
    <3>1. Latest(identity)'.state # "Terminal"
      BY <1>3 DEF Holds, Records, Tasks, Begins
    <3> QED BY <2>1, <3>1 DEF Survives, Terminal
  <2>2. CASE i # identity
    BY <1>2, <2>2, SurvivesKept DEF HasRecord, IInv
  <2> QED BY <2>1, <2>2
<1>7. Begun' = Begun
  BY <1>2 DEF Begun, Begins
<1>8. SlotsCounted' /\ QuietAfterShutdown'
  BY <1>1, <1>7 DEF IInv, SlotsCounted, QuietAfterShutdown
<1>9. QueueWaits'
  <2>1. \A k \in 1..Len(queue) : queue[k] \in DOMAIN records
    BY DEF IInv, Shape, ServiceTypeOK
  <2>2. \A k \in 1..Len(queue) : queue[k] # identity
    BY DEF Begun, IInv, QueueWaits
  <2> QED BY <2>1, <2>2 DEF IInv, QueueWaits
<1>10. DrainedOnce'
  BY DEF IInv, DrainedOnce
<1>11. TerminalRecorded'
  <2> SUFFICES ASSUME NEW i \in DOMAIN executions', Terminal(i)'
               PROVE  HasRecord(i)' /\ records'[i].done
    BY DEF TerminalRecorded
  <2>1. i \in Identities
    BY DEF OwnerInv, OwnerTypeOK
  <2>2. i # identity
    BY <1>3 DEF Holds, Records, Tasks, Begins, Terminal
  <2>3. i \in DOMAIN executions /\ Terminal(i)
    BY <2>1, <2>2 DEF SameFor, Terminal, Known
  <2> QED BY <1>2, <2>2, <2>3 DEF IInv, TerminalRecorded, HasRecord
<1>12. AnswersStand'
  <2>1. \A i \in Identities : (Unmet(i) => Unmet(i)') /\ (Gone(i) => Gone(i)')
    BY <1>1, <1>2 DEF Unmet, Gone, SameFor, HasRecord
  <2> QED BY <2>1, AnswersKept
<1>13. NothingReturned'
  <2>1. \A i \in Identities : HasRecord(i) => HasRecord(i)'
    BY <1>2 DEF HasRecord
  <2>2. \A i \in Identities : ~HasRecord(i) => i # identity
    BY <1>1 DEF HasRecord
  <2> QED BY <2>1, <2>2, NoReturnKept
<1> QED BY <1>4, <1>5, <1>6, <1>8, <1>9, <1>10, <1>11, <1>12, <1>13 DEF IInv

(* The same, where neither the owner nor the requests are involved. *)
LEMMA TaskKeeps ==
  ASSUME IInv, NEW identity \in Begun, NEW record \in Records, Begins(record),
         records' = [records EXCEPT ![identity] = record],
         record.task = "Lost" <=> records[identity].task = "Lost",
         UNCHANGED <<ownerVars, queue, active, uncertain, closed, closing, shutdown>>,
         alive' \in SUBSET DOMAIN records,
         \A i \in DOMAIN records \ {identity} : i \in alive' <=> i \in alive,
         returned' \in [Identities -> Values \cup {NoValue}],
         \A i \in Identities \ {identity} : returned'[i] = returned[i],
         calls' \in [Callers -> Requests],
         \A c \in Callers : calls'[c].stage = "Answered" => calls'[c] = calls[c],
         Holds(identity)'
  PROVE  IInv'
<1>1. identity \in DOMAIN records /\ records \in [DOMAIN records -> Records]
  BY BegunFacts, RecordType
<1>2. /\ records' \in [DOMAIN records -> Records]
      /\ records'[identity] = record
      /\ \A i \in DOMAIN records \ {identity} : records'[i] = records[i]
      /\ DOMAIN records' = DOMAIN records
  BY <1>1
<1>3. OwnerInv' /\ next' = next /\ \A i : SameFor(i)
  BY OwnerUnchanged, OwnerStepInv DEF IInv
<1>4. UncertainIsLost'
  BY <1>1, <1>2 DEF IInv, UncertainIsLost
<1>5. uncertain \in BOOLEAN
  BY DEF IInv, Shape, ServiceTypeOK
<1> QED BY <1>2, <1>3, <1>4, <1>5, MoveKeeps

LEMMA StopType ==
  ASSUME NEW record \in Records, NEW reason \in {"cancel", "shutdown", "fault"}
  PROVE  /\ Stop(record, reason) \in Records
         /\ Stop(record, reason).task = record.task
         /\ Stop(record, reason).done = record.done
         /\ Stop(record, reason).captured = record.captured
         /\ Stop(record, reason).code = record.code
         /\ Stop(record, reason).stop \in {record.stop, reason}
         /\ Stop(record, reason).stop # ""
         /\ record.stop # "" => Stop(record, reason).stop = record.stop
BY DEF Stop, Records, Stops

(* What a step of a run says, and leaves alone. *)
LEMMA RunningFacts ==
  ASSUME IInv, NEW identity \in Identities, NEW task, Running(identity, task)
  PROVE  /\ identity \in DOMAIN records
         /\ records[identity].task = task
         /\ closing = {}
         /\ UNCHANGED <<closed, calls, closing, shutdown>>
         /\ calls' \in [Callers -> Requests]
         /\ task \notin {"None", "Ended"} => identity \in Begun
         /\ alive \subseteq DOMAIN records
         /\ returned \in [Identities -> Values \cup {NoValue}]
BY DEF Running, Awake, HasRecord, Begun, IInv, Shape, ServiceTypeOK

LEMMA ClaimRecordFacts ==
  ASSUME IInv, NEW identity \in Identities, Claimable(identity), ClaimRecord(identity)
  PROVE  Take(identity) /\ OwnerNext
<1> DEFINE kind == executions[identity].work.kind
<1>1. /\ Known(identity)
      /\ identity \in DOMAIN executions
      /\ executions[identity].work \in Works
  BY ExecutionType DEF Claimable, Known, IInv, OwnerInv
<1>2. kind \in Kinds
  BY <1>1, OwnerAssumption
<1>3. CASE kind = "Legacy"
  <2>1. Claim(identity)
    BY <1>3 DEF ClaimRecord
  <2> QED BY <2>1 DEF Claim, OwnerNext
<1>4. CASE kind # "Legacy"
  <2>1. ClaimScheme(identity, identity.execution, kind)
    BY <1>4 DEF ClaimRecord
  <2>2. kind \in Policies
    BY <1>2, <1>4 DEF Kinds
  <2>3. identity.execution \in 1..(LastNext - 1)
    BY IdentityNumber
  <2> QED BY <2>1, <2>2, <2>3 DEF ClaimScheme, OwnerNext
<1> QED BY <1>3, <1>4

LEMMA BeginRunKeeps ==
  ASSUME IInv, NEW identity \in Identities, BeginRun(identity)
  PROVE  IInv' /\ [OwnerNext]_ownerVars
<1>1. /\ identity \in DOMAIN records
      /\ records[identity].task = "Spawned"
      /\ records[identity].stop = ""
      /\ identity \in Begun
      /\ UNCHANGED <<closed, calls, closing, shutdown>>
      /\ calls' \in [Callers -> Requests]
      /\ alive \subseteq DOMAIN records
      /\ returned \in [Identities -> Values \cup {NoValue}]
  <2>1. Running(identity, "Spawned")
    BY DEF BeginRun
  <2>2. /\ identity \in DOMAIN records
        /\ records[identity].task = "Spawned"
        /\ identity \in Begun
    BY <2>1, RunningFacts
  <2>3. /\ UNCHANGED <<closed, calls, closing, shutdown>>
        /\ calls' \in [Callers -> Requests]
    BY <2>1, RunningFacts
  <2>4. /\ alive \subseteq DOMAIN records
        /\ returned \in [Identities -> Values \cup {NoValue}]
    BY <2>1, RunningFacts
  <2> QED BY <2>2, <2>3, <2>4 DEF BeginRun
<1>2. /\ Take(identity) /\ OwnerNext
      /\ UNCHANGED <<queue, active, uncertain, alive, returned>>
  BY ClaimRecordFacts DEF BeginRun
<1>3. OwnerInv'
  BY <1>2, OwnerStepInv DEF IInv
<1>4. /\ next' = next
      /\ Known(identity)'
      /\ Latest(identity)'.state = "Running"
      /\ \A i \in Identities \ {identity} : SameFor(i)
  BY <1>1, <1>2, BegunFacts, TakeEffect DEF IInv
<1> DEFINE record == [records[identity] EXCEPT !.task = "Claimed"]
<1>5. record \in Records /\ Begins(record) /\ records[identity] \in Records
  BY <1>1, BegunFacts DEF Records, Tasks, Begins
<1>6. /\ records' \in [DOMAIN records -> Records]
      /\ records'[identity] = record
      /\ \A i \in DOMAIN records \ {identity} : records'[i] = records[i]
      /\ DOMAIN records' = DOMAIN records
  BY <1>1, <1>5, RecordType DEF BeginRun
<1>7. /\ record.task = "Claimed" /\ record.done = records[identity].done
      /\ record.stop = records[identity].stop
      /\ record.captured = records[identity].captured
  BY <1>5 DEF Records
<1> HIDE DEF record
<1>8. Holds(identity)'
  BY <1>1, <1>2, <1>4, <1>5, <1>6, <1>7, BegunFacts DEF Holds, Begins
<1>9. UncertainIsLost'
  BY <1>1, <1>2, <1>6, <1>7 DEF IInv, UncertainIsLost
<1>10. uncertain \in BOOLEAN
  BY DEF IInv, Shape, ServiceTypeOK
<1> QED BY <1>1, <1>2, <1>3, <1>4, <1>5, <1>6, <1>8, <1>9, <1>10, MoveKeeps

LEMMA StartChildKeeps ==
  ASSUME IInv, NEW identity \in Identities, StartChild(identity)
  PROVE  IInv'
<1>1. /\ identity \in DOMAIN records
      /\ records[identity].task = "Claimed"
      /\ identity \in Begun
      /\ UNCHANGED <<closed, calls, closing, shutdown>>
      /\ calls' \in [Callers -> Requests]
      /\ alive' \in SUBSET DOMAIN records
      /\ alive' = alive \cup {identity}
      /\ returned' \in [Identities -> Values \cup {NoValue}]
      /\ UNCHANGED <<ownerVars, queue, active, uncertain, returned>>
  BY RunningFacts DEF StartChild
<1> DEFINE record == [records[identity] EXCEPT !.task = "Child"]
<1>2. records' = [records EXCEPT ![identity] = record]
  BY DEF StartChild
<1>3. /\ record \in Records /\ record.task = "Child"
      /\ record.done = records[identity].done
      /\ record.stop = records[identity].stop
      /\ record.captured = records[identity].captured
  BY <1>1, BegunFacts DEF Records, Tasks
<1> HIDE DEF record
<1>4. records'[identity] = record
  BY <1>1, <1>2, RecordType
<1>5. Holds(identity)'
  BY <1>1, <1>3, <1>4, BegunFacts, OwnerUnchanged DEF Holds, Begins, SameFor
<1> QED BY <1>1, <1>2, <1>3, <1>5, TaskKeeps DEF Begins

LEMMA FaultyChildKeeps ==
  ASSUME IInv, NEW identity \in Identities, FaultyChild(identity)
  PROVE  IInv'
<1>1. /\ identity \in DOMAIN records
      /\ records[identity].task \in {"Child", "Exited"}
      /\ identity \in Begun
      /\ UNCHANGED <<closed, calls, closing, shutdown>>
      /\ calls' \in [Callers -> Requests]
      /\ alive' \in SUBSET DOMAIN records
      /\ returned' \in [Identities -> Values \cup {NoValue}]
      /\ UNCHANGED <<ownerVars, queue, active, uncertain, alive, returned>>
  BY RunningFacts DEF FaultyChild
<1> DEFINE record == Stop(records[identity], "fault")
<1>2. records' = [records EXCEPT ![identity] = record]
  BY DEF FaultyChild
<1>3. /\ record \in Records /\ record.task = records[identity].task
      /\ record.done = records[identity].done
      /\ record.stop # ""
      /\ record.captured = records[identity].captured
  BY <1>1, BegunFacts, StopType
<1> HIDE DEF record
<1>4. records'[identity] = record
  BY <1>1, <1>2, RecordType
<1>5. Holds(identity)'
  BY <1>1, <1>3, <1>4, BegunFacts, OwnerUnchanged DEF Holds, Begins, SameFor
<1> QED BY <1>1, <1>2, <1>3, <1>5, TaskKeeps DEF Begins

LEMMA CaptureFrameKeeps ==
  ASSUME IInv, NEW identity \in Identities, NEW value \in Values,
         CaptureFrame(identity, value)
  PROVE  IInv'
<1>1. /\ identity \in DOMAIN records
      /\ records[identity].task \in {"Child", "Exited"}
      /\ identity \in Begun
      /\ UNCHANGED <<closed, calls, closing, shutdown>>
      /\ calls' \in [Callers -> Requests]
      /\ alive' \in SUBSET DOMAIN records
      /\ returned \in [Identities -> Values \cup {NoValue}]
      /\ UNCHANGED <<ownerVars, queue, active, uncertain, alive>>
  BY RunningFacts DEF CaptureFrame
<1>2. /\ returned' \in [Identities -> Values \cup {NoValue}]
      /\ returned'[identity] = value
      /\ \A i \in Identities \ {identity} : returned'[i] = returned[i]
  BY <1>1 DEF CaptureFrame
<1> DEFINE record == [records[identity] EXCEPT !.captured = value]
<1>3. records' = [records EXCEPT ![identity] = record]
  BY DEF CaptureFrame
<1>4. /\ record \in Records /\ record.task = records[identity].task
      /\ record.done = records[identity].done
      /\ record.stop = records[identity].stop
      /\ record.captured = value
  BY <1>1, BegunFacts DEF Records
<1> HIDE DEF record
<1>5. records'[identity] = record
  BY <1>1, <1>3, RecordType
<1>6. Holds(identity)'
  BY <1>1, <1>2, <1>4, <1>5, BegunFacts, OwnerUnchanged DEF Holds, Begins, SameFor
<1> QED BY <1>1, <1>2, <1>3, <1>4, <1>6, TaskKeeps DEF Begins

LEMMA ExitChildKeeps ==
  ASSUME IInv, NEW identity \in Identities, NEW code \in {0, 1},
         ExitChild(identity, code)
  PROVE  IInv'
<1>1. /\ identity \in DOMAIN records
      /\ records[identity].task = "Child"
      /\ identity \in Begun
      /\ UNCHANGED <<closed, calls, closing, shutdown>>
      /\ calls' \in [Callers -> Requests]
      /\ alive' \in SUBSET DOMAIN records
      /\ alive' = alive \ {identity}
      /\ returned' \in [Identities -> Values \cup {NoValue}]
      /\ UNCHANGED <<ownerVars, queue, active, uncertain, returned>>
  BY RunningFacts DEF ExitChild
<1> DEFINE record == [records[identity] EXCEPT !.task = "Exited", !.code = code]
<1>2. records' = [records EXCEPT ![identity] = record]
  BY <1>1, RecordType DEF ExitChild
<1>3. /\ record \in Records /\ record.task = "Exited"
      /\ record.done = records[identity].done
      /\ record.stop = records[identity].stop
      /\ record.captured = records[identity].captured
  BY <1>1, BegunFacts DEF Records, Tasks
<1> HIDE DEF record
<1>4. records'[identity] = record
  BY <1>1, <1>2, RecordType
<1>5. Holds(identity)'
  BY <1>1, <1>3, <1>4, BegunFacts, OwnerUnchanged DEF Holds, Begins, SameFor
<1> QED BY <1>1, <1>2, <1>3, <1>5, TaskKeeps DEF Begins

(* Only this step makes the service uncertain. *)
LEMMA LoseChildKeeps ==
  ASSUME IInv, NEW identity \in Identities, LoseChild(identity)
  PROVE  IInv'
<1>1. /\ identity \in DOMAIN records
      /\ records[identity].task = "Child"
      /\ identity \in Begun
      /\ UNCHANGED <<closed, calls, closing, shutdown>>
      /\ calls' \in [Callers -> Requests]
      /\ alive' \in SUBSET DOMAIN records
      /\ returned' \in [Identities -> Values \cup {NoValue}]
      /\ UNCHANGED <<ownerVars, queue, active, alive, returned>>
      /\ uncertain' = TRUE
  BY RunningFacts DEF LoseChild
<1> DEFINE stopped == Stop(records[identity], "fault")
           record == [stopped EXCEPT !.task = "Lost"]
<1>2. records' = [records EXCEPT ![identity] = record]
  BY DEF LoseChild
<1>3. /\ stopped \in Records
      /\ stopped.done = records[identity].done
      /\ stopped.stop # ""
      /\ stopped.captured = records[identity].captured
  BY <1>1, BegunFacts, StopType
<1>4. /\ record \in Records /\ record.task = "Lost"
      /\ record.done = records[identity].done
      /\ record.stop # ""
      /\ record.captured = records[identity].captured
  <2> HIDE DEF stopped
  <2> QED BY <1>3 DEF Records, Tasks
<1> HIDE DEF record
<1>5. /\ records' \in [DOMAIN records -> Records]
      /\ records'[identity] = record
      /\ \A i \in DOMAIN records \ {identity} : records'[i] = records[i]
      /\ DOMAIN records' = DOMAIN records
  BY <1>1, <1>2, <1>4, RecordType
<1>6. Holds(identity)'
  BY <1>1, <1>4, <1>5, BegunFacts, OwnerUnchanged DEF Holds, Begins, SameFor
<1>7. UncertainIsLost'
  BY <1>1, <1>4, <1>5 DEF UncertainIsLost
<1>8. OwnerInv' /\ next' = next /\ \A i : SameFor(i)
  BY <1>1, OwnerUnchanged, OwnerStepInv DEF IInv
<1> QED BY <1>1, <1>4, <1>5, <1>6, <1>7, <1>8, MoveKeeps DEF Begins

-----------------------------------------------------------------------------
(* A free worker takes the first record that waits. *)

WaitsIn(after, waiting) ==
  /\ \A k \in 1..Len(waiting) :
       after[waiting[k]].task = "None" /\ ~after[waiting[k]].done
  /\ \A j, k \in 1..Len(waiting) : waiting[j] = waiting[k] => j = k

BegunIn(after) == {i \in DOMAIN after : Begins(after[i])}

LEMMA DrainCases ==
  ASSUME NEW after, NEW waiting, NEW n, Drain(after, waiting, n)
  PROVE  \/ /\ closed \/ uncertain' \/ n >= Workers \/ waiting = << >>
            /\ records' = after
            /\ queue' = waiting
            /\ active' = n
         \/ /\ ~closed /\ ~uncertain' /\ ~(n >= Workers) /\ waiting # << >>
            /\ records' = [after EXCEPT ![Head(waiting)].task = "Spawned"]
            /\ queue' = Tail(waiting)
            /\ active' = n + 1
BY DEF Drain

LEMMA DrainKeeps ==
  ASSUME NEW S \in SUBSET Identities, NEW after \in [S -> Records],
         NEW waiting \in Seq(S), NEW n \in Nat, Drain(after, waiting, n),
         WaitsIn(after, waiting),
         n = Cardinality(BegunIn(after)), n <= Workers,
         \/ closed \/ uncertain' \/ n = Workers \/ n + 1 = Workers
         \/ Len(waiting) <= 1,
         closed' = closed
  PROVE  /\ records' \in [S -> Records]
         /\ queue' \in Seq(S)
         /\ active' \in Nat
         /\ SlotsCounted' /\ QueueWaits' /\ DrainedOnce'
         /\ \A i \in S :
              \/ records'[i] = after[i]
              \/ /\ ~closed
                 /\ after[i].task = "None" /\ ~after[i].done
                 /\ records'[i] = [after[i] EXCEPT !.task = "Spawned"]
<1>1. CASE /\ closed \/ uncertain' \/ n >= Workers \/ waiting = << >>
           /\ records' = after
           /\ queue' = waiting
           /\ active' = n
  <2>1. Begun' = BegunIn(after)
    BY <1>1 DEF Begun, BegunIn, Begins
  <2>2. SlotsCounted'
    BY <1>1, <2>1 DEF SlotsCounted
  <2>3. QueueWaits'
    BY <1>1 DEF QueueWaits, WaitsIn
  <2>4. DrainedOnce'
    BY <1>1, ServiceAssumption DEF DrainedOnce
  <2> QED BY <1>1, <2>2, <2>3, <2>4
<1>2. CASE /\ ~closed /\ ~uncertain' /\ ~(n >= Workers) /\ waiting # << >>
           /\ records' = [after EXCEPT ![Head(waiting)].task = "Spawned"]
           /\ queue' = Tail(waiting)
           /\ active' = n + 1
  <2>1. /\ Len(waiting) \in Nat \ {0}
        /\ Head(waiting) = waiting[1]
        /\ waiting[1] \in S
    BY <1>2
  <2>2. PICK h \in S : h = waiting[1]
    BY <2>1
  <2>3. after[h].task = "None" /\ ~after[h].done /\ after[h] \in Records
    BY <2>1, <2>2 DEF WaitsIn
  <2>4. records' = [after EXCEPT ![h] = [after[h] EXCEPT !.task = "Spawned"]]
    BY <1>2, <2>1, <2>2
  <2>5. [after[h] EXCEPT !.task = "Spawned"] \in Records
    BY <2>3 DEF Records, Tasks
  <2>6. /\ records' \in [S -> Records]
        /\ records'[h] = [after[h] EXCEPT !.task = "Spawned"]
        /\ \A i \in S \ {h} : records'[i] = after[i]
        /\ DOMAIN records' = S /\ DOMAIN after = S
    BY <2>4, <2>5
  <2>7. records'[h].task = "Spawned"
    BY <2>3, <2>6 DEF Records
  <2>8. Begun' = BegunIn(after) \cup {h} /\ h \notin BegunIn(after)
    BY <2>3, <2>6, <2>7 DEF Begun, BegunIn, Begins
  <2>9. IsFiniteSet(BegunIn(after))
    <3>1. BegunIn(after) \subseteq Identities
      BY <2>6 DEF BegunIn
    <3> QED BY <3>1, IdentitiesAreFinite, FS_Subset
  <2>10. SlotsCounted'
    <3>1. Cardinality(Begun') = n + 1
      BY <2>8, <2>9, FS_AddElement
    <3> QED BY <1>2, <3>1, ServiceAssumption DEF SlotsCounted
  <2>11. /\ queue' \in Seq(S)
         /\ Len(queue') = Len(waiting) - 1
         /\ \A k \in 1..Len(queue') : queue'[k] = waiting[k + 1]
    BY <1>2, <2>1
  <2>12. \A k \in 1..Len(queue') : k + 1 \in 1..Len(waiting) /\ queue'[k] # h
    BY <2>1, <2>2, <2>11 DEF WaitsIn
  <2>13. QueueWaits'
    <3>1. ASSUME NEW k \in 1..Len(queue')
          PROVE  records'[queue'[k]].task = "None" /\ ~records'[queue'[k]].done
      <4>1. queue'[k] \in S /\ queue'[k] = waiting[k + 1] /\ queue'[k] # h
        BY <2>11, <2>12
      <4>2. k + 1 \in 1..Len(waiting)
        BY <2>12
      <4> QED BY <2>6, <4>1, <4>2 DEF WaitsIn
    <3>2. \A j, k \in 1..Len(queue') : queue'[j] = queue'[k] => j = k
      <4> SUFFICES ASSUME NEW j \in 1..Len(queue'), NEW k \in 1..Len(queue'),
                          queue'[j] = queue'[k]
                   PROVE  j = k
        OBVIOUS
      <4>1. j + 1 = k + 1
        BY <2>11, <2>12 DEF WaitsIn
      <4> QED BY <2>1, <2>11, <4>1
    <3> QED BY <3>1, <3>2 DEF QueueWaits
  <2>14. DrainedOnce'
    <3>1. CASE n + 1 = Workers
      BY <1>2, <3>1 DEF DrainedOnce
    <3>2. CASE Len(waiting) <= 1
      <4>1. Len(queue') = 0
        BY <2>1, <2>11, <3>2
      <4>2. queue' = << >>
        BY <2>11, <4>1
      <4> QED BY <4>2 DEF DrainedOnce
    <3> QED BY <1>2, <3>1, <3>2, ServiceAssumption
  <2> QED BY <1>2, <2>3, <2>6, <2>10, <2>11, <2>13, <2>14
<1> QED BY <1>1, <1>2, DrainCases

-----------------------------------------------------------------------------
(* An execution is completed. *)

(* The outcomes of a run say what its worker returned, or why it is over.  *)
Told(identity, stop, outcomes) ==
  /\ returned[identity] \in Values \ (Large \cup Other) =>
       /\ outcomes.status = "captured"
       /\ outcomes.value = returned[identity]
       /\ outcomes \notin Foreign
  /\ outcomes = Cancelled =>
       returned[identity] = NoValue /\ stop \in {"cancel", "shutdown"}

LEMMA ToldSurvives ==
  ASSUME NEW identity \in Identities, NEW outcomes \in Outcomes \cup Foreign,
         Known(identity), Latest(identity).state # "Terminal",
         NEW stop, Told(identity, stop, outcomes),
         Latest(identity)'.outcomes = Evidence(identity, outcomes),
         returned'[identity] = returned[identity],
         HasRecord(identity)' => records'[identity].stop = stop
  PROVE  Survives(identity)'
<1>1. /\ Evidence(identity, outcomes) \in {outcomes, Failed}
      /\ outcomes \notin Foreign /\ ~Oversized(outcomes) =>
           Evidence(identity, outcomes) = outcomes
  BY EvidenceIsAccepted
<1>2. returned[identity] \in Values \ (Large \cup Other) =>
        /\ Evidence(identity, outcomes).status = "captured"
        /\ Evidence(identity, outcomes).value = returned[identity]
  BY <1>1 DEF Told, Oversized
<1>3. Evidence(identity, outcomes) = Cancelled =>
        returned[identity] = NoValue /\ stop \in {"cancel", "shutdown"}
  BY <1>1, OutcomesDiffer DEF Told
<1> QED BY <1>2, <1>3 DEF Survives, HasRecord

(* One execution ends, the others are as they were. *)
LEMMA EndsTerminal ==
  ASSUME IInv, OwnerInv', NEW identity \in DOMAIN records,
         \A i \in Identities \ {identity} : SameFor(i),
         DOMAIN records \subseteq DOMAIN records',
         \A i \in DOMAIN records : records[i].done => records'[i].done,
         records'[identity].done
  PROVE  TerminalRecorded'
<1> SUFFICES ASSUME NEW i \in DOMAIN executions', Terminal(i)'
             PROVE  HasRecord(i)' /\ records'[i].done
  BY DEF TerminalRecorded
<1>1. i \in Identities
  BY DEF OwnerInv, OwnerTypeOK
<1>2. CASE i = identity
  BY <1>2 DEF HasRecord
<1>3. CASE i # identity
  <2>1. i \in DOMAIN executions /\ Terminal(i)
    BY <1>1, <1>3 DEF SameFor, Terminal, Known
  <2> QED BY <2>1 DEF IInv, TerminalRecorded, HasRecord
<1> QED BY <1>2, <1>3

(* A run ends: its worker is free for the next record. *)
LEMMA EndRunKeeps ==
  ASSUME IInv, NEW identity \in Begun,
         records[identity].task \notin {"Child", "Lost"},
         NEW record \in Records,
         NEW outcomes \in Outcomes \cup Foreign,
         Told(identity, record.stop, outcomes),
         EndRun(identity, record, outcomes),
         UNCHANGED <<closed, calls, closing, shutdown, alive, returned>>
  PROVE  IInv' /\ [OwnerNext]_ownerVars
<1>1. /\ identity \in DOMAIN records /\ identity \in Identities
      /\ Holds(identity) /\ records[identity] \in Records
      /\ ~records[identity].done
      /\ Known(identity)
      /\ Latest(identity).state # "Terminal"
      /\ identity \notin closing
      /\ shutdown # "Returned"
  BY BegunFacts
<1>2. /\ records \in [DOMAIN records -> Records]
      /\ DOMAIN records \in SUBSET Identities
      /\ queue \in Seq(DOMAIN records)
      /\ active \in Nat
      /\ calls \in [Callers -> Requests]
  BY DEF IInv, Shape, ServiceTypeOK
<1>3. uncertain \in BOOLEAN
  BY DEF IInv, Shape, ServiceTypeOK
<1>4. /\ CompleteExecution(identity, outcomes)
      /\ Recorded(identity, outcomes) = TRUE
  BY <1>1, EvidenceIsAccepted DEF EndRun
<1>5. /\ uncertain' = uncertain
      /\ next' = next
      /\ Known(identity)'
      /\ Latest(identity)'.state = "Terminal"
      /\ Latest(identity)'.outcomes = Evidence(identity, outcomes)
      /\ \A i \in Identities \ {identity} : SameFor(i)
      /\ OwnerInv' /\ OwnerNext
  BY <1>1, <1>3, <1>4, CompleteExecutionEffect DEF IInv
<1> DEFINE ended == [record EXCEPT !.task = "Ended", !.captured = NoValue,
                                   !.code = 0, !.done = TRUE]
           after == [records EXCEPT ![identity] = ended]
<1>6. Drain(after, queue, active - 1)
  BY <1>4 DEF EndRun
<1>7. /\ ended \in Records /\ ended.task = "Ended" /\ ended.done
      /\ ended.stop = record.stop
  BY DEF Records, Tasks
<1> HIDE DEF ended
<1>8. /\ after \in [DOMAIN records -> Records]
      /\ DOMAIN after = DOMAIN records
      /\ after[identity] = ended
      /\ \A i \in DOMAIN records \ {identity} : after[i] = records[i]
  BY <1>1, <1>2, <1>7
<1> HIDE DEF after
<1>9. BegunIn(after) = Begun \ {identity}
  BY <1>7, <1>8 DEF BegunIn, Begun, Begins
<1>10. /\ Cardinality(BegunIn(after)) = active - 1
       /\ active - 1 \in Nat /\ active - 1 <= Workers
  <2>1. IsFiniteSet(Begun)
    <3>1. Begun \subseteq Identities
      BY <1>2 DEF Begun
    <3> QED BY <3>1, IdentitiesAreFinite, FS_Subset
  <2>2. active = Cardinality(Begun) /\ active <= Workers
    BY DEF IInv, SlotsCounted
  <2>3. Cardinality(BegunIn(after)) = Cardinality(Begun) - 1
    BY <1>9, <2>1, FS_RemoveElement
  <2>4. Cardinality(BegunIn(after)) \in Nat
    BY <1>9, <2>1, FS_Subset, FS_CardinalityType
  <2> QED BY <1>2, <2>2, <2>3, <2>4, ServiceAssumption
<1>11. WaitsIn(after, queue)
  <2>1. \A k \in 1..Len(queue) :
          /\ queue[k] \in DOMAIN records /\ queue[k] # identity
          /\ records[queue[k]].task = "None" /\ ~records[queue[k]].done
    BY <1>2 DEF IInv, QueueWaits, Begun
  <2>2. \A j, k \in 1..Len(queue) : queue[j] = queue[k] => j = k
    BY DEF IInv, QueueWaits
  <2> QED BY <1>8, <2>1, <2>2 DEF WaitsIn
<1>12. \/ closed \/ uncertain' \/ active - 1 = Workers \/ (active - 1) + 1 = Workers
       \/ Len(queue) <= 1
  <2>1. closed \/ uncertain \/ active = Workers \/ queue = << >>
    BY DEF IInv, DrainedOnce
  <2>2. queue = << >> => Len(queue) <= 1
    OBVIOUS
  <2> QED BY <1>2, <1>5, <2>1, <2>2
<1>13. /\ records' \in [DOMAIN records -> Records]
       /\ queue' \in Seq(DOMAIN records)
       /\ active' \in Nat
       /\ SlotsCounted' /\ QueueWaits' /\ DrainedOnce'
       /\ \A i \in DOMAIN records :
            \/ records'[i] = after[i]
            \/ /\ ~closed
               /\ after[i].task = "None" /\ ~after[i].done
               /\ records'[i] = [after[i] EXCEPT !.task = "Spawned"]
  BY <1>2, <1>6, <1>8, <1>10, <1>11, <1>12, DrainKeeps
<1>14. /\ DOMAIN records' = DOMAIN records
       /\ records'[identity] = ended
       /\ \A i \in DOMAIN records \ {identity} :
            \/ records'[i] = records[i]
            \/ /\ ~closed
               /\ records[i].task = "None" /\ ~records[i].done
               /\ records'[i] = [records[i] EXCEPT !.task = "Spawned"]
  <2>1. DOMAIN records' = DOMAIN records
    BY <1>13
  <2>2. records'[identity] = ended
    BY <1>1, <1>7, <1>8, <1>13
  <2>3. ASSUME NEW i \in DOMAIN records \ {identity}
        PROVE  \/ records'[i] = records[i]
               \/ /\ ~closed
                  /\ records[i].task = "None" /\ ~records[i].done
                  /\ records'[i] = [records[i] EXCEPT !.task = "Spawned"]
    <3>1. after[i] = records[i]
      BY <1>8
    <3> QED BY <1>13, <3>1
  <2> QED BY <2>1, <2>2, <2>3
<1>15. Shape'
  <2>1. closing # {} => closed /\ queue' = << >>
    <3>1. closing # {} => closed /\ queue = << >>
      BY DEF IInv, Shape
    <3>2. queue = << >> => queue' = << >>
      <4>1. ASSUME queue = << >>
            PROVE  queue' = << >>
        BY <1>6, <4>1, DrainCases
      <4> QED BY <4>1
    <3> QED BY <3>1, <3>2
  <2>2. ServiceTypeOK'
    <3>1. uncertain' \in BOOLEAN
      BY <1>3, <1>5
    <3> QED BY <1>13, <1>14, <3>1 DEF IInv, Shape, ServiceTypeOK
  <2>3. alive' \subseteq DOMAIN records'
    BY <1>14 DEF IInv, Shape
  <2> QED BY <2>1, <2>2, <2>3 DEF Shape
<1>16. ASSUME NEW i \in DOMAIN records' PROVE Holds(i)'
  <2>1. CASE i = identity
    BY <1>1, <1>5, <1>7, <1>14, <2>1 DEF Holds, Begins
  <2>2. CASE i # identity /\ records'[i] = records[i]
    <3>1. Holds(i) /\ i.execution < next /\ i \in Identities
      BY <1>14, RecordType DEF Holds
    <3> QED BY <1>5, <2>2, <3>1, HoldsKept
  <2>3. CASE /\ i # identity /\ ~closed
             /\ records[i].task = "None" /\ ~records[i].done
             /\ records'[i] = [records[i] EXCEPT !.task = "Spawned"]
    <3>1. Holds(i) /\ records[i] \in Records /\ i \in Identities
      BY <1>14, RecordType
    <3>2. /\ records'[i] \in Records /\ records'[i].task = "Spawned"
          /\ records'[i].done = records[i].done
          /\ records'[i].stop = records[i].stop
          /\ records'[i].captured = records[i].captured
      BY <2>3, <3>1 DEF Records, Tasks
    <3>3. i \notin closing
      BY <2>3 DEF IInv, Shape
    <3> QED BY <1>5, <2>3, <3>1, <3>2, <3>3 DEF Holds, SameFor, Begins
  <2> QED BY <1>14, <2>1, <2>2, <2>3
<1>17. ASSUME NEW i \in Identities PROVE Survives(i)'
  <2>1. CASE i = identity
    <3>1. HasRecord(identity)' => records'[identity].stop = record.stop
      BY <1>7, <1>14
    <3> QED BY <1>1, <1>5, <2>1, <3>1, ToldSurvives
  <2>2. CASE i # identity
    <3>1. HasRecord(i)' => HasRecord(i) /\ records'[i].stop = records[i].stop
      BY <1>2, <1>14, <2>2 DEF HasRecord, Records
    <3> QED BY <1>5, <2>2, <3>1, SurvivesKept DEF IInv
  <2> QED BY <2>1, <2>2
<1>18. TerminalRecorded'
  <2>1. \A i \in DOMAIN records : records[i].done => records'[i].done
    BY <1>7, <1>14
  <2> QED BY <1>1, <1>5, <1>7, <1>14, <2>1, EndsTerminal
<1>19. AnswersStand'
  <2>1. \A i \in Identities : (Unmet(i) => Unmet(i)') /\ (Gone(i) => Gone(i)')
    BY <1>1, <1>5, <1>14 DEF Unmet, Gone, SameFor, HasRecord
  <2> QED BY <1>2, <2>1, AnswersKept
<1>20. UncertainIsLost'
  <2>1. \A i \in DOMAIN records : records'[i].task = "Lost" <=> records[i].task = "Lost"
    BY <1>2, <1>7, <1>14 DEF Records
  <2> QED BY <1>5, <1>14, <2>1 DEF IInv, UncertainIsLost
<1>21. QuietAfterShutdown'
  BY <1>1 DEF IInv, QuietAfterShutdown
<1>22. NothingReturned'
  <2>1. \A i \in Identities : HasRecord(i) => HasRecord(i)'
    BY <1>14 DEF HasRecord
  <2>2. \A i \in Identities : ~HasRecord(i) => i # identity
    BY <1>1 DEF HasRecord
  <2> QED BY <1>5, <2>1, <2>2, NoReturnKept
<1> QED BY <1>5, <1>13, <1>15, <1>16, <1>17, <1>18, <1>19, <1>20, <1>21, <1>22 DEF IInv

LEMMA UnreturnedTold ==
  ASSUME NEW identity \in Identities, NEW record \in Records,
         returned[identity] = NoValue
  PROVE  /\ Unreturned(record) \in Outcomes \cup Foreign
         /\ Told(identity, record.stop, Unreturned(record))
BY OutcomesDiffer, ServiceAssumption DEF Unreturned, Told

LEMMA SkipRunKeeps ==
  ASSUME IInv, NEW identity \in Identities, SkipRun(identity)
  PROVE  IInv' /\ [OwnerNext]_ownerVars
<1>1. Running(identity, "Spawned")
  BY DEF SkipRun
<1>2. /\ records[identity].task = "Spawned"
      /\ identity \in Begun
      /\ UNCHANGED <<closed, calls, closing, shutdown>>
  BY <1>1, RunningFacts
<1>3. /\ records[identity] \in Records
      /\ returned[identity] = NoValue
      /\ records[identity].stop \in {"cancel", "shutdown"}
  BY <1>2, BegunFacts DEF SkipRun, Holds, Records, Stops
<1>4. Told(identity, records[identity].stop, Cancelled)
  BY <1>3, ServiceAssumption DEF Told
<1>5. /\ EndRun(identity, records[identity], Cancelled)
      /\ UNCHANGED <<alive, returned>>
  BY DEF SkipRun
<1> QED BY <1>2, <1>3, <1>4, <1>5, OutcomesDiffer, EndRunKeeps

LEMMA FailRunKeeps ==
  ASSUME IInv, NEW identity \in Identities, FailRun(identity)
  PROVE  IInv' /\ [OwnerNext]_ownerVars
<1> DEFINE record == Stop(records[identity], "fault")
<1>1. PICK task \in {"Spawned", "Claimed"} : Running(identity, task)
  BY DEF FailRun
<1>2. /\ records[identity].task \in {"Spawned", "Claimed"}
      /\ identity \in Begun
      /\ UNCHANGED <<closed, calls, closing, shutdown>>
  BY <1>1, RunningFacts
<1>3. /\ records[identity] \in Records
      /\ returned[identity] = NoValue
  BY <1>2, BegunFacts DEF Holds
<1>4. record \in Records
  BY <1>3, StopType
<1>5. /\ EndRun(identity, record, Unreturned(record))
      /\ UNCHANGED <<alive, returned>>
  BY DEF FailRun
<1> HIDE DEF record
<1> QED BY <1>2, <1>3, <1>4, <1>5, UnreturnedTold, EndRunKeeps

(* The worker's own outcome goes before every reason to stop it. *)
LEMMA FinishRunKeeps ==
  ASSUME IInv, NEW identity \in Identities, FinishRun(identity)
  PROVE  IInv' /\ [OwnerNext]_ownerVars
<1> DEFINE record == records[identity]
<1>1. Running(identity, "Exited")
  BY DEF FinishRun
<1>2. /\ record.task = "Exited"
      /\ identity \in Begun
      /\ UNCHANGED <<closed, calls, closing, shutdown>>
  BY <1>1, RunningFacts
<1>3. /\ record \in Records
      /\ record.captured = returned[identity]
      /\ record.captured \in Values \cup {NoValue}
  BY <1>2, BegunFacts DEF Holds, Records
<1>4. /\ EndRun(identity, record, Report(record))
      /\ UNCHANGED <<alive, returned>>
  BY DEF FinishRun
<1> HIDE DEF record
<1>5. CASE record.captured = NoValue
  <2>1. Report(record) = Unreturned(record)
    BY <1>5 DEF Report
  <2>2. /\ Report(record) \in Outcomes \cup Foreign
        /\ Told(identity, record.stop, Report(record))
    BY <1>3, <1>5, <2>1, UnreturnedTold
  <2> QED BY <1>2, <1>3, <1>4, <2>2, EndRunKeeps DEF record
<1>6. CASE record.captured # NoValue
  <2> DEFINE value == record.captured
             cleanup == FailedCleanup(record)
  <2>1. value \in Values /\ cleanup \in BOOLEAN
    BY <1>3, <1>6 DEF FailedCleanup
  <2>2. Report(record) = Captured(value, cleanup)
    BY <1>6 DEF Report
  <2>3. /\ Captured(value, cleanup) \in Outcomes \cup Foreign
        /\ value \notin Other => Captured(value, cleanup) \notin Foreign
    BY <2>1, CapturedOutcomes
  <2>4. Told(identity, record.stop, Captured(value, cleanup))
    BY <1>3, <2>3, OutcomesDiffer DEF Told
  <2> QED BY <1>2, <1>3, <1>4, <2>2, <2>3, <2>4, EndRunKeeps DEF record
<1> QED BY <1>5, <1>6

-----------------------------------------------------------------------------
(* A record that waits is completed without a worker. *)

LEMMA CompleteWaitingKeeps ==
  ASSUME IInv, NEW identity \in DOMAIN records,
         records[identity].task = "None", ~records[identity].done,
         NEW record \in Records,
         record.task = "None", record.done,
         record.stop \in {"cancel", "shutdown"},
         records' = [records EXCEPT ![identity] = record],
         CompleteExecution(identity, Cancelled),
         queue' \in Seq(DOMAIN records),
         \A k \in 1..Len(queue') : queue'[k] # identity
           /\ \E j \in 1..Len(queue) : queue'[k] = queue[j],
         \A j, k \in 1..Len(queue') : queue'[j] = queue'[k] => j = k,
         queue = << >> => queue' = << >>,
         closing' = closing \ {identity},
         calls' \in [Callers -> Requests],
         \A c \in Callers : calls'[c].stage = "Answered" => calls'[c] = calls[c],
         UNCHANGED <<active, closed, shutdown, alive, returned>>
  PROVE  IInv' /\ [OwnerNext]_ownerVars
<1>1. /\ identity \in Identities /\ Holds(identity)
      /\ records[identity] \in Records
      /\ records \in [DOMAIN records -> Records]
      /\ Known(identity)
      /\ Latest(identity).state # "Terminal"
      /\ returned[identity] = NoValue
      /\ identity \notin alive
  BY RecordType DEF Holds
<1>2. uncertain \in BOOLEAN
  BY DEF IInv, Shape, ServiceTypeOK
<1>3. /\ uncertain' = uncertain
      /\ next' = next
      /\ Known(identity)'
      /\ Latest(identity)'.state = "Terminal"
      /\ Latest(identity)'.outcomes = Evidence(identity, Cancelled)
      /\ \A i \in Identities \ {identity} : SameFor(i)
      /\ OwnerInv' /\ OwnerNext
  BY <1>1, <1>2, CompleteExecutionEffect, OutcomesDiffer DEF IInv
<1>4. /\ records' \in [DOMAIN records -> Records]
      /\ DOMAIN records' = DOMAIN records
      /\ records'[identity] = record
      /\ \A i \in DOMAIN records \ {identity} : records'[i] = records[i]
  BY <1>1
<1>5. Shape'
  <2>1. uncertain' \in BOOLEAN
    BY <1>2, <1>3
  <2>2. ServiceTypeOK'
    BY <1>4, <2>1 DEF IInv, Shape, ServiceTypeOK
  <2>3. closing' # {} => closed' /\ queue' = << >>
    BY DEF IInv, Shape
  <2> QED BY <1>4, <2>2, <2>3 DEF IInv, Shape
<1>6. ASSUME NEW i \in DOMAIN records' PROVE Holds(i)'
  <2>1. CASE i = identity
    BY <1>1, <1>3, <1>4, <2>1 DEF Holds, Begins
  <2>2. CASE i # identity
    <3>1. Holds(i) /\ i.execution < next /\ i \in Identities
      BY <1>4, RecordType DEF Holds
    <3> QED BY <1>3, <1>4, <2>2, <3>1, HoldsKept
  <2> QED BY <2>1, <2>2
<1>7. ASSUME NEW i \in Identities PROVE Survives(i)'
  <2>1. CASE i = identity
    <3>1. Told(identity, record.stop, Cancelled)
      BY <1>1, ServiceAssumption DEF Told
    <3> QED BY <1>1, <1>3, <1>4, <2>1, <3>1, ToldSurvives, OutcomesDiffer
  <2>2. CASE i # identity
    <3>1. HasRecord(i)' => HasRecord(i) /\ records'[i].stop = records[i].stop
      BY <1>4, <2>2 DEF HasRecord
    <3> QED BY <1>3, <2>2, <3>1, SurvivesKept DEF IInv
  <2> QED BY <2>1, <2>2
<1>8. SlotsCounted' /\ QuietAfterShutdown'
  <2>1. Begun' = Begun
    BY <1>4 DEF Begun
  <2> QED BY <2>1 DEF IInv, SlotsCounted, QuietAfterShutdown
<1>9. QueueWaits'
  <2>1. \A j \in 1..Len(queue) : queue[j] \in DOMAIN records
    BY DEF IInv, Shape, ServiceTypeOK
  <2> QED BY <1>4, <2>1 DEF IInv, QueueWaits
<1>10. DrainedOnce'
  BY <1>3 DEF IInv, DrainedOnce
<1>11. TerminalRecorded'
  <2>1. \A i \in DOMAIN records : records[i].done => records'[i].done
    BY <1>4
  <2> QED BY <1>3, <1>4, <2>1, EndsTerminal
<1>12. AnswersStand'
  <2>1. \A i \in Identities : (Unmet(i) => Unmet(i)') /\ (Gone(i) => Gone(i)')
    BY <1>1, <1>3, <1>4 DEF Unmet, Gone, SameFor, HasRecord
  <2> QED BY <2>1, AnswersKept
<1>13. UncertainIsLost'
  <2>1. \A i \in DOMAIN records : records'[i].task = "Lost" <=> records[i].task = "Lost"
    BY <1>4
  <2> QED BY <1>3, <1>4, <2>1 DEF IInv, UncertainIsLost
<1>14. NothingReturned'
  <2>1. \A i \in Identities : HasRecord(i) => HasRecord(i)'
    BY <1>4 DEF HasRecord
  <2>2. \A i \in Identities : ~HasRecord(i) => i # identity
    BY DEF HasRecord
  <2> QED BY <1>3, <2>1, <2>2, NoReturnKept
<1> QED BY <1>3, <1>5, <1>6, <1>7, <1>8, <1>9, <1>10, <1>11, <1>12, <1>13, <1>14
        DEF IInv

LEMMA AppliedFacts ==
  ASSUME IInv, NEW c \in Callers, NEW operation \in {"Submit", "Cancel", "Release"},
         Applied(c, operation)
  PROVE  /\ closing = {}
         /\ calls[c].stage = "Answered" /\ calls[c].operation = operation
         /\ calls[c].identity \in Identities
         /\ calls' = [calls EXCEPT ![c] = Idle]
         /\ calls' \in [Callers -> Requests]
         /\ \A d \in Callers : calls'[d].stage = "Answered" =>
              calls'[d] = calls[d] /\ d # c
         /\ UNCHANGED <<closed, closing, shutdown, alive, returned>>
<1>1. /\ calls \in [Callers -> Requests]
      /\ calls[c].stage = "Answered" /\ calls[c].operation = operation
      /\ calls' = [calls EXCEPT ![c] = Idle]
  BY DEF Applied, IInv, Shape, ServiceTypeOK
<1>2. calls[c].identity \in Identities
  BY <1>1, RequestType
<1> QED BY <1>1, <1>2, IdleIsRequest DEF Applied, Awake

(* The sequence without its k-th element. *)
Without(waiting, k) ==
  SubSeq(waiting, 1, k - 1) \o SubSeq(waiting, k + 1, Len(waiting))

LEMMA WithoutOne ==
  ASSUME NEW S, NEW waiting \in Seq(S), NEW k \in 1..Len(waiting)
  PROVE  /\ Without(waiting, k) \in Seq(S)
         /\ Len(Without(waiting, k)) = Len(waiting) - 1
         /\ \A j \in 1..Len(Without(waiting, k)) :
              Without(waiting, k)[j] = IF j < k THEN waiting[j] ELSE waiting[j + 1]
<1> DEFINE rest == Without(waiting, k)
           n == Len(waiting)
           before == SubSeq(waiting, 1, k - 1)
           behind == SubSeq(waiting, k + 1, n)
<1>1. n \in Nat /\ k \in Int /\ 1 <= k /\ k <= n /\ \A i \in 1..n : waiting[i] \in S
  OBVIOUS
<1>2. rest = before \o behind
  BY DEF Without
<1> HIDE DEF n, rest
<1>3. /\ before \in Seq(S)
      /\ Len(before) = k - 1
      /\ \A j \in 1..(k - 1) : before[j] = waiting[j]
  <2>1. /\ 1 \in Int /\ k - 1 \in Int
        /\ \A i \in 1..(k - 1) : waiting[i] \in S
    BY <1>1
  <2>2. /\ before \in Seq(S)
        /\ Len(before) = IF 1 <= k - 1 THEN (k - 1) - 1 + 1 ELSE 0
        /\ \A i \in 1..((k - 1) - 1 + 1) : before[i] = waiting[1 + i - 1]
    BY <2>1, SubSeqProperties
  <2> HIDE DEF before
  <2>3. \A i \in 1..(k - 1) : 1 + i - 1 = i /\ i \in 1..((k - 1) - 1 + 1)
    BY <1>1
  <2> QED BY <1>1, <2>2, <2>3
<1>4. /\ behind \in Seq(S)
      /\ Len(behind) = n - k
      /\ \A j \in 1..(n - k) : behind[j] = waiting[j + k]
  <2>1. /\ k + 1 \in Int /\ n \in Int
        /\ \A i \in (k + 1)..n : waiting[i] \in S
    BY <1>1
  <2>2. /\ behind \in Seq(S)
        /\ Len(behind) = IF k + 1 <= n THEN n - (k + 1) + 1 ELSE 0
        /\ \A i \in 1..(n - (k + 1) + 1) : behind[i] = waiting[(k + 1) + i - 1]
    BY <2>1, SubSeqProperties
  <2> HIDE DEF behind
  <2>3. \A i \in 1..(n - k) : (k + 1) + i - 1 = i + k /\ i \in 1..(n - (k + 1) + 1)
    BY <1>1
  <2> QED BY <1>1, <2>2, <2>3
<1> HIDE DEF before, behind
<1>5. /\ rest \in Seq(S)
      /\ Len(rest) = Len(before) + Len(behind)
      /\ \A i \in 1..(Len(before) + Len(behind)) :
           rest[i] = IF i <= Len(before) THEN before[i] ELSE behind[i - Len(before)]
  <2>1. before \in Seq(S) /\ behind \in Seq(S)
    BY <1>3, <1>4
  <2> QED BY <1>2, <2>1, ConcatProperties, Zenon
<1>6. Len(before) + Len(behind) = n - 1
  BY <1>1, <1>3, <1>4
<1>7. ASSUME NEW j \in 1..(n - 1)
      PROVE  rest[j] = IF j < k THEN waiting[j] ELSE waiting[j + 1]
  <2>1. rest[j] = IF j <= k - 1 THEN before[j] ELSE behind[j - (k - 1)]
    BY <1>3, <1>5, <1>6
  <2>2. CASE j < k
    <3>1. j \in 1..(k - 1) /\ j <= k - 1
      BY <1>1, <2>2
    <3> QED BY <1>3, <2>1, <2>2, <3>1
  <2>3. CASE ~(j < k)
    <3>1. /\ j - (k - 1) \in 1..(n - k) /\ (j - (k - 1)) + k = j + 1
          /\ ~(j <= k - 1)
      BY <1>1, <2>3
    <3> QED BY <1>4, <2>1, <2>3, <3>1
  <2> QED BY <2>2, <2>3
<1>8. Len(rest) = Len(waiting) - 1 /\ Len(rest) = n - 1
  BY <1>5, <1>6 DEF n
<1>9. /\ rest \in Seq(S)
      /\ Len(rest) = Len(waiting) - 1
      /\ \A j \in 1..Len(rest) :
           rest[j] = IF j < k THEN waiting[j] ELSE waiting[j + 1]
  BY <1>5, <1>7, <1>8
<1> QED BY <1>9 DEF rest

LEMMA UnqueueFacts ==
  ASSUME IInv, NEW identity \in DOMAIN records, Unqueue(identity)
  PROVE  /\ queue' \in Seq(DOMAIN records)
         /\ \A k \in 1..Len(queue') : queue'[k] # identity
              /\ \E j \in 1..Len(queue) : queue'[k] = queue[j]
         /\ \A j, k \in 1..Len(queue') : queue'[j] = queue'[k] => j = k
         /\ queue = << >> => queue' = << >>
<1>1. /\ queue \in Seq(DOMAIN records)
      /\ \A j, k \in 1..Len(queue) : queue[j] = queue[k] => j = k
  BY DEF IInv, Shape, ServiceTypeOK, QueueWaits
<1>2. CASE \E k \in 1..Len(queue) : queue[k] = identity
  <2>1. PICK k \in 1..Len(queue) :
          /\ queue[k] = identity
          /\ queue' = SubSeq(queue, 1, k - 1) \o SubSeq(queue, k + 1, Len(queue))
    BY <1>2 DEF Unqueue
  <2>2. PICK rest : rest = queue'
    OBVIOUS
  <2>3. rest = Without(queue, k)
    BY <2>1, <2>2 DEF Without
  <2>4. /\ rest \in Seq(DOMAIN records)
        /\ Len(rest) = Len(queue) - 1
        /\ \A j \in 1..Len(rest) :
             rest[j] = IF j < k THEN queue[j] ELSE queue[j + 1]
    <3>1. queue \in Seq(DOMAIN records)
      BY <1>1
    <3> QED BY <2>1, <2>3, <3>1, WithoutOne
  <2>5. Len(queue) \in Nat /\ k \in Nat
    BY <1>1
  <2>6. \A j \in 1..Len(rest) : j \in 1..Len(queue) /\ j + 1 \in 1..Len(queue)
    BY <2>4, <2>5
  <2>7. \A j \in 1..Len(rest) : \E i \in 1..Len(queue) :
          i # k /\ rest[j] = queue[i] /\ i = IF j < k THEN j ELSE j + 1
    BY <2>4, <2>5, <2>6
  <2>8. ASSUME NEW j \in 1..Len(rest)
        PROVE  rest[j] # identity /\ \E i \in 1..Len(queue) : rest[j] = queue[i]
    BY <1>1, <2>1, <2>7
  <2>9. ASSUME NEW j \in 1..Len(rest), NEW i \in 1..Len(rest), rest[j] = rest[i]
        PROVE  j = i
    BY <1>1, <2>5, <2>7, <2>9
  <2>10. queue # << >>
    BY <2>1
  <2> QED BY <2>2, <2>4, <2>8, <2>9, <2>10
<1>3. CASE ~\E k \in 1..Len(queue) : queue[k] = identity
  BY <1>1, <1>3 DEF Unqueue
<1> QED BY <1>2, <1>3

LEMMA ApplyCancelKeeps ==
  ASSUME IInv, NEW c \in Callers, ApplyCancel(c)
  PROVE  IInv' /\ [OwnerNext]_ownerVars
<1>1. Applied(c, "Cancel")
  BY DEF ApplyCancel
<1>2. PICK identity \in Identities : identity = calls[c].identity
  BY <1>1, AppliedFacts
<1>3. /\ closing = {}
      /\ calls' = [calls EXCEPT ![c] = Idle]
      /\ calls' \in [Callers -> Requests]
      /\ \A d \in Callers : calls'[d].stage = "Answered" => calls'[d] = calls[d]
      /\ UNCHANGED <<closed, closing, shutdown, alive, returned>>
  BY <1>1, AppliedFacts
<1>4. CASE ~(HasRecord(identity) /\ ~records[identity].done)
  <2>1. UNCHANGED <<ownerVars, uncertain, records, queue, active>>
    BY <1>2, <1>4 DEF ApplyCancel
  <2> QED BY <1>3, <2>1, CallsOnly, IdleIsRequest
<1>5. CASE HasRecord(identity) /\ ~records[identity].done
           /\ records[identity].task = "None"
  <2>1. CancelWaiting(identity)
    BY <1>2, <1>5 DEF ApplyCancel
  <2>2. /\ identity \in DOMAIN records
        /\ records[identity] \in Records
        /\ Holds(identity)
    BY <1>5, RecordType DEF HasRecord
  <2>3. Recorded(identity, Cancelled) = TRUE
    BY <1>5, <2>2, EvidenceIsAccepted, OutcomesDiffer DEF Holds
  <2> DEFINE stopped == Stop(records[identity], "cancel")
             record == [stopped EXCEPT !.done = TRUE]
  <2>4. /\ records' = [records EXCEPT ![identity] = record]
        /\ CompleteExecution(identity, Cancelled)
        /\ Unqueue(identity)
        /\ active' = active
    BY <2>1, <2>3 DEF CancelWaiting
  <2>5. /\ stopped \in Records /\ stopped.task = "None"
        /\ stopped.stop \in {"cancel", "shutdown"}
    <3>1. /\ records[identity].stop \in {"", "cancel", "shutdown"}
          /\ records[identity].task = "None"
      BY <1>5, <2>2 DEF Holds, Records, Stops
    <3>2. stopped \in Records /\ stopped.task = records[identity].task
      BY <2>2, StopType
    <3>3. stopped.stop \in {"cancel", "shutdown"}
      BY <2>2, <3>1 DEF Stop, Records
    <3> QED BY <3>1, <3>2, <3>3
  <2>6. /\ record \in Records /\ record.task = "None" /\ record.done
        /\ record.stop \in {"cancel", "shutdown"}
    <3> HIDE DEF stopped
    <3> QED BY <2>5 DEF Records
  <2> HIDE DEF record
  <2>7. /\ queue' \in Seq(DOMAIN records)
        /\ \A k \in 1..Len(queue') : queue'[k] # identity
             /\ \E j \in 1..Len(queue) : queue'[k] = queue[j]
        /\ \A j, k \in 1..Len(queue') : queue'[j] = queue'[k] => j = k
        /\ queue = << >> => queue' = << >>
    BY <2>2, <2>4, UnqueueFacts
  <2>8. closing' = closing \ {identity}
    BY <1>3
  <2> QED BY <1>3, <1>5, <2>2, <2>4, <2>6, <2>7, <2>8, CompleteWaitingKeeps
<1>6. CASE HasRecord(identity) /\ ~records[identity].done
           /\ records[identity].task # "None"
  <2>1. CancelRunning(identity)
    BY <1>2, <1>6 DEF ApplyCancel
  <2>2. identity \in DOMAIN records /\ Holds(identity)
    BY <1>6, RecordType DEF HasRecord
  <2>3. identity \in Begun
    BY <1>6, <2>2 DEF Holds, Begun
  <2> DEFINE record == Stop(records[identity], "cancel")
  <2>4. /\ records' = [records EXCEPT ![identity] = record]
        /\ UNCHANGED <<ownerVars, uncertain, queue, active>>
    BY <2>1 DEF CancelRunning
  <2>5. /\ record \in Records /\ record.task = records[identity].task
        /\ record.done = records[identity].done
        /\ record.stop # "" /\ record.stop \in {records[identity].stop, "cancel"}
        /\ record.captured = records[identity].captured
    BY <2>3, BegunFacts, StopType
  <2> HIDE DEF record
  <2>6. records'[identity] = record
    BY <2>2, <2>4, RecordType
  <2>7. Holds(identity)'
    BY <1>3, <2>2, <2>3, <2>4, <2>5, <2>6, BegunFacts, OwnerUnchanged
       DEF Holds, Begins, SameFor
  <2>8. Begins(record)
    BY <2>3, <2>5 DEF Begins, Begun
  <2>9. /\ alive' \in SUBSET DOMAIN records
        /\ returned' \in [Identities -> Values \cup {NoValue}]
    BY <1>3 DEF IInv, Shape, ServiceTypeOK
  <2>10. IInv'
    BY <1>3, <2>3, <2>4, <2>5, <2>7, <2>8, <2>9, TaskKeeps
  <2> QED BY <2>4, <2>10
<1> QED BY <1>4, <1>5, <1>6

LEMMA CloseRecordKeeps ==
  ASSUME IInv, NEW identity \in Identities, CloseRecord(identity)
  PROVE  IInv' /\ [OwnerNext]_ownerVars
<1>1. /\ identity \in closing
      /\ CompleteExecution(identity, Cancelled)
      /\ closing' = closing \ {identity}
      /\ UNCHANGED <<queue, active, closed, calls, shutdown, alive, returned>>
  BY DEF CloseRecord
<1>2. identity \in DOMAIN records
  BY <1>1 DEF IInv, Shape, ServiceTypeOK
<1>3. /\ Holds(identity) /\ records[identity] \in Records
      /\ records[identity].task = "None" /\ ~records[identity].done
      /\ records[identity].stop \in {"cancel", "shutdown"}
      /\ Known(identity) /\ Latest(identity).state # "Terminal"
  BY <1>1, <1>2, RecordType DEF Holds, Records, Stops
<1>4. Recorded(identity, Cancelled) = TRUE
  BY <1>3, EvidenceIsAccepted, OutcomesDiffer
<1> DEFINE record == [records[identity] EXCEPT !.done = TRUE]
<1>5. records' = [records EXCEPT ![identity] = record]
  BY <1>4 DEF CloseRecord
<1>6. /\ record \in Records /\ record.task = "None" /\ record.done
      /\ record.stop \in {"cancel", "shutdown"}
  BY <1>3 DEF Records
<1> HIDE DEF record
<1>7. queue = << >> /\ calls \in [Callers -> Requests]
  BY <1>1 DEF IInv, Shape, ServiceTypeOK
<1>8. /\ queue' \in Seq(DOMAIN records)
      /\ \A k \in 1..Len(queue') : queue'[k] # identity
           /\ \E j \in 1..Len(queue) : queue'[k] = queue[j]
      /\ \A j, k \in 1..Len(queue') : queue'[j] = queue'[k] => j = k
  BY <1>1, <1>7
<1> QED BY <1>1, <1>2, <1>3, <1>5, <1>6, <1>7, <1>8, CompleteWaitingKeeps

(* The answer to a release: its record is done, or there is none. *)
LEMMA ApplyReleaseKeeps ==
  ASSUME IInv, NEW c \in Callers, ApplyRelease(c)
  PROVE  IInv'
<1>1. Applied(c, "Release")
  BY DEF ApplyRelease
<1>2. PICK identity \in Identities : identity = calls[c].identity
  BY <1>1, AppliedFacts
<1>3. /\ closing = {}
      /\ calls[c].stage = "Answered" /\ calls[c].operation = "Release"
      /\ calls' \in [Callers -> Requests]
      /\ \A d \in Callers : calls'[d].stage = "Answered" => calls'[d] = calls[d]
      /\ UNCHANGED <<closed, closing, shutdown, alive, returned>>
  BY <1>1, AppliedFacts
<1>4. UNCHANGED <<ownerVars, uncertain, queue, active>>
  BY DEF ApplyRelease
<1>5. Gone(identity)
  BY <1>2, <1>3 DEF IInv, AnswersStand, Gone
<1>6. /\ records \in [DOMAIN records -> Records]
      /\ DOMAIN records \in SUBSET Identities
      /\ queue \in Seq(DOMAIN records)
  BY DEF IInv, Shape, ServiceTypeOK
<1>7. records' = [i \in DOMAIN records \ {identity} |-> records[i]]
  BY <1>2 DEF ApplyRelease, Restrict
<1>8. /\ DOMAIN records' = DOMAIN records \ {identity}
      /\ \A i \in DOMAIN records' : i \in DOMAIN records /\ records'[i] = records[i]
      /\ records' \in [DOMAIN records' -> Records]
  BY <1>6, <1>7
<1>9. \A i \in DOMAIN records : i # identity \/ records[i].done
  BY <1>5 DEF Gone, HasRecord
<1>10. next' = next /\ OwnerInv' /\ \A i : SameFor(i)
  BY <1>4, OwnerUnchanged, OwnerStepInv DEF IInv
<1>11. Begun' = Begun
  <2>1. identity \notin Begun
    BY <1>5, BegunFacts DEF Gone, HasRecord
  <2> QED BY <1>8, <2>1 DEF Begun
<1>12. queue' \in Seq(DOMAIN records')
  <2>1. \A k \in 1..Len(queue) : queue[k] \in DOMAIN records /\ ~records[queue[k]].done
    BY <1>6 DEF IInv, QueueWaits
  <2>2. \A k \in 1..Len(queue) : queue[k] \in DOMAIN records'
    BY <1>8, <1>9, <2>1
  <2> QED BY <1>4, <1>6, <2>2
<1>13. Shape'
  <2>1. \A i \in alive : i \in DOMAIN records /\ records[i].task \in {"Child", "Lost"}
    BY RecordType DEF IInv, Shape, Holds
  <2>2. \A i \in alive : i \in Begun
    BY <2>1 DEF Begun
  <2>3. alive' \subseteq DOMAIN records'
    BY <1>3, <1>11, <2>2 DEF Begun
  <2>4. uncertain' \in BOOLEAN
    BY <1>4 DEF IInv, Shape, ServiceTypeOK
  <2>5. ServiceTypeOK'
    BY <1>3, <1>4, <1>6, <1>8, <1>12, <2>4 DEF IInv, Shape, ServiceTypeOK
  <2> QED BY <1>3, <2>3, <2>5 DEF Shape
<1>14. ASSUME NEW i \in DOMAIN records' PROVE Holds(i)'
  <2>1. Holds(i) /\ i.execution < next /\ records'[i] = records[i]
    BY <1>8, RecordType DEF Holds
  <2> QED BY <1>3, <1>10, <2>1, HoldsKept
<1>15. ASSUME NEW i \in Identities PROVE Survives(i)'
  BY <1>3, <1>8, <1>10, SurvivesKept DEF HasRecord, IInv
<1>16. SlotsCounted' /\ QueueWaits' /\ DrainedOnce' /\ QuietAfterShutdown'
  <2>1. \A k \in 1..Len(queue) : records'[queue[k]] = records[queue[k]]
    BY <1>4, <1>8, <1>12
  <2>2. QueueWaits'
    BY <1>4, <2>1 DEF IInv, QueueWaits
  <2>3. SlotsCounted' /\ DrainedOnce' /\ QuietAfterShutdown'
    BY <1>3, <1>4, <1>11 DEF IInv, SlotsCounted, DrainedOnce, QuietAfterShutdown
  <2> QED BY <2>2, <2>3
<1>17. TerminalRecorded'
  <2> SUFFICES ASSUME NEW i \in DOMAIN executions', Terminal(i)'
               PROVE  HasRecord(i)' /\ records'[i].done
    BY DEF TerminalRecorded
  <2>1. i \in DOMAIN executions /\ Terminal(i) /\ Known(i)
    BY <1>10 DEF SameFor, Terminal, Known
  <2>2. i # identity
    BY <1>5, <2>1 DEF Gone
  <2> QED BY <1>8, <2>1, <2>2 DEF IInv, TerminalRecorded, HasRecord
<1>18. AnswersStand'
  <2>1. \A i \in Identities : (Unmet(i) => Unmet(i)') /\ (Gone(i) => Gone(i)')
    BY <1>8, <1>10 DEF Unmet, Gone, SameFor, HasRecord
  <2> QED BY <1>3, <2>1, AnswersKept
<1>19. UncertainIsLost'
  <2>1. \A i \in DOMAIN records : records[i].task = "Lost" => i \in Begun
    BY DEF Begun
  <2>2. \A i \in DOMAIN records' : records'[i].task = "Lost" => i \in Begun'
    BY DEF Begun
  <2> QED BY <1>4, <1>8, <1>11, <2>1, <2>2 DEF IInv, UncertainIsLost, Begun
<1>20. NothingReturned'
  <2> SUFFICES ASSUME NEW i \in Identities, ~HasRecord(i)',
                      \/ i.execution >= next'
                      \/ Known(i)' /\ Latest(i)'.state = "Submitted"
               PROVE  returned'[i] = NoValue
    BY DEF NothingReturned
  <2>1. next \in Nat /\ i.execution \in Nat
    BY <1>10, NextGrows DEF IInv
  <2>2. i # identity
    BY <1>5, <1>10, <2>1 DEF Gone, SameFor
  <2>3. ~HasRecord(i)
    BY <1>8, <2>2 DEF HasRecord
  <2> QED BY <1>3, <1>10, <2>3 DEF IInv, NothingReturned, SameFor
<1> QED BY <1>10, <1>13, <1>14, <1>15, <1>16, <1>17, <1>18, <1>19, <1>20 DEF IInv

(* The record of a new execution joins the queue; a free worker takes it.  *)
LEMMA ApplySubmitKeeps ==
  ASSUME IInv, NEW c \in Callers, ApplySubmit(c)
  PROVE  IInv'
<1>1. Applied(c, "Submit")
  BY DEF ApplySubmit
<1>2. PICK identity \in Identities : identity = calls[c].identity
  BY <1>1, AppliedFacts
<1>3. /\ closing = {}
      /\ calls[c].stage = "Answered" /\ calls[c].operation = "Submit"
      /\ calls' \in [Callers -> Requests]
      /\ \A d \in Callers : calls'[d].stage = "Answered" => calls'[d] = calls[d] /\ d # c
      /\ UNCHANGED <<closed, closing, shutdown, alive, returned>>
  BY <1>1, AppliedFacts
<1>4. UNCHANGED <<ownerVars, uncertain>>
  BY DEF ApplySubmit
<1>5. Unmet(identity)
  BY <1>2, <1>3 DEF IInv, AnswersStand, Unmet
<1>6. /\ records \in [DOMAIN records -> Records]
      /\ DOMAIN records \in SUBSET Identities
      /\ queue \in Seq(DOMAIN records)
      /\ active \in Nat
  BY DEF IInv, Shape, ServiceTypeOK
<1>7. next' = next /\ OwnerInv' /\ \A i : SameFor(i)
  BY <1>4, OwnerUnchanged, OwnerStepInv DEF IInv
<1>8. /\ identity \notin DOMAIN records
      /\ Known(identity) /\ Latest(identity).state = "Submitted"
      /\ identity.execution < next
      /\ returned[identity] = NoValue
  <2>1. identity.execution < next
    BY <1>5 DEF Unmet, IInv, OwnerInv, PlansGoWithRunning
  <2>2. returned[identity] = NoValue
    BY <1>5 DEF Unmet, IInv, NothingReturned
  <2> QED BY <1>5, <2>1, <2>2 DEF Unmet, HasRecord
<1> DEFINE S == DOMAIN records \cup {identity}
           after == [i \in S |-> IF i = identity THEN NewRecord ELSE records[i]]
           waiting == Append(queue, identity)
<1>9. Drain(after, waiting, active)
  BY <1>2 DEF ApplySubmit
<1>10. /\ NewRecord \in Records /\ NewRecord.task = "None" /\ ~NewRecord.done
       /\ NewRecord.stop = "" /\ NewRecord.captured = NoValue
  BY DEF NewRecord, Records, Tasks, Stops
<1>11. /\ S \in SUBSET Identities
       /\ after \in [S -> Records]
       /\ DOMAIN after = S
       /\ after[identity] = NewRecord
       /\ \A i \in DOMAIN records : after[i] = records[i]
  BY <1>6, <1>8, <1>10
<1> HIDE DEF after
<1>12. /\ waiting \in Seq(S)
       /\ Len(waiting) = Len(queue) + 1
       /\ \A k \in 1..Len(queue) : waiting[k] = queue[k]
       /\ waiting[Len(queue) + 1] = identity
       /\ Len(queue) \in Nat
  <2>1. queue \in Seq(S) /\ identity \in S
    BY <1>6
  <2> QED BY <2>1, AppendProperties
<1> HIDE DEF waiting
<1>13. BegunIn(after) = Begun
  BY <1>8, <1>10, <1>11 DEF BegunIn, Begun, Begins
<1>14. active = Cardinality(BegunIn(after)) /\ active <= Workers
  BY <1>13 DEF IInv, SlotsCounted
<1>15. WaitsIn(after, waiting)
  <2>1. \A k \in 1..Len(queue) :
          /\ queue[k] \in DOMAIN records /\ queue[k] # identity
          /\ after[queue[k]].task = "None" /\ ~after[queue[k]].done
    BY <1>6, <1>8, <1>11 DEF IInv, QueueWaits
  <2>2. \A j, k \in 1..Len(queue) : queue[j] = queue[k] => j = k
    BY DEF IInv, QueueWaits
  <2>3. \A k \in 1..Len(waiting) : k \in 1..Len(queue) \/ k = Len(queue) + 1
    BY <1>12
  <2>4. ASSUME NEW k \in 1..Len(waiting)
        PROVE  after[waiting[k]].task = "None" /\ ~after[waiting[k]].done
    BY <1>10, <1>11, <1>12, <2>1, <2>3
  <2>5. ASSUME NEW j \in 1..Len(waiting), NEW k \in 1..Len(waiting),
               waiting[j] = waiting[k]
        PROVE  j = k
    BY <1>12, <2>1, <2>2, <2>3, <2>5
  <2> QED BY <2>4, <2>5 DEF WaitsIn
<1>16. \/ closed \/ uncertain' \/ active = Workers \/ active + 1 = Workers
       \/ Len(waiting) <= 1
  <2>1. closed \/ uncertain \/ active = Workers \/ queue = << >>
    BY DEF IInv, DrainedOnce
  <2>2. queue = << >> => Len(waiting) <= 1
    BY <1>12
  <2> QED BY <1>4, <2>1, <2>2
<1>17. /\ records' \in [S -> Records]
       /\ queue' \in Seq(S)
       /\ active' \in Nat
       /\ SlotsCounted' /\ QueueWaits' /\ DrainedOnce'
       /\ \A i \in S :
            \/ records'[i] = after[i]
            \/ /\ ~closed
               /\ after[i].task = "None" /\ ~after[i].done
               /\ records'[i] = [after[i] EXCEPT !.task = "Spawned"]
  <2>1. closed' = closed
    BY <1>3
  <2> HIDE DEF S
  <2> QED BY <1>6, <1>9, <1>11, <1>12, <1>14, <1>15, <1>16, <2>1, DrainKeeps
<1>18. /\ DOMAIN records' = S
       /\ \A i \in DOMAIN records :
            \/ records'[i] = records[i]
            \/ /\ ~closed
               /\ records[i].task = "None" /\ ~records[i].done
               /\ records'[i] = [records[i] EXCEPT !.task = "Spawned"]
  <2>1. DOMAIN records' = S
    BY <1>17
  <2>2. ASSUME NEW i \in DOMAIN records
        PROVE  \/ records'[i] = records[i]
               \/ /\ ~closed
                  /\ records[i].task = "None" /\ ~records[i].done
                  /\ records'[i] = [records[i] EXCEPT !.task = "Spawned"]
    <3>1. after[i] = records[i] /\ i \in S
      BY <1>11
    <3> QED BY <1>17, <3>1
  <2> QED BY <2>1, <2>2
<1>19. /\ records'[identity] \in Records
       /\ \/ records'[identity].task = "None"
          \/ records'[identity].task = "Spawned" /\ ~closed
       /\ ~records'[identity].done
       /\ records'[identity].stop = ""
       /\ records'[identity].captured = NoValue
  <2>1. \/ records'[identity] = NewRecord
        \/ ~closed /\ records'[identity] = [NewRecord EXCEPT !.task = "Spawned"]
    BY <1>11, <1>17
  <2> QED BY <1>10, <2>1 DEF Records, Tasks
<1>20. Shape'
  <2>1. uncertain' \in BOOLEAN
    BY <1>4 DEF IInv, Shape, ServiceTypeOK
  <2>2. ServiceTypeOK'
    BY <1>3, <1>11, <1>17, <1>18, <2>1 DEF IInv, Shape, ServiceTypeOK
  <2> QED BY <1>3, <1>18, <2>2 DEF IInv, Shape
<1>21. ASSUME NEW i \in DOMAIN records' PROVE Holds(i)'
  <2>1. CASE i = identity
    <3>1. Known(identity)' /\ Latest(identity)'.state = "Submitted"
      BY <1>7, <1>8 DEF SameFor
    <3>2. identity \notin alive /\ identity \notin closing
      BY <1>3, <1>8 DEF IInv, Shape
    <3>3. /\ identity.execution < next' /\ closed' = closed /\ alive' = alive
          /\ closing' = closing /\ returned'[identity] = NoValue
      BY <1>3, <1>7, <1>8
    <3>4. records'[identity].task # "Ended"
      BY <1>19
    <3> QED BY <1>19, <2>1, <3>1, <3>2, <3>3, <3>4 DEF Holds, Begins
  <2>2. CASE i # identity /\ records'[i] = records[i]
    <3>1. Holds(i) /\ i.execution < next
      BY <1>18, <2>2, RecordType DEF Holds
    <3> QED BY <1>3, <1>7, <2>2, <3>1, HoldsKept
  <2>3. CASE /\ i # identity /\ ~closed
             /\ records[i].task = "None" /\ ~records[i].done
             /\ records'[i] = [records[i] EXCEPT !.task = "Spawned"]
    <3>1. Holds(i) /\ records[i] \in Records
      BY <1>18, <2>3, RecordType
    <3>2. /\ records'[i] \in Records /\ records'[i].task = "Spawned"
          /\ records'[i].done = records[i].done
          /\ records'[i].stop = records[i].stop
          /\ records'[i].captured = records[i].captured
      BY <2>3, <3>1 DEF Records, Tasks
    <3>3. i \notin closing' /\ SameFor(i) /\ next' = next
      BY <1>3, <1>7
    <3>4. closed' = closed /\ alive' = alive /\ returned' = returned
      BY <1>3
    <3> QED BY <2>3, <3>1, <3>2, <3>3, <3>4 DEF Holds, SameFor, Begins
  <2> QED BY <1>18, <2>1, <2>2, <2>3
<1>22. ASSUME NEW i \in Identities PROVE Survives(i)'
  <2>1. CASE i = identity
    BY <1>7, <1>8, <2>1 DEF Survives, Terminal, SameFor
  <2>2. CASE i # identity
    <3>1. HasRecord(i)' => HasRecord(i) /\ records'[i].stop = records[i].stop
      BY <1>6, <1>18, <2>2 DEF HasRecord, Records
    <3>2. Survives(i) /\ SameFor(i) /\ returned'[i] = returned[i]
      BY <1>3, <1>7 DEF IInv
    <3> QED BY <3>1, <3>2, SurvivesKept
  <2> QED BY <2>1, <2>2
<1>23. TerminalRecorded'
  <2> SUFFICES ASSUME NEW i \in DOMAIN executions', Terminal(i)'
               PROVE  HasRecord(i)' /\ records'[i].done
    BY DEF TerminalRecorded
  <2>1. i \in DOMAIN executions /\ Terminal(i)
    BY <1>7 DEF SameFor, Terminal, Known
  <2>2. i \in DOMAIN records /\ records[i].done
    BY <2>1 DEF IInv, TerminalRecorded, HasRecord
  <2> QED BY <1>18, <2>2 DEF HasRecord
<1>24. AnswersStand'
  <2>1. ASSUME NEW d \in Callers, calls'[d].stage = "Answered",
               calls'[d].operation = "Submit"
        PROVE  \E i \in Identities : calls'[d].identity = i /\ Unmet(i)'
    <3>1. PICK i \in Identities : i = calls[d].identity
      BY <1>3, <2>1, RequestType DEF IInv, Shape, ServiceTypeOK
    <3>2. calls'[d].identity = i
      BY <1>3, <2>1, <3>1
    <3>3. calls'[d] = calls[d] /\ d # c
      BY <1>3, <2>1
    <3>4. Unmet(i) /\ i # identity
      BY <1>2, <1>3, <2>1, <3>1, <3>3 DEF IInv, AnswersStand, Unmet
    <3>5. Unmet(i)'
      BY <1>7, <1>18, <3>4 DEF Unmet, SameFor, HasRecord
    <3> QED BY <3>2, <3>5
  <2>2. ASSUME NEW d \in Callers, calls'[d].stage = "Answered",
               calls'[d].operation = "Release"
        PROVE  \E i \in Identities : calls'[d].identity = i /\ Gone(i)'
    <3>1. PICK i \in Identities : i = calls[d].identity
      BY <1>3, <2>2, RequestType DEF IInv, Shape, ServiceTypeOK
    <3>2. calls'[d].identity = i /\ Gone(i)
      BY <1>3, <2>2, <3>1 DEF IInv, AnswersStand, Gone
    <3>3. i # identity
      BY <1>8, <3>2 DEF Gone
    <3>4. Gone(i)'
      BY <1>7, <1>18, <3>2, <3>3 DEF Gone, SameFor, HasRecord
    <3> QED BY <3>2, <3>4
  <2>3. \A d, e \in Callers :
          /\ calls'[d].stage = "Answered" /\ calls'[d].operation = "Submit"
          /\ calls'[e].stage = "Answered" /\ calls'[e].operation = "Submit"
          /\ calls'[d].identity = calls'[e].identity
          => d = e
    BY <1>3 DEF IInv, AnswersStand
  <2> QED BY <2>1, <2>2, <2>3 DEF AnswersStand, Gone, Unmet
<1>25. UncertainIsLost'
  <2>1. \A i \in DOMAIN records : records'[i].task = "Lost" <=> records[i].task = "Lost"
    BY <1>6, <1>18 DEF Records
  <2>2. records'[identity].task # "Lost"
    BY <1>19
  <2> QED BY <1>4, <1>18, <2>1, <2>2 DEF IInv, UncertainIsLost
<1>26. QuietAfterShutdown'
  <2>1. shutdown # "None" => closed
    BY DEF IInv, QuietAfterShutdown
  <2>2. closed => Begun' = Begun
    <3>1. ASSUME closed PROVE \A i \in DOMAIN records : records'[i] = records[i]
      BY <1>18, <3>1
    <3>2. ASSUME closed PROVE records'[identity].task = "None"
      BY <1>19, <3>2
    <3> QED BY <1>18, <3>1, <3>2 DEF Begun
  <2> QED BY <1>3, <2>1, <2>2 DEF IInv, QuietAfterShutdown
<1>27. NothingReturned'
  <2>1. \A i \in Identities : HasRecord(i) => HasRecord(i)'
    BY <1>18 DEF HasRecord
  <2>2. \A i \in Identities : returned'[i] = returned[i] /\ SameFor(i)
    BY <1>3, <1>7
  <2>3. next' \in {next, next + 1}
    BY <1>7
  <2> QED BY <2>1, <2>2, <2>3, NoReturnKept
<1> QED BY <1>7, <1>17, <1>20, <1>21, <1>22, <1>23, <1>24, <1>25, <1>26, <1>27 DEF IInv

-----------------------------------------------------------------------------
(* Close and shutdown. *)

(* Every record that is not done gets its reason to stop, and what waits   *)
(* is to be completed; nothing has ended yet.                              *)
LEMMA CloseRecordsKeeps ==
  ASSUME IInv, CloseRecords,
         \/ shutdown' = shutdown
         \/ shutdown' = "Waiting"
  PROVE  IInv'
<1> DEFINE stopped(i) == Stop(records[i], "shutdown")
<1>1. /\ closed' = TRUE
      /\ queue' = << >>
      /\ UNCHANGED <<ownerVars, active, uncertain, calls, alive, returned>>
      /\ records' = [i \in DOMAIN records |->
                       IF Undone(i) THEN stopped(i) ELSE records[i]]
      /\ closing' = {i \in DOMAIN records :
                       Undone(i) /\ records[i].task = "None"}
  BY DEF CloseRecords
<1>2. /\ records \in [DOMAIN records -> Records]
      /\ DOMAIN records \in SUBSET Identities
      /\ calls \in [Callers -> Requests]
  BY DEF IInv, Shape, ServiceTypeOK
<1>3. ASSUME NEW i \in DOMAIN records
      PROVE  /\ records[i] \in Records /\ records'[i] \in Records
             /\ records'[i].task = records[i].task
             /\ records'[i].done = records[i].done
             /\ records'[i].captured = records[i].captured
             /\ records'[i].stop \in {records[i].stop, "shutdown"}
             /\ ~records[i].done => records'[i].stop # ""
             /\ records[i].done => records'[i] = records[i]
  <2>1. records[i] \in Records
    BY <1>2
  <2>2. /\ stopped(i) \in Records
        /\ stopped(i).task = records[i].task
        /\ stopped(i).done = records[i].done
        /\ stopped(i).captured = records[i].captured
        /\ stopped(i).stop \in {records[i].stop, "shutdown"}
        /\ stopped(i).stop # ""
    BY <2>1, StopType
  <2>3. records'[i] = IF ~records[i].done THEN stopped(i) ELSE records[i]
    BY <1>1 DEF Undone
  <2> HIDE DEF stopped
  <2> QED BY <2>1, <2>2, <2>3
<1>4. DOMAIN records' = DOMAIN records
  BY <1>1
<1>5. records' \in [DOMAIN records -> Records]
  <2> HIDE DEF stopped
  <2>1. records' = [i \in DOMAIN records |-> records'[i]]
    BY <1>1
  <2> QED BY <1>3, <2>1
<1>6. next' = next /\ OwnerInv' /\ \A i : SameFor(i)
  BY <1>1, OwnerUnchanged, OwnerStepInv DEF IInv
<1>7. Begun' = Begun
  BY <1>3, <1>4 DEF Begun
<1>8. Shape'
  <2>1. uncertain' \in BOOLEAN
    BY <1>1 DEF IInv, Shape, ServiceTypeOK
  <2>2. queue' \in Seq(DOMAIN records)
    BY <1>1
  <2>3. closing' \subseteq DOMAIN records
    BY <1>1
  <2>4. shutdown' \in {"None", "Waiting", "Returned", "Raised"}
    BY DEF IInv, Shape, ServiceTypeOK
  <2>5. /\ active' \in Nat /\ closed' \in BOOLEAN /\ calls' \in [Callers -> Requests]
        /\ alive' \subseteq Identities /\ alive' \subseteq DOMAIN records
        /\ returned' \in [Identities -> Values \cup {NoValue}]
    BY <1>1 DEF IInv, Shape, ServiceTypeOK
  <2>6. ServiceTypeOK'
    BY <1>2, <1>4, <1>5, <2>1, <2>2, <2>3, <2>4, <2>5 DEF ServiceTypeOK
  <2> QED BY <1>1, <1>4, <2>5, <2>6 DEF Shape
<1>9. ASSUME NEW i \in DOMAIN records' PROVE Holds(i)'
  <2>1. Holds(i)
    BY <1>4, RecordType
  <2>2. /\ next' = next /\ SameFor(i)
        /\ i \in alive' <=> i \in alive
        /\ returned'[i] = returned[i]
    BY <1>1, <1>6
  <2>3. i \in closing' => records[i].task = "None" /\ ~records[i].done
    BY <1>1 DEF Undone
  <2>4. /\ records'[i] \in Records
        /\ records'[i].task = records[i].task
        /\ records'[i].done = records[i].done
        /\ records'[i].captured = records[i].captured
        /\ records'[i].stop \in {records[i].stop, "shutdown"}
        /\ ~records[i].done => records'[i].stop # ""
    BY <1>3, <1>4
  <2> QED BY <2>1, <2>2, <2>3, <2>4 DEF Holds, SameFor, Begins
<1>10. ASSUME NEW i \in Identities PROVE Survives(i)'
  <2>1. Survives(i) /\ SameFor(i) /\ returned'[i] = returned[i]
    BY <1>1, <1>6 DEF IInv
  <2>2. CASE Terminal(i)
    <3>1. i \in DOMAIN records /\ records[i].done
      BY <2>2 DEF IInv, TerminalRecorded, HasRecord, Terminal, Known
    <3>2. records'[i].stop = records[i].stop
      BY <1>3, <3>1
    <3> QED BY <2>1, <3>1, <3>2, SurvivesKept DEF HasRecord
  <2>3. CASE ~Terminal(i)
    BY <2>1, <2>3 DEF Survives, Terminal, SameFor
  <2> QED BY <2>2, <2>3
<1>11. SlotsCounted' /\ QueueWaits' /\ DrainedOnce'
  BY <1>1, <1>7 DEF IInv, SlotsCounted, QueueWaits, DrainedOnce
<1>12. TerminalRecorded'
  <2> SUFFICES ASSUME NEW i \in DOMAIN executions', Terminal(i)'
               PROVE  HasRecord(i)' /\ records'[i].done
    BY DEF TerminalRecorded
  <2>1. i \in DOMAIN executions /\ Terminal(i)
    BY <1>6 DEF SameFor, Terminal, Known
  <2>2. i \in DOMAIN records /\ records[i].done
    BY <2>1 DEF IInv, TerminalRecorded, HasRecord
  <2> QED BY <1>3, <1>4, <2>2 DEF HasRecord
<1>13. AnswersStand'
  <2>1. \A i \in Identities : (Unmet(i) => Unmet(i)') /\ (Gone(i) => Gone(i)')
    BY <1>3, <1>4, <1>6 DEF Unmet, Gone, SameFor, HasRecord
  <2>2. calls' = calls
    BY <1>1
  <2> QED BY <1>2, <2>1, <2>2, AnswersKept
<1>14. UncertainIsLost'
  BY <1>1, <1>3, <1>4 DEF IInv, UncertainIsLost
<1>15. QuietAfterShutdown'
  BY <1>1, <1>7 DEF IInv, QuietAfterShutdown
<1>16. NothingReturned'
  <2>1. \A i \in Identities : HasRecord(i) => HasRecord(i)'
    BY <1>4 DEF HasRecord
  <2>2. \A i \in Identities : returned'[i] = returned[i] /\ SameFor(i)
    BY <1>1, <1>6
  <2>3. next' \in {next, next + 1}
    BY <1>6
  <2> QED BY <2>1, <2>2, <2>3, NoReturnKept
<1> QED BY <1>6, <1>8, <1>9, <1>10, <1>11, <1>12, <1>13, <1>14, <1>15, <1>16 DEF IInv

(* The wait for the tasks is over: no worker is taken, or it is an error.  *)
LEMMA EndShutdownKeeps ==
  ASSUME IInv, EndShutdown
  PROVE  IInv'
<1>1. /\ shutdown = "Waiting"
      /\ shutdown' = IF ~uncertain /\ active = 0 THEN "Returned" ELSE "Raised"
      /\ UNCHANGED <<ownerVars, records, queue, active, closed, uncertain, calls,
                     closing, alive, returned>>
  BY DEF EndShutdown
<1>2. next' = next /\ OwnerInv' /\ \A i : SameFor(i)
  BY <1>1, OwnerUnchanged, OwnerStepInv DEF IInv
<1>3. Shape'
  <2>1. shutdown' \in {"None", "Waiting", "Returned", "Raised"}
    BY <1>1
  <2>2. ServiceTypeOK'
    BY <1>1, <2>1 DEF IInv, Shape, ServiceTypeOK
  <2> QED BY <1>1, <2>2 DEF IInv, Shape
<1>4. ASSUME NEW i \in DOMAIN records' PROVE Holds(i)'
  <2>1. Holds(i) /\ i.execution < next
    BY <1>1, RecordType DEF Holds
  <2> QED BY <1>1, <1>2, <2>1, HoldsKept
<1>5. ASSUME NEW i \in Identities PROVE Survives(i)'
  BY <1>1, <1>2, SurvivesKept DEF HasRecord, IInv
<1>6. Begun' = Begun
  BY <1>1 DEF Begun
<1>7. SlotsCounted' /\ QueueWaits' /\ DrainedOnce' /\ UncertainIsLost'
  BY <1>1, <1>6 DEF IInv, SlotsCounted, QueueWaits, DrainedOnce, UncertainIsLost
<1>8. TerminalRecorded'
  <2> SUFFICES ASSUME NEW i \in DOMAIN executions', Terminal(i)'
               PROVE  HasRecord(i)' /\ records'[i].done
    BY DEF TerminalRecorded
  <2>1. i \in DOMAIN executions /\ Terminal(i)
    BY <1>2 DEF SameFor, Terminal, Known
  <2> QED BY <1>1, <2>1 DEF IInv, TerminalRecorded, HasRecord
<1>9. AnswersStand'
  <2>1. \A i \in Identities : (Unmet(i) => Unmet(i)') /\ (Gone(i) => Gone(i)')
    BY <1>1, <1>2 DEF Unmet, Gone, SameFor, HasRecord
  <2>2. calls' = calls /\ calls \in [Callers -> Requests]
    BY <1>1 DEF IInv, Shape, ServiceTypeOK
  <2> QED BY <2>1, <2>2, AnswersKept
<1>10. QuietAfterShutdown'
  <2>1. closed
    BY <1>1 DEF IInv, QuietAfterShutdown
  <2>2. CASE active = 0
    <3>1. Begun = {}
      <4>1. IsFiniteSet(Begun)
        <5>1. Begun \subseteq Identities
          BY DEF Begun, IInv, Shape, ServiceTypeOK
        <5> QED BY <5>1, IdentitiesAreFinite, FS_Subset
      <4>2. Cardinality(Begun) = 0
        BY <2>2 DEF IInv, SlotsCounted
      <4> QED BY <4>1, <4>2, FS_EmptySet
    <3>2. alive = {}
      <4>1. \A i \in alive : i \in DOMAIN records /\ records[i].task \in {"Child", "Lost"}
        BY RecordType DEF IInv, Shape, Holds
      <4> QED BY <3>1, <4>1 DEF Begun
    <3> QED BY <1>1, <1>6, <2>1, <3>1, <3>2 DEF QuietAfterShutdown
  <2>3. CASE active # 0
    BY <1>1, <2>1, <2>3 DEF QuietAfterShutdown
  <2> QED BY <2>2, <2>3
<1>11. NothingReturned'
  <2>1. \A i \in Identities : HasRecord(i) => HasRecord(i)'
    BY <1>1 DEF HasRecord
  <2>2. \A i \in Identities : returned'[i] = returned[i] /\ SameFor(i)
    BY <1>1, <1>2
  <2>3. next' \in {next, next + 1}
    BY <1>2
  <2> QED BY <2>1, <2>2, <2>3, NoReturnKept
<1> QED BY <1>2, <1>3, <1>4, <1>5, <1>7, <1>8, <1>9, <1>10, <1>11 DEF IInv

-----------------------------------------------------------------------------
(* Every step. *)

LEMMA StutterKeeps ==
  ASSUME IInv, UNCHANGED vars
  PROVE  IInv'
<1>1. UNCHANGED <<ownerVars, records, queue, active, closed, uncertain, calls, closing,
                  shutdown, alive, returned>>
  BY DEF vars, serviceVars
<1>2. next' = next /\ OwnerInv' /\ \A i : SameFor(i)
  BY <1>1, OwnerUnchanged, OwnerStepInv DEF IInv
<1>3. calls' \in [Callers -> Requests]
  BY <1>1 DEF IInv, Shape, ServiceTypeOK
<1>4. AnswersStand'
  <2>1. \A i \in Identities : (Unmet(i) => Unmet(i)') /\ (Gone(i) => Gone(i)')
    BY <1>1, <1>2 DEF Unmet, Gone, SameFor, HasRecord
  <2> QED BY <1>1, <1>3, <2>1, AnswersKept
<1> QED BY <1>1, <1>2, <1>3, <1>4, RecordsUntouched

LEMMA CallerStep ==
  ASSUME IInv, NEW c \in Callers,
         \/ \E work \in Works : RequestSubmit(c, work)
         \/ \E operation \in Asked[c], identity \in Identities :
              RequestOn(c, operation, identity)
         \/ AnswerSubmit(c)
         \/ AnswerCancel(c)
         \/ AnswerRelease(c)
         \/ Abandon(c)
         \/ ApplySubmit(c)
         \/ ApplyCancel(c)
         \/ ApplyRelease(c)
  PROVE  IInv' /\ [OwnerNext]_ownerVars
<1>1. ASSUME NEW work \in Works, RequestSubmit(c, work)
      PROVE  IInv' /\ UNCHANGED ownerVars
  BY <1>1, RequestSubmitKeeps DEF RequestSubmit, Ask
<1>2. ASSUME NEW operation \in Asked[c], NEW identity \in Identities,
             RequestOn(c, operation, identity)
      PROVE  IInv' /\ UNCHANGED ownerVars
  <2>1. operation \in {"Cancel", "Release"}
    BY ServiceAssumption
  <2> QED BY <1>2, <2>1, RequestOnKeeps DEF RequestOn, Ask
<1>3. CASE Abandon(c)
  BY <1>3, AbandonKeeps DEF Abandon
<1>4. CASE ApplySubmit(c)
  BY <1>4, ApplySubmitKeeps DEF ApplySubmit
<1>5. CASE ApplyRelease(c)
  BY <1>5, ApplyReleaseKeeps DEF ApplyRelease
<1> QED BY <1>1, <1>2, <1>3, <1>4, <1>5, AnswerSubmitKeeps, AnswerCancelKeeps,
           AnswerReleaseKeeps, ApplyCancelKeeps

LEMMA RunStepKeeps ==
  ASSUME IInv, NEW identity \in Identities, RunStep(identity)
  PROVE  IInv' /\ [OwnerNext]_ownerVars
<1>1. CASE StartChild(identity)
  BY <1>1, StartChildKeeps DEF StartChild
<1>2. ASSUME NEW code \in {0, 1}, ExitChild(identity, code)
      PROVE  IInv' /\ [OwnerNext]_ownerVars
  BY <1>2, ExitChildKeeps DEF ExitChild
<1>3. CASE LoseChild(identity)
  BY <1>3, LoseChildKeeps DEF LoseChild
<1> QED BY <1>1, <1>2, <1>3, SkipRunKeeps, BeginRunKeeps, FailRunKeeps, FinishRunKeeps
        DEF RunStep

(* The invariant is kept, and what a step does to the owner is a step of   *)
(* the owner.                                                              *)
LEMMA ServiceStep ==
  ASSUME IInv, [ServiceNext]_vars
  PROVE  IInv' /\ [OwnerNext]_ownerVars
<1>1. CASE UNCHANGED vars
  BY <1>1, StutterKeeps DEF vars
<1>2. ASSUME NEW identity \in Identities, FaultyChild(identity)
      PROVE  IInv' /\ [OwnerNext]_ownerVars
  BY <1>2, FaultyChildKeeps DEF FaultyChild
<1>3. ASSUME NEW identity \in Identities, NEW value \in Values,
             CaptureFrame(identity, value)
      PROVE  IInv' /\ [OwnerNext]_ownerVars
  BY <1>3, CaptureFrameKeeps DEF CaptureFrame
<1>4. CASE Close
  BY <1>4, CloseRecordsKeeps DEF Close, CloseRecords
<1>5. CASE BeginShutdown
  BY <1>5, CloseRecordsKeeps DEF BeginShutdown, CloseRecords
<1>6. CASE EndShutdown
  BY <1>6, EndShutdownKeeps DEF EndShutdown
<1> QED BY <1>1, <1>2, <1>3, <1>4, <1>5, <1>6, CallerStep, RunStepKeeps, CloseRecordKeeps
        DEF ServiceNext

(* The invariant holds of the service in every state.                      *)
LEMMA ServiceInvariant == ServiceSpec => []IInv
<1>1. ServiceInit => IInv
  BY InitIInv
<1>2. IInv /\ [ServiceNext]_vars => IInv'
  BY ServiceStep
<1> QED BY <1>1, <1>2, PTL DEF ServiceSpec

-----------------------------------------------------------------------------
(* However requests, runs, ends of processes and close interleave: workers *)
(* are counted, records agree with the owner, late answers find what they  *)
(* expect, only an unconfirmed exit makes the service uncertain, and       *)
(* shutdown returns when no process can be left.                           *)
THEOREM ServiceIsSafe == ServiceSpec => []ServiceInv
<1>1. IInv => ServiceInv
  BY InvariantParts
<1> QED BY <1>1, ServiceInvariant, PTL

(* What a worker returned is what its execution ends with, whatever is     *)
(* cancelled or closed meanwhile.                                          *)
THEOREM ReturnedOutcomesSurvive == ServiceSpec => []ReturnedSurvives
<1>1. IInv => ReturnedSurvives
  BY InvariantParts
<1> QED BY <1>1, ServiceInvariant, PTL

(* The service implements the owner of executions: it makes none but the   *)
(* owner's steps, so all that is proved of the owner holds in the service. *)
THEOREM ServiceIsAnOwner == ServiceSpec => KeepsOwner
<1>1. ServiceInit => OwnerInit
  BY DEF ServiceInit
<1>2. IInv /\ [ServiceNext]_vars => [OwnerNext]_ownerVars
  BY ServiceStep
<1> QED BY <1>1, <1>2, ServiceInvariant, PTL DEF ServiceSpec, KeepsOwner, OwnerSpec
====
