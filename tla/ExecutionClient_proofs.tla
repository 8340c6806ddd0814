------------------------ MODULE ExecutionClient_proofs ------------------------
(***************************************************************************)
(* Theorems about ExecutionClient: a page over one owner of executions,    *)
(* for any number of calls of execute, cancel and resume, any works,       *)
(* outcomes and limits, and any number of awaits that fail.                *)
(***************************************************************************)
EXTENDS ExecutionClient, ExecutionOwner_proofs

-----------------------------------------------------------------------------
(* The inductive invariant: the host. *)

(* What a client may rely on in the receipts of the owner: the last ones   *)
(* are published, and each follows those before it.                        *)
HistoryInv ==
  /\ \A identity \in DOMAIN executions : Latest(identity) \in published
  /\ \A receipt \in published :
       /\ WellFormed(receipt)
       /\ receipt.outcomes \notin Foreign
       /\ receipt.cancel_requested => offer.cancel
  /\ \A r1, r2 \in published :
       r1.identity = r2.identity /\ r1.sequence < r2.sequence => Follows(r1, r2)

(* Nobody else submits, and this page keeps one execution at a time.       *)
HostInv ==
  /\ OwnerInv
  /\ proposals = << >>
  /\ HistoryInv
  /\ \A i, j \in DOMAIN executions : i = j

-----------------------------------------------------------------------------
(* The inductive invariant: the page. *)

Clients ==
  [tracking : {NoCursor} \cup Cursors, accepted : SUBSET Identities,
   generation : Nat, cancelling : Tasks \cup {NoTask},
   active : BOOLEAN, polling : BOOLEAN, reconciling : BOOLEAN,
   releasePending : BOOLEAN, reauthenticated : BOOLEAN, uncertain : BOOLEAN,
   cancelOnSubmit : BOOLEAN, suspended : BOOLEAN]

(* The core tracks an execution of the host, with a receipt of the host.   *)
CursorOK(c) ==
  /\ c \in Clients
  /\ Tracks(c) =>
       /\ latest(c.tracking) \in published
       /\ latest(c.tracking).identity = c.tracking.identity
       /\ c.tracking.can_cancel = offer.cancel
       /\ c.tracking.identity.execution < next
       /\ Terminal(c) \/ c.tracking.identity \in DOMAIN executions
       /\ ~c.suspended => c.tracking.online
  /\ c.releasePending => Terminal(c)
  /\ \A identity \in c.accepted :
       Tracks(c) /\ identity.execution <= c.tracking.identity.execution

(* The functions over the tasks, and the cancellation that is shared.      *)
Fields ==
  /\ pc \in [Tasks -> Points]
  /\ gen \in [Tasks -> Nat]
  /\ losses \in Nat
  /\ wire = [t \in Tasks |-> wire[t]]
  /\ given = [t \in Evaluations |-> given[t]]
  /\ returned = [t \in Observers |-> returned[t]]
  /\ client.cancelling # NoTask => pc[client.cancelling] = "cancelling"

(* The points of poll. *)
Watches == {"pausing", "querying", "freeing"}

(* No two observers run, and the flags tell which one does. *)
ObserversInv ==
  /\ \A t, u \in Observers : Running(t) /\ Running(u) => t = u
  /\ client.active <=> \E e \in Evaluations : Running(e)
  /\ client.reconciling <=> \E r \in Resumes : Running(r)
  /\ client.polling <=> \E t \in Observers : pc[t] \in Watches

Tracked == client.tracking.identity
Room    == Policy => Cardinality(client.accepted) < MaxAccepted

Preparing(t) == t \in Evaluations /\ pc[t] \in {"releasing", "submitting"}

(* Which task may be where. *)
PointOK(t) ==
  /\ pc[t] \in {"releasing", "submitting"} => t \in Evaluations
  /\ pc[t] \in {"authenticating", "settling"} => t \in Resumes
  /\ pc[t] \in Watches => t \in Observers
  /\ pc[t] = "cancelling" => t \in Evaluations \cup Cancels
  /\ gen[t] <= client.generation
  /\ pc[t] \in {"idle", "pausing"} => wire[t] = Nothing
  /\ pc[t] \in Watches \cup {"authenticating"} => Tracks(client)

(* What execute checked still holds when its submission is answered. *)
PreparingOK(t) ==
  Preparing(t) => /\ ~client.uncertain
                  /\ Tracks(client) => Terminal(client)
                  /\ Room

(* The answer to a submission is the only execution that the host has. *)
SubmittingOK(t) ==
  pc[t] = "submitting" =>
    /\ ~client.releasePending
    /\ \/ \E work \in Works : wire[t] = Requested("submit", work)
       \/ wire[t] = Rejected /\ DOMAIN executions = {}
       \/ \E identity \in Identities :
            /\ wire[t] = Reported(Initial(identity))
            /\ DOMAIN executions = {identity}
            /\ Initial(identity) \in published
            /\ Tracks(client) => Tracked.execution < identity.execution

ReleasingOK(t) ==
  pc[t] \in {"releasing", "freeing", "settling"} =>
    /\ Terminal(client)
    /\ \/ wire[t] \in {Requested("release", Tracked), Rejected}
       \/ wire[t] \in {Released, Absent} /\ Tracked \notin DOMAIN executions

(* The answer is a receipt of the tracked execution, or it has ended. *)
Tells(t, path) ==
  \/ wire[t] = Requested(path, Tracked)
  \/ \E receipt \in published :
       /\ wire[t] = Reported(receipt)
       /\ receipt.identity = Tracked
       /\ path = "cancel" => receipt.cancel_requested \/ receipt.state = "Terminal"
  \/ wire[t] = Absent /\ Terminal(client)

QueryingOK(t) == pc[t] = "querying" => Tells(t, "query")

(* A cancellation of the current generation is one of the tracked          *)
(* execution; an older one says nothing of it.                             *)
CancellingOK(t) ==
  pc[t] = "cancelling" =>
    /\ t \in Evaluations => Current(t)
    /\ Current(t) => /\ Tracks(client)
                     /\ \A e \in Tasks : ~Preparing(e)
                     /\ Tells(t, "cancel")

AuthenticatingOK(t) ==
  pc[t] = "authenticating" => wire[t] \in {Requested("session", Nothing), Session}

Submits(t) == \E work \in Works : wire[t] = Requested("submit", work)

(* What a request that may still arrive does at the host. *)
PendingOK(t) ==
  Pending(t) =>
    \/ /\ Submits(t)
       /\ t \in Evaluations
       /\ pc[t] = "submitting" \/ (pc[t] = "done" /\ client.uncertain)
       /\ DOMAIN executions = {}
    \/ \E identity \in Identities :
         /\ wire[t] = Requested("release", identity)
         /\ Tracks(client)
         /\ identity.execution <= Tracked.execution
         /\ identity = Tracked => Terminal(client)
    \/ wire[t].path \in {"query", "cancel", "session"}

GivenOK(t) ==
  t \in Evaluations /\ pc[t] \in Watches \cup {"cancelling"} =>
    Tracks(client) /\ given[t] = Tracked

ReturnedOK(t) ==
  t \in Observers =>
    /\ pc[t] # "done" => returned[t] = Nothing
    /\ returned[t] # Nothing =>
         /\ returned[t] \in published
         /\ returned[t].state = "Terminal"
         /\ t \in Evaluations => returned[t].identity = given[t]

(* The wish to cancel was heard, or it came too late. *)
KeptOK(t) ==
  t \in Evaluations /\ pc[t] \in Watches /\ client.cancelOnSubmit /\ offer.cancel =>
    Terminal(client) \/ latest(client.tracking).cancel_requested

TaskOK(t) ==
  /\ PointOK(t)
  /\ PreparingOK(t)
  /\ SubmittingOK(t)
  /\ ReleasingOK(t)
  /\ QueryingOK(t)
  /\ CancellingOK(t)
  /\ AuthenticatingOK(t)
  /\ PendingOK(t)
  /\ GivenOK(t)
  /\ ReturnedOK(t)
  /\ KeptOK(t)

OneSubmission == \A t, u \in Tasks : Submits(t) /\ Submits(u) => t = u

Remembered ==
  \A identity \in DOMAIN executions :
    \/ /\ Tracks(client) /\ Tracked = identity
       /\ Terminal(client) => client.releasePending
    \/ client.uncertain
    \/ \E e \in Evaluations : pc[e] = "submitting"

IInv ==
  /\ HostInv
  /\ CursorOK(client)
  /\ Fields
  /\ ObserversInv
  /\ \A t \in Tasks : TaskOK(t)
  /\ OneSubmission
  /\ Remembered
  /\ StaysConnected

-----------------------------------------------------------------------------
(* The history of receipts. *)

LEMMA FollowsTransitive ==
  ASSUME NEW r1 \in AllReceipts, NEW r2 \in AllReceipts, NEW r3 \in AllReceipts,
         Follows(r1, r2), Follows(r2, r3)
  PROVE  Follows(r1, r3)
BY DEF Follows, AllReceipts, States

(* A receipt that advances the owner's cursor continues the history.       *)
LEMMA AdvanceKeepsHistory ==
  ASSUME OwnerInv, HistoryInv, NEW identity \in DOMAIN executions,
         NEW receipt \in AllReceipts, Advance(identity, receipt)
  PROVE  HistoryInv'
<1> DEFINE seen == executions[identity].cursor
           last == Latest(identity)'
<1>1. /\ seen \in Cursors
      /\ seen.identity = identity
      /\ seen.can_cancel = offer.cancel
      /\ Latest(identity) = seen.evidence
      /\ Latest(identity) \in AllReceipts
  BY ExecutionType DEF OwnerInv, OwnerTypeOK, Latest, latest
<1>2. published \subseteq AllReceipts
  BY DEF OwnerInv, OwnerTypeOK
<1>3. /\ DOMAIN executions' = DOMAIN executions
      /\ \A i \in DOMAIN executions \ {identity} : executions'[i] = executions[i]
      /\ last = observe(seen, receipt).evidence
      /\ published' = published \cup {last}
  BY AdvanceFacts DEF Latest, latest
<1>4. \A i \in DOMAIN executions' : Latest(i)' \in published'
  BY <1>3 DEF HistoryInv, Latest
<1>5. CASE Disposition(seen, receipt) # "Advanced"
  <2>1. last = Latest(identity)
    BY <1>1, <1>3, <1>5 DEF observe
  <2>2. published' = published
    BY <1>3, <2>1 DEF HistoryInv
  <2> QED BY <1>4, <2>2 DEF HistoryInv
<1>6. CASE Disposition(seen, receipt) = "Advanced"
  <2>1. last = receipt
    BY <1>1, <1>3, <1>6 DEF observe, Cursors
  <2>2. /\ Admits(seen, receipt)
        /\ receipt.sequence > Latest(identity).sequence
        /\ Follows(Latest(identity), receipt)
    BY <1>1, <1>6 DEF Disposition
  <2>3. /\ WellFormed(receipt)
        /\ receipt.outcomes \notin Foreign
        /\ receipt.cancel_requested => offer.cancel
        /\ receipt.identity = identity
    BY <1>1, <2>2, OutcomesAssumption DEF Admits, WellFormed
  <2>4. ASSUME NEW r \in published, r.identity = identity
        PROVE  r.sequence < receipt.sequence /\ Follows(r, receipt)
    <3>1. Precedes(r, Latest(identity))
      BY <2>4 DEF OwnerInv, LatestIsLast, Known
    <3>2. r \in AllReceipts /\ r.sequence \in Nat /\ Latest(identity).sequence \in Nat
      BY <1>1, <1>2 DEF AllReceipts
    <3>3. r = Latest(identity) \/ r.sequence < Latest(identity).sequence
      BY <3>1 DEF Precedes
    <3>4. CASE r = Latest(identity)
      BY <2>2, <3>4
    <3>5. CASE r.sequence < Latest(identity).sequence
      <4>1. Follows(r, Latest(identity))
        BY <2>4, <3>5, ExecutionType DEF HistoryInv, OwnerInv, Latest, latest
      <4>2. Follows(r, receipt)
        BY <1>1, <2>2, <3>2, <4>1, FollowsTransitive
      <4> QED BY <2>2, <3>2, <3>5, <4>2 DEF AllReceipts
    <3> QED BY <3>3, <3>4, <3>5
  <2>5. published' = published \cup {receipt}
    BY <1>3, <2>1
  <2>6. ASSUME NEW r1 \in published', NEW r2 \in published',
               r1.identity = r2.identity, r1.sequence < r2.sequence
        PROVE  Follows(r1, r2)
    <3>1. r1.sequence \in Nat /\ r2.sequence \in Nat
      BY <1>2, <2>5 DEF AllReceipts
    <3>2. CASE r1 \in published /\ r2 \in published
      BY <2>6, <3>2 DEF HistoryInv
    <3>3. CASE r2 = receipt /\ r1 # receipt
      BY <2>3, <2>4, <2>5, <2>6, <3>3
    <3>4. CASE r1 = receipt
      BY <2>3, <2>4, <2>5, <2>6, <3>1, <3>4
    <3> QED BY <2>5, <3>2, <3>3, <3>4
  <2> QED BY <1>4, <2>3, <2>5, <2>6 DEF HistoryInv
<1> QED BY <1>5, <1>6

-----------------------------------------------------------------------------
(* What the steps of the host do, whoever asked for them. *)

(* The part of the host's state that a client's facts are about.           *)
HostKeeps == next <= next' /\ published \subseteq published'

LEMMA AdvanceHost ==
  ASSUME HostInv, NEW identity \in DOMAIN executions, NEW receipt \in AllReceipts,
         Advance(identity, receipt), OwnerInv'
  PROVE  /\ HostInv'
         /\ HostKeeps
         /\ DOMAIN executions' = DOMAIN executions
         /\ Latest(identity)' \in published'
         /\ Latest(identity)'.identity = identity
<1>1. /\ DOMAIN executions' = DOMAIN executions
      /\ published' = published \cup {Latest(identity)'}
      /\ Latest(identity)'.identity = identity
      /\ UNCHANGED <<next, proposals>>
  BY AdvanceFacts DEF HostInv, Latest, latest
<1>2. HistoryInv'
  BY AdvanceKeepsHistory DEF HostInv
<1>3. next \in Nat
  BY NextIsNat DEF HostInv, OwnerInv
<1> QED BY <1>1, <1>2, <1>3 DEF HostInv, HostKeeps

LEMMA SubmitHost ==
  ASSUME HostInv, DOMAIN executions = {}, NEW work \in Works, Submit(work)
  PROVE  /\ HostInv'
         /\ HostKeeps
         /\ Identity(next) \in Identities
         /\ Identity(next).execution = next
         /\ next < next'
         /\ DOMAIN executions' = {Identity(next)}
         /\ Initial(Identity(next)) \in published'
<1>1. OwnerInv'
  BY OwnerStepInv DEF HostInv, OwnerNext
<1>2. /\ next \in 1..(LastNext - 1)
      /\ Identity(next) \in Identities
      /\ DOMAIN executions' = {Identity(next)}
      /\ executions'[Identity(next)] = Candidate(next, work).execution
      /\ next' = next + 1
      /\ published' = published \cup {Initial(Identity(next))}
  BY CommitFacts DEF HostInv, Submit
<1>3. \A i \in DOMAIN executions' : Latest(i)' = Initial(Identity(next))
  <2>1. executions'[Identity(next)].cursor =
          start(offer, Identity(next), Initial(Identity(next)))
    BY <1>2, CandidateType
  <2>2. executions'[Identity(next)].cursor.evidence = Initial(Identity(next))
    BY <1>2, <2>1, StartType
  <2> QED BY <1>2, <2>2 DEF Latest, latest
<1>4. /\ Initial(Identity(next)) \in AllReceipts
      /\ WellFormed(Initial(Identity(next)))
      /\ Initial(Identity(next)).outcomes = NoOutcome
      /\ Initial(Identity(next)).identity = Identity(next)
      /\ Initial(Identity(next)).cancel_requested = FALSE
      /\ Initial(Identity(next)).sequence = 0
  BY <1>2, InitialType DEF Initial, Receipt
<1>5. \A r \in published : r.identity # Identity(next)
  <2>1. \A r \in published : r.identity.execution < next /\ r \in AllReceipts
    BY DEF HostInv, OwnerInv, LatestIsLast, OwnerTypeOK
  <2>2. \A r \in published : r.identity.execution \in Int
    BY <2>1, IdentityNumber DEF AllReceipts
  <2> QED BY <1>2, <2>1, <2>2, IdentityNumber
<1>6. HistoryInv'
  <2>1. ASSUME NEW r1 \in published', NEW r2 \in published',
               r1.identity = r2.identity, r1.sequence < r2.sequence
        PROVE  Follows(r1, r2)
    <3>1. CASE r1 \in published /\ r2 \in published
      BY <2>1, <3>1 DEF HostInv, HistoryInv
    <3>2. CASE r1 = Initial(Identity(next)) /\ r2 = Initial(Identity(next))
      BY <2>1, <3>2, <1>4
    <3> QED BY <1>2, <1>4, <1>5, <2>1, <3>1, <3>2
  <2>2. NoOutcome \notin Foreign
    BY OutcomesAssumption
  <2>3. \A r \in published' : /\ WellFormed(r)
                              /\ r.outcomes \notin Foreign
                              /\ r.cancel_requested => offer.cancel
    BY <1>2, <1>4, <2>2 DEF HostInv, HistoryInv
  <2>4. \A i \in DOMAIN executions' : Latest(i)' \in published'
    BY <1>2, <1>3
  <2> QED BY <2>1, <2>3, <2>4 DEF HistoryInv
<1>7. proposals' = << >>
  BY DEF HostInv, Submit
<1> QED BY <1>1, <1>2, <1>6, <1>7, IdentityNumber DEF HostInv, HostKeeps

LEMMA CancelHost ==
  ASSUME HostInv, NEW identity \in Identities, Cancel(identity)
  PROVE  /\ HostInv'
         /\ HostKeeps
         /\ DOMAIN executions' = DOMAIN executions
         /\ Latest(identity)' \in published'
         /\ Latest(identity)'.identity = identity
         /\ Latest(identity)'.cancel_requested \/ Latest(identity)'.state = "Terminal"
<1>1. OwnerInv'
  BY OwnerStepInv DEF HostInv, OwnerNext
<1>2. identity \in DOMAIN executions
  BY DEF Cancel, Known
<1>3. /\ Latest(identity) \in published
      /\ Latest(identity).identity = identity
  BY <1>2, ExecutionType DEF HostInv, HistoryInv, OwnerInv, Latest, latest
<1>4. CASE UNCHANGED ownerVars
  <2>1. HostInv' /\ HostKeeps
    <3>1. next \in Nat
      BY NextIsNat DEF HostInv, OwnerInv
    <3> QED BY <1>1, <1>4, <3>1 DEF ownerVars, HostInv, HistoryInv, HostKeeps, Latest
  <2>2. cancel_action(executions[identity].cursor) # "Send"
    <3>1. SUFFICES ASSUME cancel_action(executions[identity].cursor) = "Send",
                          Advance(identity,
                                  Receipt(identity, Latest(identity).sequence + 1,
                                          Latest(identity).state, NoOutcome, TRUE))
                   PROVE  FALSE
      BY DEF Cancel
    <3> DEFINE receipt == Receipt(identity, Latest(identity).sequence + 1,
                                  Latest(identity).state, NoOutcome, TRUE)
    <3>2. Latest(identity) \in AllReceipts
      BY <1>2, ExecutionType DEF HostInv, OwnerInv
    <3>3. receipt \in AllReceipts /\ receipt.sequence > Latest(identity).sequence
      BY <3>2 DEF AllReceipts, Receipt
    <3>4. Latest(identity)' = receipt
      <4> HIDE DEF receipt
      <4>1. Advance(identity, receipt)
        BY <3>1 DEF receipt
      <4> QED BY <1>2, <3>3, <4>1, AdvanceToNewer DEF HostInv
    <3>5. Latest(identity)' = Latest(identity)
      BY <1>4 DEF ownerVars, Latest
    <3>6. Latest(identity).sequence \in Nat
      BY <3>2 DEF AllReceipts
    <3> HIDE DEF receipt
    <3> QED BY <3>3, <3>4, <3>5, <3>6
  <2>3. cancel_action(executions[identity].cursor) \in {"AlreadyTerminal", "Pending"}
    BY <2>2 DEF Cancel
  <2>4. Latest(identity).cancel_requested \/ Latest(identity).state = "Terminal"
    BY <2>3 DEF cancel_action, Latest, latest
  <2> QED BY <1>3, <1>4, <2>1, <2>4 DEF ownerVars, Latest
<1>5. CASE ~UNCHANGED ownerVars
  <2> DEFINE receipt == Receipt(identity, Latest(identity).sequence + 1,
                                Latest(identity).state, NoOutcome, TRUE)
  <2>1. /\ receipt \in AllReceipts
        /\ Advance(identity, receipt)
        /\ Latest(identity)' = receipt
    BY <1>5, CancelFacts DEF HostInv
  <2>2. receipt.cancel_requested
    BY DEF Receipt
  <2> HIDE DEF receipt
  <2> QED BY <1>1, <1>2, <2>1, <2>2, AdvanceHost
<1> QED BY <1>4, <1>5

LEMMA ReleaseHost ==
  ASSUME HostInv, NEW identity \in Identities, Release(identity)
  PROVE  /\ HostInv'
         /\ HostKeeps
         /\ DOMAIN executions' = DOMAIN executions \ {identity}
<1>1. OwnerInv'
  BY OwnerStepInv DEF HostInv, OwnerNext
<1>2. /\ executions' = [i \in DOMAIN executions \ {identity} |-> executions[i]]
      /\ UNCHANGED <<next, proposals, published>>
  BY DEF Release, Drop, Restrict
<1>3. next \in Nat
  BY NextIsNat DEF HostInv, OwnerInv
<1>4. HistoryInv'
  BY <1>2 DEF HostInv, HistoryInv, Latest
<1> QED BY <1>1, <1>2, <1>3, <1>4 DEF HostInv, HostKeeps

LEMMA WorkerHost ==
  ASSUME HostInv, NEW identity \in Identities, Worker(identity)
  PROVE  /\ HostInv'
         /\ HostKeeps
         /\ DOMAIN executions' = DOMAIN executions
<1>1. identity \in DOMAIN executions
  BY DEF Worker, Known
<1>2. CASE Claim(identity) \/ \E policy \in Policies :
             ClaimScheme(identity, identity.execution, policy)
  <2>1. OwnerInv'
    BY <1>2, IdentityNumber, OwnerStepInv DEF HostInv, OwnerNext
  <2>2. Take(identity)
    BY <1>2 DEF Claim, ClaimScheme
  <2>3. PICK receipt \in AllReceipts : Advance(identity, receipt)
    BY <1>1, <2>2, TakeFacts DEF HostInv
  <2> QED BY <1>1, <2>1, <2>3, AdvanceHost
<1>3. CASE \E outcomes \in Outcomes : Complete(identity, outcomes)
  <2>1. PICK outcomes \in Outcomes : Complete(identity, outcomes)
    BY <1>3
  <2>2. OwnerInv'
    BY <2>1, OwnerStepInv DEF HostInv, OwnerNext
  <2>3. PICK receipt \in AllReceipts : Advance(identity, receipt)
    BY <1>1, <2>1, CompleteFacts DEF HostInv
  <2> QED BY <1>1, <2>2, <2>3, AdvanceHost
<1> QED BY <1>2, <1>3 DEF Worker

-----------------------------------------------------------------------------
(* What the operators on the page's state do. *)

(* The page stays with the execution of c, and forgets it only when it is  *)
(* gone.                                                                   *)
Keeps(c, d) ==
  /\ Tracks(c) <=> Tracks(d)
  /\ Tracks(c) => /\ d.tracking.identity = c.tracking.identity
                  /\ Precedes(latest(c.tracking), latest(d.tracking))
  /\ Terminal(c) => Terminal(d)
  /\ d.accepted = c.accepted
  /\ ~Terminal(c) /\ Terminal(d) => d.releasePending
  /\ c.releasePending /\ ~d.releasePending =>
       c.tracking.identity \notin DOMAIN executions

(* The fields that only the calls themselves set. *)
SameCalls(c, d) ==
  /\ d.generation = c.generation
  /\ d.cancelling = c.cancelling
  /\ d.active = c.active
  /\ d.polling = c.polling
  /\ d.reconciling = c.reconciling
  /\ d.uncertain = c.uncertain
  /\ d.cancelOnSubmit = c.cancelOnSubmit

LEMMA CursorFacts ==
  ASSUME HostInv, NEW c, CursorOK(c), Tracks(c)
  PROVE  /\ c.tracking \in Cursors
         /\ c.tracking.identity \in Identities
         /\ latest(c.tracking) \in published
         /\ latest(c.tracking) \in AllReceipts
         /\ WellFormed(latest(c.tracking))
         /\ latest(c.tracking).identity = c.tracking.identity
         /\ c.tracking.identity.execution \in Nat
BY IdentityNumber DEF CursorOK, Clients, Tracks, Cursors, HostInv, HistoryInv,
   OwnerInv, OwnerTypeOK

LEMMA KeepsTransitive ==
  ASSUME HostInv, NEW c, NEW d, NEW e, CursorOK(c), CursorOK(d), CursorOK(e),
         Keeps(c, d), Keeps(d, e), Terminal(d) /\ ~Terminal(c) => e.releasePending
  PROVE  Keeps(c, e)
<1>1. Tracks(c) => Precedes(latest(c.tracking), latest(e.tracking))
  BY CursorFacts, PrecedesTransitive DEF Keeps
<1>2. c.releasePending => Terminal(c) /\ Tracks(c)
  BY DEF CursorOK, Terminal
<1> QED BY <1>1, <1>2 DEF Keeps

(* A step that only marks: the cursor stays. *)
LEMMA MarksKeep ==
  ASSUME NEW c, NEW d \in Clients, CursorOK(c),
         d.tracking = c.tracking, d.accepted = c.accepted,
         c.suspended => d.suspended,
         \/ d.releasePending = c.releasePending
         \/ d.releasePending /\ Terminal(c)
         \/ /\ ~d.releasePending
            /\ Terminal(c) => c.tracking.identity \notin DOMAIN executions
  PROVE  CursorOK(d) /\ Keeps(c, d)
<1>1. Tracks(c) <=> Tracks(d)
  BY DEF Tracks
<1>2. Terminal(c) <=> Terminal(d)
  BY <1>1 DEF Terminal
<1>3. CursorOK(d)
  BY <1>1, <1>2 DEF CursorOK
<1>4. c.releasePending => Terminal(c)
  BY DEF CursorOK
<1>5. c.releasePending /\ ~d.releasePending =>
        c.tracking.identity \notin DOMAIN executions
  BY <1>4
<1>6. Precedes(latest(c.tracking), latest(d.tracking))
  BY DEF Precedes
<1> QED BY <1>1, <1>2, <1>3, <1>5, <1>6 DEF Keeps

(* disconnect and reconnect only change what the cursor may do. *)
LEMMA CursorTypes ==
  ASSUME NEW cursor \in Cursors
  PROVE  /\ disconnect(cursor) \in Cursors
         /\ disconnect(cursor).identity = cursor.identity
         /\ disconnect(cursor).evidence = cursor.evidence
         /\ disconnect(cursor).can_cancel = cursor.can_cancel
         /\ reconnect(cursor) \in Cursors
         /\ reconnect(cursor).identity = cursor.identity
         /\ reconnect(cursor).evidence = cursor.evidence
         /\ reconnect(cursor).can_cancel = cursor.can_cancel
         /\ reconnect(cursor).online
         /\ disconnect(cursor) # NoCursor
         /\ reconnect(cursor) # NoCursor
BY ClientAssumption DEF disconnect, reconnect, Cursors

LEMMA DisconnectedKeeps ==
  ASSUME HostInv, NEW c, CursorOK(c)
  PROVE  LET d == disconnected(c)
         IN /\ CursorOK(d)
            /\ Keeps(c, d)
            /\ SameCalls(c, d)
            /\ d.suspended
            /\ Terminal(d) <=> Terminal(c)
            /\ d.releasePending = c.releasePending
            /\ Tracks(c) => latest(d.tracking) = latest(c.tracking)
<1> DEFINE d == disconnected(c)
<1>0. c \in Clients
  BY DEF CursorOK
<1>1. /\ d \in Clients
      /\ d.tracking = IF Tracks(c) THEN disconnect(c.tracking) ELSE c.tracking
      /\ d.suspended
      /\ d.releasePending = c.releasePending
      /\ d.accepted = c.accepted
      /\ SameCalls(c, d)
  <2>1. Tracks(c) => disconnect(c.tracking) \in Cursors
    BY CursorFacts, CursorTypes
  <2>2. (IF Tracks(c) THEN disconnect(c.tracking) ELSE c.tracking)
          \in {NoCursor} \cup Cursors
    BY <1>0, <2>1 DEF Clients
  <2> QED BY <1>0, <2>2 DEF disconnected, Clients, SameCalls
<1> HIDE DEF d
<1>2. CASE ~Tracks(c)
  <2>1. d.tracking = c.tracking
    BY <1>1, <1>2
  <2> QED BY <1>0, <1>1, <1>2, <2>1, MarksKeep DEF Terminal, Tracks, d
<1>3. CASE Tracks(c)
  <2>1. /\ d.tracking.identity = c.tracking.identity
        /\ d.tracking.evidence = c.tracking.evidence
        /\ d.tracking.can_cancel = c.tracking.can_cancel
        /\ Tracks(d)
    BY <1>1, <1>3, CursorFacts, CursorTypes DEF Tracks
  <2>2. Terminal(c) <=> Terminal(d)
    BY <1>3, <2>1 DEF Terminal, latest
  <2>3. CursorOK(d)
    BY <1>1, <1>3, <2>1, <2>2 DEF CursorOK, latest
  <2> QED BY <1>1, <1>3, <2>1, <2>2, <2>3 DEF Keeps, latest, Precedes, d
<1> QED BY <1>2, <1>3

(* A receipt of the tracked execution is always admitted while connected,  *)
(* and never takes the evidence back.                                      *)
LEMMA ReceiptAdmitted ==
  ASSUME HostInv, NEW c, CursorOK(c), Tracks(c),
         NEW receipt \in published, receipt.identity = c.tracking.identity,
         c.tracking.online
  PROVE  /\ Observes(c.tracking, receipt)
         /\ receipt.cancel_requested \/ receipt.state = "Terminal" =>
              LET seen == observe(c.tracking, receipt)
              IN seen.evidence.cancel_requested \/ seen.evidence.state = "Terminal"
<1> DEFINE seen == latest(c.tracking)
<1>1. /\ seen \in published
      /\ seen \in AllReceipts
      /\ seen.identity = receipt.identity
      /\ receipt \in AllReceipts
      /\ c.tracking \in Cursors
  BY CursorFacts DEF HostInv, OwnerInv, OwnerTypeOK
<1>2. Admits(c.tracking, receipt)
  BY DEF Admits, HostInv, HistoryInv, CursorOK
<1>3. seen.sequence \in Nat /\ receipt.sequence \in Nat
  BY <1>1 DEF AllReceipts
<1>4. seen = c.tracking.evidence
  BY DEF latest
<1> HIDE DEF seen
<1>5. CASE receipt.sequence < seen.sequence
  <2>1. Follows(receipt, seen)
    BY <1>1, <1>5 DEF HostInv, HistoryInv
  <2>2. Disposition(c.tracking, receipt) = "Stale"
    BY <1>2, <1>4, <1>5 DEF Disposition
  <2>3. observe(c.tracking, receipt).evidence = seen
    BY <1>4, <2>2 DEF observe
  <2> QED BY <2>1, <2>2, <2>3 DEF Observes, Follows
<1>6. CASE receipt.sequence = seen.sequence
  <2>1. Precedes(receipt, seen) \/ Precedes(seen, receipt)
    BY <1>1 DEF HostInv, OwnerInv, ReceiptsAgree
  <2>2. receipt = seen
    BY <1>3, <1>6, <2>1 DEF Precedes
  <2>3. Disposition(c.tracking, receipt) = "Replay"
    BY <1>2, <1>3, <1>4, <2>2 DEF Disposition
  <2>4. observe(c.tracking, receipt).evidence = seen
    BY <1>4, <2>3 DEF observe
  <2> QED BY <2>2, <2>3, <2>4 DEF Observes
<1>7. CASE receipt.sequence > seen.sequence
  <2>1. Follows(seen, receipt)
    BY <1>1, <1>7 DEF HostInv, HistoryInv
  <2>2. Disposition(c.tracking, receipt) = "Advanced"
    BY <1>2, <1>3, <1>4, <1>7, <2>1 DEF Disposition
  <2>3. observe(c.tracking, receipt).evidence = receipt
    BY <1>1, <2>2 DEF observe, Cursors
  <2> QED BY <2>2, <2>3 DEF Observes
<1> QED BY <1>3, <1>5, <1>6, <1>7

LEMMA ObservedKeeps ==
  ASSUME HostInv, NEW c, CursorOK(c), Tracks(c),
         NEW receipt \in published, receipt.identity = c.tracking.identity
  PROVE  LET d == Observed(c, receipt)
         IN /\ CursorOK(d)
            /\ Keeps(c, d)
            /\ SameCalls(c, d)
            /\ d.suspended = c.suspended
            /\ Terminal(c) => d.releasePending = c.releasePending
            /\ d.tracking = observe(c.tracking, receipt)
<1> DEFINE d == Observed(c, receipt)
           seen == observe(c.tracking, receipt)
<1>0. c \in Clients
  BY DEF CursorOK
<1>1. /\ c.tracking \in Cursors
      /\ latest(c.tracking) \in published
      /\ WellFormed(latest(c.tracking))
      /\ latest(c.tracking).identity = c.tracking.identity
      /\ receipt \in AllReceipts
  BY CursorFacts DEF HostInv, OwnerInv, OwnerTypeOK
<1>2. /\ seen \in Cursors
      /\ seen = [c.tracking EXCEPT !.evidence = seen.evidence]
      /\ seen.evidence \in {c.tracking.evidence, receipt}
      /\ Precedes(c.tracking.evidence, seen.evidence)
      /\ seen.evidence.identity = c.tracking.identity
  BY <1>1, ObserveType DEF latest
<1>3. /\ d = [c EXCEPT !.tracking = seen,
                      !.releasePending = @ \/ (~Terminal(c)
                                               /\ latest(seen).state = "Terminal")]
  BY DEF Observed
<1> HIDE DEF seen, d
<1>4. /\ d \in Clients
      /\ d.tracking = seen
      /\ d.suspended = c.suspended
      /\ d.releasePending = (c.releasePending
                             \/ (~Terminal(c) /\ latest(seen).state = "Terminal"))
      /\ d.accepted = c.accepted
      /\ SameCalls(c, d)
  BY <1>0, <1>2, <1>3 DEF Clients, SameCalls
<1>5. /\ seen.identity = c.tracking.identity
      /\ seen.online = c.tracking.online
      /\ seen.can_cancel = c.tracking.can_cancel
  BY <1>1, <1>2 DEF Cursors
<1>6. Tracks(d)
  BY <1>2, <1>4, ClientAssumption DEF Tracks
<1>7. Terminal(c) => Terminal(d)
  BY <1>1, <1>2, <1>4, <1>6 DEF Terminal, latest, Precedes
<1>8. Terminal(d) <=> latest(seen).state = "Terminal"
  BY <1>4, <1>6 DEF Terminal
<1>9. CursorOK(d)
  <2>1. latest(d.tracking) \in published
    BY <1>1, <1>2, <1>4 DEF latest
  <2>2. d.releasePending => Terminal(d)
    BY <1>4, <1>7, <1>8 DEF CursorOK
  <2>3. Terminal(d) \/ d.tracking.identity \in DOMAIN executions
    BY <1>4, <1>5, <1>7 DEF CursorOK
  <2> QED BY <1>2, <1>4, <1>5, <1>6, <2>1, <2>2, <2>3 DEF CursorOK, latest
<1>10. Keeps(c, d)
  BY <1>2, <1>4, <1>5, <1>6, <1>7, <1>8 DEF Keeps, latest
<1>11. Terminal(c) => d.releasePending = c.releasePending
  BY <1>0, <1>4 DEF Clients
<1> QED BY <1>4, <1>9, <1>10, <1>11 DEF d, seen

(* The page is connected again. *)
LEMMA ReconnectedKeeps ==
  ASSUME HostInv, NEW c, CursorOK(c), Tracks(c),
         NEW d \in Clients, d.tracking = reconnect(c.tracking),
         d.accepted = c.accepted, d.releasePending = c.releasePending
  PROVE  /\ CursorOK(d)
         /\ Keeps(c, d)
         /\ Terminal(d) <=> Terminal(c)
         /\ latest(d.tracking) = latest(c.tracking)
<1>1. /\ d.tracking.identity = c.tracking.identity
      /\ d.tracking.evidence = c.tracking.evidence
      /\ d.tracking.can_cancel = c.tracking.can_cancel
      /\ d.tracking.online
      /\ Tracks(d)
  BY CursorFacts, CursorTypes DEF Tracks
<1>2. Terminal(c) <=> Terminal(d)
  BY <1>1 DEF Terminal, latest
<1>3. CursorOK(d)
  BY <1>1, <1>2 DEF CursorOK, latest
<1> QED BY <1>1, <1>2, <1>3 DEF Keeps, latest, Precedes

-----------------------------------------------------------------------------
(* A step of one task, as the other tasks see it. *)

Frame(t) ==
  /\ pc' \in [Tasks -> Points]
  /\ gen' \in [Tasks -> Nat]
  /\ losses' \in Nat
  /\ wire' = [u \in Tasks |-> wire'[u]]
  /\ given' = [u \in Evaluations |-> given'[u]]
  /\ returned' = [u \in Observers |-> returned'[u]]
  /\ \A u \in Tasks \ {t} : /\ pc'[u] = pc[u]
                           /\ wire'[u] = wire[u]
                           /\ gen'[u] = gen[u]
  /\ \A u \in Evaluations \ {t} : given'[u] = given[u]
  /\ \A u \in Observers \ {t} : returned'[u] = returned[u]
  /\ UNCHANGED ownerVars

(* A newer execution takes the place of the one of c. *)
Begins(c, d) ==
  /\ Tracks(d)
  /\ Tracks(c) => c.tracking.identity.execution < d.tracking.identity.execution

(* The one observer that runs moves: it stays with its execution, prepares *)
(* a new generation, or starts the execution that it prepared.             *)
ByObserver(t) ==
  /\ t \in Observers
  /\ \A u \in Observers \ {t} : ~Running(u)
  /\ client.uncertain => client'.uncertain
  /\ \/ /\ Keeps(client, client')
        /\ client'.generation = client.generation
        /\ Preparing(t)' => Preparing(t)
     \/ /\ Keeps(client, client')
        /\ client'.generation = client.generation + 1
     \/ /\ Begins(client, client')
        /\ client'.generation = client.generation
        /\ Preparing(t)

(* A cancellation leaves alone what an observer prepares. *)
ByCancel(t) ==
  /\ t \in Cancels
  /\ Keeps(client, client')
  /\ client'.generation = client.generation
  /\ client'.uncertain = client.uncertain
  /\ (Tracks(client) => Terminal(client)) =>
       client'.releasePending = client.releasePending
  /\ client'.cancelOnSubmit =>
       client.cancelOnSubmit \/ (Tracks(client) => Terminal(client))

(* The page keeps its execution, or turns to a newer one. *)
Advances == Keeps(client, client') \/ Begins(client, client')

LEMMA OthersStay ==
  ASSUME IInv, NEW t \in Tasks, Frame(t), ByObserver(t) \/ ByCancel(t),
         CursorOK(client'), NEW u \in Tasks \ {t}
  PROVE  TaskOK(u)'
<1>1. /\ TaskOK(u)
      /\ CursorOK(client)
      /\ HostInv
      /\ client.generation \in Nat /\ client'.generation \in Nat
      /\ gen[u] \in Nat
  BY DEF IInv, CursorOK, Clients, Fields
<1>2. /\ pc'[u] = pc[u] /\ wire'[u] = wire[u] /\ gen'[u] = gen[u]
      /\ u \in Evaluations => given'[u] = given[u]
      /\ u \in Observers => returned'[u] = returned[u]
      /\ executions' = executions /\ published' = published /\ next' = next
  BY DEF Frame, Observers, ownerVars
<1>3. /\ Tracks(client) => Tracks(client')
      /\ client.generation <= client'.generation
      /\ client.uncertain => client'.uncertain
  <2>1. CASE ByCancel(t)
    BY <1>1, <2>1 DEF ByCancel, Keeps
  <2>2. CASE ByObserver(t)
    <3>1. Keeps(client, client') \/ Begins(client, client')
      BY <2>2 DEF ByObserver
    <3>2. client'.generation \in {client.generation, client.generation + 1}
      BY <2>2 DEF ByObserver
    <3> QED BY <1>1, <2>2, <3>1, <3>2 DEF ByObserver, Keeps, Begins
  <2> QED BY <2>1, <2>2
<1>4. (u \in Observers /\ Running(u)) => ByCancel(t)
  BY DEF ByObserver
<1>5. Running(u) <=> pc[u] \notin {"idle", "done"}
  BY DEF Running
<1>6. Evaluations \subseteq Observers /\ Resumes \subseteq Observers
  BY DEF Observers
<1>7. PointOK(u)'
  BY <1>1, <1>2, <1>3 DEF TaskOK, PointOK, Tracks
<1>8. PreparingOK(u)'
  BY <1>1, <1>2, <1>4, <1>5, <1>6 DEF TaskOK, PreparingOK, Preparing, ByCancel, Keeps, Room
<1>9. SubmittingOK(u)'
  <2>1. SUFFICES ASSUME pc[u] = "submitting"
                 PROVE  SubmittingOK(u)'
    BY <1>2 DEF SubmittingOK
  <2>2. u \in Evaluations /\ Preparing(u) /\ ByCancel(t)
    BY <1>1, <1>4, <1>5, <1>6, <2>1 DEF TaskOK, PointOK, Preparing
  <2>3. Tracks(client) => Terminal(client)
    BY <1>1, <2>2 DEF TaskOK, PreparingOK
  <2>4. ~client'.releasePending
    BY <1>1, <2>1, <2>2, <2>3 DEF ByCancel, TaskOK, SubmittingOK
  <2>5. Tracks(client)' => Tracks(client) /\ Tracked' = Tracked
    BY <2>2 DEF ByCancel, Keeps, Tracked, Tracks
  <2> QED BY <1>1, <1>2, <2>1, <2>4, <2>5 DEF TaskOK, SubmittingOK
<1>10. ReleasingOK(u)'
  <2>1. SUFFICES ASSUME pc[u] \in {"releasing", "freeing", "settling"}
                 PROVE  ReleasingOK(u)'
    BY <1>2 DEF ReleasingOK
  <2>2. ByCancel(t)
    BY <1>1, <1>4, <1>5, <1>6, <2>1 DEF TaskOK, PointOK, Watches
  <2>3. Terminal(client)' /\ Tracked' = Tracked
    BY <1>1, <2>1, <2>2 DEF TaskOK, ReleasingOK, ByCancel, Keeps, Tracked, Terminal
  <2> QED BY <1>1, <1>2, <2>1, <2>3 DEF TaskOK, ReleasingOK
<1>11. ASSUME NEW path, Tracks(client), Keeps(client, client'), Tells(u, path)
       PROVE  Tells(u, path)'
  <2>1. Tracked' = Tracked /\ (Terminal(client) => Terminal(client)')
    BY <1>11 DEF Keeps, Tracked, Terminal, Tracks
  <2> QED BY <1>2, <1>11, <2>1 DEF Tells
<1>12. QueryingOK(u)'
  <2>1. SUFFICES ASSUME pc[u] = "querying"
                 PROVE  QueryingOK(u)'
    BY <1>2 DEF QueryingOK
  <2>2. ByCancel(t) /\ Tracks(client)
    BY <1>1, <1>4, <1>5, <1>6, <2>1 DEF TaskOK, PointOK, Watches, QueryingOK
  <2>3. Tells(u, "query")
    BY <1>1, <2>1 DEF TaskOK, QueryingOK
  <2> QED BY <1>11, <2>2, <2>3 DEF ByCancel, QueryingOK
<1>13. CancellingOK(u)'
  <2>1. SUFFICES ASSUME pc[u] = "cancelling"
                 PROVE  CancellingOK(u)'
    BY <1>2 DEF CancellingOK
  <2>2. \A e \in Tasks \ {t} : Preparing(e)' <=> Preparing(e)
    BY DEF Frame, Preparing
  <2>3. CASE /\ Keeps(client, client')
             /\ client'.generation = client.generation
             /\ Preparing(t)' => Preparing(t)
             /\ u \in Evaluations => Current(u)
    BY <1>1, <1>2, <1>3, <1>11, <2>1, <2>2, <2>3
       DEF TaskOK, CancellingOK, Current
  <2>4. CASE ByCancel(t)
    <3>1. ~Preparing(t)'
      BY <2>4, ClientAssumption, <1>6 DEF ByCancel, Preparing
    <3> QED BY <1>1, <2>1, <2>3, <2>4, <3>1 DEF ByCancel, TaskOK, CancellingOK
  <2>5. CASE ByObserver(t)
    <3>1. u \notin Evaluations \/ ByCancel(t)
      BY <1>4, <1>5, <1>6, <2>1
    <3>2. CASE client'.generation = client.generation + 1
      <4>1. gen[u] <= client.generation
        BY <1>1 DEF TaskOK, PointOK
      <4>2. gen'[u] # client'.generation
        BY <1>1, <1>2, <3>2, <4>1
      <4> QED BY <2>4, <3>1, <4>2 DEF CancellingOK, Current
    <3>3. CASE /\ Preparing(t)
               /\ client'.generation = client.generation
      <4>1. ~Current(u)
        BY <1>1, <2>1, <3>3 DEF TaskOK, CancellingOK
      <4> QED BY <1>2, <2>4, <3>1, <3>3, <4>1 DEF CancellingOK, Current
    <3> QED BY <2>3, <2>4, <2>5, <3>1, <3>2, <3>3 DEF ByObserver
  <2> QED BY <2>4, <2>5
<1>14. AuthenticatingOK(u)'
  BY <1>1, <1>2 DEF TaskOK, AuthenticatingOK
<1>15. PendingOK(u)'
  <2>1. SUFFICES ASSUME Pending(u)
                 PROVE  PendingOK(u)'
    BY <1>2 DEF PendingOK, Pending
  <2>2. CASE /\ Submits(u)
             /\ u \in Evaluations
             /\ pc[u] = "submitting" \/ (pc[u] = "done" /\ client.uncertain)
             /\ DOMAIN executions = {}
    BY <1>2, <1>3, <2>2 DEF PendingOK, Submits
  <2>3. ASSUME NEW identity \in Identities,
               wire[u] = Requested("release", identity),
               Tracks(client), identity.execution <= Tracked.execution,
               identity = Tracked => Terminal(client)
        PROVE  PendingOK(u)'
    <3>1. /\ Tracks(client')
          /\ identity.execution <= client'.tracking.identity.execution
          /\ identity = client'.tracking.identity => Terminal(client')
      <4>1. CASE Keeps(client, client')
        BY <2>3, <4>1 DEF Keeps, Tracked
      <4>2. CASE Begins(client, client')
        <5>1. /\ identity.execution \in Nat
              /\ Tracked.execution \in Nat
              /\ client'.tracking.identity.execution \in Nat
          BY <1>1, <2>3, <4>2, CursorFacts, IdentityNumber DEF Tracked, Begins
        <5>2. Tracked.execution < client'.tracking.identity.execution
          BY <2>3, <4>2 DEF Begins, Tracked
        <5> QED BY <2>3, <4>2, <5>1, <5>2 DEF Begins
      <4> QED BY <4>1, <4>2 DEF ByObserver, ByCancel
    <3> QED BY <1>2, <2>3, <3>1 DEF PendingOK, Tracked, Terminal, Tracks
  <2>4. CASE wire[u].path \in {"query", "cancel", "session"}
    BY <1>2, <2>4 DEF PendingOK
  <2> QED BY <1>1, <2>1, <2>2, <2>3, <2>4 DEF TaskOK, PendingOK
<1>16. GivenOK(u)'
  <2>1. SUFFICES ASSUME u \in Evaluations, pc[u] \in Watches \cup {"cancelling"}
                 PROVE  GivenOK(u)'
    BY <1>2 DEF GivenOK
  <2>2. ByCancel(t)
    BY <1>4, <1>5, <1>6, <2>1 DEF Watches
  <2> QED BY <1>1, <1>2, <2>1, <2>2 DEF TaskOK, GivenOK, ByCancel, Keeps, Tracks, Tracked
<1>17. ReturnedOK(u)'
  BY <1>1, <1>2, <1>6 DEF TaskOK, ReturnedOK
<1>18. KeptOK(u)'
  <2>1. SUFFICES ASSUME u \in Evaluations, pc[u] \in Watches,
                        client'.cancelOnSubmit, offer.cancel
                 PROVE  Terminal(client') \/ latest(client'.tracking).cancel_requested
    BY <1>2 DEF KeptOK, Terminal, Tracks, latest
  <2>2. ByCancel(t) /\ Tracks(client)
    BY <1>1, <1>4, <1>5, <1>6, <2>1 DEF Watches, TaskOK, GivenOK
  <2>3. Terminal(client) \/ latest(client.tracking).cancel_requested
    BY <1>1, <2>1, <2>2 DEF ByCancel, TaskOK, KeptOK
  <2> QED BY <2>2, <2>3 DEF ByCancel, Keeps, Precedes
<1> QED BY <1>7, <1>8, <1>9, <1>10, <1>12, <1>13, <1>14, <1>15, <1>16, <1>17, <1>18
        DEF TaskOK

(* What a step of t may do besides moving on. *)
Besides(t) ==
  /\ gen' = gen \/ gen' = [gen EXCEPT ![t] = client.generation]
  /\ losses' \in {losses, losses + 1}
  /\ given' = given \/ \E x : given' = [given EXCEPT ![t] = x]
  /\ returned' = returned \/ \E x : returned' = [returned EXCEPT ![t] = x]
  /\ UNCHANGED ownerVars

Moves(t, point, message) ==
  /\ pc' = [pc EXCEPT ![t] = point]
  /\ wire' = [wire EXCEPT ![t] = message]
  /\ Besides(t)

LEMMA MovesFrame ==
  ASSUME IInv, NEW t \in Tasks, NEW point \in Points, NEW message,
         Moves(t, point, message)
  PROVE  /\ Frame(t)
         /\ pc'[t] = point
         /\ wire'[t] = message
         /\ gen'[t] \in {gen[t], client.generation}
         /\ losses' = 0 => losses = 0 /\ losses' = losses
<1>1. /\ pc \in [Tasks -> Points]
      /\ gen \in [Tasks -> Nat]
      /\ losses \in Nat
      /\ wire = [u \in Tasks |-> wire[u]]
      /\ given = [u \in Evaluations |-> given[u]]
      /\ returned = [u \in Observers |-> returned[u]]
      /\ client.generation \in Nat
  BY DEF IInv, Fields, CursorOK, Clients
<1>2. /\ pc' \in [Tasks -> Points]
      /\ pc'[t] = point
      /\ \A u \in Tasks \ {t} : pc'[u] = pc[u]
  BY <1>1 DEF Moves, Besides
<1>3. /\ wire' = [u \in Tasks |-> wire'[u]]
      /\ wire'[t] = message
      /\ \A u \in Tasks \ {t} : wire'[u] = wire[u]
  <2> DEFINE f == [wire EXCEPT ![t] = message]
  <2>1. /\ f = [u \in Tasks |-> f[u]]
        /\ f[t] = message
        /\ \A u \in Tasks \ {t} : f[u] = wire[u]
    BY <1>1
  <2> QED BY <2>1 DEF Moves, Besides
<1>4. /\ gen' \in [Tasks -> Nat]
      /\ gen'[t] \in {gen[t], client.generation}
      /\ \A u \in Tasks \ {t} : gen'[u] = gen[u]
  BY <1>1 DEF Moves, Besides
<1>5. /\ given' = [u \in Evaluations |-> given'[u]]
      /\ \A u \in Evaluations \ {t} : given'[u] = given[u]
  <2>1. CASE given' = given
    BY <1>1, <2>1
  <2>2. ASSUME NEW x, given' = [given EXCEPT ![t] = x]
        PROVE  <1>5!:
    BY <1>1, <2>2
  <2> QED BY <2>1, <2>2 DEF Moves, Besides
<1>6. /\ returned' = [u \in Observers |-> returned'[u]]
      /\ \A u \in Observers \ {t} : returned'[u] = returned[u]
  <2>1. CASE returned' = returned
    BY <1>1, <2>1
  <2>2. ASSUME NEW x, returned' = [returned EXCEPT ![t] = x]
        PROVE  <1>6!:
    BY <1>1, <2>2
  <2> QED BY <2>1, <2>2 DEF Moves, Besides
<1>7. losses' \in Nat /\ (losses' = 0 => losses = 0 /\ losses' = losses)
  BY <1>1 DEF Moves, Besides
<1>8. UNCHANGED ownerVars
  BY DEF Moves, Besides
<1> QED BY <1>2, <1>3, <1>4, <1>5, <1>6, <1>7, <1>8 DEF Frame

(* A step of the page keeps the invariant when its own task is in order    *)
(* afterwards and the facts of the whole page are.                         *)
LEMMA PageStep ==
  ASSUME IInv, NEW t \in Tasks, Frame(t), ByObserver(t) \/ ByCancel(t),
         CursorOK(client'), TaskOK(t)', ObserversInv', OneSubmission', Remembered',
         StaysConnected',
         client'.cancelling # NoTask => pc'[client'.cancelling] = "cancelling"
  PROVE  IInv' /\ Advances
<1>1. \A u \in Tasks : TaskOK(u)'
  BY OthersStay
<1>2. executions' = executions /\ published' = published /\ next' = next
  BY DEF Frame, ownerVars
<1>3. CursorOK(client)'
  BY <1>2 DEF CursorOK, Tracks, Terminal, latest
<1>4. OwnerInv'
  BY OwnerStepInv DEF IInv, HostInv, Frame
<1>5. HostInv'
  BY <1>2, <1>4 DEF IInv, HostInv, HistoryInv, Latest, Frame, ownerVars
<1>6. Fields'
  BY DEF Frame, Fields
<1>7. Advances
  BY DEF Advances, ByObserver, ByCancel
<1> QED BY <1>1, <1>3, <1>5, <1>6, <1>7 DEF IInv

LEMMA Alone ==
  ASSUME IInv, NEW t \in Observers, Running(t) \/ ~Busy(client)
  PROVE  \A u \in Observers \ {t} : ~Running(u)
BY DEF IInv, ObserversInv, Busy, Observers

(* The flags of the one observer that may run. *)
LEMMA ObserverFlags ==
  ASSUME IInv, NEW t \in Observers, Frame(t),
         \A u \in Observers \ {t} : ~Running(u),
         t \in Evaluations => /\ client'.active <=> Running(t)'
                              /\ client'.reconciling = client.reconciling,
         t \in Resumes => /\ client'.reconciling <=> Running(t)'
                          /\ client'.active = client.active,
         client'.polling <=> pc'[t] \in Watches
  PROVE  ObserversInv'
<1>1. /\ Evaluations \subseteq Observers /\ Resumes \subseteq Observers
      /\ Evaluations \cap Resumes = {}
      /\ Observers \subseteq Tasks
      /\ t \in Evaluations \/ t \in Resumes
  BY ClientAssumption DEF Observers, Tasks
<1>2. \A u \in Observers \ {t} : ~Running(u)' /\ pc'[u] \notin Watches
  BY <1>1 DEF Frame, Running, Watches
<1>3. \A u, v \in Observers : Running(u)' /\ Running(v)' => u = v
  BY <1>2
<1>4. client'.active <=> \E e \in Evaluations : Running(e)'
  BY <1>1, <1>2 DEF IInv, ObserversInv
<1>5. client'.reconciling <=> \E r \in Resumes : Running(r)'
  BY <1>1, <1>2 DEF IInv, ObserversInv
<1>6. client'.polling <=> \E u \in Observers : pc'[u] \in Watches
  BY <1>2
<1> QED BY <1>3, <1>4, <1>5, <1>6 DEF ObserversInv

LEMMA CancelFlags ==
  ASSUME IInv, NEW t \in Cancels, Frame(t),
         client'.active = client.active, client'.reconciling = client.reconciling,
         client'.polling = client.polling
  PROVE  ObserversInv'
<1>1. /\ \A u \in Observers : pc'[u] = pc[u]
      /\ Evaluations \subseteq Observers /\ Resumes \subseteq Observers
  BY ClientAssumption DEF Observers, Tasks, Frame
<1>2. \A u \in Observers : Running(u)' <=> Running(u)
  BY <1>1 DEF Running
<1> QED BY <1>1, <1>2 DEF IInv, ObserversInv

LEMMA SubmissionKept ==
  ASSUME IInv, NEW t \in Tasks, Frame(t),
         Submits(t)' => Submits(t) \/ \A u \in Tasks \ {t} : ~Submits(u)
  PROVE  OneSubmission'
<1>1. \A u \in Tasks \ {t} : Submits(u)' <=> Submits(u)
  BY DEF Frame, Submits
<1> QED BY <1>1 DEF IInv, OneSubmission

(* What the page keeps at the host it still knows of. *)
LEMMA MemoryKept ==
  ASSUME IInv, NEW t \in Tasks, Frame(t), Keeps(client, client'),
         client.uncertain => client'.uncertain,
         pc[t] = "submitting" =>
           pc'[t] = "submitting" \/ client'.uncertain \/ DOMAIN executions = {}
  PROVE  Remembered'
<1>1. executions' = executions
  BY DEF Frame, ownerVars
<1>2. SUFFICES ASSUME NEW identity \in DOMAIN executions
               PROVE  \/ /\ Tracks(client') /\ client'.tracking.identity = identity
                         /\ Terminal(client') => client'.releasePending
                      \/ client'.uncertain
                      \/ \E e \in Evaluations : pc'[e] = "submitting"
  BY <1>1 DEF Remembered, Tracked, Tracks, Terminal, latest
<1>3. CASE /\ Tracks(client) /\ Tracked = identity
           /\ Terminal(client) => client.releasePending
  BY <1>2, <1>3 DEF Keeps, Tracked
<1>4. CASE client.uncertain
  BY <1>4
<1>5. ASSUME NEW e \in Evaluations, pc[e] = "submitting"
      PROVE  \/ client'.uncertain
             \/ \E f \in Evaluations : pc'[f] = "submitting"
  BY <1>2, <1>5 DEF Frame, Tasks, Observers
<1> QED BY <1>3, <1>4, <1>5 DEF IInv, Remembered

LEMMA ConnectionKept ==
  ASSUME IInv, losses' = 0 => losses = 0, Keeps(client, client'),
         client'.suspended => client.suspended
  PROVE  StaysConnected'
<1>1. Terminal(client') <=> Terminal(client)'
  BY DEF Terminal, Tracks, latest
<1> QED BY <1>1 DEF IInv, StaysConnected, Keeps

-----------------------------------------------------------------------------
(* The ends of an observer's steps. *)

(* The client c that an observer's step comes to before it ends. *)
Reaches(t, c) ==
  /\ CursorOK(c)
  /\ Keeps(client, c)
  /\ c.generation = client.generation
  /\ c.active = client.active
  /\ c.reconciling = client.reconciling
  /\ client.uncertain => c.uncertain
  /\ \/ c.cancelling = client.cancelling /\ pc[t] # "cancelling"
     \/ c.cancelling \in {client.cancelling, NoTask} \ {t}

LEMMA CancellingKept ==
  ASSUME IInv, NEW t \in Tasks, Frame(t),
         \/ client'.cancelling = client.cancelling /\ pc[t] # "cancelling"
         \/ client'.cancelling \in {client.cancelling, NoTask} \ {t}
  PROVE  client'.cancelling # NoTask => pc'[client'.cancelling] = "cancelling"
<1>1. client.cancelling \in Tasks \cup {NoTask}
  BY DEF IInv, CursorOK, Clients
<1>2. client.cancelling # NoTask => pc[client.cancelling] = "cancelling"
  BY DEF IInv, Fields
<1> QED BY <1>1, <1>2 DEF Frame

(* A request that its task gave up still does what it was allowed to. *)
LEMMA LeftPending ==
  ASSUME IInv, NEW t \in Tasks, Frame(t), pc'[t] = "done",
         wire'[t] = IF Pending(t) THEN wire[t] ELSE Nothing,
         Keeps(client, client'), client.uncertain => client'.uncertain,
         pc[t] = "submitting" => client'.uncertain \/ ~Pending(t)
  PROVE  PendingOK(t)' /\ (Submits(t)' => Submits(t))
<1>1. TaskOK(t)
  BY DEF IInv
<1>2. PendingOK(t)'
  <2>1. SUFFICES ASSUME Pending(t), wire'[t] = wire[t]
                 PROVE  PendingOK(t)'
    BY DEF PendingOK, Pending, Nothing
  <2>2. CASE /\ Submits(t)
             /\ t \in Evaluations
             /\ pc[t] = "submitting" \/ (pc[t] = "done" /\ client.uncertain)
             /\ DOMAIN executions = {}
    <3>1. client'.uncertain /\ DOMAIN executions' = {}
      BY <2>1, <2>2 DEF Frame, ownerVars
    <3> QED BY <2>1, <2>2, <3>1 DEF PendingOK, Submits
  <2>3. ASSUME NEW identity \in Identities,
               wire[t] = Requested("release", identity),
               Tracks(client), identity.execution <= Tracked.execution,
               identity = Tracked => Terminal(client)
        PROVE  PendingOK(t)'
    <3>1. /\ Tracks(client')
          /\ identity.execution <= client'.tracking.identity.execution
          /\ identity = client'.tracking.identity => Terminal(client')
      BY <2>3 DEF Keeps, Tracked
    <3> QED BY <2>1, <2>3, <3>1 DEF PendingOK, Tracked, Terminal, Tracks
  <2>4. CASE wire[t].path \in {"query", "cancel", "session"}
    BY <2>1, <2>4 DEF PendingOK
  <2> QED BY <1>1, <2>1, <2>2, <2>3, <2>4 DEF TaskOK, PendingOK
<1>3. Submits(t)' => Submits(t)
  BY DEF Submits, Nothing, Requested
<1> QED BY <1>2, <1>3

LEMMA LeaveStep ==
  ASSUME IInv, NEW t \in Observers, Running(t), NEW c, Reaches(t, c), Leave(t, c),
         Besides(t),
         pc[t] = "submitting" => c.uncertain \/ (~Pending(t) /\ DOMAIN executions = {}),
         ReturnedOK(t)',
         losses' = 0 /\ c.suspended => client.suspended \/ Terminal(c)
  PROVE  IInv' /\ Advances
<1>1. /\ t \in Tasks
      /\ t \in Evaluations \/ t \in Resumes
      /\ t \in Evaluations => t \notin Resumes
      /\ "done" \in Points
  BY ClientAssumption DEF Observers, Tasks, Points
<1>2. /\ Frame(t)
      /\ pc'[t] = "done"
      /\ gen'[t] \in {gen[t], client.generation}
      /\ losses' = 0 => losses = 0
  <2>1. Moves(t, "done", IF Pending(t) THEN wire[t] ELSE Nothing)
    BY <1>1 DEF Leave, Moves
  <2> QED BY <1>1, <2>1, MovesFrame
<1>3. c \in Clients
  BY DEF Reaches, CursorOK
<1>4. /\ client' \in Clients
      /\ client'.tracking = c.tracking
      /\ client'.accepted = c.accepted
      /\ client'.generation = c.generation
      /\ client'.cancelling = c.cancelling
      /\ client'.polling = FALSE
      /\ client'.releasePending = c.releasePending
      /\ client'.uncertain = c.uncertain
      /\ client'.suspended = c.suspended
      /\ t \in Evaluations => client'.active = FALSE /\ client'.reconciling = c.reconciling
      /\ t \in Resumes => client'.reconciling = FALSE /\ client'.active = c.active
  <2>1. CASE t \in Evaluations
    BY <1>1, <1>3, <2>1 DEF Leave, Clients
  <2>2. CASE t \in Resumes
    BY <1>1, <1>3, <2>2 DEF Leave, Clients
  <2> QED BY <1>1, <2>1, <2>2
<1>5. wire'[t] = IF Pending(t) THEN wire[t] ELSE Nothing
  <2>1. Moves(t, "done", IF Pending(t) THEN wire[t] ELSE Nothing)
    BY <1>1 DEF Leave, Moves
  <2> QED BY <1>1, <2>1, MovesFrame
<1>6. CursorOK(client') /\ Keeps(c, client')
  BY <1>4, MarksKeep DEF Reaches
<1>7. Keeps(client, client')
  BY <1>4, <1>6, KeepsTransitive DEF Reaches, IInv, Keeps
<1>8. \A u \in Observers \ {t} : ~Running(u)
  BY Alone
<1>9. ByObserver(t)
  BY <1>2, <1>4, <1>7, <1>8 DEF ByObserver, Reaches, Preparing
<1>10. ObserversInv'
  BY <1>2, <1>4, <1>8, ObserverFlags DEF Reaches, Running, Watches
<1>11. pc[t] \notin {"idle", "done"} /\ TaskOK(t)
  BY <1>1 DEF Running, IInv
<1>12. PendingOK(t)' /\ (Submits(t)' => Submits(t))
  BY <1>1, <1>2, <1>4, <1>5, <1>7, LeftPending DEF Reaches
<1>13. TaskOK(t)'
  <2>1. gen'[t] <= client'.generation
    BY <1>2, <1>4, <1>11, <1>3, <1>1 DEF Reaches, TaskOK, PointOK, Clients, IInv, CursorOK
  <2> QED BY <1>2, <1>12, <2>1
        DEF TaskOK, PointOK, PreparingOK, Preparing, SubmittingOK, ReleasingOK,
            QueryingOK, CancellingOK, AuthenticatingOK, GivenOK, KeptOK, Watches
<1>14. OneSubmission'
  BY <1>1, <1>2, <1>12, SubmissionKept
<1>15. Remembered'
  BY <1>1, <1>2, <1>4, <1>7, MemoryKept DEF Reaches
<1>16. StaysConnected'
  <2>1. Terminal(c) => Terminal(client')
    BY <1>6 DEF Keeps
  <2>2. Terminal(client') <=> Terminal(client)'
    BY DEF Terminal, Tracks, latest
  <2>3. client.suspended /\ losses = 0 => Terminal(client')
    BY <1>7 DEF IInv, StaysConnected, Keeps
  <2> QED BY <1>2, <1>4, <2>1, <2>2, <2>3 DEF StaysConnected
<1>17. client'.cancelling # NoTask => pc'[client'.cancelling] = "cancelling"
  BY <1>1, <1>2, <1>4, CancellingKept DEF Reaches
<1> QED BY <1>1, <1>2, <1>6, <1>9, <1>10, <1>13, <1>14, <1>15, <1>16, <1>17, PageStep

(* The head of poll's loop, with the client c. *)
LEMMA ObserveStep ==
  ASSUME IInv, NEW t \in Observers, Running(t), NEW c, CursorOK(c), Tracks(c),
         Keeps(client, c) \/ (Begins(client, c) /\ Preparing(t)),
         c.generation = client.generation, c.active = client.active,
         c.reconciling = client.reconciling, c.polling = TRUE,
         client.uncertain => c.uncertain,
         \/ c.cancelling = client.cancelling /\ pc[t] # "cancelling"
         \/ c.cancelling \in {client.cancelling, NoTask} \ {t},
         Observe(t, c), Besides(t), returned' = returned,
         t \in Evaluations => given'[t] = c.tracking.identity,
         t \in Evaluations /\ c.cancelOnSubmit /\ offer.cancel =>
           Terminal(c) \/ latest(c.tracking).cancel_requested,
         \A identity \in DOMAIN executions :
           c.tracking.identity = identity \/ c.uncertain,
         losses' = 0 /\ c.suspended => Terminal(c)
  PROVE  IInv' /\ Advances
<1> DEFINE last == IF Terminal(c) THEN [c EXCEPT !.releasePending = TRUE] ELSE c
           point == IF Terminal(c) THEN "freeing" ELSE "pausing"
           message == IF Terminal(c) THEN Requested("release", c.tracking.identity)
                                     ELSE Nothing
<1>1. /\ t \in Tasks
      /\ t \in Evaluations \/ t \in Resumes
      /\ t \in Evaluations => t \notin Resumes
      /\ point \in Points
  BY ClientAssumption DEF Observers, Tasks, Points
<1>2. client' = last /\ Moves(t, point, message)
  BY DEF Observe, Ask, Rest, Moves
<1>3. /\ Frame(t)
      /\ pc'[t] = point
      /\ wire'[t] = message
      /\ gen'[t] \in {gen[t], client.generation}
      /\ losses' = 0 => losses = 0
  <2> HIDE DEF point, message
  <2> QED BY <1>1, <1>2, MovesFrame
<1>4. c \in Clients
  BY DEF CursorOK
<1>5. /\ client' \in Clients
      /\ client'.tracking = c.tracking
      /\ client'.accepted = c.accepted
      /\ client'.generation = client.generation
      /\ client'.cancelling = c.cancelling
      /\ client'.polling = TRUE
      /\ client'.active = client.active
      /\ client'.reconciling = client.reconciling
      /\ client'.uncertain = c.uncertain
      /\ client'.suspended = c.suspended
      /\ client'.cancelOnSubmit = c.cancelOnSubmit
      /\ client'.releasePending = c.releasePending
           \/ (client'.releasePending /\ Terminal(c))
      /\ Terminal(c) => client'.releasePending
  BY <1>2, <1>4 DEF Clients
<1>6. CursorOK(client') /\ Keeps(c, client')
  BY <1>5, MarksKeep
<1>7. Tracks(client') /\ (Terminal(client') <=> Terminal(c))
  BY <1>5 DEF Terminal, Tracks
<1>9. \A u \in Observers \ {t} : ~Running(u)
  BY Alone
<1>10. ByObserver(t)
  <2>1. Keeps(client, c) => Keeps(client, client')
    BY <1>5, <1>6, KeepsTransitive DEF IInv, Keeps
  <2>2. Begins(client, c) => Begins(client, client')
    BY <1>5, <1>7 DEF Begins
  <2>3. ~Preparing(t)'
    BY <1>3 DEF Preparing
  <2> QED BY <1>5, <1>9, <2>1, <2>2, <2>3 DEF ByObserver
<1>11. pc'[t] \in Watches /\ Running(t)'
  BY <1>3 DEF Watches, Running
<1>12. ObserversInv'
  <2>1. t \in Evaluations => client.active = TRUE
    BY DEF IInv, ObserversInv, CursorOK, Clients
  <2>2. t \in Resumes => client.reconciling = TRUE
    BY DEF IInv, ObserversInv, CursorOK, Clients
  <2> QED BY <1>3, <1>5, <1>9, <1>11, <2>1, <2>2, ObserverFlags
<1>13. executions' = executions
  BY <1>3 DEF Frame, ownerVars
<1>14. ReleasingOK(t)' /\ PendingOK(t)'
  <2>1. CASE Terminal(c)
    <3>1. wire'[t] = Requested("release", client'.tracking.identity)
      BY <1>3, <1>5, <2>1
    <3>2. Terminal(client)' /\ Tracks(client)'
      BY <1>7, <2>1 DEF Terminal, Tracks, latest
    <3>3. /\ client'.tracking.identity \in Identities
          /\ client'.tracking.identity.execution \in Nat
      BY <1>5, CursorFacts DEF IInv
    <3> QED BY <3>1, <3>2, <3>3 DEF ReleasingOK, PendingOK, Tracked
  <2>2. CASE ~Terminal(c)
    BY <1>3, <2>2 DEF ReleasingOK, PendingOK, Pending, Nothing
  <2> QED BY <2>1, <2>2
<1>15. KeptOK(t)'
  <2>1. SUFFICES ASSUME t \in Evaluations, client'.cancelOnSubmit, offer.cancel
                 PROVE  Terminal(client') \/ latest(client'.tracking).cancel_requested
    BY DEF KeptOK, Terminal, Tracks, latest
  <2> QED BY <1>5, <1>7, <2>1
<1>16. TaskOK(t)'
  <2>1. gen'[t] <= client'.generation
    BY <1>1, <1>3, <1>4, <1>5 DEF IInv, TaskOK, PointOK, Clients, CursorOK
  <2>2. TaskOK(t) /\ pc[t] \notin {"idle", "done"}
    BY <1>1 DEF IInv, Running
  <2>3. ReturnedOK(t)'
    BY <1>3, <2>2 DEF TaskOK, ReturnedOK
  <2>4. Tracks(client)' /\ (t \in Evaluations => given'[t] = client'.tracking.identity)
    BY <1>5, <1>7 DEF Tracks
  <2>5. PointOK(t)'
    BY <1>3, <2>1, <2>4 DEF PointOK, Watches
  <2> QED BY <1>3, <1>14, <1>15, <2>3, <2>4, <2>5
        DEF TaskOK, PreparingOK, Preparing, SubmittingOK,
            QueryingOK, CancellingOK, AuthenticatingOK, GivenOK, Tracked
<1>17. OneSubmission'
  <2>1. wire'[t] \in {Nothing, Requested("release", c.tracking.identity)}
    BY <1>3
  <2>2. \A work : wire'[t] # Requested("submit", work)
    BY <2>1 DEF Nothing, Requested
  <2>3. ~Submits(t)'
    BY <2>2 DEF Submits
  <2> QED BY <1>1, <1>3, <2>3, SubmissionKept
<1>18. Remembered'
  BY <1>5, <1>7, <1>13 DEF Remembered, Tracked, Tracks, Terminal, latest
<1>19. StaysConnected'
  BY <1>3, <1>5, <1>7 DEF StaysConnected, Terminal, Tracks, latest
<1>20. client'.cancelling # NoTask => pc'[client'.cancelling] = "cancelling"
  BY <1>1, <1>3, <1>5, CancellingKept
<1> QED BY <1>1, <1>3, <1>6, <1>10, <1>12, <1>16, <1>17, <1>18, <1>19, <1>20, PageStep

(* An observer asks for something on behalf of its execution. *)
LEMMA AskStep ==
  ASSUME IInv, NEW t \in Observers, Running(t),
         NEW point \in Points \ {"idle", "done"}, NEW message,
         Moves(t, point, message), Reaches(t, client'),
         client'.polling <=> point \in Watches,
         Preparing(t)' => Preparing(t), pc[t] # "submitting",
         Submits(t)' => \A u \in Tasks \ {t} : ~Submits(u),
         TaskOK(t)', StaysConnected'
  PROVE  IInv' /\ Advances
<1>1. /\ t \in Tasks
      /\ t \in Evaluations \/ t \in Resumes
      /\ t \in Evaluations => t \notin Resumes
  BY ClientAssumption DEF Observers, Tasks
<1>2. Frame(t) /\ pc'[t] = point /\ (losses' = 0 => losses = 0)
  BY <1>1, MovesFrame
<1>3. \A u \in Observers \ {t} : ~Running(u)
  BY Alone
<1>4. ByObserver(t)
  BY <1>3 DEF ByObserver, Reaches
<1>5. ObserversInv'
  <2>1. Running(t)'
    BY <1>2 DEF Running
  <2>2. t \in Evaluations => client.active = TRUE
    BY DEF IInv, ObserversInv, CursorOK, Clients
  <2>3. t \in Resumes => client.reconciling = TRUE
    BY DEF IInv, ObserversInv, CursorOK, Clients
  <2> QED BY <1>2, <1>3, <2>1, <2>2, <2>3, ObserverFlags DEF Reaches
<1>6. OneSubmission'
  BY <1>1, <1>2, SubmissionKept
<1>7. Remembered'
  BY <1>1, <1>2, MemoryKept DEF Reaches
<1>8. client'.cancelling # NoTask => pc'[client'.cancelling] = "cancelling"
  BY <1>1, <1>2, CancellingKept DEF Reaches
<1> QED BY <1>1, <1>2, <1>4, <1>5, <1>6, <1>7, <1>8, PageStep DEF Reaches

LEMMA RequestFields ==
  \A path, subject : /\ Requested(path, subject).kind = "request"
                     /\ Requested(path, subject).path = path
                     /\ Requested(path, subject).subject = subject
BY DEF Requested

(* Requests differ in their paths, and from everything else. *)
LEMMA OtherRequest ==
  ASSUME NEW t, wire'[t] = Nothing \/ \E path, subject :
           path # "submit" /\ wire'[t] = Requested(path, subject)
  PROVE  ~Submits(t)'
<1>1. \A work : Nothing # Requested("submit", work)
  BY DEF Nothing, Requested
<1>2. ASSUME NEW path, NEW subject, NEW work,
             Requested(path, subject) = Requested("submit", work)
      PROVE  path = "submit"
  <2>1. Requested(path, subject).path = path
    BY DEF Requested
  <2>2. Requested("submit", work).path = "submit"
    BY DEF Requested
  <2> QED BY <1>2, <2>1, <2>2
<1> QED BY <1>1, <1>2 DEF Submits

LEMMA AnswerCases ==
  ASSUME IInv, NEW t \in Tasks, NEW answer \in Answers(t), Heard(answer)
  PROVE  /\ losses' \in {losses, losses + 1}
         /\ losses' = 0 => losses = 0
         /\ \/ answer = Unheard /\ losses' # 0
            \/ answer = wire[t] /\ ~Pending(t) /\ losses' = losses
<1>1. losses \in Nat
  BY DEF IInv, Fields
<1>2. CASE answer = Unheard
  BY <1>1, <1>2 DEF Heard
<1>3. CASE answer # Unheard
  BY <1>1, <1>3 DEF Heard, Answers
<1> QED BY <1>2, <1>3

(* Nothing that is marked before the invariant is used changes. *)
LEMMA KeepsReflexive ==
  ASSUME IInv
  PROVE  Keeps(client, client)
BY DEF Keeps, Precedes

LEMMA ClientReached ==
  ASSUME IInv, NEW t \in Tasks, pc[t] # "cancelling"
  PROVE  Reaches(t, client) /\ Reaches(t, disconnected(client))
<1>1. Reaches(t, client)
  BY KeepsReflexive DEF Reaches, IInv
<1>2. Reaches(t, disconnected(client))
  BY <1>1, DisconnectedKeeps DEF Reaches, IInv, SameCalls
<1> QED BY <1>1, <1>2

(* What poll relies on. *)
LEMMA WatchFacts ==
  ASSUME IInv, NEW t \in Observers, pc[t] \in Watches
  PROVE  /\ t \in Tasks
         /\ TaskOK(t)
         /\ Running(t)
         /\ client.polling = TRUE
         /\ Tracks(client)
         /\ t \in Evaluations => given[t] = Tracked
         /\ t \in Evaluations /\ client.cancelOnSubmit /\ offer.cancel =>
              Terminal(client) \/ latest(client.tracking).cancel_requested
         /\ \A identity \in DOMAIN executions :
              Tracked = identity \/ client.uncertain
         /\ returned[t] = Nothing
         /\ pc[t] # "cancelling"
<1>1. t \in Tasks /\ TaskOK(t)
  BY DEF IInv, Tasks
<1>2. Running(t)
  BY DEF Running, Watches
<1>3. client.polling = TRUE
  BY DEF IInv, ObserversInv, CursorOK, Clients
<1>4. \A e \in Evaluations : pc[e] # "submitting"
  BY <1>2 DEF IInv, ObserversInv, Running, Observers, Watches
<1> QED BY <1>1, <1>2, <1>3, <1>4
        DEF TaskOK, PointOK, GivenOK, KeptOK, ReturnedOK, Watches, IInv, Remembered

LEMMA PausedKeeps ==
  ASSUME IInv, NEW t \in Observers, Paused(t), UNCHANGED ownerVars
  PROVE  IInv' /\ Advances
<1>1. pc[t] = "pausing" /\ pc[t] \in Watches
  BY DEF Paused, Watches
<1>2. /\ t \in Tasks /\ TaskOK(t) /\ Running(t)
      /\ client.polling = TRUE
      /\ Tracks(client)
      /\ returned[t] = Nothing
  BY <1>1, WatchFacts
<1>3. Besides(t) /\ losses' = losses /\ returned' = returned /\ given' = given
  BY DEF Paused, Besides
<1>4. CASE client.suspended
  <2>1. Leave(t, disconnected(client))
    BY <1>4 DEF Paused, Fail
  <2>2. ReturnedOK(t)'
    BY <1>2, <1>3 DEF ReturnedOK
  <2> QED BY <1>1, <1>2, <1>3, <1>4, <2>1, <2>2, ClientReached, LeaveStep
<1>5. CASE ~client.suspended /\ Terminal(client)
  <2>1. Observe(t, client)
    BY <1>5 DEF Paused
  <2>2. CursorOK(client) /\ Keeps(client, client)
    BY KeepsReflexive DEF IInv
  <2> QED BY <1>1, <1>2, <1>3, <1>5, <2>1, <2>2, WatchFacts, ObserveStep DEF Tracked
<1>6. CASE ~client.suspended /\ ~Terminal(client)
  <2>1. /\ client' = client
        /\ Moves(t, "querying", Requested("query", Tracked))
    BY <1>3, <1>6 DEF Paused, Ask, Moves, Tracked
  <2>2. /\ Frame(t)
        /\ pc'[t] = "querying"
        /\ wire'[t] = Requested("query", Tracked)
        /\ gen'[t] \in {gen[t], client.generation}
    BY <1>2, <2>1, MovesFrame DEF Points
  <2>3. TaskOK(t)'
    <3>1. gen'[t] <= client'.generation
      BY <1>2, <2>1, <2>2 DEF IInv, TaskOK, PointOK, Clients, CursorOK
    <3>2. GivenOK(t)' /\ ReturnedOK(t)' /\ KeptOK(t)'
      BY <1>1, <1>2, <1>3, <2>1, <2>2
         DEF TaskOK, GivenOK, ReturnedOK, KeptOK, Watches, Tracked, Tracks, Terminal,
             latest
    <3>3. Tells(t, "query")'
      BY <2>1, <2>2 DEF Tells, Tracked
    <3>4. PendingOK(t)'
      BY <2>2 DEF PendingOK, Requested
    <3>5. PointOK(t)'
      BY <1>2, <2>1, <2>2, <3>1 DEF PointOK, Watches, Tracks
    <3> QED BY <2>2, <3>2, <3>3, <3>4, <3>5
            DEF TaskOK, PreparingOK, Preparing, SubmittingOK, ReleasingOK,
                QueryingOK, CancellingOK, AuthenticatingOK
  <2>4. ~Submits(t)' /\ ~Preparing(t)'
    BY <2>2, OtherRequest DEF Preparing
  <2>5. StaysConnected'
    BY <1>3, <2>1 DEF IInv, StaysConnected, Terminal, Tracks, latest
  <2>6. Reaches(t, client')
    BY <1>1, <1>2, <2>1, ClientReached
  <2> QED BY <1>1, <1>2, <2>1, <2>3, <2>4, <2>5, <2>6, AskStep DEF Points, Watches
<1> QED BY <1>4, <1>5, <1>6

LEMMA QueriedKeeps ==
  ASSUME IInv, NEW t \in Observers, Queried(t), UNCHANGED ownerVars
  PROVE  IInv' /\ Advances
<1>1. pc[t] = "querying" /\ pc[t] \in Watches
  BY DEF Queried, Watches
<1>2. /\ t \in Tasks /\ TaskOK(t) /\ Running(t)
      /\ client.polling = TRUE
      /\ Tracks(client)
      /\ returned[t] = Nothing
  BY <1>1, WatchFacts
<1>3. PICK answer \in Answers(t) :
        /\ Heard(answer)
        /\ IF ~client.suspended /\ Admitted(client, answer)
           THEN Observe(t, Observed(client, answer.receipt))
           ELSE Fail(t, client)
  BY DEF Queried
<1>4. /\ Besides(t) /\ returned' = returned /\ given' = given
      /\ losses' = 0 => losses = 0
      /\ \/ answer = Unheard /\ losses' # 0
         \/ answer = wire[t] /\ ~Pending(t)
  BY <1>2, <1>3, AnswerCases DEF Queried, Besides
<1>5. HostInv /\ CursorOK(client)
  BY DEF IInv
<1>6. \/ answer = Unheard /\ losses' # 0
      \/ \E receipt \in published :
           answer = Reported(receipt) /\ receipt.identity = Tracked
      \/ answer = Absent /\ Terminal(client)
  BY <1>1, <1>2, <1>4 DEF TaskOK, QueryingOK, Tells, Pending, Requested
<1>7. CASE ~client.suspended /\ Admitted(client, answer)
  <2>1. PICK receipt \in published :
          answer = Reported(receipt) /\ receipt.identity = Tracked
    BY <1>6, <1>7 DEF Admitted, Unheard, Absent
  <2>2. answer.receipt = receipt
    BY <2>1 DEF Reported
  <2> DEFINE c == Observed(client, receipt)
  <2>3. /\ CursorOK(c)
        /\ Keeps(client, c)
        /\ SameCalls(client, c)
        /\ c.suspended = client.suspended
    BY <1>2, <1>5, <2>1, ObservedKeeps DEF Tracked
  <2>4. Observe(t, c)
    BY <1>3, <1>7, <2>2
  <2> HIDE DEF c
  <2>5. /\ Tracks(c)
        /\ c.tracking.identity = Tracked
        /\ Terminal(client) => Terminal(c)
        /\ latest(client.tracking).cancel_requested =>
             latest(c.tracking).cancel_requested
    BY <1>2, <2>3 DEF Keeps, Tracked, Precedes
  <2>6. t \in Evaluations /\ c.cancelOnSubmit /\ offer.cancel =>
          Terminal(c) \/ latest(c.tracking).cancel_requested
    BY <1>1, <2>3, <2>5, WatchFacts DEF SameCalls
  <2>7. /\ \A identity \in DOMAIN executions :
              c.tracking.identity = identity \/ c.uncertain
        /\ t \in Evaluations => given'[t] = c.tracking.identity
    BY <1>1, <1>4, <2>3, <2>5, WatchFacts DEF SameCalls
  <2> QED BY <1>1, <1>2, <1>4, <1>7, <2>3, <2>4, <2>5, <2>6, <2>7, ObserveStep
          DEF SameCalls
<1>8. CASE client.suspended \/ ~Admitted(client, answer)
  <2>1. Leave(t, disconnected(client))
    BY <1>3, <1>8 DEF Fail
  <2>2. ReturnedOK(t)'
    BY <1>2, <1>4 DEF ReturnedOK
  <2>3. losses' = 0 => client.suspended \/ Terminal(disconnected(client))
    <3>1. ASSUME ~client.suspended, NEW receipt \in published,
                 answer = Reported(receipt), receipt.identity = Tracked
          PROVE  Admitted(client, answer)
      <4>1. client.tracking.online
        BY <1>2, <1>5, <3>1 DEF CursorOK
      <4>2. Observes(client.tracking, receipt)
        BY <1>2, <1>5, <3>1, <4>1, ReceiptAdmitted DEF Tracked
      <4> QED BY <3>1, <4>2 DEF Admitted, Reported
    <3> QED BY <1>5, <1>6, <1>8, <3>1, DisconnectedKeeps
  <2> QED BY <1>1, <1>2, <1>4, <2>1, <2>2, <2>3, ClientReached, LeaveStep
<1> QED BY <1>7, <1>8

(* What a confirmed or a lost release leaves. *)
LEMMA SettledKeeps ==
  ASSUME IInv, NEW t \in Tasks, pc[t] \in {"releasing", "freeing", "settling"},
         NEW answer \in Answers(t), Heard(answer)
  PROVE  /\ Reaches(t, Settled(client, answer))
         /\ SameCalls(client, Settled(client, answer))
         /\ Settled(client, answer).suspended = client.suspended
         /\ Settled(client, answer).tracking = client.tracking
         /\ Terminal(Settled(client, answer)) /\ Terminal(client)
         /\ Reaches(t, disconnected(Settled(client, answer)))
         /\ Terminal(disconnected(Settled(client, answer)))
         /\ Freed(client, answer) => ~Settled(client, answer).releasePending
<1> DEFINE d == Settled(client, answer)
<1>1. /\ TaskOK(t) /\ CursorOK(client) /\ HostInv /\ client \in Clients
  BY DEF IInv, CursorOK
<1>2. Freed(client, answer) => Tracked \notin DOMAIN executions
  BY <1>1, AnswerCases DEF TaskOK, ReleasingOK, Freed, Pending, Unheard, Rejected, Requested
<1>3. /\ d \in Clients
      /\ d.tracking = client.tracking
      /\ d.accepted = client.accepted
      /\ d.suspended = client.suspended
      /\ d.releasePending = (client.releasePending /\ ~Freed(client, answer))
      /\ SameCalls(client, d)
  BY <1>1 DEF Settled, Clients, SameCalls
<1> HIDE DEF d
<1>4. CursorOK(d) /\ Keeps(client, d)
  <2>1. CASE Freed(client, answer)
    BY <1>1, <1>2, <1>3, <2>1, MarksKeep DEF Tracked
  <2>2. CASE ~Freed(client, answer)
    <3>1. d.releasePending = client.releasePending
      BY <1>1, <1>3, <2>2 DEF Clients
    <3> QED BY <1>1, <1>3, <3>1, MarksKeep
  <2> QED BY <2>1, <2>2
<1>5. Reaches(t, d)
  BY <1>3, <1>4 DEF Reaches, SameCalls
<1>6. Terminal(client) /\ Terminal(d)
  BY <1>1, <1>4 DEF TaskOK, ReleasingOK, Keeps
<1>7. /\ CursorOK(disconnected(d))
      /\ Keeps(d, disconnected(d))
      /\ SameCalls(d, disconnected(d))
      /\ Terminal(disconnected(d))
  BY <1>1, <1>4, <1>6, DisconnectedKeeps
<1>8. Keeps(client, disconnected(d))
  BY <1>1, <1>4, <1>6, <1>7, KeepsTransitive
<1>9. Reaches(t, disconnected(d))
  BY <1>3, <1>7, <1>8 DEF Reaches, SameCalls
<1> QED BY <1>3, <1>5, <1>6, <1>7, <1>9 DEF d

LEMMA ReturnsFacts ==
  ASSUME IInv, NEW t \in Observers, Terminal(client), Returns(t),
         published' = published,
         t \in Evaluations => given'[t] = Tracked, pc'[t] = "done"
  PROVE  ReturnedOK(t)'
<1>1. Tracks(client) /\ latest(client.tracking).state = "Terminal"
  BY DEF Terminal
<1>2. /\ latest(client.tracking) \in published
      /\ latest(client.tracking).identity = Tracked
  BY <1>1, CursorFacts DEF IInv, Tracked
<1>3. returned'[t] = latest(client.tracking)
  BY DEF Returns, IInv, Fields
<1> QED BY <1>1, <1>2, <1>3 DEF ReturnedOK

LEMMA LeavesDone ==
  ASSUME IInv, NEW t \in Tasks, NEW c, Leave(t, c)
  PROVE  pc'[t] = "done"
BY DEF Leave, IInv, Fields

LEMMA FinishKeeps ==
  ASSUME IInv, NEW t \in Observers, Finish(t), UNCHANGED ownerVars
  PROVE  IInv' /\ Advances
<1>1. pc[t] = "freeing" /\ pc[t] \in Watches
  BY DEF Finish, Watches
<1>2. /\ t \in Tasks /\ TaskOK(t) /\ Running(t)
      /\ t \in Evaluations => given[t] = Tracked
  BY <1>1, WatchFacts
<1>3. PICK answer \in Answers(t) :
        /\ Heard(answer)
        /\ Leave(t, IF Freed(client, answer) THEN Settled(client, answer)
                    ELSE disconnected(Settled(client, answer)))
  BY DEF Finish
<1>4. Besides(t) /\ given' = given /\ Returns(t) /\ published' = published
  BY <1>2, <1>3, AnswerCases DEF Finish, Besides, Returns, ownerVars
<1> DEFINE c == IF Freed(client, answer) THEN Settled(client, answer)
                ELSE disconnected(Settled(client, answer))
<1>5. Reaches(t, c) /\ Terminal(c) /\ Terminal(client)
  BY <1>1, <1>2, <1>3, SettledKeeps
<1>6. Leave(t, c)
  BY <1>3
<1> HIDE DEF c
<1>7. ReturnedOK(t)'
  BY <1>2, <1>4, <1>5, <1>6, ReturnsFacts, LeavesDone
<1> QED BY <1>1, <1>2, <1>4, <1>5, <1>6, <1>7, LeaveStep

LEMMA SettleKeeps ==
  ASSUME IInv, NEW r \in Resumes, Settle(r), UNCHANGED ownerVars
  PROVE  IInv' /\ Advances
<1>1. /\ r \in Tasks /\ r \in Observers /\ r \notin Evaluations
      /\ TaskOK(r) /\ Running(r) /\ pc[r] = "settling"
  BY ClientAssumption DEF Settle, Tasks, Observers, IInv, Running
<1>2. PICK answer \in Answers(r) :
        /\ Heard(answer)
        /\ IF Freed(client, answer)
           THEN Leave(r, Settled(client, answer)) /\ Returns(r)
           ELSE Fail(r, Settled(client, answer)) /\ UNCHANGED returned
  BY DEF Settle
<1>3. Besides(r) /\ published' = published
  BY <1>1, <1>2, AnswerCases DEF Settle, Besides, Returns, ownerVars
<1>4. /\ Reaches(r, Settled(client, answer))
      /\ Reaches(r, disconnected(Settled(client, answer)))
      /\ Terminal(Settled(client, answer))
      /\ Terminal(disconnected(Settled(client, answer)))
      /\ Terminal(client)
  BY <1>1, <1>2, SettledKeeps
<1>5. CASE Freed(client, answer)
  <2>1. Leave(r, Settled(client, answer)) /\ Returns(r)
    BY <1>2, <1>5
  <2>2. ReturnedOK(r)'
    BY <1>1, <1>3, <1>4, <2>1, ReturnsFacts, LeavesDone
  <2> QED BY <1>1, <1>3, <1>4, <2>1, <2>2, LeaveStep
<1>6. CASE ~Freed(client, answer)
  <2>1. Leave(r, disconnected(Settled(client, answer))) /\ returned' = returned
    BY <1>2, <1>6 DEF Fail
  <2>2. ReturnedOK(r)'
    BY <1>1, <2>1 DEF TaskOK, ReturnedOK
  <2> QED BY <1>1, <1>3, <1>4, <2>1, <2>2, LeaveStep
<1> QED BY <1>5, <1>6

-----------------------------------------------------------------------------
(* The steps of execute before it polls. *)

(* Unless a submission is unknown, only one that runs can be on its way.   *)
LEMMA NoOtherSubmission ==
  ASSUME IInv, NEW t, ~client.uncertain, \A u \in Observers \ {t} : ~Running(u)
  PROVE  \A u \in Tasks \ {t} : ~Submits(u)
<1>1. SUFFICES ASSUME NEW u \in Tasks \ {t}, NEW work \in Works,
                      wire[u] = Requested("submit", work)
               PROVE  FALSE
  BY DEF Submits
<1>2. wire[u].kind = "request" /\ wire[u].path = "submit"
  BY <1>1 DEF Requested
<1>3. ~\E identity \in Identities : wire[u] = Requested("release", identity)
  BY <1>2, RequestFields
<1>4. u \in Evaluations /\ pc[u] = "submitting"
  BY <1>2, <1>3 DEF IInv, TaskOK, PendingOK, Pending
<1> QED BY <1>4 DEF Observers, Running

(* A page that has nothing left to release has nothing at the host. *)
LEMMA NothingHeld ==
  ASSUME IInv, NEW t \in Observers, \A u \in Observers \ {t} : ~Running(u),
         pc[t] # "submitting", ~client.uncertain, Tracks(client) => Terminal(client),
         ~client.releasePending \/ Tracked \notin DOMAIN executions
  PROVE  DOMAIN executions = {}
<1>1. \A e \in Evaluations : pc[e] # "submitting"
  BY DEF Observers, Running
<1> QED BY <1>1 DEF IInv, Remembered

(* The facts of a task that submits. *)
LEMMA SubmitsOK ==
  ASSUME NEW e \in Evaluations, NEW work \in Works,
         client' \in Clients, ~client'.uncertain, ~client'.releasePending,
         Tracks(client') => Terminal(client'),
         Policy => Cardinality(client'.accepted) < MaxAccepted,
         pc'[e] = "submitting", wire'[e] = Requested("submit", work),
         DOMAIN executions' = {}, gen'[e] <= client'.generation, ReturnedOK(e)'
  PROVE  TaskOK(e)'
<1>1. PointOK(e)'
  BY DEF PointOK, Watches
<1>2. PreparingOK(e)'
  BY DEF PreparingOK, Room, Terminal, Tracks, latest
<1>3. SubmittingOK(e)' /\ PendingOK(e)'
  BY DEF SubmittingOK, PendingOK, Submits
<1> QED BY <1>1, <1>2, <1>3
        DEF TaskOK, ReleasingOK, QueryingOK, CancellingOK, AuthenticatingOK, GivenOK,
            KeptOK, Watches

LEMMA ReleaseFirstKeeps ==
  ASSUME IInv, NEW e \in Evaluations, ReleaseFirst(e), UNCHANGED ownerVars
  PROVE  IInv' /\ Advances
<1>1. /\ e \in Tasks /\ e \in Observers
      /\ TaskOK(e) /\ Running(e) /\ pc[e] = "releasing" /\ Preparing(e)
  BY DEF ReleaseFirst, Tasks, Observers, IInv, Running, Preparing
<1>2. PICK answer \in Answers(e) :
        /\ Heard(answer)
        /\ IF Freed(client, answer)
           THEN \E work \in Works :
                  Ask(e, Settled(client, answer), "submitting", "submit", work)
           ELSE Leave(e, disconnected(Settled(client, answer)))
  BY DEF ReleaseFirst
<1>3. Besides(e) /\ UNCHANGED <<gen, given, returned>> /\ executions' = executions
  BY <1>1, <1>2, AnswerCases DEF ReleaseFirst, Besides, ownerVars
<1> DEFINE c == Settled(client, answer)
<1>4. /\ Reaches(e, c)
      /\ SameCalls(client, c)
      /\ c.suspended = client.suspended
      /\ c.tracking = client.tracking
      /\ Reaches(e, disconnected(c))
      /\ Terminal(c)
      /\ Terminal(disconnected(c))
      /\ Terminal(client)
      /\ Freed(client, answer) => ~c.releasePending
  BY <1>1, <1>2, SettledKeeps
<1>5. IF Freed(client, answer)
      THEN \E work \in Works : Ask(e, c, "submitting", "submit", work)
      ELSE Leave(e, disconnected(c))
  BY <1>2
<1> HIDE DEF c
<1>6. CASE ~Freed(client, answer)
  <2>1. Leave(e, disconnected(c))
    BY <1>5, <1>6
  <2>2. ReturnedOK(e)'
    BY <1>1, <1>3 DEF TaskOK, ReturnedOK
  <2> QED BY <1>1, <1>3, <1>4, <2>1, <2>2, LeaveStep
<1>7. CASE Freed(client, answer)
  <2>1. PICK work \in Works : Ask(e, c, "submitting", "submit", work)
    BY <1>5, <1>7
  <2>2. client' = c /\ Moves(e, "submitting", Requested("submit", work))
    BY <1>3, <2>1 DEF Ask, Moves
  <2>3. /\ Frame(e)
        /\ pc'[e] = "submitting"
        /\ wire'[e] = Requested("submit", work)
        /\ losses' = 0 => losses = 0
    BY <1>1, <2>2, MovesFrame DEF Points
  <2>4. \A u \in Observers \ {e} : ~Running(u)
    BY <1>1, Alone
  <2>5. /\ ~client.uncertain /\ Room
        /\ c \in Clients
        /\ c.accepted = client.accepted
    BY <1>1, <1>4 DEF TaskOK, PreparingOK, Reaches, CursorOK, Keeps
  <2>6. DOMAIN executions = {}
    <3>1. ~client.releasePending \/ Tracked \notin DOMAIN executions
      BY <1>4, <1>7 DEF Reaches, Keeps, Tracked
    <3> QED BY <1>1, <1>4, <2>4, <2>5, <3>1, NothingHeld
  <2>7. TaskOK(e)'
    <3>1. ReturnedOK(e)' /\ gen'[e] <= client'.generation
      BY <1>1, <1>3, <1>4, <2>2, <2>3 DEF TaskOK, ReturnedOK, PointOK, SameCalls
    <3> QED BY <1>3, <1>4, <1>7, <2>2, <2>3, <2>5, <2>6, <3>1, SubmitsOK
            DEF SameCalls, Room
  <2>8. client'.polling <=> "submitting" \in Watches
    <3>1. \A u \in Observers : pc[u] \notin Watches
      BY <1>1, <2>4 DEF Watches, Running
    <3> QED BY <1>4, <2>2, <3>1 DEF SameCalls, IInv, ObserversInv, Watches
  <2>9. StaysConnected'
    BY <1>4, <2>2 DEF StaysConnected, Terminal, Tracks, latest
  <2>10. \A u \in Tasks \ {e} : ~Submits(u)
    BY <2>4, <2>5, NoOtherSubmission
  <2> QED BY <1>1, <1>4, <2>2, <2>7, <2>8, <2>9, <2>10, AskStep DEF Points
<1> QED BY <1>6, <1>7

LEMMA ExecuteKeeps ==
  ASSUME IInv, NEW e \in Evaluations, Execute(e), UNCHANGED ownerVars
  PROVE  IInv' /\ Advances
<1> DEFINE c == [client EXCEPT !.generation = @ + 1, !.active = TRUE,
                              !.cancelOnSubmit = FALSE]
<1>1. /\ e \in Tasks /\ e \in Observers /\ e \notin Resumes
      /\ TaskOK(e) /\ pc[e] = "idle" /\ Executable(client)
      /\ client \in Clients
  BY ClientAssumption DEF Execute, Tasks, Observers, IInv, CursorOK
<1>2. \A u \in Observers \ {e} : ~Running(u)
  BY <1>1, Alone DEF Executable
<1>3. /\ ~client.uncertain /\ Room
      /\ Tracks(client) => Terminal(client)
      /\ ~Busy(client)
  BY <1>1 DEF Executable, Room
<1>4. /\ c \in Clients
      /\ c.tracking = client.tracking
      /\ c.accepted = client.accepted
      /\ c.generation = client.generation + 1
      /\ c.cancelling = client.cancelling
      /\ c.active = TRUE
      /\ c.polling = client.polling
      /\ c.reconciling = client.reconciling
      /\ c.releasePending = client.releasePending
      /\ c.uncertain = client.uncertain
      /\ c.suspended = client.suspended
  <2>1. client.generation + 1 \in Nat
    BY <1>1 DEF Clients
  <2> QED BY <1>1, <2>1 DEF Clients
<1>5. IF c.releasePending
      THEN Ask(e, c, "releasing", "release", c.tracking.identity)
      ELSE \E work \in Works : Ask(e, c, "submitting", "submit", work)
  BY DEF Execute
<1> HIDE DEF c
<1> DEFINE Asks(point, path, subject) ==
             /\ Ask(e, c, point, path, subject)
             /\ point = "releasing" => /\ client.releasePending
                                       /\ path = "release" /\ subject = Tracked
             /\ point = "submitting" => /\ ~client.releasePending
                                        /\ path = "submit" /\ subject \in Works
<1>5a. PICK point \in {"releasing", "submitting"} :
         \E path, subject : Asks(point, path, subject)
  BY <1>4, <1>5 DEF Tracked
<1>5b. PICK path, subject : Asks(point, path, subject)
  BY <1>5a
<1>6. /\ point \in {"releasing", "submitting"}
      /\ Asks(point, path, subject)
  BY <1>5b
<1>7. client' = c /\ Moves(e, point, Requested(path, subject))
      /\ UNCHANGED <<gen, given, returned>> /\ losses' = losses
  BY <1>6 DEF Execute, Ask, Moves, Besides
<1>8. /\ Frame(e)
      /\ pc'[e] = point
      /\ wire'[e] = Requested(path, subject)
  BY <1>1, <1>6, <1>7, MovesFrame DEF Points
<1>9. CursorOK(client') /\ Keeps(client, client')
  <2>1. CursorOK(client)
    BY DEF IInv
  <2> QED BY <1>4, <1>7, <2>1, MarksKeep
<1>10. ByObserver(e)
  BY <1>1, <1>2, <1>4, <1>7, <1>9 DEF ByObserver
<1>11. ObserversInv'
  <2>1. client.polling = FALSE
    BY <1>1, <1>3 DEF Busy, Clients
  <2> QED BY <1>1, <1>2, <1>4, <1>6, <1>7, <1>8, <2>1, ObserverFlags
          DEF Running, Watches
<1>12. executions' = executions
  BY DEF ownerVars
<1>13. /\ gen'[e] <= client'.generation
       /\ ReturnedOK(e)'
       /\ Tracks(client)' <=> Tracks(client)
       /\ Terminal(client)' <=> Terminal(client)
       /\ Room' <=> Room
       /\ Tracked' = Tracked
  <2>1. gen[e] <= client.generation /\ gen[e] \in Nat /\ client.generation \in Nat
    BY <1>1 DEF TaskOK, PointOK, IInv, Fields, Clients
  <2>2. ReturnedOK(e)'
    BY <1>1, <1>6, <1>7, <1>8 DEF TaskOK, ReturnedOK
  <2> QED BY <1>4, <1>7, <2>1, <2>2 DEF Tracks, Terminal, latest, Room, Tracked
<1>14. ASSUME point = "submitting" PROVE TaskOK(e)'
  <2>1. DOMAIN executions = {}
    BY <1>1, <1>2, <1>3, <1>6, <1>14, NothingHeld
  <2>2. subject \in Works /\ wire'[e] = Requested("submit", subject)
    BY <1>6, <1>8, <1>14
  <2>3. Tracks(client') => Terminal(client')
    BY <1>3, <1>9 DEF Keeps
  <2>4. TaskOK(e)'
    BY <1>3, <1>4, <1>6, <1>7, <1>8, <1>12, <1>13, <1>14, <2>1, <2>2, <2>3, SubmitsOK
       DEF Room
  <2> QED BY <2>4
<1>15. ASSUME point = "releasing" PROVE TaskOK(e)'
  <2>1. wire'[e] = Requested("release", Tracked')
    BY <1>6, <1>8, <1>13, <1>15
  <2>2. Terminal(client)' /\ Tracks(client)'
    BY <1>6, <1>13, <1>15 DEF IInv, CursorOK, Terminal
  <2>3. Tracked \in Identities /\ Tracked.execution \in Nat
    BY <1>13, <2>2, CursorFacts DEF IInv, Tracked
  <2>4. PointOK(e)'
    BY <1>8, <1>13, <1>15 DEF PointOK, Watches
  <2>5. PreparingOK(e)'
    BY <1>3, <1>4, <1>7, <1>13, <2>2 DEF PreparingOK
  <2>6. ReleasingOK(e)' /\ PendingOK(e)'
    BY <1>13, <2>1, <2>2, <2>3 DEF ReleasingOK, PendingOK
  <2> QED BY <1>8, <1>13, <1>15, <2>4, <2>5, <2>6
          DEF TaskOK, SubmittingOK, QueryingOK, CancellingOK, AuthenticatingOK,
              GivenOK, KeptOK, Watches
<1>16. OneSubmission'
  <2>1. \A u \in Tasks \ {e} : ~Submits(u)
    BY <1>2, <1>3, NoOtherSubmission
  <2> QED BY <1>1, <1>8, <2>1, SubmissionKept
<1>17. Remembered'
  BY <1>1, <1>4, <1>7, <1>8, <1>9, MemoryKept
<1>18. StaysConnected'
  BY <1>4, <1>7, <1>9, ConnectionKept
<1>19. client'.cancelling # NoTask => pc'[client'.cancelling] = "cancelling"
  BY <1>1, <1>4, <1>7, <1>8, CancellingKept
<1> QED BY <1>1, <1>6, <1>8, <1>9, <1>10, <1>11, <1>14, <1>15, <1>16, <1>17, <1>18, <1>19,
           PageStep

LEMMA ResumeKeeps ==
  ASSUME IInv, NEW r \in Resumes, Resume(r), UNCHANGED ownerVars
  PROVE  IInv' /\ Advances
<1> DEFINE c == [client EXCEPT !.reconciling = TRUE]
<1>1. /\ r \in Tasks /\ r \in Observers /\ r \notin Evaluations
      /\ TaskOK(r) /\ pc[r] = "idle" /\ ~Busy(client) /\ Tracks(client)
      /\ client \in Clients
  BY ClientAssumption DEF Resume, Tasks, Observers, IInv, CursorOK
<1>2. \A u \in Observers \ {r} : ~Running(u)
  BY <1>1, Alone
<1>3. /\ c \in Clients
      /\ c.tracking = client.tracking
      /\ c.accepted = client.accepted
      /\ c.generation = client.generation
      /\ c.cancelling = client.cancelling
      /\ c.active = client.active
      /\ c.polling = client.polling
      /\ c.reconciling = TRUE
      /\ c.releasePending = client.releasePending
      /\ c.uncertain = client.uncertain
      /\ c.suspended = client.suspended
  BY <1>1 DEF Clients
<1>4. /\ client' = c
      /\ Moves(r, "authenticating", Requested("session", Nothing))
      /\ UNCHANGED <<gen, given, returned>> /\ losses' = losses
  BY DEF Resume, Ask, Moves, Besides
<1> HIDE DEF c
<1>5. /\ Frame(r)
      /\ pc'[r] = "authenticating"
      /\ wire'[r] = Requested("session", Nothing)
  BY <1>1, <1>4, MovesFrame DEF Points
<1>6. CursorOK(client') /\ Keeps(client, client')
  <2>1. CursorOK(client)
    BY DEF IInv
  <2> QED BY <1>3, <1>4, <2>1, MarksKeep
<1>7. ByObserver(r)
  BY <1>1, <1>2, <1>3, <1>4, <1>6 DEF ByObserver, Preparing
<1>8. ObserversInv'
  <2>1. client.polling = FALSE
    BY <1>1 DEF Busy, Clients
  <2> QED BY <1>1, <1>2, <1>3, <1>4, <1>5, <2>1, ObserverFlags DEF Running, Watches
<1>9. TaskOK(r)'
  <2>1. gen'[r] <= client'.generation
    BY <1>1, <1>3, <1>4 DEF TaskOK, PointOK
  <2>2. ReturnedOK(r)'
    BY <1>1, <1>4, <1>5 DEF TaskOK, ReturnedOK
  <2>3. PointOK(r)'
    BY <1>1, <1>5, <1>6, <2>1 DEF PointOK, Watches, Keeps, Tracks
  <2>4. PendingOK(r)'
    BY <1>5, RequestFields DEF PendingOK
  <2> QED BY <1>1, <1>5, <2>2, <2>3, <2>4
          DEF TaskOK, PreparingOK, Preparing, SubmittingOK, ReleasingOK, QueryingOK,
              CancellingOK, AuthenticatingOK, GivenOK, KeptOK
<1>10. OneSubmission'
  BY <1>1, <1>5, OtherRequest, SubmissionKept
<1>11. Remembered'
  BY <1>1, <1>3, <1>4, <1>5, <1>6, MemoryKept
<1>12. StaysConnected'
  BY <1>3, <1>4, <1>6, ConnectionKept
<1>13. client'.cancelling # NoTask => pc'[client'.cancelling] = "cancelling"
  BY <1>1, <1>3, <1>4, <1>5, CancellingKept
<1> QED BY <1>1, <1>5, <1>6, <1>7, <1>8, <1>9, <1>10, <1>11, <1>12, <1>13, PageStep

(* A submission is rejected, or it is the one execution of the host. *)
LEMMA SubmitAnswers ==
  ASSUME IInv, NEW e \in Evaluations, pc[e] = "submitting", ~Pending(e)
  PROVE  \/ wire[e] = Rejected /\ DOMAIN executions = {}
         \/ \E identity \in Identities :
              /\ wire[e] = Reported(Initial(identity))
              /\ DOMAIN executions = {identity}
              /\ Initial(identity) \in published
              /\ Tracks(client) => Tracked.execution < identity.execution
<1>1. SubmittingOK(e)
  BY DEF IInv, TaskOK, Tasks, Observers
<1>2. ASSUME NEW work \in Works, wire[e] = Requested("submit", work)
      PROVE  FALSE
  BY <1>2, RequestFields DEF Pending
<1> QED BY <1>1, <1>2 DEF SubmittingOK

LEMMA AnswerKinds ==
  /\ Rejected.kind = "rejected"
  /\ Unheard.kind = "unheard"
  /\ \A receipt : /\ Reported(receipt).kind = "receipt"
                  /\ Reported(receipt).receipt = receipt
  /\ \A identity : /\ Initial(identity).identity = identity
                   /\ Initial(identity).state = "Submitted"
BY DEF Rejected, Unheard, Reported, Initial, Receipt

(* The core can start what the host accepted. *)
LEMMA AcceptedStarts ==
  ASSUME IInv, NEW e \in Evaluations, pc[e] = "submitting",
         NEW identity \in Identities, wire[e] = Reported(Initial(identity))
  PROVE  /\ Starts(client, Initial(identity))
         /\ DOMAIN executions = {identity}
         /\ Initial(identity) \in published
         /\ Tracks(client) => Tracked.execution < identity.execution
<1>1. /\ TaskOK(e) /\ Preparing(e) /\ CursorOK(client) /\ HostInv
  BY DEF IInv, Tasks, Observers, Preparing
<1>2. ~Pending(e) /\ wire[e] # Rejected
  BY AnswerKinds DEF Pending
<1>4. PICK i \in Identities : /\ wire[e] = Reported(Initial(i))
                              /\ DOMAIN executions = {i}
                              /\ Initial(i) \in published
                              /\ Tracks(client) => Tracked.execution < i.execution
  BY <1>2, SubmitAnswers
<1>5. i = identity
  <2>1. Reported(Initial(identity)).receipt.identity = identity
    BY AnswerKinds
  <2>2. Reported(Initial(i)).receipt.identity = i
    BY AnswerKinds
  <2> QED BY <1>4, <2>1, <2>2
<1>6. Startable(offer, identity, Initial(identity))
  BY DEF Startable, Binds, Identities, Identity
<1>7. identity \notin client.accepted
  <2>1. SUFFICES ASSUME identity \in client.accepted
                 PROVE  FALSE
    OBVIOUS
  <2>2. Tracks(client) /\ identity.execution <= Tracked.execution
    BY <1>1, <2>1 DEF CursorOK, Tracked
  <2>3. Tracked.execution \in Nat /\ identity.execution \in Nat
    BY <1>1, <2>2, CursorFacts, IdentityNumber DEF Tracked
  <2> QED BY <1>4, <1>5, <2>2, <2>3
<1>8. /\ Tracks(client) => Terminal(client)
      /\ Room
  BY <1>1 DEF TaskOK, PreparingOK
<1> QED BY <1>4, <1>5, <1>6, <1>7, <1>8, AnswerKinds DEF Starts, Room

LEMMA StartedFacts ==
  ASSUME IInv, NEW e \in Evaluations, pc[e] = "submitting",
         NEW identity \in Identities, wire[e] = Reported(Initial(identity))
  PROVE  LET c == Started(client, Initial(identity))
         IN /\ CursorOK(c)
            /\ Begins(client, c)
            /\ ~Terminal(c)
            /\ c.tracking = start(offer, identity, Initial(identity))
            /\ c.tracking.identity = identity
            /\ c.suspended = FALSE
            /\ SameCalls(client, c)
<1> DEFINE c == Started(client, Initial(identity))
<1>1. /\ TaskOK(e) /\ client \in Clients /\ CursorOK(client) /\ HostInv
  BY DEF IInv, Tasks, Observers, CursorOK
<1>2. /\ DOMAIN executions = {identity}
      /\ Initial(identity) \in published
      /\ Tracks(client) => Tracked.execution < identity.execution
  BY AcceptedStarts
<1>3. /\ Initial(identity).identity = identity
      /\ Initial(identity).state = "Submitted"
  BY DEF Initial, Receipt
<1> DEFINE cursor == start(offer, identity, Initial(identity))
<1>4. /\ cursor \in Cursors
      /\ cursor.identity = identity
      /\ cursor.evidence = Initial(identity)
      /\ cursor.online
      /\ cursor.can_cancel = offer.cancel
      /\ cursor # NoCursor
  BY StartType, ClientAssumption
<1>5. c = [client EXCEPT !.tracking = cursor,
                        !.accepted = IF Policy THEN @ \cup {identity} ELSE @,
                        !.suspended = FALSE]
  BY <1>3 DEF Started
<1> HIDE DEF cursor, c
<1>6. /\ c \in Clients
      /\ c.tracking = cursor
      /\ c.accepted \subseteq client.accepted \cup {identity}
      /\ c.suspended = FALSE
      /\ c.releasePending = client.releasePending
      /\ SameCalls(client, c)
  <2>1. (IF Policy THEN client.accepted \cup {identity} ELSE client.accepted)
           \in SUBSET Identities
    BY <1>1 DEF Clients
  <2> QED BY <1>1, <1>4, <1>5, <2>1 DEF Clients, SameCalls
<1>7. Tracks(c) /\ ~Terminal(c)
  BY <1>3, <1>4, <1>6 DEF Tracks, Terminal, latest
<1>8. ~client.releasePending
  BY <1>1 DEF TaskOK, SubmittingOK
<1>9. identity.execution < next
  BY <1>1, <1>2, <1>3 DEF HostInv, OwnerInv, LatestIsLast
<1>10. \A i \in c.accepted : i.execution <= identity.execution
  <2>1. SUFFICES ASSUME NEW i \in client.accepted
                 PROVE  i.execution <= identity.execution
    BY <1>6, IdentityNumber
  <2>2. Tracks(client) /\ i.execution <= Tracked.execution
    BY <1>1 DEF CursorOK, Tracked
  <2>3. /\ i.execution \in Nat /\ identity.execution \in Nat
        /\ Tracked.execution \in Nat
    BY <1>1, <2>2, CursorFacts, IdentityNumber DEF Tracked, Clients
  <2> QED BY <1>2, <2>2, <2>3
<1>11. CursorOK(c)
  BY <1>2, <1>3, <1>4, <1>6, <1>7, <1>8, <1>9, <1>10 DEF CursorOK, latest
<1>12. Begins(client, c)
  BY <1>2, <1>4, <1>6, <1>7 DEF Begins, Tracked
<1> QED BY <1>4, <1>6, <1>7, <1>11, <1>12 DEF c, cursor

LEMMA StartedBegins ==
  ASSUME IInv, NEW e \in Evaluations, pc[e] = "submitting",
         NEW identity \in Identities, wire[e] = Reported(Initial(identity)),
         NEW c, c = Started(client, Initial(identity)), Begin(e, c),
         losses' \in {losses, losses + 1},
         given' = [given EXCEPT ![e] = identity], returned' = returned,
         UNCHANGED ownerVars
  PROVE  IInv' /\ Advances
<1>1. /\ e \in Tasks /\ e \in Observers /\ e \notin Resumes
      /\ TaskOK(e) /\ Preparing(e) /\ Running(e)
      /\ CursorOK(client)
  BY ClientAssumption DEF IInv, Tasks, Observers, Preparing, Running
<1>2. /\ CursorOK(c)
      /\ Begins(client, c)
      /\ ~Terminal(c)
      /\ c.tracking = start(offer, identity, Initial(identity))
      /\ c.tracking.identity = identity
      /\ c.suspended = FALSE
      /\ SameCalls(client, c)
      /\ c \in Clients
      /\ Tracks(c)
  <2>1. CursorOK(c) => c \in Clients
    BY DEF CursorOK
  <2> QED BY <2>1, StartedFacts DEF Begins
<1>3. DOMAIN executions = {identity} /\ executions' = executions
  BY AcceptedStarts DEF ownerVars
<1>4. \A u \in Observers \ {e} : ~Running(u)
  BY <1>1, Alone
<1>5. given'[e] = identity
  BY DEF IInv, Fields
<1>6. CASE c.cancelOnSubmit /\ cancel_action(c.tracking) = "Send"
  <2> DEFINE d == [c EXCEPT !.cancelling = e]
  <2>1. /\ client' = d
        /\ Moves(e, "cancelling", Requested("cancel", identity))
        /\ gen' = [gen EXCEPT ![e] = client.generation]
    BY <1>2, <1>6 DEF Begin, Ask, Moves, Besides, SameCalls
  <2>2. /\ d \in Clients
        /\ d.tracking = c.tracking
        /\ d.accepted = c.accepted
        /\ d.generation = client.generation
        /\ d.cancelling = e
        /\ d.active = client.active
        /\ d.polling = client.polling
        /\ d.reconciling = client.reconciling
        /\ d.releasePending = c.releasePending
        /\ d.uncertain = client.uncertain
        /\ d.suspended = FALSE
    BY <1>1, <1>2 DEF Clients, SameCalls
  <2> HIDE DEF d
  <2>3. /\ Frame(e)
        /\ pc'[e] = "cancelling"
        /\ wire'[e] = Requested("cancel", identity)
        /\ losses' = 0 => losses = 0
    BY <1>1, <2>1, MovesFrame DEF Points
  <2>4. gen'[e] = client.generation
    BY <1>1, <2>1 DEF IInv, Fields
  <2>5. CursorOK(client')
    BY <1>2, <2>1, <2>2, MarksKeep
  <2>6. Tracks(client)' /\ Tracked' = identity
    BY <1>2, <2>1, <2>2 DEF Tracks, Tracked
  <2>7. ByObserver(e)
    <3>1. Begins(client, client')
      BY <1>2, <2>1, <2>2 DEF Begins, Tracks
    <3> QED BY <1>1, <1>4, <2>1, <2>2, <3>1 DEF ByObserver
  <2>8. ObserversInv'
    <3>1. \A u \in Observers : pc[u] \notin Watches
      BY <1>1, <1>4 DEF Watches, Running
    <3>2. client.active = TRUE /\ client.polling = FALSE
      BY <1>1, <3>1 DEF IInv, ObserversInv, Clients, CursorOK
    <3> QED BY <1>1, <1>4, <2>1, <2>2, <2>3, <3>2, ObserverFlags DEF Running, Watches
  <2>9. TaskOK(e)'
    <3>1. ReturnedOK(e)'
      BY <1>1, <2>3 DEF TaskOK, ReturnedOK
    <3>2. client.generation \in Nat
      BY <1>1 DEF CursorOK, Clients
    <3>3. PointOK(e)'
      BY <1>1, <2>1, <2>2, <2>3, <2>4, <3>2 DEF PointOK, Watches
    <3>4. \A u \in Tasks : ~Preparing(u)'
      BY <1>4, <2>3 DEF Preparing, Frame, Observers, Running
    <3>5. CancellingOK(e)'
      BY <2>1, <2>2, <2>3, <2>4, <2>6, <3>4 DEF CancellingOK, Current, Tells
    <3>6. PendingOK(e)'
      BY <2>3, RequestFields DEF PendingOK
    <3> QED BY <1>5, <2>3, <2>6, <3>1, <3>3, <3>5, <3>6
            DEF TaskOK, PreparingOK, Preparing, SubmittingOK, ReleasingOK, QueryingOK,
                AuthenticatingOK, GivenOK, KeptOK, Watches
  <2>10. OneSubmission'
    BY <1>1, <2>3, OtherRequest, SubmissionKept
  <2>11. Remembered'
    <3>1. ~Terminal(client)'
      BY <1>2, <2>1, <2>2 DEF Terminal, Tracks, latest
    <3> QED BY <1>3, <2>6, <3>1 DEF Remembered
  <2>12. StaysConnected'
    BY <2>1, <2>2 DEF StaysConnected
  <2>13. client'.cancelling # NoTask => pc'[client'.cancelling] = "cancelling"
    BY <2>1, <2>2, <2>3
  <2> QED BY <1>1, <2>3, <2>5, <2>7, <2>8, <2>9, <2>10, <2>11, <2>12, <2>13, PageStep
<1>7. CASE ~(c.cancelOnSubmit /\ cancel_action(c.tracking) = "Send")
  <2> DEFINE d == [c EXCEPT !.polling = TRUE]
  <2>1. Observe(e, d) /\ gen' = gen
    BY <1>7 DEF Begin, Poll
  <2>2. /\ d \in Clients
        /\ d.tracking = c.tracking
        /\ d.accepted = c.accepted
        /\ d.generation = client.generation
        /\ d.cancelling = client.cancelling
        /\ d.active = client.active
        /\ d.polling = TRUE
        /\ d.reconciling = client.reconciling
        /\ d.releasePending = c.releasePending
        /\ d.uncertain = client.uncertain
        /\ d.suspended = FALSE
        /\ d.cancelOnSubmit = c.cancelOnSubmit
    BY <1>2 DEF Clients, SameCalls
  <2> HIDE DEF d
  <2>3. CursorOK(d)
    BY <1>2, <2>2, MarksKeep
  <2>4. Tracks(d) /\ Begins(client, d)
    BY <1>2, <2>2 DEF Begins, Tracks
  <2>5. Besides(e)
    BY <2>1 DEF Besides
  <2>6. c.cancelOnSubmit /\ offer.cancel => FALSE
    <3>1. /\ c.tracking.evidence.state = "Submitted"
          /\ c.tracking.online
          /\ c.tracking.can_cancel = offer.cancel
          /\ ~c.tracking.evidence.cancel_requested
      BY <1>2, StartType DEF Initial, Receipt
    <3> QED BY <1>7, <3>1 DEF cancel_action
  <2> QED BY <1>1, <1>2, <1>3, <1>5, <2>1, <2>2, <2>3, <2>4, <2>5, <2>6, ObserveStep
<1> QED BY <1>6, <1>7

LEMMA SubmittedKeeps ==
  ASSUME IInv, NEW e \in Evaluations, Submitted(e), UNCHANGED ownerVars
  PROVE  IInv' /\ Advances
<1>1. /\ e \in Tasks /\ e \in Observers
      /\ TaskOK(e) /\ Running(e) /\ pc[e] = "submitting"
      /\ CursorOK(client) /\ client \in Clients
  BY DEF Submitted, Tasks, Observers, IInv, Running, CursorOK
<1>2. PICK answer \in Answers(e) :
        /\ Heard(answer)
        /\ \/ /\ answer.kind = "receipt" /\ Starts(client, answer.receipt)
              /\ Begin(e, Started(client, answer.receipt))
              /\ given' = [given EXCEPT ![e] = answer.receipt.identity]
           \/ /\ answer.kind = "rejected"
              /\ Leave(e, client)
              /\ UNCHANGED <<gen, given>>
           \/ /\ IF answer.kind = "receipt" THEN ~Starts(client, answer.receipt)
                                            ELSE answer = Unheard
              /\ Leave(e, [client EXCEPT !.uncertain = TRUE])
              /\ UNCHANGED <<gen, given>>
  BY DEF Submitted
<1>3. /\ losses' \in {losses, losses + 1} /\ returned' = returned
      /\ losses' = 0 => losses = 0
      /\ answer = Unheard \/ (answer = wire[e] /\ ~Pending(e))
  BY <1>1, <1>2, AnswerCases DEF Submitted
<1>4. CASE answer.kind = "receipt" /\ answer = wire[e]
  <2>1. PICK identity \in Identities : wire[e] = Reported(Initial(identity))
    <3>1. ~Pending(e) /\ wire[e] # Rejected
      BY <1>4, AnswerKinds DEF Pending
    <3> QED BY <1>1, <3>1, SubmitAnswers
  <2>2. /\ answer.receipt = Initial(identity)
        /\ Initial(identity).identity = identity
    BY <1>4, <2>1, AnswerKinds
  <2>3. Starts(client, Initial(identity))
    BY <1>1, <2>1, AcceptedStarts
  <2>4. /\ Begin(e, Started(client, Initial(identity)))
        /\ given' = [given EXCEPT ![e] = identity]
    BY <1>2, <1>4, <2>2, <2>3
  <2> QED BY <1>1, <1>3, <2>1, <2>4, StartedBegins
<1>5. CASE answer.kind = "rejected" /\ answer = wire[e]
  <2>1. Leave(e, client) /\ UNCHANGED <<gen, given>>
    BY <1>2, <1>5, AnswerKinds
  <2>2. ~Pending(e) /\ DOMAIN executions = {}
    <3>1. ~Pending(e)
      BY <1>5 DEF Pending
    <3> QED BY <1>1, <1>5, <3>1, AnswerKinds, SubmitAnswers
  <2>3. Besides(e)
    BY <1>3, <2>1 DEF Besides
  <2>4. ReturnedOK(e)'
    BY <1>1, <1>3, <2>1 DEF TaskOK, ReturnedOK
  <2> QED BY <1>1, <1>3, <2>1, <2>2, <2>3, <2>4, ClientReached, LeaveStep
<1>6. CASE answer = Unheard
  <2> DEFINE c == [client EXCEPT !.uncertain = TRUE]
  <2>1. Leave(e, c) /\ UNCHANGED <<gen, given>>
    BY <1>2, <1>6 DEF Unheard
  <2>2. /\ c \in Clients
        /\ c.tracking = client.tracking
        /\ c.accepted = client.accepted
        /\ c.generation = client.generation
        /\ c.cancelling = client.cancelling
        /\ c.active = client.active
        /\ c.reconciling = client.reconciling
        /\ c.releasePending = client.releasePending
        /\ c.uncertain = TRUE
        /\ c.suspended = client.suspended
    BY <1>1 DEF Clients
  <2> HIDE DEF c
  <2>3. Reaches(e, c)
    BY <1>1, <2>2, MarksKeep DEF Reaches
  <2>4. Besides(e)
    BY <1>3, <2>1 DEF Besides
  <2>5. ReturnedOK(e)'
    BY <1>1, <1>3, <2>1 DEF TaskOK, ReturnedOK
  <2> QED BY <1>1, <2>1, <2>2, <2>3, <2>4, <2>5, LeaveStep
<1>7. ASSUME answer = wire[e], ~Pending(e)
      PROVE  answer.kind = "receipt" \/ answer.kind = "rejected"
  <2>1. CASE wire[e] = Rejected
    BY <1>7, <2>1, AnswerKinds
  <2>2. ASSUME NEW identity \in Identities, wire[e] = Reported(Initial(identity))
        PROVE  answer.kind = "receipt"
    BY <1>7, <2>2, AnswerKinds
  <2> QED BY <1>1, <1>7, <2>1, <2>2, SubmitAnswers
<1> QED BY <1>3, <1>4, <1>5, <1>6, <1>7

-----------------------------------------------------------------------------
(* resume, once the session answered. *)

LEMMA SessionAgrees ==
  ASSUME IInv, Tracks(client)
  PROVE  Reconnectable(client.tracking, offer)
<1>1. Tracked \in Identities /\ client.tracking.can_cancel = offer.cancel
  BY CursorFacts DEF IInv, Tracked, CursorOK
<1>2. Tracked.authority = offer.authority
  BY <1>1 DEF Identities, Identity
<1> QED BY <1>1, <1>2 DEF Reconnectable, Binds, Tracked

LEMMA AuthenticatedKeeps ==
  ASSUME IInv, NEW r \in Resumes, Authenticated(r), UNCHANGED ownerVars
  PROVE  IInv' /\ Advances
<1> DEFINE c == [client EXCEPT !.tracking = reconnect(@), !.suspended = FALSE,
                              !.reauthenticated = Terminal(client)]
<1>1. /\ r \in Tasks /\ r \in Observers /\ r \notin Evaluations
      /\ TaskOK(r) /\ Running(r) /\ pc[r] = "authenticating"
      /\ client \in Clients /\ HostInv /\ CursorOK(client)
  BY ClientAssumption DEF Authenticated, Tasks, Observers, IInv, CursorOK, Running
<1>2. Tracks(client) /\ returned[r] = Nothing
  BY <1>1 DEF TaskOK, PointOK, ReturnedOK
<1>3. PICK answer \in Answers(r) :
        /\ Heard(answer)
        /\ LET same == answer = Session /\ Reconnectable(client.tracking, offer)
           IN \/ /\ ~same
                 /\ Fail(r, client)
                 /\ UNCHANGED returned
              \/ /\ same /\ ~Terminal(c)
                 /\ Poll(r, c)
                 /\ UNCHANGED returned
              \/ /\ same /\ Terminal(c) /\ c.releasePending
                 /\ Ask(r, c, "settling", "release", c.tracking.identity)
                 /\ UNCHANGED returned
              \/ /\ same /\ Terminal(c) /\ ~c.releasePending
                 /\ Leave(r, c)
                 /\ Returns(r)
  BY DEF Authenticated
<1>4. /\ Besides(r) /\ UNCHANGED <<gen, given>>
      /\ losses' = 0 => losses = 0
      /\ (answer = Unheard /\ losses' # 0) \/ answer = Session
      /\ published' = published /\ executions' = executions
  <2>1. losses' \in {losses, losses + 1}
    BY <1>1, <1>3, AnswerCases
  <2>2. answer = wire[r] /\ ~Pending(r) => answer = Session
    BY <1>1, RequestFields DEF TaskOK, AuthenticatingOK, Pending
  <2> QED BY <1>1, <1>3, <2>1, <2>2, AnswerCases
          DEF Authenticated, Besides, Returns, ownerVars
<1>5. /\ c \in Clients
      /\ c.tracking = reconnect(client.tracking)
      /\ c.accepted = client.accepted
      /\ c.suspended = FALSE
      /\ c.releasePending = client.releasePending
      /\ SameCalls(client, c)
  <2>1. reconnect(client.tracking) \in {NoCursor} \cup Cursors
    BY <1>1, <1>2, CursorFacts, CursorTypes
  <2>2. Terminal(client) \in BOOLEAN
    BY DEF Terminal, Tracks
  <2> QED BY <1>1, <2>1, <2>2 DEF Clients, SameCalls
<1> HIDE DEF c
<1>6. /\ CursorOK(c) /\ Keeps(client, c)
      /\ Terminal(c) <=> Terminal(client)
  BY <1>1, <1>2, <1>5, ReconnectedKeeps
<1>7. Reaches(r, c)
  BY <1>1, <1>5, <1>6 DEF Reaches, SameCalls
<1>8. Tracks(c) /\ c.tracking.identity = Tracked
  BY <1>2, <1>6 DEF Keeps, Tracked
<1>9. \A u \in Observers \ {r} : ~Running(u)
  BY <1>1, Alone
<1>10. CASE /\ ~(answer = Session /\ Reconnectable(client.tracking, offer))
            /\ Fail(r, client)
            /\ UNCHANGED returned
  <2>1. Leave(r, disconnected(client))
    BY <1>10 DEF Fail
  <2>2. losses' # 0
    BY <1>2, <1>4, <1>10, SessionAgrees
  <2>3. ReturnedOK(r)'
    BY <1>1, <1>2, <1>10 DEF ReturnedOK
  <2> QED BY <1>1, <1>4, <2>1, <2>2, <2>3, ClientReached, LeaveStep
<1>11. CASE ~Terminal(c) /\ Poll(r, c) /\ UNCHANGED returned
  <2> DEFINE d == [c EXCEPT !.polling = TRUE]
  <2>1. Observe(r, d)
    BY <1>11 DEF Poll
  <2>2. /\ d \in Clients
        /\ d.tracking = c.tracking
        /\ d.accepted = c.accepted
        /\ d.generation = c.generation
        /\ d.cancelling = c.cancelling
        /\ d.active = c.active
        /\ d.polling = TRUE
        /\ d.reconciling = c.reconciling
        /\ d.releasePending = c.releasePending
        /\ d.uncertain = c.uncertain
        /\ d.suspended = FALSE
    BY <1>5 DEF Clients
  <2> HIDE DEF d
  <2>3. CursorOK(d) /\ Keeps(c, d)
    BY <1>5, <1>6, <2>2, MarksKeep
  <2>4. Keeps(client, d)
    <3>1. Terminal(c) /\ ~Terminal(client) => d.releasePending
      BY <1>6
    <3> QED BY <1>1, <1>6, <2>3, <3>1, KeepsTransitive
  <2>5. Tracks(d) /\ d.tracking.identity = Tracked
    BY <1>8, <2>2 DEF Tracks
  <2>6. \A identity \in DOMAIN executions :
           d.tracking.identity = identity \/ d.uncertain
    <3>1. \A e \in Evaluations : pc[e] # "submitting"
      BY <1>1, <1>9 DEF Observers, Running
    <3> QED BY <1>5, <2>2, <2>5, <3>1 DEF IInv, Remembered, SameCalls
  <2> QED BY <1>1, <1>4, <1>5, <1>11, <2>1, <2>2, <2>3, <2>4, <2>5, <2>6, ObserveStep
          DEF SameCalls
<1>12. CASE /\ Terminal(c) /\ c.releasePending
            /\ Ask(r, c, "settling", "release", c.tracking.identity)
            /\ UNCHANGED returned
  <2>1. client' = c /\ Moves(r, "settling", Requested("release", Tracked))
    BY <1>4, <1>8, <1>12 DEF Ask, Moves
  <2>2. /\ Frame(r)
        /\ pc'[r] = "settling"
        /\ wire'[r] = Requested("release", Tracked)
    BY <1>1, <2>1, MovesFrame DEF Points
  <2>3. /\ Terminal(client)' /\ Tracks(client)' /\ Tracked' = Tracked
        /\ Tracked \in Identities /\ Tracked.execution \in Nat
    BY <1>1, <1>2, <1>8, <1>12, <2>1, CursorFacts DEF Terminal, Tracks, Tracked, latest
  <2>4. TaskOK(r)'
    <3>1. gen'[r] <= client'.generation
      BY <1>1, <1>4, <1>5, <2>1 DEF TaskOK, PointOK, SameCalls
    <3>2. ReturnedOK(r)'
      BY <1>1, <1>2, <1>12, <2>2 DEF ReturnedOK
    <3>3. PointOK(r)'
      BY <1>1, <2>2, <3>1 DEF PointOK, Watches
    <3>4. ReleasingOK(r)' /\ PendingOK(r)'
      BY <2>2, <2>3 DEF ReleasingOK, PendingOK
    <3> QED BY <1>1, <2>2, <3>2, <3>3, <3>4
            DEF TaskOK, PreparingOK, Preparing, SubmittingOK, QueryingOK,
                CancellingOK, AuthenticatingOK, GivenOK, KeptOK
  <2>5. ~Preparing(r)' /\ ~Submits(r)'
    BY <1>1, <2>2, OtherRequest DEF Preparing
  <2>6. client'.polling <=> "settling" \in Watches
    <3>1. \A u \in Observers : pc[u] \notin Watches
      BY <1>1, <1>9 DEF Watches, Running
    <3> QED BY <1>5, <2>1, <3>1 DEF SameCalls, IInv, ObserversInv, Watches
  <2>7. StaysConnected'
    BY <2>3 DEF StaysConnected
  <2> QED BY <1>1, <1>7, <2>1, <2>4, <2>5, <2>6, <2>7, AskStep DEF Points
<1>13. CASE Terminal(c) /\ Leave(r, c) /\ Returns(r)
  <2>1. ReturnedOK(r)'
    BY <1>1, <1>4, <1>6, <1>13, ReturnsFacts, LeavesDone
  <2> QED BY <1>1, <1>4, <1>7, <1>13, <2>1, LeaveStep
<1> QED BY <1>3, <1>10, <1>11, <1>12, <1>13

-----------------------------------------------------------------------------
(* cancel. *)

LEMMA CancelStep ==
  ASSUME IInv, NEW t \in Cancels, Frame(t), ByCancel(t), CursorOK(client'),
         client'.active = client.active, client'.polling = client.polling,
         client'.reconciling = client.reconciling,
         TaskOK(t)', Submits(t)' => Submits(t), StaysConnected',
         client'.cancelling # NoTask => pc'[client'.cancelling] = "cancelling"
  PROVE  IInv' /\ Advances
<1>1. t \in Tasks /\ t \notin Evaluations /\ TaskOK(t)
  BY ClientAssumption DEF Tasks, Observers, IInv
<1>2. ObserversInv' /\ OneSubmission'
  BY <1>1, CancelFlags, SubmissionKept
<1>3. pc[t] # "submitting"
  BY <1>1 DEF TaskOK, PointOK
<1>4. Remembered'
  BY <1>1, <1>3, MemoryKept DEF ByCancel
<1> QED BY <1>1, <1>2, <1>4, PageStep

LEMMA CancelLaterKeeps ==
  ASSUME IInv, NEW t \in Cancels, CancelLater(t), UNCHANGED ownerVars
  PROVE  IInv' /\ Advances
<1> DEFINE c == [client EXCEPT !.cancelOnSubmit = TRUE]
<1>1. /\ t \in Tasks /\ t \notin Evaluations /\ t \notin Observers
      /\ TaskOK(t) /\ pc[t] = "idle"
      /\ Tracks(client) => Terminal(client)
      /\ client \in Clients /\ CursorOK(client)
  BY ClientAssumption DEF CancelLater, Tasks, Observers, IInv, CursorOK
<1>2. /\ c \in Clients
      /\ c.tracking = client.tracking
      /\ c.accepted = client.accepted
      /\ c.generation = client.generation
      /\ c.cancelling = client.cancelling
      /\ c.active = client.active
      /\ c.polling = client.polling
      /\ c.reconciling = client.reconciling
      /\ c.releasePending = client.releasePending
      /\ c.uncertain = client.uncertain
      /\ c.suspended = client.suspended
  BY <1>1 DEF Clients
<1>3. client' = c /\ Moves(t, "done", Nothing) /\ gen' = gen
  BY DEF CancelLater, Rest, Moves, Besides
<1> HIDE DEF c
<1>4. /\ Frame(t) /\ pc'[t] = "done" /\ wire'[t] = Nothing
      /\ losses' = 0 => losses = 0
  BY <1>1, <1>3, MovesFrame DEF Points
<1>5. CursorOK(client') /\ Keeps(client, client')
  BY <1>1, <1>2, <1>3, MarksKeep
<1>6. ByCancel(t)
  BY <1>1, <1>2, <1>3, <1>5 DEF ByCancel
<1>7. TaskOK(t)'
  <2>1. gen'[t] <= client'.generation
    BY <1>1, <1>2, <1>3 DEF TaskOK, PointOK
  <2>2. PendingOK(t)'
    BY <1>4 DEF PendingOK, Pending, Nothing
  <2> QED BY <1>1, <1>4, <2>1, <2>2
          DEF TaskOK, PointOK, PreparingOK, Preparing, SubmittingOK, ReleasingOK,
              QueryingOK, CancellingOK, AuthenticatingOK, GivenOK, ReturnedOK, KeptOK,
              Watches
<1>8. ~Submits(t)'
  BY <1>4, OtherRequest
<1>9. StaysConnected'
  BY <1>2, <1>3, <1>4, <1>5, ConnectionKept
<1>10. client'.cancelling # NoTask => pc'[client'.cancelling] = "cancelling"
  BY <1>1, <1>2, <1>3, <1>4, CancellingKept
<1> QED BY <1>2, <1>3, <1>4, <1>5, <1>6, <1>7, <1>8, <1>9, <1>10, CancelStep

LEMMA CancelNowKeeps ==
  ASSUME IInv, NEW t \in Cancels, CancelNow(t), UNCHANGED ownerVars
  PROVE  IInv' /\ Advances
<1> DEFINE c == [client EXCEPT !.cancelling = t]
<1>1. /\ t \in Tasks /\ t \notin Evaluations /\ t \notin Observers
      /\ TaskOK(t) /\ pc[t] = "idle"
      /\ Tracks(client) /\ ~Terminal(client)
      /\ client \in Clients /\ CursorOK(client)
  BY ClientAssumption DEF CancelNow, CanSend, cancel_action, Terminal, latest, Tasks,
     Observers, IInv, CursorOK
<1>2. /\ c \in Clients
      /\ c.tracking = client.tracking
      /\ c.accepted = client.accepted
      /\ c.generation = client.generation
      /\ c.cancelling = t
      /\ c.active = client.active
      /\ c.polling = client.polling
      /\ c.reconciling = client.reconciling
      /\ c.releasePending = client.releasePending
      /\ c.uncertain = client.uncertain
      /\ c.suspended = client.suspended
      /\ c.cancelOnSubmit = client.cancelOnSubmit
  BY <1>1 DEF Clients
<1>3. /\ client' = c
      /\ Moves(t, "cancelling", Requested("cancel", Tracked))
      /\ gen' = [gen EXCEPT ![t] = client.generation]
  BY DEF CancelNow, Ask, Moves, Besides, Tracked
<1> HIDE DEF c
<1>4. /\ Frame(t) /\ pc'[t] = "cancelling"
      /\ wire'[t] = Requested("cancel", Tracked)
      /\ losses' = 0 => losses = 0
  BY <1>1, <1>3, MovesFrame DEF Points
<1>5. gen'[t] = client.generation
  BY <1>1, <1>3 DEF IInv, Fields
<1>6. CursorOK(client') /\ Keeps(client, client')
  BY <1>1, <1>2, <1>3, MarksKeep
<1>7. ByCancel(t)
  BY <1>2, <1>3, <1>6 DEF ByCancel
<1>8. TaskOK(t)'
  <2>1. client.generation \in Nat
    BY <1>1 DEF Clients
  <2>2. PendingOK(t)'
    BY <1>4, RequestFields DEF PendingOK
  <2>3. \A u \in Tasks : ~Preparing(u)
    BY <1>1 DEF IInv, TaskOK, PreparingOK
  <2>4. \A u \in Tasks : ~Preparing(u)'
    BY <1>1, <1>4, <2>3 DEF Preparing, Frame
  <2>5. Tracks(client)' /\ Tracked' = Tracked
    BY <1>1, <1>2, <1>3 DEF Tracks, Tracked
  <2>6. CancellingOK(t)'
    BY <1>1, <1>2, <1>3, <1>4, <1>5, <2>4, <2>5 DEF CancellingOK, Current, Tells
  <2>7. PointOK(t)'
    BY <1>2, <1>3, <1>4, <1>5, <2>1 DEF PointOK, Watches
  <2> QED BY <1>1, <1>4, <2>2, <2>6, <2>7
          DEF TaskOK, PreparingOK, Preparing, SubmittingOK, ReleasingOK,
              QueryingOK, AuthenticatingOK, GivenOK, ReturnedOK, KeptOK
<1>9. ~Submits(t)'
  BY <1>4, OtherRequest
<1>10. StaysConnected'
  BY <1>2, <1>3, <1>4, <1>6, ConnectionKept
<1> QED BY <1>2, <1>3, <1>4, <1>6, <1>7, <1>8, <1>9, <1>10, CancelStep

LEMMA ForgetsFacts ==
  ASSUME NEW t \in Tasks, NEW c, CursorOK(c)
  PROVE  LET d == Forgets(t, c)
         IN /\ CursorOK(d)
            /\ Keeps(c, d)
            /\ d.tracking = c.tracking
            /\ d.releasePending = c.releasePending
            /\ d.suspended = c.suspended
            /\ d.generation = c.generation
            /\ d.cancelling \in {c.cancelling, NoTask} \ {t}
            /\ d.active = c.active
            /\ d.polling = c.polling
            /\ d.reconciling = c.reconciling
            /\ d.uncertain = c.uncertain
            /\ d.cancelOnSubmit = c.cancelOnSubmit
<1> DEFINE d == Forgets(t, c)
           other == IF c.cancelling = t THEN NoTask ELSE c.cancelling
<1>1. c \in Clients
  BY DEF CursorOK
<1>2. /\ other \in {c.cancelling, NoTask} \ {t}
      /\ other \in Tasks \cup {NoTask}
  BY <1>1, ClientAssumption DEF Clients
<1>3. d = [c EXCEPT !.cancelling = other]
  BY DEF Forgets
<1> HIDE DEF d, other
<1>4. /\ d \in Clients
      /\ d.tracking = c.tracking
      /\ d.accepted = c.accepted
      /\ d.releasePending = c.releasePending
      /\ d.suspended = c.suspended
      /\ d.generation = c.generation
      /\ d.cancelling = other
      /\ d.active = c.active
      /\ d.polling = c.polling
      /\ d.reconciling = c.reconciling
      /\ d.uncertain = c.uncertain
      /\ d.cancelOnSubmit = c.cancelOnSubmit
  BY <1>1, <1>2, <1>3 DEF Clients
<1>5. CursorOK(d) /\ Keeps(c, d)
  BY <1>4, MarksKeep
<1> QED BY <1>2, <1>4, <1>5 DEF d

(* The answer to a cancellation of the current generation tells of the     *)
(* tracked execution that it is cancelled or over, unless it was lost.     *)
LEMMA CancelAnswers ==
  ASSUME IInv, NEW t \in Tasks, pc[t] = "cancelling", Current(t),
         NEW answer \in Answers(t), Heard(answer)
  PROVE  /\ Tracks(client)
         /\ Admitted(client, answer) =>
              \E receipt \in published :
                /\ answer.receipt = receipt
                /\ receipt.identity = Tracked
                /\ receipt.cancel_requested \/ receipt.state = "Terminal"
                /\ client.tracking.online
         /\ losses' = 0 =>
              Admitted(client, answer) \/ client.suspended \/ Terminal(client)
<1>1. TaskOK(t) /\ HostInv /\ CursorOK(client)
  BY DEF IInv
<1>2. Tracks(client) /\ Tells(t, "cancel")
  BY <1>1 DEF TaskOK, CancellingOK
<1>3. \/ answer = Unheard /\ losses' # 0
      \/ answer = wire[t] /\ ~Pending(t)
  BY AnswerCases
<1>4. wire[t] # Requested("cancel", Tracked) \/ Pending(t)
  BY RequestFields DEF Pending
<1>5. \/ answer = Unheard /\ losses' # 0
      \/ \E receipt \in published :
           /\ answer = Reported(receipt)
           /\ receipt.identity = Tracked
           /\ receipt.cancel_requested \/ receipt.state = "Terminal"
      \/ answer = Absent /\ Terminal(client)
  BY <1>2, <1>3, <1>4 DEF Tells
<1>6. CASE \E receipt \in published :
             /\ answer = Reported(receipt)
             /\ receipt.identity = Tracked
             /\ receipt.cancel_requested \/ receipt.state = "Terminal"
  <2>1. PICK receipt \in published :
          /\ answer = Reported(receipt)
          /\ receipt.identity = Tracked
          /\ receipt.cancel_requested \/ receipt.state = "Terminal"
    BY <1>6
  <2>2. answer.kind = "receipt" /\ answer.receipt = receipt
    BY <2>1, AnswerKinds
  <2>3. Admitted(client, answer) => client.tracking.online
    BY <2>2 DEF Admitted, Observes, Disposition, Admits
  <2>4. Admitted(client, answer) \/ client.suspended
    <3>1. ASSUME ~client.suspended
          PROVE  Observes(client.tracking, receipt)
      BY <1>1, <1>2, <2>1, <3>1, ReceiptAdmitted DEF CursorOK, Tracked
    <3> QED BY <2>2, <3>1 DEF Admitted
  <2> QED BY <1>2, <2>1, <2>2, <2>3, <2>4
<1>7. CASE answer = Unheard /\ losses' # 0
  BY <1>2, <1>7 DEF Admitted, Unheard
<1>8. CASE answer = Absent /\ Terminal(client)
  BY <1>2, <1>8 DEF Admitted, Absent
<1> QED BY <1>5, <1>6, <1>7, <1>8

(* The client that a late, a heard or a lost answer leads to. *)
Answered(t, answer) ==
  IF ~Current(t) THEN client
  ELSE IF Admitted(client, answer) THEN Observed(client, answer.receipt)
  ELSE disconnected(client)

LEMMA AnsweredFacts ==
  ASSUME IInv, NEW t \in Tasks, pc[t] = "cancelling",
         NEW answer \in Answers(t), Heard(answer)
  PROVE  LET c == Answered(t, answer)
         IN /\ CursorOK(c)
            /\ Keeps(client, c)
            /\ SameCalls(client, c)
            /\ Terminal(client) \/ ~Tracks(client) =>
                 c.releasePending = client.releasePending
            /\ losses' = 0 /\ c.suspended => client.suspended \/ Terminal(c)
            /\ Current(t) /\ Admitted(client, answer) =>
                 /\ c.suspended = client.suspended
                 /\ Terminal(c) \/ latest(c.tracking).cancel_requested
<1> DEFINE c == Answered(t, answer)
<1>1. HostInv /\ CursorOK(client)
  BY DEF IInv
<1>2. CASE ~Current(t)
  <2>1. c = client
    BY <1>2 DEF Answered
  <2> QED BY <1>1, <1>2, <2>1, KeepsReflexive DEF SameCalls
<1>3. CASE Current(t) /\ Admitted(client, answer)
  <2>1. PICK receipt \in published :
          /\ answer.receipt = receipt
          /\ receipt.identity = Tracked
          /\ receipt.cancel_requested \/ receipt.state = "Terminal"
          /\ client.tracking.online
    BY <1>3, CancelAnswers
  <2>2. Tracks(client)
    BY <1>3, CancelAnswers
  <2>3. c = Observed(client, receipt)
    BY <1>3, <2>1 DEF Answered
  <2>4. /\ CursorOK(c)
        /\ Keeps(client, c)
        /\ SameCalls(client, c)
        /\ c.suspended = client.suspended
        /\ Terminal(client) => c.releasePending = client.releasePending
        /\ c.tracking = observe(client.tracking, receipt)
    BY <1>1, <2>1, <2>2, <2>3, ObservedKeeps DEF Tracked
  <2>5. \/ c.tracking.evidence.cancel_requested
        \/ c.tracking.evidence.state = "Terminal"
    BY <1>1, <2>1, <2>2, <2>4, ReceiptAdmitted DEF Tracked
  <2> HIDE DEF c
  <2>6. Terminal(c) \/ latest(c.tracking).cancel_requested
    BY <2>2, <2>4, <2>5 DEF Terminal, latest, Keeps
  <2> QED BY <1>3, <2>2, <2>4, <2>6 DEF c
<1>4. CASE Current(t) /\ ~Admitted(client, answer)
  <2>1. c = disconnected(client)
    BY <1>4 DEF Answered
  <2>2. losses' = 0 => client.suspended \/ Terminal(client)
    BY <1>4, CancelAnswers
  <2> QED BY <1>1, <1>4, <2>1, <2>2, DisconnectedKeeps
<1> QED BY <1>2, <1>3, <1>4

LEMMA ExecuteCancelledKeeps ==
  ASSUME IInv, NEW t \in Evaluations, Cancelled(t), UNCHANGED ownerVars
  PROVE  IInv' /\ Advances
<1>1. /\ t \in Tasks /\ t \in Observers
      /\ pc[t] = "cancelling" /\ Running(t)
      /\ TaskOK(t)
      /\ HostInv /\ CursorOK(client)
  BY DEF Cancelled, Tasks, Observers, Running, IInv
<1>2. /\ Current(t)
      /\ Tracks(client)
      /\ \A u \in Tasks : ~Preparing(u)
      /\ given[t] = Tracked
      /\ returned[t] = Nothing
  BY <1>1 DEF TaskOK, CancellingOK, GivenOK, ReturnedOK
<1>3. PICK answer \in Answers(t) :
        /\ Heard(answer)
        /\ IF Admitted(client, answer)
           THEN Poll(t, Forgets(t, Answered(t, answer)))
           ELSE Leave(t, Forgets(t, Answered(t, answer)))
  <2>1. PICK answer \in Answers(t) :
          /\ Heard(answer)
          /\ LET heard == Current(t) => Admitted(client, answer)
                 c == IF ~Current(t) THEN client
                      ELSE IF heard THEN Observed(client, answer.receipt)
                      ELSE disconnected(client)
             IN IF heard /\ t \in Evaluations
                THEN Poll(t, Forgets(t, c))
                ELSE Leave(t, Forgets(t, c))
    BY DEF Cancelled
  <2>2. Admitted(client, answer) =>
          Answered(t, answer) = Observed(client, answer.receipt)
    BY <1>2 DEF Answered
  <2>3. ~Admitted(client, answer) => Answered(t, answer) = disconnected(client)
    BY <1>2 DEF Answered
  <2> QED BY <1>2, <2>1, <2>2, <2>3
<1>4. /\ Besides(t) /\ returned' = returned /\ given' = given
      /\ losses' = 0 => losses = 0
  BY <1>1, <1>3, AnswerCases DEF Cancelled, Besides
<1> DEFINE a == Answered(t, answer)
           c == Forgets(t, a)
<1>5. /\ CursorOK(a)
      /\ Keeps(client, a)
      /\ SameCalls(client, a)
      /\ losses' = 0 /\ a.suspended => client.suspended \/ Terminal(a)
      /\ Admitted(client, answer) =>
           /\ a.suspended = client.suspended
           /\ Terminal(a) \/ latest(a.tracking).cancel_requested
  BY <1>1, <1>2, <1>3, AnsweredFacts
<1>6. /\ CursorOK(c)
      /\ Keeps(a, c)
      /\ c.tracking = a.tracking
      /\ c.releasePending = a.releasePending
      /\ c.suspended = a.suspended
      /\ c.generation = a.generation
      /\ c.cancelling \in {a.cancelling, NoTask} \ {t}
      /\ c.active = a.active
      /\ c.reconciling = a.reconciling
      /\ c.uncertain = a.uncertain
      /\ c.cancelOnSubmit = a.cancelOnSubmit
  <2> HIDE DEF a
  <2> QED BY <1>1, <1>5, ForgetsFacts
<1>7. Poll(t, c) \/ Leave(t, c)
  BY <1>3
<1>8. /\ Admitted(client, answer) => Poll(t, c)
      /\ ~Admitted(client, answer) => Leave(t, c)
  BY <1>3
<1> HIDE DEF a, c
<1>9. Terminal(c) <=> Terminal(a)
  BY <1>6 DEF Terminal, Tracks
<1>10. Keeps(client, c)
  BY <1>1, <1>5, <1>6, <1>9, KeepsTransitive DEF Keeps
<1>11. Reaches(t, c)
  BY <1>5, <1>6, <1>10 DEF Reaches, SameCalls
<1>12. losses' = 0 /\ c.suspended => client.suspended \/ Terminal(c)
  BY <1>5, <1>6, <1>9
<1>13. CASE Admitted(client, answer)
  <2> DEFINE d == [c EXCEPT !.polling = TRUE]
  <2>1. Observe(t, d)
    BY <1>8, <1>13 DEF Poll
  <2>2. c \in Clients
    BY <1>6 DEF CursorOK
  <2>3. /\ d \in Clients
        /\ d.tracking = c.tracking
        /\ d.accepted = c.accepted
        /\ d.releasePending = c.releasePending
        /\ d.suspended = c.suspended
        /\ d.generation = c.generation
        /\ d.cancelling = c.cancelling
        /\ d.active = c.active
        /\ d.polling = TRUE
        /\ d.reconciling = c.reconciling
        /\ d.uncertain = c.uncertain
        /\ d.cancelOnSubmit = c.cancelOnSubmit
    BY <2>2 DEF Clients
  <2> HIDE DEF d
  <2>4. CursorOK(d) /\ Keeps(c, d)
    BY <1>6, <2>3, MarksKeep
  <2>5. Terminal(d) <=> Terminal(c)
    BY <2>3 DEF Terminal, Tracks
  <2>6. Keeps(client, d)
    BY <1>1, <1>6, <1>10, <2>3, <2>4, <2>5, KeepsTransitive DEF Keeps
  <2>7. Tracks(d) /\ d.tracking.identity = Tracked
    BY <1>2, <2>6 DEF Keeps, Tracked
  <2>8. \A identity \in DOMAIN executions :
          d.tracking.identity = identity \/ d.uncertain
    BY <1>2, <1>5, <1>6, <2>3, <2>7
       DEF SameCalls, IInv, Remembered, Preparing, Tasks, Observers
  <2>9. Terminal(d) \/ latest(d.tracking).cancel_requested
    BY <1>5, <1>6, <1>9, <1>13, <2>3, <2>5
  <2>10. losses' = 0 /\ d.suspended => Terminal(d)
    <3>1. client.suspended /\ losses' = 0 => Terminal(client)
      BY <1>4 DEF IInv, StaysConnected
    <3> QED BY <1>10, <1>12, <2>3, <2>5, <3>1 DEF Keeps
  <2>11. /\ d.generation = client.generation
         /\ d.active = client.active
         /\ d.reconciling = client.reconciling
         /\ client.uncertain => d.uncertain
         /\ d.cancelling \in {client.cancelling, NoTask} \ {t}
    BY <1>5, <1>6, <2>3 DEF SameCalls
  <2>12. given'[t] = d.tracking.identity
    BY <1>2, <1>4, <2>7
  <2> QED BY <1>1, <1>4, <2>1, <2>3, <2>4, <2>6, <2>7, <2>8, <2>9, <2>10, <2>11, <2>12,
             ObserveStep
<1>14. CASE ~Admitted(client, answer)
  <2>1. Leave(t, c)
    BY <1>8, <1>14
  <2>2. ReturnedOK(t)'
    BY <1>2, <1>4 DEF ReturnedOK
  <2> QED BY <1>1, <1>4, <1>11, <1>12, <2>1, <2>2, LeaveStep
<1> QED BY <1>13, <1>14

LEMMA CancelledKeeps ==
  ASSUME IInv, NEW t \in Cancels, Cancelled(t), UNCHANGED ownerVars
  PROVE  IInv' /\ Advances
<1>1. /\ t \in Tasks /\ t \notin Evaluations /\ t \notin Observers
      /\ pc[t] = "cancelling"
      /\ TaskOK(t)
      /\ HostInv /\ CursorOK(client)
      /\ t \notin Resumes
  BY ClientAssumption DEF Cancelled, Tasks, Observers, IInv
<1>2. PICK answer \in Answers(t) :
        /\ Heard(answer)
        /\ Leave(t, Forgets(t, Answered(t, answer)))
  <2>1. PICK answer \in Answers(t) :
          /\ Heard(answer)
          /\ LET heard == Current(t) => Admitted(client, answer)
                 c == IF ~Current(t) THEN client
                      ELSE IF heard THEN Observed(client, answer.receipt)
                      ELSE disconnected(client)
             IN IF heard /\ t \in Evaluations
                THEN Poll(t, Forgets(t, c))
                ELSE Leave(t, Forgets(t, c))
    BY DEF Cancelled
  <2>2. Current(t) /\ Admitted(client, answer) =>
          Answered(t, answer) = Observed(client, answer.receipt)
    BY DEF Answered
  <2>3. Current(t) /\ ~Admitted(client, answer) =>
          Answered(t, answer) = disconnected(client)
    BY DEF Answered
  <2>4. ~Current(t) => Answered(t, answer) = client
    BY DEF Answered
  <2> QED BY <1>1, <2>1, <2>2, <2>3, <2>4
<1> DEFINE a == Answered(t, answer)
           c == Forgets(t, a)
<1>3. /\ CursorOK(a)
      /\ Keeps(client, a)
      /\ SameCalls(client, a)
      /\ Terminal(client) \/ ~Tracks(client) => a.releasePending = client.releasePending
      /\ losses' = 0 /\ a.suspended => client.suspended \/ Terminal(a)
  BY <1>1, <1>2, AnsweredFacts
<1>4. /\ CursorOK(c)
      /\ Keeps(a, c)
      /\ c.tracking = a.tracking
      /\ c.releasePending = a.releasePending
      /\ c.suspended = a.suspended
      /\ c.generation = a.generation
      /\ c.cancelling \in {a.cancelling, NoTask} \ {t}
      /\ c.active = a.active
      /\ c.polling = a.polling
      /\ c.reconciling = a.reconciling
      /\ c.uncertain = a.uncertain
      /\ c.cancelOnSubmit = a.cancelOnSubmit
  <2> HIDE DEF a
  <2> QED BY <1>1, <1>3, ForgetsFacts
<1>5. Leave(t, c)
  BY <1>2
<1> HIDE DEF a, c
<1>6. client' = c /\ Moves(t, "done", IF Pending(t) THEN wire[t] ELSE Nothing)
  BY <1>1, <1>2, <1>5, AnswerCases DEF Leave, Moves, Besides, Cancelled
<1>7. /\ Frame(t) /\ pc'[t] = "done"
      /\ wire'[t] = IF Pending(t) THEN wire[t] ELSE Nothing
      /\ gen'[t] \in {gen[t], client.generation}
      /\ losses' = 0 => losses = 0
  BY <1>1, <1>6, MovesFrame DEF Points
<1>8. Terminal(c) <=> Terminal(a)
  BY <1>4 DEF Terminal, Tracks
<1>9. Keeps(client, c)
  BY <1>1, <1>3, <1>4, <1>8, KeepsTransitive DEF Keeps
<1>10. /\ c.generation = client.generation
       /\ c.uncertain = client.uncertain
       /\ c.cancelOnSubmit = client.cancelOnSubmit
       /\ c.active = client.active
       /\ c.polling = client.polling
       /\ c.reconciling = client.reconciling
       /\ c.cancelling \in {client.cancelling, NoTask} \ {t}
  BY <1>3, <1>4 DEF SameCalls
<1>11. ByCancel(t)
  BY <1>3, <1>4, <1>6, <1>9, <1>10 DEF ByCancel
<1>12. PendingOK(t)' /\ (Submits(t)' => Submits(t))
  BY <1>1, <1>6, <1>7, <1>9, <1>10, LeftPending
<1>13. TaskOK(t)'
  <2>1. gen'[t] <= client'.generation
    BY <1>1, <1>6, <1>7, <1>10 DEF TaskOK, PointOK, CursorOK, Clients
  <2> QED BY <1>1, <1>7, <1>12, <2>1
          DEF TaskOK, PointOK, PreparingOK, Preparing, SubmittingOK, ReleasingOK,
              QueryingOK, CancellingOK, AuthenticatingOK, GivenOK, ReturnedOK, KeptOK,
              Watches
<1>14. StaysConnected'
  <2>1. client.suspended /\ losses = 0 => Terminal(client)
    BY DEF IInv, StaysConnected
  <2>2. losses' = 0 /\ c.suspended => Terminal(c)
    BY <1>3, <1>4, <1>7, <1>8, <1>9, <2>1 DEF Keeps
  <2> QED BY <1>6, <2>2 DEF StaysConnected, Terminal, Tracks, latest
<1>15. client'.cancelling # NoTask => pc'[client'.cancelling] = "cancelling"
  BY <1>1, <1>6, <1>7, <1>10, CancellingKept
<1> QED BY <1>1, <1>4, <1>6, <1>7, <1>10, <1>11, <1>12, <1>13, <1>14, <1>15, CancelStep

(* Every step of the page. *)
LEMMA PageKeeps ==
  ASSUME IInv, NEW t \in Tasks, Page(t)
  PROVE  IInv' /\ Advances
<1>1. UNCHANGED ownerVars
  BY DEF Page
<1>2. CASE Starting(t)
  BY <1>1, <1>2, ExecuteKeeps, CancelLaterKeeps, CancelNowKeeps, ResumeKeeps DEF Starting
<1>3. CASE Continue(t)
  BY <1>1, <1>3, ReleaseFirstKeeps, SubmittedKeeps, AuthenticatedKeeps, SettleKeeps,
     PausedKeeps, QueriedKeeps, FinishKeeps, ExecuteCancelledKeeps, CancelledKeeps
     DEF Continue
<1> QED BY <1>2, <1>3 DEF Page

-----------------------------------------------------------------------------
(* The steps of the host, as the tasks see them. *)

HostFrame ==
  /\ UNCHANGED <<client, pc, gen, losses, given, returned>>
  /\ HostInv'
  /\ HostKeeps

Held == DOMAIN executions' = DOMAIN executions

(* The request of t is admitted. *)
Added(t) ==
  /\ Submits(t) /\ Pending(t)
  /\ DOMAIN executions = {}
  /\ DOMAIN executions' = {Identity(next)}
  /\ Identity(next).execution = next

(* An execution that the page is done with is released. *)
Dropped ==
  /\ Tracks(client)
  /\ \E identity \in Identities :
       /\ DOMAIN executions' = DOMAIN executions \ {identity}
       /\ identity.execution <= Tracked.execution
       /\ identity = Tracked => Terminal(client)

LEMMA HostCursor ==
  ASSUME IInv, HostFrame, Held \/ Dropped \/ \E t \in Tasks : Added(t)
  PROVE  CursorOK(client)'
<1>1. client' = client /\ next <= next' /\ published \subseteq published'
  BY DEF HostFrame, HostKeeps
<1>2. CursorOK(client) /\ next \in Nat /\ next' \in Nat
  <2>1. CursorOK(client) /\ next \in Nat
    BY NextIsNat DEF IInv, HostInv, OwnerInv
  <2>2. next' \in 1..LastNext
    BY DEF HostFrame, HostInv, OwnerInv, OwnerTypeOK
  <2> QED BY <2>1, <2>2, OwnerAssumption
<1>3. ASSUME Tracks(client)
      PROVE  Terminal(client) \/ Tracked \in DOMAIN executions'
  <2>1. Terminal(client) \/ Tracked \in DOMAIN executions
    BY <1>2, <1>3 DEF CursorOK, Tracked
  <2> QED BY <2>1 DEF Held, Added, Dropped
<1>4. Tracks(client) => client.tracking.identity.execution < next'
  BY <1>1, <1>2, CursorFacts DEF CursorOK, IInv
<1> QED BY <1>1, <1>2, <1>3, <1>4 DEF CursorOK, Tracks, Terminal, latest, Tracked

(* Only one request to submit may be under way, and no task prepares       *)
(* another one then.                                                       *)
LEMMA SubmitterAlone ==
  ASSUME IInv, NEW t \in Tasks, Added(t), NEW u \in Tasks \ {t}
  PROVE  ~Submits(u) /\ pc[u] # "submitting"
<1>1. ~Submits(u)
  BY DEF IInv, OneSubmission, Added
<1>2. PendingOK(t) /\ TaskOK(u)
  BY DEF IInv, TaskOK
<1>3. t \in Evaluations /\ (pc[t] = "submitting" \/ client.uncertain)
  <2>1. PICK work \in Works : wire[t] = Requested("submit", work)
    BY DEF Added, Submits
  <2>2. wire[t].path = "submit"
    BY <2>1, RequestFields
  <2>3. \A identity : wire[t] # Requested("release", identity)
    BY <2>2, RequestFields
  <2> QED BY <1>2, <2>2, <2>3 DEF PendingOK, Added
<1>4. SUFFICES ASSUME pc[u] = "submitting"
               PROVE  FALSE
  BY <1>1
<1>5. u \in Evaluations /\ Preparing(u) /\ ~client.uncertain
  BY <1>2, <1>4 DEF TaskOK, PointOK, PreparingOK, Preparing
<1>6. pc[t] = "submitting"
  BY <1>3, <1>5
<1> QED BY <1>3, <1>4, <1>5, <1>6 DEF IInv, ObserversInv, Running, Observers

LEMMA HostOthers ==
  ASSUME IInv, HostFrame, NEW t \in Tasks, Held \/ Added(t) \/ Dropped,
         NEW u \in Tasks, wire'[u] = wire[u], Added(t) => t # u
  PROVE  TaskOK(u)'
<1>1. /\ client' = client /\ pc' = pc /\ gen' = gen
      /\ given' = given /\ returned' = returned
      /\ published \subseteq published'
  BY DEF HostFrame, HostKeeps
<1>2. TaskOK(u) /\ CursorOK(client) /\ HostInv
  BY DEF IInv
<1>3. /\ Tracks(client)' <=> Tracks(client)
      /\ Terminal(client)' <=> Terminal(client)
      /\ Tracked' = Tracked
  BY <1>1 DEF Tracks, Terminal, latest, Tracked
<1>4. PointOK(u)' /\ PreparingOK(u)' /\ AuthenticatingOK(u)' /\ GivenOK(u)'
  BY <1>1, <1>2, <1>3
     DEF TaskOK, PointOK, PreparingOK, Preparing, Room, AuthenticatingOK, GivenOK
<1>5. ReturnedOK(u)' /\ KeptOK(u)'
  BY <1>1, <1>2, <1>3 DEF TaskOK, ReturnedOK, KeptOK, latest
<1>6. SubmittingOK(u)'
  <2>1. SUFFICES ASSUME pc[u] = "submitting"
                 PROVE  SubmittingOK(u)'
    BY <1>1 DEF SubmittingOK
  <2>2. ~Added(t)
    BY <2>1, SubmitterAlone
  <2>3. ~client'.releasePending
    BY <1>1, <1>2, <2>1 DEF TaskOK, SubmittingOK
  <2>4. CASE \E work \in Works : wire[u] = Requested("submit", work)
    BY <2>3, <2>4 DEF SubmittingOK
  <2>5. CASE wire[u] = Rejected /\ DOMAIN executions = {}
    <3>1. DOMAIN executions' = {}
      BY <2>2, <2>5 DEF Held, Dropped
    <3> QED BY <2>3, <2>5, <3>1 DEF SubmittingOK
  <2>6. ASSUME NEW identity \in Identities,
               wire[u] = Reported(Initial(identity)),
               DOMAIN executions = {identity},
               Initial(identity) \in published,
               Tracks(client) => Tracked.execution < identity.execution
        PROVE  SubmittingOK(u)'
    <3>1. DOMAIN executions' = {identity}
      <4>1. CASE Held
        BY <2>6, <4>1 DEF Held
      <4>2. CASE Dropped
        <5>1. PICK i \in Identities :
                /\ DOMAIN executions' = DOMAIN executions \ {i}
                /\ i.execution <= Tracked.execution
          BY <4>2 DEF Dropped
        <5>2. /\ i.execution \in Nat
              /\ identity.execution \in Nat
              /\ Tracked.execution \in Nat
              /\ Tracked.execution < identity.execution
          BY <1>2, <2>6, <4>2, CursorFacts, IdentityNumber DEF Dropped, Tracked
        <5>3. i # identity
          BY <5>1, <5>2
        <5> QED BY <2>6, <5>1, <5>3
      <4> QED BY <2>2, <4>1, <4>2
    <3> QED BY <1>1, <1>3, <2>3, <2>6, <3>1 DEF SubmittingOK
  <2> QED BY <1>2, <2>1, <2>4, <2>5, <2>6 DEF TaskOK, SubmittingOK
<1>7. ReleasingOK(u)'
  <2>1. SUFFICES ASSUME pc[u] \in {"releasing", "freeing", "settling"}
                 PROVE  ReleasingOK(u)'
    BY <1>1 DEF ReleasingOK
  <2>2. Terminal(client) /\ Tracked.execution < next
    BY <1>2, <2>1 DEF TaskOK, ReleasingOK, CursorOK, Terminal, Tracked
  <2>3. Tracked \notin DOMAIN executions => Tracked \notin DOMAIN executions'
    <3>1. next \in Nat
      BY <1>2, NextIsNat DEF HostInv, OwnerInv
    <3>2. Added(t) => Tracked # Identity(next)
      BY <2>2, <3>1 DEF Added
    <3> QED BY <3>2 DEF Held, Added, Dropped
  <2> QED BY <1>2, <1>3, <2>1, <2>2, <2>3 DEF TaskOK, ReleasingOK
<1>8. ASSUME NEW path, Tells(u, path)
      PROVE  Tells(u, path)'
  BY <1>1, <1>3, <1>8 DEF Tells
<1>9. QueryingOK(u)'
  BY <1>1, <1>2, <1>8 DEF TaskOK, QueryingOK
<1>10. CancellingOK(u)'
  <2>1. \A e \in Tasks : Preparing(e)' <=> Preparing(e)
    BY <1>1 DEF Preparing
  <2>2. Current(u)' <=> Current(u)
    BY <1>1 DEF Current
  <2>3. Tells(u, "cancel") => Tells(u, "cancel")'
    BY <1>8
  <2> QED BY <1>1, <1>2, <1>3, <2>1, <2>2, <2>3 DEF TaskOK, CancellingOK
<1>11. PendingOK(u)'
  <2>1. SUFFICES ASSUME Pending(u)
                 PROVE  PendingOK(u)'
    BY DEF PendingOK, Pending
  <2>2. CASE /\ Submits(u)
             /\ u \in Evaluations
             /\ pc[u] = "submitting" \/ (pc[u] = "done" /\ client.uncertain)
             /\ DOMAIN executions = {}
    <3>1. ~Added(t)
      BY <2>2, SubmitterAlone
    <3>2. DOMAIN executions' = {}
      BY <2>2, <3>1 DEF Held, Dropped
    <3>3. Submits(u)'
      BY <2>2 DEF Submits
    <3> QED BY <1>1, <2>2, <3>2, <3>3 DEF PendingOK
  <2>3. CASE \E identity \in Identities :
               /\ wire[u] = Requested("release", identity)
               /\ Tracks(client)
               /\ identity.execution <= Tracked.execution
               /\ identity = Tracked => Terminal(client)
    BY <1>3, <2>3 DEF PendingOK
  <2>4. CASE wire[u].path \in {"query", "cancel", "session"}
    BY <2>4 DEF PendingOK
  <2> QED BY <1>2, <2>1, <2>2, <2>3, <2>4 DEF TaskOK, PendingOK
<1> QED BY <1>4, <1>5, <1>6, <1>7, <1>9, <1>10, <1>11 DEF TaskOK

LEMMA HostRemembers ==
  ASSUME IInv, HostFrame, Held \/ Dropped \/ \E t \in Tasks : Added(t)
  PROVE  Remembered'
<1>1. client' = client /\ pc' = pc
  BY DEF HostFrame
<1>2. SUFFICES ASSUME NEW identity \in DOMAIN executions'
               PROVE  \/ /\ Tracks(client) /\ Tracked = identity
                         /\ Terminal(client) => client.releasePending
                      \/ client.uncertain
                      \/ \E e \in Evaluations : pc[e] = "submitting"
  BY <1>1 DEF Remembered, Tracks, Terminal, latest, Tracked
<1>3. CASE Held \/ Dropped
  BY <1>2, <1>3 DEF Held, Dropped, IInv, Remembered
<1>4. ASSUME NEW t \in Tasks, Added(t)
      PROVE  client.uncertain \/ \E e \in Evaluations : pc[e] = "submitting"
  <2>1. PICK work \in Works : wire[t] = Requested("submit", work)
    BY <1>4 DEF Added, Submits
  <2>2. wire[t].path = "submit" /\ \A i : wire[t] # Requested("release", i)
    BY <2>1, RequestFields
  <2>3. t \in Evaluations /\ (pc[t] = "submitting" \/ client.uncertain)
    BY <1>4, <2>2 DEF Added, IInv, TaskOK, PendingOK
  <2> QED BY <2>3
<1> QED BY <1>3, <1>4

(* The host answers t, with what t may be resumed with at its point. *)
LEMMA HostAnswers ==
  ASSUME IInv, HostFrame, NEW t \in Tasks, Pending(t), Held \/ Added(t) \/ Dropped,
         NEW answer, answer.kind # "request", Reply(t, answer),
         Submits(t) =>
           \/ answer = Rejected /\ DOMAIN executions' = {}
           \/ \E identity \in Identities :
                /\ answer = Reported(Initial(identity))
                /\ DOMAIN executions' = {identity}
                /\ Initial(identity) \in published'
                /\ Tracks(client) => Tracked.execution < identity.execution,
         wire[t] = Requested("release", Tracked) =>
           \/ answer = Rejected
           \/ answer \in {Released, Absent} /\ Tracked \notin DOMAIN executions',
         \A path \in {"query", "cancel"} :
           Tracks(client) /\ wire[t] = Requested(path, Tracked) =>
             \/ \E receipt \in published' :
                  /\ answer = Reported(receipt)
                  /\ receipt.identity = Tracked
                  /\ path = "cancel" =>
                       receipt.cancel_requested \/ receipt.state = "Terminal"
             \/ answer = Absent /\ Terminal(client),
         wire[t] = Requested("session", Nothing) => answer = Session
  PROVE  IInv'
<1>1. /\ client' = client /\ pc' = pc /\ gen' = gen /\ losses' = losses
      /\ given' = given /\ returned' = returned
      /\ published \subseteq published' /\ HostInv'
  BY DEF HostFrame, HostKeeps
<1>2. TaskOK(t) /\ CursorOK(client) /\ Fields
  BY DEF IInv
<1>3. /\ Tracks(client)' <=> Tracks(client)
      /\ Terminal(client)' <=> Terminal(client)
      /\ Tracked' = Tracked
  BY <1>1 DEF Tracks, Terminal, latest, Tracked
<1>4. /\ wire' = [u \in Tasks |-> wire'[u]]
      /\ wire'[t] = answer
      /\ \A u \in Tasks \ {t} : wire'[u] = wire[u]
  <2>1. wire = [u \in Tasks |-> wire[u]]
    BY <1>2 DEF Fields
  <2>2. wire' = [wire EXCEPT ![t] = answer]
    BY DEF Reply
  <2> QED BY <2>1, <2>2
<1>5. ~Pending(t)' /\ ~Submits(t)'
  BY <1>4, RequestFields DEF Pending, Submits
<1>6. wire[t].kind = "request"
  BY DEF Pending
<1>7. PointOK(t)' /\ PreparingOK(t)' /\ GivenOK(t)' /\ PendingOK(t)'
  <2>1. pc[t] \notin {"idle", "pausing"}
    BY <1>2, <1>6 DEF TaskOK, PointOK, Nothing
  <2> QED BY <1>1, <1>2, <1>3, <1>5, <2>1
          DEF TaskOK, PointOK, PreparingOK, Preparing, Room, GivenOK, PendingOK
<1>8. ReturnedOK(t)' /\ KeptOK(t)'
  BY <1>1, <1>2, <1>3 DEF TaskOK, ReturnedOK, KeptOK, latest
<1>9. AuthenticatingOK(t)'
  BY <1>1, <1>2, <1>4, <1>6 DEF TaskOK, AuthenticatingOK, Session
<1>10. SubmittingOK(t)'
  <2>1. SUFFICES ASSUME pc[t] = "submitting"
                 PROVE  SubmittingOK(t)'
    BY <1>1 DEF SubmittingOK
  <2>2. Submits(t) /\ ~client.releasePending
    BY <1>2, <1>6, <2>1, AnswerKinds DEF TaskOK, SubmittingOK, Submits
  <2>3. CASE answer = Rejected /\ DOMAIN executions' = {}
    BY <1>1, <1>4, <2>2, <2>3 DEF SubmittingOK
  <2>4. ASSUME NEW identity \in Identities,
               answer = Reported(Initial(identity)),
               DOMAIN executions' = {identity},
               Initial(identity) \in published',
               Tracks(client) => Tracked.execution < identity.execution
        PROVE  SubmittingOK(t)'
    BY <1>1, <1>3, <1>4, <2>2, <2>4 DEF SubmittingOK
  <2> QED BY <2>2, <2>3, <2>4
<1>11. ReleasingOK(t)'
  <2>1. SUFFICES ASSUME pc[t] \in {"releasing", "freeing", "settling"}
                 PROVE  ReleasingOK(t)'
    BY <1>1 DEF ReleasingOK
  <2>2. Terminal(client) /\ wire[t] = Requested("release", Tracked)
    BY <1>2, <1>6, <2>1 DEF TaskOK, ReleasingOK, Rejected, Released, Absent
  <2> QED BY <1>3, <1>4, <2>2 DEF ReleasingOK
<1>12. ASSUME NEW path \in {"query", "cancel"}, Tracks(client), Tells(t, path)
       PROVE  Tells(t, path)'
  <2>1. wire[t] = Requested(path, Tracked)
    BY <1>6, <1>12, AnswerKinds DEF Tells, Absent
  <2> QED BY <1>3, <1>4, <1>12, <2>1 DEF Tells
<1>13. QueryingOK(t)'
  <2>1. pc[t] = "querying" => Tracks(client) /\ Tells(t, "query")
    BY <1>2 DEF TaskOK, PointOK, QueryingOK, Watches
  <2> QED BY <1>1, <1>12, <2>1 DEF QueryingOK
<1>14. CancellingOK(t)'
  <2>1. \A e \in Tasks : Preparing(e)' <=> Preparing(e)
    BY <1>1 DEF Preparing
  <2>2. Current(t)' <=> Current(t)
    BY <1>1 DEF Current
  <2>3. Tracks(client) /\ Tells(t, "cancel") => Tells(t, "cancel")'
    BY <1>12
  <2> QED BY <1>1, <1>2, <1>3, <2>1, <2>2, <2>3 DEF TaskOK, CancellingOK
<1>15. \A u \in Tasks : TaskOK(u)'
  <2>1. TaskOK(t)'
    BY <1>7, <1>8, <1>9, <1>10, <1>11, <1>13, <1>14 DEF TaskOK
  <2>2. \A u \in Tasks \ {t} : TaskOK(u)'
    BY <1>4, HostOthers
  <2> QED BY <2>1, <2>2
<1>16. OneSubmission'
  <2>1. \A u \in Tasks : Submits(u)' => Submits(u)
    BY <1>4, <1>5 DEF Submits
  <2> QED BY <2>1 DEF IInv, OneSubmission
<1>17. Fields' /\ ObserversInv' /\ StaysConnected'
  <2>1. Fields'
    BY <1>1, <1>2, <1>4 DEF Fields
  <2>2. ObserversInv'
    BY <1>1 DEF IInv, ObserversInv, Running
  <2>3. StaysConnected'
    BY <1>1, <1>3 DEF IInv, StaysConnected
  <2> QED BY <2>1, <2>2, <2>3
<1> QED BY <1>1, <1>15, <1>16, <1>17, HostCursor, HostRemembers DEF IInv

(* What a request does follows from its path. *)
LEMMA PendingPath ==
  ASSUME IInv, NEW t \in Tasks, Pending(t)
  PROVE  \/ Submits(t) /\ wire[t].path = "submit" /\ DOMAIN executions = {}
         \/ \E identity \in Identities :
              /\ wire[t] = Requested("release", identity)
              /\ Tracks(client)
              /\ identity.execution <= Tracked.execution
              /\ identity = Tracked => Terminal(client)
         \/ wire[t].path \in {"query", "cancel", "session"}
BY RequestFields DEF IInv, TaskOK, PendingOK, Submits

LEMMA HostSubmitsKeeps ==
  ASSUME IInv, NEW t \in Tasks, Host(t), wire[t].path = "submit"
  PROVE  IInv' /\ client' = client
<1>1. /\ Submits(t) /\ Pending(t) /\ DOMAIN executions = {} /\ HostInv
      /\ CursorOK(client)
  <2>1. \A identity : wire[t] # Requested("release", identity)
    BY RequestFields
  <2> QED BY <2>1, PendingPath DEF Host, IInv
<1>2. PICK work \in Works : wire[t] = Requested("submit", work)
  BY <1>1 DEF Submits
<1>3. /\ wire[t].subject = work
      /\ \A path, subject : wire[t] = Requested(path, subject) => path = "submit"
  BY <1>2, RequestFields
<1>4. /\ UNCHANGED <<client, pc, gen, losses, given, returned>>
      /\ \/ Submit(work) /\ Reply(t, Reported(Initial(Identity(next))))
         \/ Reply(t, Rejected) /\ UNCHANGED ownerVars
  BY <1>3 DEF Host, HostSubmits
<1>5. CASE Submit(work) /\ Reply(t, Reported(Initial(Identity(next))))
  <2>1. /\ HostInv'
        /\ HostKeeps
        /\ Identity(next) \in Identities
        /\ Identity(next).execution = next
        /\ DOMAIN executions' = {Identity(next)}
        /\ Initial(Identity(next)) \in published'
    BY <1>1, <1>5, SubmitHost
  <2>2. HostFrame /\ Added(t)
    BY <1>1, <1>4, <2>1 DEF HostFrame, Added
  <2>3. Tracks(client) => Tracked.execution < Identity(next).execution
    BY <1>1, <2>1 DEF CursorOK, Tracked
  <2>4. Reported(Initial(Identity(next))).kind # "request"
    BY AnswerKinds
  <2> QED BY <1>1, <1>3, <1>4, <1>5, <2>1, <2>2, <2>3, <2>4, HostAnswers
<1>6. CASE Reply(t, Rejected) /\ UNCHANGED ownerVars
  <2>1. HostFrame /\ Held /\ DOMAIN executions' = {}
    <3>1. OwnerInv'
      BY <1>1, <1>6, OwnerStepInv DEF HostInv
    <3>2. next \in Nat
      BY <1>1, NextIsNat DEF HostInv, OwnerInv
    <3> QED BY <1>1, <1>4, <1>6, <3>1, <3>2
            DEF ownerVars, HostFrame, HostInv, HistoryInv, Latest, HostKeeps, Held
  <2> QED BY <1>1, <1>3, <1>4, <1>6, <2>1, AnswerKinds, HostAnswers
<1> QED BY <1>4, <1>5, <1>6

(* Replies that leave the host as it is. *)
LEMMA SameHost ==
  ASSUME IInv, UNCHANGED ownerVars, UNCHANGED <<client, pc, gen, losses, given, returned>>
  PROVE  /\ HostFrame /\ Held
         /\ published' = published
<1>1. OwnerInv' /\ next \in Nat
  BY OwnerStepInv, NextIsNat DEF IInv, HostInv, OwnerInv
<1> QED BY <1>1 DEF IInv, ownerVars, HostFrame, HostInv, HistoryInv, Latest, HostKeeps, Held

LEMMA KnownFacts ==
  ASSUME HostInv, NEW identity, Known(identity)
  PROVE  /\ identity \in Identities
         /\ Latest(identity) \in published
         /\ Latest(identity).identity = identity
BY ExecutionType DEF HostInv, HistoryInv, OwnerInv, Known

LEMMA HostQueriesKeeps ==
  ASSUME IInv, NEW t \in Tasks, Host(t), wire[t].path = "query"
  PROVE  IInv' /\ client' = client
<1>1. PICK identity : identity = wire[t].subject
  OBVIOUS
<1>2. /\ Pending(t)
      /\ Reply(t, IF Known(identity) THEN Reported(Latest(identity)) ELSE Absent)
      /\ UNCHANGED ownerVars
      /\ UNCHANGED <<client, pc, gen, losses, given, returned>>
  BY <1>1 DEF Host, HostQueries
<1>3. \A path, subject :
        wire[t] = Requested(path, subject) => path = "query" /\ subject = identity
  BY <1>1, RequestFields
<1>4. HostFrame /\ Held /\ published' = published
  BY <1>2, SameHost
<1>5. ~Submits(t) /\ HostInv /\ CursorOK(client)
  BY <1>3 DEF Submits, IInv
<1> DEFINE answer == IF Known(identity) THEN Reported(Latest(identity)) ELSE Absent
<1>6. answer.kind # "request"
  BY AnswerKinds DEF Absent
<1>7. ASSUME Tracks(client), identity = Tracked
      PROVE  \/ \E receipt \in published' :
                  answer = Reported(receipt) /\ receipt.identity = Tracked
             \/ answer = Absent /\ Terminal(client)
  <2>1. CASE Known(identity)
    BY <1>4, <1>5, <1>7, <2>1, KnownFacts
  <2>2. CASE ~Known(identity)
    BY <1>5, <1>7, <2>2 DEF CursorOK, Known, Tracked
  <2> QED BY <2>1, <2>2
<1>8. Reply(t, answer)
  BY <1>2
<1> HIDE DEF answer
<1> QED BY <1>2, <1>3, <1>4, <1>5, <1>6, <1>7, <1>8, HostAnswers

LEMMA HostCancelsKeeps ==
  ASSUME IInv, NEW t \in Tasks, Host(t), wire[t].path = "cancel"
  PROVE  IInv' /\ client' = client
<1>1. PICK identity : identity = wire[t].subject
  OBVIOUS
<1>2. /\ Pending(t)
      /\ \/ /\ Cancel(identity)
            /\ Reply(t, Reported(latest(executions'[identity].cursor)))
         \/ ~Known(identity) /\ Reply(t, Absent) /\ UNCHANGED ownerVars
      /\ UNCHANGED <<client, pc, gen, losses, given, returned>>
  BY <1>1 DEF Host, HostCancels
<1>3. \A path, subject :
        wire[t] = Requested(path, subject) => path = "cancel" /\ subject = identity
  BY <1>1, RequestFields
<1>4. ~Submits(t) /\ HostInv /\ CursorOK(client)
  BY <1>3 DEF Submits, IInv
<1>5. CASE /\ Cancel(identity)
           /\ Reply(t, Reported(latest(executions'[identity].cursor)))
  <2>1. identity \in Identities
    BY <1>4, <1>5, KnownFacts DEF Cancel
  <2> DEFINE receipt == Latest(identity)'
  <2>2. /\ HostInv'
        /\ HostKeeps
        /\ DOMAIN executions' = DOMAIN executions
        /\ receipt \in published'
        /\ receipt.identity = identity
        /\ receipt.cancel_requested \/ receipt.state = "Terminal"
    BY <1>4, <1>5, <2>1, CancelHost
  <2>3. HostFrame /\ Held
    BY <1>2, <2>2 DEF HostFrame, Held
  <2>4. Reply(t, Reported(receipt))
    BY <1>5 DEF Latest
  <2> HIDE DEF receipt
  <2>5. Reported(receipt).kind # "request"
    BY AnswerKinds
  <2> QED BY <1>2, <1>3, <1>4, <2>2, <2>3, <2>4, <2>5, HostAnswers
<1>6. CASE ~Known(identity) /\ Reply(t, Absent) /\ UNCHANGED ownerVars
  <2>1. HostFrame /\ Held
    BY <1>2, <1>6, SameHost
  <2>2. Tracks(client) /\ identity = Tracked => Terminal(client)
    BY <1>4, <1>6 DEF CursorOK, Known, Tracked
  <2>3. Absent.kind # "request"
    BY DEF Absent
  <2> QED BY <1>2, <1>3, <1>4, <1>6, <2>1, <2>2, <2>3, HostAnswers
<1> QED BY <1>2, <1>5, <1>6

LEMMA HostReleasesKeeps ==
  ASSUME IInv, NEW t \in Tasks, Host(t), wire[t].path = "release"
  PROVE  IInv' /\ client' = client
<1>1. Pending(t) /\ HostInv
  BY DEF Host, IInv
<1>2. PICK identity \in Identities :
        /\ wire[t] = Requested("release", identity)
        /\ Tracks(client)
        /\ identity.execution <= Tracked.execution
        /\ identity = Tracked => Terminal(client)
  BY <1>1, PendingPath
<1>3. /\ wire[t].subject = identity
      /\ \A path, subject :
           wire[t] = Requested(path, subject) => path = "release" /\ subject = identity
  BY <1>2, RequestFields
<1>4. /\ \/ Release(identity) /\ Reply(t, Released)
         \/ Reply(t, Rejected) /\ UNCHANGED ownerVars
         \/ ~Known(identity) /\ Reply(t, Absent) /\ UNCHANGED ownerVars
      /\ UNCHANGED <<client, pc, gen, losses, given, returned>>
  BY <1>3 DEF Host, HostReleases
<1>5. ~Submits(t)
  BY <1>3 DEF Submits
<1>6. /\ Released.kind # "request" /\ Rejected.kind # "request"
      /\ Absent.kind # "request"
  BY DEF Released, Rejected, Absent
<1>7. CASE Release(identity) /\ Reply(t, Released)
  <2>1. /\ HostInv'
        /\ HostKeeps
        /\ DOMAIN executions' = DOMAIN executions \ {identity}
    BY <1>1, <1>7, ReleaseHost
  <2>2. HostFrame /\ Dropped
    BY <1>2, <1>4, <2>1 DEF HostFrame, Dropped
  <2> QED BY <1>1, <1>3, <1>5, <1>6, <1>7, <2>1, <2>2, HostAnswers
          DEF HostFrame
<1>8. CASE Reply(t, Rejected) /\ UNCHANGED ownerVars
  <2>1. HostFrame /\ Held
    BY <1>4, <1>8, SameHost
  <2> QED BY <1>1, <1>3, <1>4, <1>5, <1>6, <1>8, <2>1, HostAnswers
<1>9. CASE ~Known(identity) /\ Reply(t, Absent) /\ UNCHANGED ownerVars
  <2>1. HostFrame /\ Held
    BY <1>4, <1>9, SameHost
  <2>2. identity \notin DOMAIN executions'
    BY <1>9, <2>1 DEF Held, Known
  <2> QED BY <1>1, <1>3, <1>4, <1>5, <1>6, <1>9, <2>1, <2>2, HostAnswers
<1> QED BY <1>4, <1>7, <1>8, <1>9

(* Every step of the host. *)
LEMMA HostStepKeeps ==
  ASSUME IInv, NEW t \in Tasks, Host(t)
  PROVE  IInv' /\ client' = client
<1>1. CASE wire[t].path = "session"
  <2>1. /\ Pending(t)
        /\ Reply(t, Session)
        /\ UNCHANGED ownerVars
        /\ UNCHANGED <<client, pc, gen, losses, given, returned>>
    BY <1>1 DEF Host
  <2>2. \A path, subject : wire[t] = Requested(path, subject) => path = "session"
    BY <1>1, RequestFields
  <2>3. HostFrame /\ Held
    BY <2>1, SameHost
  <2>4. Session.kind # "request" /\ ~Submits(t)
    BY <2>2 DEF Session, Submits
  <2> QED BY <2>1, <2>2, <2>3, <2>4, HostAnswers
<1>2. CASE wire[t].path # "session"
  <2>1. wire[t].path \in {"submit", "release", "query", "cancel"}
    BY <1>2, PendingPath, RequestFields DEF Host
  <2> QED BY <2>1, HostSubmitsKeeps, HostReleasesKeeps, HostQueriesKeeps, HostCancelsKeeps
<1> QED BY <1>1, <1>2

(* Every step of the worker. *)
LEMMA WorkerKeeps ==
  ASSUME IInv, NEW identity \in Identities, Worker(identity)
  PROVE  IInv' /\ client' = client
<1>1. UNCHANGED clientVars
  BY DEF Worker
<1>2. HostFrame /\ Held
  BY <1>1, WorkerHost DEF IInv, HostFrame, Held, clientVars
<1>3. ASSUME NEW u \in Tasks
      PROVE  TaskOK(u)'
  <2>1. ~Added(u)
    BY <1>2 DEF Held, Added
  <2> QED BY <1>1, <1>2, <2>1, HostOthers DEF clientVars
<1>4. CursorOK(client)' /\ Remembered'
  BY <1>2, HostCursor, HostRemembers
<1>5. OneSubmission' /\ Fields' /\ ObserversInv' /\ StaysConnected'
  <2>1. OneSubmission'
    BY <1>1 DEF IInv, OneSubmission, Submits, clientVars
  <2>2. Fields'
    BY <1>1 DEF IInv, Fields, clientVars
  <2>3. ObserversInv'
    BY <1>1 DEF IInv, ObserversInv, Running, clientVars
  <2>4. StaysConnected'
    BY <1>1 DEF IInv, StaysConnected, Terminal, Tracks, latest, clientVars
  <2> QED BY <2>1, <2>2, <2>3, <2>4
<1> QED BY <1>1, <1>2, <1>3, <1>4, <1>5 DEF IInv, HostFrame, clientVars

-----------------------------------------------------------------------------
(* The theorems. *)

LEMMA InitInv == Init => IInv
<1> SUFFICES ASSUME Init PROVE IInv
  OBVIOUS
<1> USE DEF Init
<1>1. OwnerInv /\ executions = << >> /\ proposals = << >> /\ published = {}
  BY OwnerInitInv DEF OwnerInit
<1>2. DOMAIN executions = {}
  BY <1>1
<1>3. HostInv
  BY <1>1, <1>2 DEF HostInv, HistoryInv
<1>4. client \in Clients /\ ~Tracks(client) /\ ~Terminal(client)
  BY DEF Clients, Tracks, Terminal
<1>5. CursorOK(client)
  BY <1>4 DEF CursorOK
<1>6. Fields
  BY DEF Fields, Points
<1>7. \A t \in Tasks : pc[t] = "idle" /\ wire[t] = Nothing /\ gen[t] = 0
  OBVIOUS
<1>8. ObserversInv
  BY <1>7 DEF ObserversInv, Running, Watches, Tasks, Observers
<1>9. ASSUME NEW t \in Tasks
      PROVE  TaskOK(t) /\ ~Submits(t)
  <2>1. pc[t] = "idle" /\ wire[t] = Nothing /\ gen[t] = 0
    BY <1>7
  <2>2. t \in Observers => returned[t] = Nothing
    OBVIOUS
  <2>3. Nothing.kind # "request"
    BY DEF Nothing
  <2>4. PointOK(t) /\ PendingOK(t) /\ ReturnedOK(t) /\ ~Submits(t)
    BY <2>1, <2>2, <2>3, RequestFields
       DEF PointOK, PendingOK, Pending, ReturnedOK, Submits, Watches
  <2> QED BY <2>1, <2>4
          DEF TaskOK, PreparingOK, Preparing, SubmittingOK, ReleasingOK, QueryingOK,
              CancellingOK, AuthenticatingOK, GivenOK, KeptOK, Watches
<1>10. OneSubmission /\ Remembered /\ StaysConnected
  BY <1>2, <1>9 DEF OneSubmission, Remembered, StaysConnected
<1> QED BY <1>3, <1>5, <1>6, <1>8, <1>9, <1>10 DEF IInv

LEMMA NextInv ==
  ASSUME IInv, [Next]_vars
  PROVE  IInv' /\ (Advances \/ client' = client)
<1>1. ASSUME NEW t \in Tasks, Page(t) \/ Host(t)
      PROVE  IInv' /\ (Advances \/ client' = client)
  BY <1>1, PageKeeps, HostStepKeeps
<1>2. ASSUME NEW identity \in Identities, Worker(identity)
      PROVE  IInv' /\ (Advances \/ client' = client)
  BY <1>2, WorkerKeeps
<1>3. CASE UNCHANGED vars
  <2>1. /\ UNCHANGED ownerVars
        /\ UNCHANGED <<client, pc, gen, losses, given, returned>>
        /\ wire' = wire
    BY <1>3 DEF vars, ownerVars
  <2>2. HostFrame /\ Held
    BY <2>1, SameHost
  <2>3. \A u \in Tasks : ~Added(u)
    BY <2>2 DEF Held, Added
  <2>4. \A u \in Tasks : TaskOK(u)'
    BY <2>1, <2>2, <2>3, HostOthers
  <2>5. CursorOK(client)' /\ Remembered'
    BY <2>2, HostCursor, HostRemembers
  <2>6. OneSubmission' /\ Fields'
    BY <2>1 DEF IInv, OneSubmission, Submits, Fields
  <2>7. ObserversInv' /\ StaysConnected'
    BY <2>1 DEF IInv, ObserversInv, Running, StaysConnected, Terminal, Tracks, latest
  <2> QED BY <2>1, <2>2, <2>4, <2>5, <2>6, <2>7 DEF IInv, HostFrame
<1> QED BY <1>1, <1>2, <1>3 DEF Next

(* In every reachable state, the host's receipts, the page's cursor and    *)
(* flags, and what each call waits for agree.                              *)
THEOREM PageIsConsistent == Spec => []IInv
<1>1. IInv /\ [Next]_vars => IInv'
  BY NextInv
<1> QED BY <1>1, InitInv, PTL DEF Spec

LEMMA AtMostOne ==
  ASSUME NEW S, \A x, y \in S : x = y
  PROVE  Cardinality(S) <= 1
<1>1. CASE S = {}
  BY <1>1, FS_EmptySet
<1>2. ASSUME NEW x \in S
      PROVE  Cardinality(S) <= 1
  <2>1. S = {x}
    BY <1>2
  <2> QED BY <2>1, FS_Singleton
<1> QED BY <1>1, <1>2

(* However its calls overlap, the flags active, polling and                *)
(* reconciliation of the page tell what its calls are doing, no two of     *)
(* them drive an execution, and its cursor is one that the core can make.  *)
THEOREM FlagsTellTheTruth == Spec => []PageInv
<1>1. IInv => PageInv
  <2> SUFFICES ASSUME IInv PROVE PageInv
    OBVIOUS
  <2>1. Cardinality({t \in Observers : Running(t)}) <= 1
    <3>1. \A x, y \in {t \in Observers : Running(t)} : x = y
      BY DEF IInv, ObserversInv
    <3> QED BY <3>1, AtMostOne
  <2>2. OneObserver
    BY <2>1 DEF OneObserver, IInv, ObserversInv, Watches
  <2>3. Tracks(client) => /\ WellFormed(latest(client.tracking))
                          /\ latest(client.tracking).identity = client.tracking.identity
                          /\ ~client.suspended => client.tracking.online
    BY CursorFacts DEF IInv, CursorOK
  <2>4. ClientTypeOK
    BY <2>3 DEF ClientTypeOK, IInv, CursorOK, Clients, Fields
  <2> QED BY <2>2, <2>4 DEF PageInv
<1> QED BY <1>1, PageIsConsistent, PTL

(* Whatever is lost, the host keeps at most one execution for the page,    *)
(* and the page knows of it or has told its user that it does not.         *)
THEOREM NothingIsForgotten == Spec => []NothingForgotten
<1>1. IInv => NothingForgotten
  <2> SUFFICES ASSUME IInv PROVE NothingForgotten
    OBVIOUS
  <2>1. Cardinality(DOMAIN executions) <= 1
    BY AtMostOne DEF IInv, HostInv
  <2> QED BY <2>1 DEF NothingForgotten, IInv, Remembered, Tracked
<1> QED BY <1>1, PageIsConsistent, PTL

(* execute and resume return the host's own terminal evidence, execute     *)
(* that of the execution that it submitted.                                *)
THEOREM EvidenceIsReturned == Spec => []ReturnsEvidence
<1>1. IInv => ReturnsEvidence
  BY DEF IInv, TaskOK, ReturnedOK, ReturnsEvidence, Tasks
<1> QED BY <1>1, PageIsConsistent, PTL

(* A cancellation asked for during the submission is not lost.             *)
THEOREM CancellationIsKept == Spec => []CancelKept
<1>1. IInv => CancelKept
  <2>1. Evaluations \subseteq Tasks
    BY DEF Tasks, Observers
  <2> QED BY <2>1 DEF IInv, TaskOK, KeptOK, CancelKept, Watches
<1> QED BY <1>1, PageIsConsistent, PTL

(* What the host accepted and reported, the core can start: nothing that   *)
(* happens while the submission is under way makes it refuse.              *)
THEOREM AcceptedIsStarted == Spec => []StartsWhatIsAccepted
<1>1. IInv => StartsWhatIsAccepted
  <2> SUFFICES ASSUME IInv, NEW e \in Evaluations, pc[e] = "submitting",
                      wire[e].kind = "receipt"
               PROVE  Starts(client, wire[e].receipt)
    BY DEF StartsWhatIsAccepted
  <2>1. ~Pending(e) /\ wire[e] # Rejected
    BY DEF Pending, Rejected
  <2>2. PICK identity \in Identities : wire[e] = Reported(Initial(identity))
    BY <2>1, SubmitAnswers
  <2> QED BY <2>2, AcceptedStarts, AnswerKinds
<1> QED BY <1>1, PageIsConsistent, PTL

(* As long as no await fails, no answer suspends a running execution.      *)
THEOREM ConnectionStays == Spec => []StaysConnected
<1>1. IInv => StaysConnected
  BY DEF IInv
<1> QED BY <1>1, PageIsConsistent, PTL

(* Answers that overtake each other never take the view back.              *)
THEOREM ViewOnlyAdvances == Spec => ViewAdvances
<1>1. IInv /\ [Next]_vars =>
        [Tracks(client) /\ client.tracking.identity = client'.tracking.identity
         => Precedes(latest(client.tracking), latest(client'.tracking))]_client
  <2> SUFFICES ASSUME IInv, [Next]_vars, client' # client, Tracks(client),
                      client.tracking.identity = client'.tracking.identity
               PROVE  Precedes(latest(client.tracking), latest(client'.tracking))
    OBVIOUS
  <2>1. Advances
    BY NextInv
  <2>2. client.tracking.identity.execution \in Nat
    BY CursorFacts DEF IInv
  <2>3. ~Begins(client, client')
    BY <2>2 DEF Begins
  <2> QED BY <2>1, <2>3 DEF Advances, Keeps
<1> QED BY <1>1, PageIsConsistent, PTL DEF Spec, ViewAdvances
=============================================================================
