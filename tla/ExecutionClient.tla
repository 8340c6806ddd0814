---------------------------- MODULE ExecutionClient ----------------------------
(***************************************************************************)
(* One page that evaluates over a host session                             *)
(* (pkgs/morphir-host/execution-client/client.mts and the core it drives,  *)
(* pkgs/morphir-engine/execution/workbench/client.mbt), and the owner of   *)
(* executions at the other end.                                            *)
(*                                                                         *)
(* The page runs one thread: a step of a task is the code between two of   *)
(* its awaits.  Each execute, cancel and resume is a task.  Any await may  *)
(* fail (the request timed out, the reply was lost or was not valid), at   *)
(* most MaxLosses of them, and the host may still act on the request.  A call that the page rejects    *)
(* before it awaits changes nothing and is no step.                        *)
(***************************************************************************)
EXTENDS ExecutionOwner

CONSTANTS
  Evaluations, \* calls of execute
  Cancels,     \* calls of cancel
  Resumes,     \* calls of resume
  NoTask,
  NoCursor,    \* the core's state before the first execution
  Policy,      \* the policy mapping was negotiated
  MaxAccepted, \* executions the core accepts in a session with policies (256)
  MaxLosses    \* awaits that fail: bounds the faults

Observers == Evaluations \cup Resumes
Tasks     == Observers \cup Cancels

ASSUME ClientAssumption ==
  /\ Evaluations \cap Resumes = {}
  /\ Observers \cap Cancels = {}
  /\ NoTask \notin Tasks
  /\ NoCursor \notin Cursors
  /\ Policy \in BOOLEAN
  /\ MaxAccepted \in Nat /\ MaxLosses \in Nat

VARIABLES
  client,   \* the fields of ExecutionClient and of its core
  pc,       \* where a task awaits
  gen,      \* cancellation.generation of a task
  wire,     \* the request or the reply of a task
  losses,   \* awaits that failed so far
  given,    \* history: the identity an evaluation was started with
  returned  \* history: the receipt whose result an observer returned

clientVars == <<client, pc, gen, wire, losses, given, returned>>
vars == <<client, pc, gen, wire, losses, given, returned, executions, reserved, next,
          proposals, handed, published>>

Points == {"idle", "releasing", "submitting", "cancelling", "authenticating",
           "settling", "pausing", "querying", "freeing", "done"}

Nothing  == [kind |-> "nothing"]
Unheard  == [kind |-> "unheard"]
Released == [kind |-> "released"]
Rejected == [kind |-> "rejected"] \* an error reply that had no effect
Absent   == [kind |-> "absent"]   \* 404, workbench.host_unknown_execution
Session  == [kind |-> "session"]  \* the session and its offer, as negotiated

Reported(receipt)        == [kind |-> "receipt", receipt |-> receipt]
Requested(path, subject) == [kind |-> "request", path |-> path, subject |-> subject]

Init ==
  /\ OwnerInit
  /\ client = [tracking |-> NoCursor, accepted |-> {}, generation |-> 0,
               cancelling |-> NoTask, active |-> FALSE, polling |-> FALSE,
               reconciling |-> FALSE, releasePending |-> FALSE,
               reauthenticated |-> FALSE, uncertain |-> FALSE,
               cancelOnSubmit |-> FALSE, suspended |-> FALSE]
  /\ pc = [t \in Tasks |-> "idle"]
  /\ gen = [t \in Tasks |-> 0]
  /\ wire = [t \in Tasks |-> Nothing]
  /\ losses = 0
  /\ given = [t \in Evaluations |-> Nothing]
  /\ returned = [t \in Observers |-> Nothing]

-----------------------------------------------------------------------------
(* What the page's code does between two awaits. *)

Tracks(c)   == c.tracking # NoCursor
Terminal(c) == Tracks(c) /\ latest(c.tracking).state = "Terminal"

(* command: evidence that becomes terminal is to be released. *)
Observed(c, receipt) ==
  LET seen == observe(c.tracking, receipt)
  IN [c EXCEPT !.tracking = seen,
               !.releasePending = @ \/ (~Terminal(c)
                                        /\ latest(seen).state = "Terminal")]

Admitted(c, answer) ==
  answer.kind = "receipt" /\ Observes(c.tracking, answer.receipt)

disconnected(c) ==
  [c EXCEPT !.suspended = TRUE,
            !.tracking = IF Tracks(c) THEN disconnect(@) ELSE @]

(* release: the confirmation, or after a fresh authentication the absence, *)
(* of a terminal execution.                                                *)
Freed(c, answer) ==
  \/ answer.kind = "released"
  \/ answer.kind = "absent" /\ c.reauthenticated /\ Terminal(c)

Settled(c, answer) ==
  [c EXCEPT !.reauthenticated = FALSE, !.releasePending = @ /\ ~Freed(c, answer)]

Pending(t) == wire[t].kind = "request"

(* What an await of the task may be resumed with. *)
Answers(t) ==
  (IF Pending(t) THEN {} ELSE {wire[t]})
    \cup (IF losses < MaxLosses THEN {Unheard} ELSE {})

(* The task is resumed with an answer, or its await fails. *)
Heard(answer) == losses' = IF answer = Unheard THEN losses + 1 ELSE losses

Ask(t, c, point, path, subject) ==
  /\ client' = c
  /\ pc' = [pc EXCEPT ![t] = point]
  /\ wire' = [wire EXCEPT ![t] = Requested(path, subject)]

Rest(t, c, point) ==
  /\ client' = c
  /\ pc' = [pc EXCEPT ![t] = point]
  /\ wire' = [wire EXCEPT ![t] = Nothing]

(* The task is over; a request it gave up may still reach the host. *)
Leave(t, c) ==
  /\ client' = IF t \in Evaluations THEN [c EXCEPT !.active = FALSE, !.polling = FALSE]
               ELSE IF t \in Resumes
               THEN [c EXCEPT !.reconciling = FALSE, !.polling = FALSE]
               ELSE c
  /\ pc' = [pc EXCEPT ![t] = "done"]
  /\ wire' = [wire EXCEPT ![t] = IF Pending(t) THEN @ ELSE Nothing]

(* The head of poll's loop. *)
Observe(t, c) ==
  IF Terminal(c)
  THEN Ask(t, [c EXCEPT !.releasePending = TRUE], "freeing", "release",
           c.tracking.identity)
  ELSE Rest(t, c, "pausing")

Poll(t, c) == Observe(t, [c EXCEPT !.polling = TRUE])

-----------------------------------------------------------------------------
(* execute. *)

Busy(c) == c.active \/ c.polling \/ c.reconciling

(* Fault: a page that resumes may submit. *)
ExecutableWhileResuming(c) ==
  /\ ~c.active /\ ~c.polling
  /\ ~c.uncertain
  /\ Tracks(c) => Terminal(c)
  /\ Policy => Cardinality(c.accepted) < MaxAccepted

(* Fault: a page may submit as soon as the evidence is terminal. *)
ExecutableAtEnd(c) ==
  /\ ~c.uncertain
  /\ Tracks(c) => Terminal(c)
  /\ Policy => Cardinality(c.accepted) < MaxAccepted

(* Fault: a submission of which nothing is known is made again. *)
ExecutableUncertain(c) ==
  /\ ~Busy(c)
  /\ Tracks(c) => Terminal(c)
  /\ Policy => Cardinality(c.accepted) < MaxAccepted

(* Fault: the core's limit is only looked at when it starts. *)
ExecutableOverLimit(c) ==
  /\ ~Busy(c)
  /\ ~c.uncertain
  /\ Tracks(c) => Terminal(c)

Executable(c) ==
  /\ ~Busy(c)
  /\ ~c.uncertain
  /\ Tracks(c) => Terminal(c)
  /\ Policy => Cardinality(c.accepted) < MaxAccepted

Execute(e) ==
  /\ pc[e] = "idle"
  /\ Executable(client)
  /\ LET c == [client EXCEPT !.generation = @ + 1, !.active = TRUE,
                             !.cancelOnSubmit = FALSE]
     IN IF c.releasePending
        THEN Ask(e, c, "releasing", "release", c.tracking.identity)
        ELSE \E work \in Works : Ask(e, c, "submitting", "submit", work)
  /\ UNCHANGED <<losses, gen, given, returned>>

(* The previous execution is released first. *)
ReleaseFirst(e) ==
  /\ pc[e] = "releasing"
  /\ \E answer \in Answers(e) :
       /\ Heard(answer)
       /\ LET c == Settled(client, answer)
          IN IF Freed(client, answer)
             THEN \E work \in Works : Ask(e, c, "submitting", "submit", work)
             ELSE Leave(e, disconnected(c))
  /\ UNCHANGED <<gen, given, returned>>

(* The core's start. *)
Starts(c, receipt) ==
  /\ Tracks(c) => Terminal(c)
  /\ Startable(offer, receipt.identity, receipt)
  /\ Policy => /\ Cardinality(c.accepted) < MaxAccepted
               /\ receipt.identity \notin c.accepted

Started(c, receipt) ==
  [c EXCEPT !.tracking = start(offer, receipt.identity, receipt),
            !.accepted = IF Policy THEN @ \cup {receipt.identity} ELSE @,
            !.suspended = FALSE]

(* Fault: a cancellation asked for before the submission is dropped. *)
BeginUncancelled(e, c) ==
  /\ Poll(e, c)
  /\ UNCHANGED gen

(* cancel, if it was asked for meanwhile, and then poll. *)
Begin(e, c) ==
  IF c.cancelOnSubmit /\ cancel_action(c.tracking) = "Send"
  THEN /\ Ask(e, [c EXCEPT !.cancelling = e], "cancelling", "cancel",
              c.tracking.identity)
       /\ gen' = [gen EXCEPT ![e] = c.generation]
  ELSE Poll(e, c) /\ UNCHANGED gen

Submitted(e) ==
  /\ pc[e] = "submitting"
  /\ \E answer \in Answers(e) :
       /\ Heard(answer)
       /\ \/ /\ answer.kind = "receipt" /\ Starts(client, answer.receipt)
             /\ Begin(e, Started(client, answer.receipt))
             /\ given' = [given EXCEPT ![e] = answer.receipt.identity]
          \/ /\ answer.kind = "rejected"
             /\ Leave(e, client)
             /\ UNCHANGED <<gen, given>>
          \/ /\ IF answer.kind = "receipt" THEN ~Starts(client, answer.receipt)
                                           ELSE answer = Unheard
             /\ Leave(e, [client EXCEPT !.uncertain = TRUE])
             /\ UNCHANGED <<gen, given>>
  /\ UNCHANGED returned

-----------------------------------------------------------------------------
(* poll. *)

Fail(t, c) == Leave(t, disconnected(c))

(* Fault: the pause does not look for an end that a cancellation brought. *)
PausedUnaware(t) ==
  /\ pc[t] = "pausing"
  /\ IF client.suspended \/ Terminal(client) THEN Rest(t, client, "pausing")
     ELSE Ask(t, client, "querying", "query", client.tracking.identity)
  /\ UNCHANGED <<losses, gen, given, returned>>

(* Fault: a suspended page waits for the connection to come back. *)
PausedOffline(t) ==
  /\ pc[t] = "pausing"
  /\ IF client.suspended THEN Rest(t, client, "pausing")
     ELSE IF Terminal(client) THEN Observe(t, client)
     ELSE Ask(t, client, "querying", "query", client.tracking.identity)
  /\ UNCHANGED <<losses, gen, given, returned>>

(* The pause is over: the page may have been suspended meanwhile. *)
Paused(t) ==
  /\ pc[t] = "pausing"
  /\ IF client.suspended THEN Fail(t, client)
     ELSE IF Terminal(client) THEN Observe(t, client)
     ELSE Ask(t, client, "querying", "query", client.tracking.identity)
  /\ UNCHANGED <<losses, gen, given, returned>>

Queried(t) ==
  /\ pc[t] = "querying"
  /\ \E answer \in Answers(t) :
       /\ Heard(answer)
       /\ IF ~client.suspended /\ Admitted(client, answer)
          THEN Observe(t, Observed(client, answer.receipt))
          ELSE Fail(t, client)
  /\ UNCHANGED <<gen, given, returned>>

Returns(t) == returned' = [returned EXCEPT ![t] = latest(client.tracking)]

(* The result is returned whether or not its release was confirmed. *)
Finish(t) ==
  /\ pc[t] = "freeing"
  /\ \E answer \in Answers(t) :
       /\ Heard(answer)
       /\ LET c == Settled(client, answer)
          IN Leave(t, IF Freed(client, answer) THEN c ELSE disconnected(c))
  /\ Returns(t)
  /\ UNCHANGED <<gen, given>>

-----------------------------------------------------------------------------
(* cancel. *)

CanSend(c) == Tracks(c) /\ cancel_action(c.tracking) = "Send"

(* Before there is an execution to cancel, the wish is noted. *)
CancelLater(t) ==
  /\ pc[t] = "idle"
  /\ client.active /\ (Tracks(client) => Terminal(client))
  /\ Rest(t, [client EXCEPT !.cancelOnSubmit = TRUE], "done")
  /\ UNCHANGED <<losses, gen, given, returned>>

(* A cancellation of this generation that is under way is shared. *)
Shared(c) == c.cancelling # NoTask /\ gen[c.cancelling] = c.generation

CancelNow(t) ==
  /\ pc[t] = "idle"
  /\ CanSend(client)
  /\ ~Shared(client)
  /\ Ask(t, [client EXCEPT !.cancelling = t], "cancelling", "cancel",
         client.tracking.identity)
  /\ gen' = [gen EXCEPT ![t] = client.generation]
  /\ UNCHANGED <<losses, given, returned>>

(* Fault: a late answer is taken for the current execution's. *)
CurrentAlways(t) == TRUE

Current(t) == gen[t] = client.generation

Forgets(t, c) == [c EXCEPT !.cancelling = IF @ = t THEN NoTask ELSE @]

Cancelled(t) ==
  /\ pc[t] = "cancelling"
  /\ \E answer \in Answers(t) :
       /\ Heard(answer)
       /\ LET heard == Current(t) => Admitted(client, answer)
              c == IF ~Current(t) THEN client
                   ELSE IF heard THEN Observed(client, answer.receipt)
                   ELSE disconnected(client)
          IN IF heard /\ t \in Evaluations
             THEN Poll(t, Forgets(t, c))
             ELSE Leave(t, Forgets(t, c))
  /\ UNCHANGED <<gen, given, returned>>

-----------------------------------------------------------------------------
(* resume. *)

Resume(r) ==
  /\ pc[r] = "idle"
  /\ Tracks(client) /\ ~Busy(client)
  /\ Ask(r, [client EXCEPT !.reconciling = TRUE], "authenticating", "session", Nothing)
  /\ UNCHANGED <<losses, gen, given, returned>>

(* The session is the one negotiated: authentication and descriptor.       *)
Authenticated(r) ==
  /\ pc[r] = "authenticating"
  /\ \E answer \in Answers(r) :
       /\ Heard(answer)
       /\ LET same == answer = Session /\ Reconnectable(client.tracking, offer)
              c == [client EXCEPT !.tracking = reconnect(@), !.suspended = FALSE,
                                  !.reauthenticated = Terminal(client)]
          IN \/ /\ ~same
                /\ Fail(r, client)
                /\ UNCHANGED returned
             \/ /\ same /\ ~Terminal(c)
                /\ Poll(r, c)
                /\ UNCHANGED returned
             \/ /\ same /\ Terminal(c) /\ c.releasePending
                /\ Ask(r, c, "settling", "release", c.tracking.identity)
                /\ UNCHANGED returned
             \/ /\ same /\ Terminal(c) /\ ~c.releasePending
                /\ Leave(r, c)
                /\ Returns(r)
  /\ UNCHANGED <<gen, given>>

Settle(r) ==
  /\ pc[r] = "settling"
  /\ \E answer \in Answers(r) :
       /\ Heard(answer)
       /\ LET c == Settled(client, answer)
          IN IF Freed(client, answer)
             THEN Leave(r, c) /\ Returns(r)
             ELSE Fail(r, c) /\ UNCHANGED returned
  /\ UNCHANGED <<gen, given>>

-----------------------------------------------------------------------------
(* The host: its owner, and the worker it runs an execution with.          *)

Reply(t, answer) == wire' = [wire EXCEPT ![t] = answer]

HostSubmits(t) ==
  LET work == wire[t].subject
  IN \/ Submit(work) /\ Reply(t, Reported(Initial(Identity(next))))
     \/ ~Fits(work) /\ Reply(t, Rejected) /\ UNCHANGED ownerVars

HostQueries(t) ==
  LET identity == wire[t].subject
  IN /\ Reply(t, IF Known(identity) THEN Reported(Latest(identity)) ELSE Absent)
     /\ UNCHANGED ownerVars

HostCancels(t) ==
  LET identity == wire[t].subject
  IN \/ /\ Cancel(identity)
        /\ Reply(t, Reported(latest(executions'[identity].cursor)))
     \/ ~Known(identity) /\ Reply(t, Absent) /\ UNCHANGED ownerVars

HostReleases(t) ==
  LET identity == wire[t].subject
  IN \/ Release(identity) /\ Reply(t, Released)
     \/ /\ Known(identity) /\ Latest(identity).state # "Terminal"
        /\ Reply(t, Rejected) /\ UNCHANGED ownerVars
     \/ ~Known(identity) /\ Reply(t, Absent) /\ UNCHANGED ownerVars

Host(t) ==
  /\ Pending(t)
  /\ CASE wire[t].path = "submit"  -> HostSubmits(t)
       [] wire[t].path = "query"   -> HostQueries(t)
       [] wire[t].path = "cancel"  -> HostCancels(t)
       [] wire[t].path = "release" -> HostReleases(t)
       [] wire[t].path = "session" -> Reply(t, Session) /\ UNCHANGED ownerVars
  /\ UNCHANGED <<client, pc, gen, losses, given, returned>>

Worker(identity) ==
  /\ Known(identity)
  /\ Latest(identity).state # "Terminal"
  /\ \/ Claim(identity)
     \/ \E policy \in Policies :
          ClaimScheme(identity, identity.execution, policy)
     \/ \E outcomes \in Outcomes : Complete(identity, outcomes)
  /\ UNCHANGED clientVars

-----------------------------------------------------------------------------
(* The steps of a task after its first. *)
Continue(t) ==
  \/ t \in Evaluations /\ (ReleaseFirst(t) \/ Submitted(t))
  \/ t \in Resumes /\ (Authenticated(t) \/ Settle(t))
  \/ t \in Observers /\ (Paused(t) \/ Queried(t) \/ Finish(t))
  \/ t \in Evaluations \cup Cancels /\ Cancelled(t)

Starting(t) ==
  \/ t \in Evaluations /\ Execute(t)
  \/ t \in Cancels /\ (CancelLater(t) \/ CancelNow(t))
  \/ t \in Resumes /\ Resume(t)

Page(t) == (Starting(t) \/ Continue(t)) /\ UNCHANGED ownerVars

Next ==
  \/ \E t \in Tasks : Page(t) \/ Host(t)
  \/ \E identity \in Identities : Worker(identity)

Spec == Init /\ [][Next]_vars

(* Awaits end, the host answers what it is asked, and its worker finishes. *)
FairSpec ==
  /\ Spec
  /\ \A t \in Tasks : WF_vars(Continue(t) /\ UNCHANGED ownerVars) /\ WF_vars(Host(t))
  /\ \A identity \in Identities :
       WF_vars(/\ \E outcomes \in Outcomes : Complete(identity, outcomes)
               /\ Latest(identity).state # "Terminal"
               /\ UNCHANGED clientVars)

-----------------------------------------------------------------------------
(* Properties. *)

Running(t) == pc[t] \notin {"idle", "done"}

ClientTypeOK ==
  /\ client \in
       [tracking : {NoCursor} \cup Cursors, accepted : SUBSET Identities,
        generation : Nat, cancelling : Tasks \cup {NoTask},
        active : BOOLEAN, polling : BOOLEAN, reconciling : BOOLEAN,
        releasePending : BOOLEAN, reauthenticated : BOOLEAN, uncertain : BOOLEAN,
        cancelOnSubmit : BOOLEAN, suspended : BOOLEAN]
  /\ pc \in [Tasks -> Points]
  /\ gen \in [Tasks -> Nat]
  /\ client.cancelling # NoTask => pc[client.cancelling] = "cancelling"
  /\ Tracks(client) => /\ WellFormed(latest(client.tracking))
                       /\ latest(client.tracking).identity = client.tracking.identity
                       /\ ~client.suspended => client.tracking.online

(* active, polling and reconciliation are set and reset on every path of   *)
(* execute and resume, so that no two of them ever drive one execution.    *)
OneObserver ==
  /\ Cardinality({t \in Observers : Running(t)}) <= 1
  /\ client.active <=> \E e \in Evaluations : Running(e)
  /\ client.reconciling <=> \E r \in Resumes : Running(r)
  /\ client.polling <=>
       \E t \in Observers : pc[t] \in {"pausing", "querying", "freeing"}

(* The page's state is consistent: its flags tell what its calls are doing, *)
(* and its cursor is one that the core could have made.                     *)
PageInv == ClientTypeOK /\ OneObserver

(* Whatever is lost, a page keeps at most one execution at the host, and   *)
(* it still knows of it: it can resume it, it will release it, or it told  *)
(* its user that a submission is unknown.                                  *)
NothingForgotten ==
  /\ Cardinality(DOMAIN executions) <= 1
  /\ \A identity \in DOMAIN executions :
       \/ /\ Tracks(client) /\ client.tracking.identity = identity
          /\ Terminal(client) => client.releasePending
       \/ client.uncertain
       \/ \E e \in Evaluations : pc[e] = "submitting"

(* execute returns the host's terminal evidence of the execution that it   *)
(* submitted, and resume that of one execution.                            *)
ReturnsEvidence ==
  \A t \in Observers :
    returned[t] # Nothing =>
      /\ returned[t] \in published
      /\ returned[t].state = "Terminal"
      /\ t \in Evaluations => returned[t].identity = given[t]

(* Replies of query and cancel that overtake each other never take the     *)
(* page's view of an execution back.                                       *)
ViewAdvances ==
  [][Tracks(client) /\ client.tracking.identity = client'.tracking.identity
     => Precedes(latest(client.tracking), latest(client'.tracking))]_client

(* A cancellation asked for while the submission was under way reaches a   *)
(* host that offers to cancel before execute observes the new execution.   *)
CancelKept ==
  \A e \in Evaluations :
    offer.cancel /\ pc[e] \in {"pausing", "querying"} /\ client.cancelOnSubmit =>
      Terminal(client) \/ latest(client.tracking).cancel_requested

(* An execution that the host accepted and reported is one that the core   *)
(* can start: execute asks first what start will check.                    *)
StartsWhatIsAccepted ==
  \A e \in Evaluations :
    pc[e] = "submitting" /\ wire[e].kind = "receipt" =>
      Starts(client, wire[e].receipt)

(* As long as no await failed, only a finished execution is ever marked    *)
(* disconnected: a late answer about an older one never suspends the       *)
(* current one.                                                            *)
StaysConnected == losses = 0 /\ client.suspended => Terminal(client)

(* As long as no await failed, execute comes to return a result, unless    *)
(* the host rejected its work: nothing was started then.                   *)
EvaluationReturns ==
  \A e \in Evaluations :
    Running(e) ~> (losses = 0 => \/ returned[e] # Nothing
                                 \/ pc[e] = "done" /\ given[e] = Nothing)

(* Whatever is lost, execute, cancel and resume come to an end.            *)
CallsEnd == \A t \in Tasks : Running(t) ~> pc[t] = "done"
=============================================================================
