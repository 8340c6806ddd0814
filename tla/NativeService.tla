---------------------------- MODULE NativeService ----------------------------
(***************************************************************************)
(* The native service of the workbench                                     *)
(* (pkgs/morphir-workbench-native/service.mbt) around the owner of         *)
(* executions: requests reach the owner through a mediator and are applied *)
(* to the service's records when its answer is back; the records wait in a *)
(* queue for one of the worker processes; close, shutdown, cancellations   *)
(* and the end of a process come at any moment.                            *)
(*                                                                         *)
(* The tasks are cooperative: a step is what one task does between two     *)
(* suspensions, and it makes at most one call that changes the owner.  The *)
(* loop of `close` calls it for each record: it is taken a record at a     *)
(* time, and nothing else happens before it has ended (Awake).             *)
(*                                                                         *)
(* The codes worker_... of a stop are one, "fault", and one outcome,       *)
(* Failed.  Queries change nothing and are left out.                       *)
(***************************************************************************)
EXTENDS ExecutionOwner

CONSTANTS
  Values,   \* what a worker may return: the evidence of a call
  Large,    \* values that make the last receipt too large
  Other,    \* values that are evidence of other calls
  NoValue,  \* nothing was returned
  Callers,  \* bound: requests that are under way together
  Asked,    \* bound: caller -> what it asks of accepted executions
  Workers   \* worker processes at once: 2 in the code

Captured(value, cleanup) ==
  [status |-> "captured", value |-> value, cleanup |-> cleanup]
Cancelled == [status |-> "cancelled"]
Failed    == [status |-> "failed"]

ASSUME ServiceAssumption ==
  /\ offer.cancel
  /\ Large \subseteq Values
  /\ Other \subseteq Values
  /\ NoValue \notin Values
  /\ Outcomes = {Captured(value, cleanup) :
                   value \in Values \ Other, cleanup \in BOOLEAN}
                \cup {Cancelled, Failed}
  /\ Foreign = {Captured(value, cleanup) :
                   value \in Other, cleanup \in BOOLEAN}
  /\ Asked \in [Callers -> SUBSET {"Cancel", "Release"}]
  /\ Workers \in Nat \ {0}

VARIABLES
  records,   \* identity -> the record of an accepted execution
  queue,     \* identities that wait for a worker
  active,    \* runs that have begun and not ended
  closed,
  uncertain, \* a worker's exit could not be confirmed
  calls,     \* caller -> the request it waits for
  closing,   \* records the loop of close has still to complete
  shutdown,  \* "None", "Waiting", "Returned", "Raised"
  alive,     \* executions whose process the system has not ended
  returned   \* history: what the worker of an execution returned

serviceVars == <<records, queue, active, closed, uncertain, calls, closing,
                 shutdown, alive, returned>>
vars == <<ownerVars, serviceVars>>

Tasks == {"None", "Spawned", "Claimed", "Child", "Exited", "Ended", "Lost"}
Stops == {"", "cancel", "shutdown", "fault"}

NewRecord ==
  [task |-> "None", stop |-> "", done |-> FALSE, captured |-> NoValue,
   code |-> 0]

Idle == [stage |-> "Idle"]

ServiceInit ==
  /\ OwnerInit
  /\ records = << >>
  /\ queue = << >>
  /\ active = 0
  /\ closed = FALSE
  /\ uncertain = FALSE
  /\ calls = [c \in Callers |-> Idle]
  /\ closing = {}
  /\ shutdown = "None"
  /\ alive = {}
  /\ returned = [identity \in Identities |-> NoValue]

-----------------------------------------------------------------------------
(* Steps that several operations share. *)

Awake == closing = {}

HasRecord(identity) == identity \in DOMAIN records

(* Record::stop: the first reason stands. *)
Stop(record, reason) ==
  IF record.stop = "" THEN [record EXCEPT !.stop = reason] ELSE record

(* Whether the owner's `complete` accepts the outcomes. *)
Accepts(identity, outcomes) ==
  /\ Known(identity)
  /\ outcomes \notin Foreign
  /\ Latest(identity).state = "Terminal" => Latest(identity).outcomes = outcomes

Oversized(outcomes) ==
  outcomes.status = "captured" /\ outcomes.value \in Large

(* What `complete` gives the owner in place of what the owner would refuse *)
(* or a reply cannot carry.                                                *)
Evidence(identity, outcomes) ==
  IF Oversized(outcomes) \/ ~Accepts(identity, outcomes)
  THEN Failed ELSE outcomes

Recorded(identity, outcomes) == Accepts(identity, Evidence(identity, outcomes))

(* Service::complete, up to record.done. *)
CompleteExecution(identity, outcomes) ==
  /\ IF Recorded(identity, outcomes)
     THEN \E evidence \in {Evidence(identity, outcomes)} : Complete(identity, evidence)
     ELSE UNCHANGED ownerVars
  /\ uncertain' = (uncertain \/ ~Recorded(identity, outcomes))

(* Service::drain, where `after` are the records.  The loop starts one     *)
(* record at most: a call follows one new record or one free worker, and   *)
(* no record of the queue is done (DrainedOnce, QueueWaits).               *)
Drain(after, waiting, n) ==
  IF closed \/ uncertain' \/ n >= Workers \/ waiting = << >>
  THEN /\ records' = after
       /\ queue' = waiting
       /\ active' = n
  ELSE /\ records' = [after EXCEPT ![Head(waiting)].task = "Spawned"]
       /\ queue' = Tail(waiting)
       /\ active' = n + 1

(* The end of a run: its record is completed and its worker is free.       *)
EndRun(identity, record, outcomes) ==
  /\ CompleteExecution(identity, outcomes)
  /\ Drain([records EXCEPT ![identity] =
              [record EXCEPT !.task = "Ended", !.captured = NoValue, !.code = 0,
                             !.done = Recorded(identity, outcomes)]],
           queue, active - 1)

-----------------------------------------------------------------------------
(* Requests. *)

Ask(c, request) ==
  /\ Awake
  /\ calls[c] = Idle
  /\ ~uncertain
  /\ ~closed
  /\ calls' = [calls EXCEPT ![c] = request]
  /\ UNCHANGED <<ownerVars, records, queue, active, closed, uncertain,
                 closing, shutdown, alive, returned>>

RequestSubmit(c, work) ==
  Ask(c, [stage |-> "Sent", operation |-> "Submit", work |-> work])

RequestOn(c, operation, identity) ==
  /\ identity.execution < next
  /\ Ask(c, [stage |-> "Sent", operation |-> operation, identity |-> identity])

(* service_sender: the owner's handler has accepted the request. *)
Answer(c, operation, identity) ==
  /\ Awake
  /\ calls[c].stage = "Sent"
  /\ calls[c].operation = operation
  /\ calls' = [calls EXCEPT ![c] = [stage |-> "Answered",
                                    operation |-> operation,
                                    identity |-> identity]]
  /\ UNCHANGED <<records, queue, active, closed, uncertain, closing,
                 shutdown, alive, returned>>

AnswerSubmit(c) ==
  /\ Answer(c, "Submit", Identity(next))
  /\ Submit(calls[c].work)

AnswerCancel(c) ==
  /\ Answer(c, "Cancel", calls[c].identity)
  /\ Cancel(calls[c].identity)

AnswerRelease(c) ==
  /\ Answer(c, "Release", calls[c].identity)
  /\ Release(calls[c].identity)

(* The owner rejects the request, or the caller is cancelled while it      *)
(* waits: what the owner has done stands, and apply is not reached.        *)
Abandon(c) ==
  /\ Awake
  /\ calls[c] # Idle
  /\ calls' = [calls EXCEPT ![c] = Idle]
  /\ UNCHANGED <<ownerVars, records, queue, active, closed, uncertain,
                 closing, shutdown, alive, returned>>

Applied(c, operation) ==
  /\ Awake
  /\ calls[c].stage = "Answered"
  /\ calls[c].operation = operation
  /\ calls' = [calls EXCEPT ![c] = Idle]
  /\ UNCHANGED <<closed, closing, shutdown, alive, returned>>

(* `closed` is not looked at again: the record of a late answer is queued. *)
ApplySubmit(c) ==
  LET identity == calls[c].identity
  IN /\ Applied(c, "Submit")
     /\ UNCHANGED <<ownerVars, uncertain>>
     /\ Drain([i \in DOMAIN records \cup {identity} |->
                 IF i = identity THEN NewRecord ELSE records[i]],
              Append(queue, identity), active)

(* Fault: the cancelled record is left undone and stays in the queue. *)
CancelKeepsWaiting(identity) ==
  /\ CompleteExecution(identity, Cancelled)
  /\ records' = [records EXCEPT ![identity] = Stop(@, "cancel")]
  /\ UNCHANGED <<queue, active>>

(* A record that is done leaves the queue, where it is once (QueueWaits).  *)
Unqueue(identity) ==
  IF \E k \in 1..Len(queue) : queue[k] = identity
  THEN \E k \in 1..Len(queue) :
         /\ queue[k] = identity
         /\ queue' = SubSeq(queue, 1, k - 1) \o SubSeq(queue, k + 1, Len(queue))
  ELSE UNCHANGED queue

(* A record without a task is completed at once.                           *)
CancelWaiting(identity) ==
  /\ CompleteExecution(identity, Cancelled)
  /\ records' = [records EXCEPT ![identity] =
                   [Stop(@, "cancel") EXCEPT
                      !.done = Recorded(identity, Cancelled)]]
  /\ IF Recorded(identity, Cancelled) THEN Unqueue(identity)
     ELSE UNCHANGED queue
  /\ UNCHANGED active

CancelRunning(identity) ==
  /\ records' = [records EXCEPT ![identity] = Stop(@, "cancel")]
  /\ UNCHANGED <<ownerVars, uncertain, queue, active>>

ApplyCancel(c) ==
  LET identity == calls[c].identity
  IN /\ Applied(c, "Cancel")
     /\ IF HasRecord(identity) /\ ~records[identity].done
        THEN IF records[identity].task = "None"
             THEN CancelWaiting(identity)
             ELSE CancelRunning(identity)
        ELSE UNCHANGED <<ownerVars, uncertain, records, queue, active>>

ApplyRelease(c) ==
  /\ Applied(c, "Release")
  /\ records' = Restrict(records, DOMAIN records \ {calls[c].identity})
  /\ UNCHANGED <<ownerVars, uncertain, queue, active>>

-----------------------------------------------------------------------------
(* The run of a record. *)

Running(identity, task) ==
  /\ Awake
  /\ HasRecord(identity)
  /\ records[identity].task = task
  /\ UNCHANGED <<closed, calls, closing, shutdown>>

(* A record of the whole model is claimed by its identity, a selected one  *)
(* by its plan and policy.                                                 *)
ClaimRecord(identity) ==
  LET kind == executions[identity].work.kind
  IN IF kind = "Legacy" THEN Claim(identity)
     ELSE ClaimScheme(identity, identity.execution, kind)

Claimable(identity) ==
  Known(identity) /\ Latest(identity).state = "Submitted"

(* The run was stopped before it began. *)
SkipRun(identity) ==
  /\ Running(identity, "Spawned")
  /\ records[identity].stop # ""
  /\ EndRun(identity, records[identity], Cancelled)
  /\ UNCHANGED <<alive, returned>>

BeginRun(identity) ==
  /\ Running(identity, "Spawned")
  /\ records[identity].stop = ""
  /\ Claimable(identity)
  /\ ClaimRecord(identity)
  /\ records' = [records EXCEPT ![identity].task = "Claimed"]
  /\ UNCHANGED <<queue, active, uncertain, alive, returned>>

(* What is reported of a run that returned nothing. *)
Unreturned(record) ==
  IF record.stop \in {"cancel", "shutdown"} THEN Cancelled ELSE Failed

(* The claim is refused, or no process starts. *)
FailRun(identity) ==
  /\ \E task \in {"Spawned", "Claimed"} : Running(identity, task)
  /\ records[identity].task = "Spawned" =>
       records[identity].stop = "" /\ ~Claimable(identity)
  /\ LET record == Stop(records[identity], "fault")
     IN EndRun(identity, record, Unreturned(record))
  /\ UNCHANGED <<alive, returned>>

StartChild(identity) ==
  /\ Running(identity, "Claimed")
  /\ records' = [records EXCEPT ![identity].task = "Child"]
  /\ alive' = alive \cup {identity}
  /\ UNCHANGED <<ownerVars, queue, active, uncertain, returned>>

(* The child's input, frame, error output, time, memory or measurement     *)
(* fails; after the exit its streams still can.                            *)
FaultyChild(identity) ==
  /\ \E task \in {"Child", "Exited"} : Running(identity, task)
  /\ records[identity].stop = ""
  /\ records' = [records EXCEPT ![identity] = Stop(@, "fault")]
  /\ UNCHANGED <<ownerVars, queue, active, uncertain, alive, returned>>

(* The frame may be read after the process has exited. *)
CaptureFrame(identity, value) ==
  /\ \E task \in {"Child", "Exited"} : Running(identity, task)
  /\ records[identity].captured = NoValue
  /\ records' = [records EXCEPT ![identity].captured = value]
  /\ returned' = [returned EXCEPT ![identity] = value]
  /\ UNCHANGED <<ownerVars, queue, active, uncertain, alive>>

ExitChild(identity, code) ==
  /\ Running(identity, "Child")
  /\ records' = [records EXCEPT ![identity].task = "Exited",
                                ![identity].code = code]
  /\ alive' = alive \ {identity}
  /\ UNCHANGED <<ownerVars, queue, active, uncertain, returned>>

(* The exit is not confirmed: the worker stays taken, nothing is reported. *)
LoseChild(identity) ==
  /\ Running(identity, "Child")
  /\ records' = [records EXCEPT ![identity] =
                   [Stop(@, "fault") EXCEPT !.task = "Lost"]]
  /\ uncertain' = TRUE
  /\ UNCHANGED <<ownerVars, queue, active, alive, returned>>

(* The worker failed after it had returned its evidence. *)
FailedCleanup(record) ==
  record.stop = "fault" \/ (record.stop = "" /\ record.code # 0)

(* Fault: a cancellation discards what the worker has returned. *)
ReportCancelFirst(record) ==
  IF record.captured # NoValue /\ record.stop # "cancel"
  THEN Captured(record.captured, FailedCleanup(record))
  ELSE Unreturned(record)

(* What is reported of a process that exited. *)
Report(record) ==
  IF record.captured # NoValue
  THEN Captured(record.captured, FailedCleanup(record))
  ELSE Unreturned(record)

(* Both outputs have ended: the frame was captured or its failure noted.   *)
FinishRun(identity) ==
  LET record == records[identity]
  IN /\ Running(identity, "Exited")
     /\ record.captured # NoValue \/ record.stop # ""
     /\ EndRun(identity, record, Report(record))
     /\ UNCHANGED <<alive, returned>>

-----------------------------------------------------------------------------
(* Close and shutdown. *)

Undone(identity) == ~records[identity].done

(* Fault: what still waits in the queue is not completed. *)
CloseRunningOnly ==
  /\ Awake
  /\ closed' = TRUE
  /\ records' = [identity \in DOMAIN records |->
                   IF Undone(identity) THEN Stop(records[identity], "shutdown")
                   ELSE records[identity]]
  /\ closing' = {}
  /\ queue' = << >>
  /\ UNCHANGED <<ownerVars, active, uncertain, calls, alive, returned>>

CloseRecords ==
  /\ Awake
  /\ closed' = TRUE
  /\ records' = [identity \in DOMAIN records |->
                   IF Undone(identity) THEN Stop(records[identity], "shutdown")
                   ELSE records[identity]]
  /\ closing' = {identity \in DOMAIN records :
                   Undone(identity) /\ records[identity].task = "None"}
  /\ queue' = << >>
  /\ UNCHANGED <<ownerVars, active, uncertain, calls, alive, returned>>

Close == CloseRecords /\ UNCHANGED shutdown

CloseRecord(identity) ==
  /\ identity \in closing
  /\ CompleteExecution(identity, Cancelled)
  /\ records' = [records EXCEPT ![identity].done =
                   Recorded(identity, Cancelled)]
  /\ closing' = closing \ {identity}
  /\ UNCHANGED <<queue, active, closed, calls, shutdown, alive, returned>>

BeginShutdown ==
  /\ shutdown = "None"
  /\ CloseRecords
  /\ shutdown' = "Waiting"

(* Every task has been waited for. *)
EndShutdown ==
  /\ Awake
  /\ shutdown = "Waiting"
  /\ \A identity \in DOMAIN records :
       records[identity].task \in {"None", "Ended", "Lost"}
  /\ shutdown' = IF ~uncertain /\ active = 0 THEN "Returned" ELSE "Raised"
  /\ UNCHANGED <<ownerVars, records, queue, active, closed, uncertain, calls,
                 closing, alive, returned>>

-----------------------------------------------------------------------------
RunStep(identity) ==
  \/ SkipRun(identity)
  \/ BeginRun(identity)
  \/ FailRun(identity)
  \/ StartChild(identity)
  \/ \E code \in {0, 1} : ExitChild(identity, code)
  \/ LoseChild(identity)
  \/ FinishRun(identity)

ServiceNext ==
  \/ \E c \in Callers :
       \/ \E work \in Works : RequestSubmit(c, work)
       \/ \E operation \in Asked[c], identity \in Identities :
            RequestOn(c, operation, identity)
       \/ AnswerSubmit(c)
       \/ AnswerCancel(c)
       \/ AnswerRelease(c)
       \/ Abandon(c)
       \/ ApplySubmit(c)
       \/ ApplyCancel(c)
       \/ ApplyRelease(c)
  \/ \E identity \in Identities :
       \/ RunStep(identity)
       \/ FaultyChild(identity)
       \/ \E value \in Values : CaptureFrame(identity, value)
       \/ CloseRecord(identity)
  \/ Close
  \/ BeginShutdown
  \/ EndShutdown

(* The output of a process that exited ends, with a frame or without one.  *)
EndOutput(identity) ==
  /\ FaultyChild(identity)
  /\ records[identity].task = "Exited"

LoopStep ==
  \/ \E identity \in Identities :
       RunStep(identity) \/ EndOutput(identity) \/ CloseRecord(identity)
  \/ EndShutdown

(* The event loop goes on while a task can, and a child's time is limited: *)
(* at its deadline it is killed, so that its exit is seen or the wait for  *)
(* it fails.  Nothing is assumed of the callers.                           *)
ServiceFairness == WF_vars(LoopStep)

ServiceSpec == ServiceInit /\ [][ServiceNext]_vars
FairServiceSpec == ServiceSpec /\ ServiceFairness

-----------------------------------------------------------------------------
(* Properties. *)

Begun == {identity \in DOMAIN records :
            records[identity].task \notin {"None", "Ended"}}

Terminal(identity) ==
  Known(identity) /\ Latest(identity).state = "Terminal"

Records ==
  [task : Tasks, stop : Stops, done : BOOLEAN,
   captured : Values \cup {NoValue}, code : {0, 1}]

Requests ==
  {Idle}
  \cup [stage : {"Sent"}, operation : {"Submit"}, work : Works]
  \cup [stage : {"Sent"}, operation : {"Cancel", "Release"},
        identity : Identities]
  \cup [stage : {"Answered"}, operation : {"Submit", "Cancel", "Release"},
        identity : Identities]

ServiceTypeOK ==
  /\ DOMAIN records \subseteq Identities
  /\ records \in [DOMAIN records -> Records]
  /\ queue \in Seq(DOMAIN records)
  /\ active \in Nat
  /\ closed \in BOOLEAN
  /\ uncertain \in BOOLEAN
  /\ calls \in [Callers -> Requests]
  /\ closing \subseteq DOMAIN records
  /\ shutdown \in {"None", "Waiting", "Returned", "Raised"}
  /\ alive \subseteq Identities
  /\ returned \in [Identities -> Values \cup {NoValue}]

(* `active` counts the runs that have begun: at most two workers execute   *)
(* concurrently, a worker whose exit is not confirmed being one of them.   *)
SlotsCounted == active = Cardinality(Begun) /\ active <= Workers

(* A record waits in the queue once, and its execution is as submitted.    *)
QueueWaits ==
  /\ \A k \in 1..Len(queue) :
       LET record == records[queue[k]]
       IN record.task = "None" /\ ~record.done
  /\ \A j, k \in 1..Len(queue) : queue[j] = queue[k] => j = k

(* The loop of `drain` has nothing left to start.                          *)
DrainedOnce == closed \/ uncertain \/ active = Workers \/ queue = << >>

(* The owner says of an execution what its record has come to.             *)
RecordsAgree ==
  \A identity \in DOMAIN records :
    LET record == records[identity]
    IN /\ identity.execution < next
       /\ record.done => record.task \in {"None", "Ended"}
       /\ record.task = "Ended" => record.done
       /\ ~record.done /\ record.task \in {"None", "Spawned"} =>
            Known(identity) /\ Latest(identity).state = "Submitted"
       /\ record.task \in {"Claimed", "Child", "Exited", "Lost"} =>
            Known(identity) /\ Latest(identity).state = "Running"
       /\ record.done /\ Known(identity) => Terminal(identity)

(* Only a record that is done is forgotten, and nothing ends without one.  *)
TerminalRecorded ==
  \A identity \in DOMAIN executions :
    Terminal(identity) => HasRecord(identity) /\ records[identity].done

(* Answers that are still to be applied belong to executions that the      *)
(* service has not touched (submit) or has finished (release).             *)
AnswersStand ==
  /\ \A c \in Callers : calls[c].stage = "Answered" =>
       LET identity == calls[c].identity
       IN /\ calls[c].operation = "Submit" =>
               /\ ~HasRecord(identity)
               /\ Known(identity)
               /\ Latest(identity).state = "Submitted"
          /\ calls[c].operation = "Release" =>
               /\ ~Known(identity)
               /\ identity.execution < next
               /\ HasRecord(identity) => records[identity].done
  /\ \A c, d \in Callers :
       /\ calls[c].stage = "Answered" /\ calls[c].operation = "Submit"
       /\ calls[d].stage = "Answered" /\ calls[d].operation = "Submit"
       /\ calls[c].identity = calls[d].identity
       => c = d

(* What waits when the service closes is stopped and completed.            *)
ClosedStops ==
  /\ closed => \A identity \in Begun : records[identity].stop # ""
  /\ closing # {} => closed /\ queue = << >>
  /\ \A identity \in closing :
       LET record == records[identity]
       IN record.task = "None" /\ ~record.done /\ record.stop # ""

(* The service is uncertain because of a worker whose exit it did not see, *)
(* and of nothing else: completing a record does not fail.                 *)
UncertainIsLost ==
  uncertain <=> \E identity \in DOMAIN records : records[identity].task = "Lost"

(* A process that has not ended has its worker, and its execution is not   *)
(* terminal: failure to confirm an exit keeps the execution nonterminal.   *)
ExitConfirmed ==
  /\ alive = {identity \in DOMAIN records :
               records[identity].task \in {"Child", "Lost"}}
  /\ \A identity \in alive : ~Terminal(identity)

(* shutdown returns only when no process can be left, whatever was applied *)
(* since it began.                                                         *)
QuietAfterShutdown ==
  /\ shutdown # "None" => closed
  /\ shutdown = "Returned" => Begun = {} /\ alive = {}

(* A record holds what its worker returned; an execution that no worker    *)
(* has taken has returned nothing.                                         *)
ReturnsAgree ==
  /\ \A identity \in DOMAIN records : ~records[identity].done =>
       /\ records[identity].captured = returned[identity]
       /\ records[identity].task \in {"None", "Spawned", "Claimed"} =>
            returned[identity] = NoValue /\ records[identity].stop # "fault"
  /\ \A identity \in Identities :
       /\ ~HasRecord(identity)
       /\ \/ identity.execution >= next
          \/ Known(identity) /\ Latest(identity).state = "Submitted"
       => returned[identity] = NoValue

(* What makes the service keep its promises however requests, ends of      *)
(* processes and close interleave: the parts above, which hold together.   *)
ServiceInv ==
  /\ ServiceTypeOK
  /\ SlotsCounted
  /\ QueueWaits
  /\ DrainedOnce
  /\ RecordsAgree
  /\ TerminalRecorded
  /\ AnswersStand
  /\ ClosedStops
  /\ UncertainIsLost
  /\ ExitConfirmed
  /\ QuietAfterShutdown
  /\ ReturnsAgree

(* Returned outcomes survive a late cancellation (README of the native     *)
(* workers): what the worker returned is what the execution ends with,     *)
(* unless a receipt cannot carry it; and an execution is reported as       *)
(* cancelled only when it was stopped and nothing had been returned.       *)
ReturnedSurvives ==
  \A identity \in DOMAIN executions : Terminal(identity) =>
    LET outcomes == Latest(identity).outcomes
        value == returned[identity]
    IN /\ value \in Values \ (Large \cup Other) =>
            outcomes.status = "captured" /\ outcomes.value = value
       /\ outcomes = Cancelled =>
            /\ value = NoValue
            /\ HasRecord(identity) =>
                 records[identity].stop \in {"cancel", "shutdown"}

(* A record that the service has when it is open ends, by a worker or by   *)
(* close, unless an exit is not confirmed; and shutdown ends.              *)
AcceptedEnds ==
  /\ \A identity \in Identities :
       HasRecord(identity) /\ ~closed
         ~> uncertain \/ ~HasRecord(identity) \/ records[identity].done
  /\ shutdown = "Waiting" ~> shutdown \in {"Returned", "Raised"}

(* Every step of the service is a step of the owner or leaves it alone.    *)
KeepsOwner == OwnerSpec
=============================================================================
