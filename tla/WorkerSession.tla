---------------------------- MODULE WorkerSession ----------------------------
(***************************************************************************)
(* One MEP session between the host and a worker: the driver that runs a   *)
(* Conversation over a channel, the tasks that share the session, the      *)
(* channel's stop protocol and an arbitrary worker                         *)
(* (pkgs/morphir-host/worker/host_driver.mbt over the native process       *)
(* channel, worker/process/native/channel.mbt).                            *)
(*                                                                         *)
(* Tasks are cooperative: a task runs from one suspension point to the     *)
(* next, and one action is one such run.  pc[t] names the point at which   *)
(* task t is suspended:                                                    *)
(*   idle      has not used the session yet                                *)
(*   writing   in channel.send                                             *)
(*   reading   in channel.receive                                          *)
(*   ending    has decided how the worker is stopped                       *)
(*   grace     in channel.close, waiting for the worker to leave           *)
(*   lock      in the channel's finish, waiting for its lock               *)
(*   killing   holds that lock and stops the process tree                  *)
(*   stopped   the channel has returned the worker's stop                  *)
(*   waiting   in Session::close, waiting for `busy`                       *)
(*   body      the owner of with_session, running the caller's function    *)
(*   unwinding the owner, cancelled, waiting for the function's tasks      *)
(*   done      has returned or raised                                      *)
(***************************************************************************)
EXTENDS Conversation, Sequences, FiniteSets

CONSTANTS
  Opener,      \* the task that probes or activates the worker
  Callers,     \* tasks that make one compile or generate call
  Closers,     \* tasks that close the session
  NoTask,      \* nobody holds a mutex
  Scoped,      \* TRUE: the opener runs Host::with_session
  Modes,       \* what the opener does: a subset of {"probe", "activate"}
  Messages,    \* messages the worker may write to its stdout
  Failures,    \* ChannelErrors the transport may raise by itself
  MaxOutput    \* how many messages the worker writes at most

Tasks == {Opener} \cup Callers \cup Closers

ASSUME TasksAssumption ==
  /\ Opener \notin Callers \cup Closers
  /\ Callers \cap Closers = {}
  /\ NoTask \notin Tasks
ASSUME ConfigAssumption ==
  /\ Scoped \in BOOLEAN
  /\ Modes \subseteq {"probe", "activate"}
  /\ Failures \subseteq {"FrameInvalid", "ResponseFrameLimit",
                         "RequestFrameLimit", "TransportFailed"}
  /\ MaxOutput \in Nat
ASSUME MessagesAssumption ==
  \A m \in Messages :
    /\ m.kind \in {"result", "error", "notification", "request", "oversized"}
    /\ m.id \in Nat
    /\ m.body \in {"accept", "reject", "malformed"}

VARIABLES
  pc,            \* where each task is suspended
  local,         \* [Tasks -> [conv, step]]: the driver's locals
  want,          \* why a task stops the worker: a StopReason or "LeaderExited"
  then,          \* what a task does with the stop the channel returns
  doomed,        \* tasks cancelled inside a section protected from cancellation
  outcome,       \* what each task returned or raised
  opened,        \* the Session exists
  conversation,  \* Session.conversation
  busy,          \* the holder of Session.busy
  report,        \* Session.report
  stop,          \* the channel's first stop
  finisher,      \* the holder of the channel's lock
  worker,        \* the worker process
  output,        \* messages the worker wrote and the host has not read
  requested,     \* the caller's stop signal is set
  expired,       \* the session deadline has passed
  written,       \* how many messages the worker has written
  wire,          \* history: every message put on the worker's stdin
  overrun,       \* history: messages put there after a stop or the deadline
  accepted       \* history: IDs of the replies the session accepted, in order

driver  == <<pc, local, want, then, doomed, outcome>>
session == <<opened, conversation, busy, report>>
channel == <<stop, finisher, worker, output>>
clock   == <<requested, expired>>
history == <<wire, overrun, accepted>>
vars == <<driver, session, channel, clock, written, history>>

-----------------------------------------------------------------------------
(* Values. *)

NoStop == [status |-> "None", reason |-> "None"]
Stops == {NoStop} \cup
         [status : {"Exited", "Terminated", "Unconfirmed"}, reason : StopReasons]

SessionReport(worker_stop, ending) == [stop |-> worker_stop, ending |-> ending]
NoReport == SessionReport(NoStop, NoEnding)

Outcome(kind, ending, rep) == [kind |-> kind, ending |-> ending, report |-> rep]
NoOutcome == Outcome("none", NoEnding, NoReport)

(* Fault: a pending operation does not watch the deadline.                 *)
InterruptsWithoutDeadline == IF requested THEN {"StopRequested"} ELSE {}

Interrupts == (IF requested THEN {"StopRequested"} ELSE {}) \cup
              (IF expired THEN {"DeadlinePassed"} ELSE {})

Others == Tasks \ {Opener}
Idle(t) == pc[t] \in {"idle", "done"}

Init ==
  /\ pc = [t \in Tasks |-> "idle"]
  /\ local = [t \in Tasks |-> [conv |-> NoConversation,
                               step |-> Exchange(NoMessage)]]
  /\ want = [t \in Tasks |-> "Fault"]
  /\ then = [t \in Tasks |-> "settle"]
  /\ doomed = {}
  /\ outcome = [t \in Tasks |-> NoOutcome]
  /\ opened = FALSE
  /\ conversation = NoConversation
  /\ busy = NoTask
  /\ report = NoReport
  /\ stop = NoStop
  /\ finisher = NoTask
  /\ worker = "none"
  /\ output = <<>>
  /\ requested = FALSE
  /\ expired = FALSE
  /\ written = 0
  /\ wire = <<>>
  /\ overrun = 0
  /\ accepted = <<>>

-----------------------------------------------------------------------------
(* The driver. *)

(* Running::race reads the stop signal, then the deadline, before it       *)
(* starts an operation.  A message of a Finished step that cannot be sent  *)
(* only changes how the worker is stopped.                                 *)
Fail(next, event) ==
  IF next.step.then = "finished"
  THEN [next EXCEPT !.step.send = NoMessage, !.step.plan = after(event)]
  ELSE on(next.conv, event)

(* Fault: an operation starts without a look at the stop and the deadline. *)
EnteredUnchecked(next) == next

Races(step) == step.send # NoMessage \/ step.then = "exchange"

Entered(next) ==
  IF ~Races(next.step) THEN next
  ELSE IF requested THEN Fail(next, "StopRequested")
  ELSE IF expired THEN Fail(next, "DeadlinePassed")
  ELSE next

(* The suspension point of a step. *)
PointOf(step) ==
  IF step.send # NoMessage THEN "writing"
  ELSE CASE step.then = "exchange" -> "reading"
         [] step.then = "finished" -> "ending"
         [] OTHER -> "paused"

(* Running::drive_steps takes up the step `next`. *)
Drive(t, next) ==
  /\ local' = [local EXCEPT ![t] = Entered(next)]
  /\ pc' = [pc EXCEPT ![t] = PointOf(Entered(next).step)]

(* The task has left the session's functions. *)
Leave(t, result) ==
  /\ pc' = [pc EXCEPT ![t] = "done"]
  /\ outcome' = [outcome EXCEPT ![t] = result]
  /\ doomed' = doomed \ {t}

Raised == Outcome("raised", NoEnding, NoReport)
Unavailable == Outcome("unavailable", NoEnding, NoReport)

(* Fault: whoever leaves keeps `busy`.                                     *)
ReleaseNothing(t) == UNCHANGED busy

(* Session.busy is released by the `defer` of whoever holds it. *)
Release(t) == busy' = IF busy = t THEN NoTask ELSE busy

Send(t) ==
  /\ pc[t] = "writing"
  /\ stop = NoStop
  /\ finisher = NoTask
  /\ worker = "running"
  /\ wire' = Append(wire, local[t].step.send)
  /\ overrun' = IF Interrupts = {} THEN 0 ELSE overrun + 1
  /\ Drive(t, [local[t] EXCEPT !.step.send = NoMessage])
  /\ UNCHANGED <<want, then, doomed, outcome, session, channel, clock,
                 written, accepted>>

(* What a send or a receive may raise in the current state of the channel. *)
SendErrors ==
  (IF stop # NoStop THEN {"Stopped"} ELSE {}) \cup
  (IF worker # "running" \/ finisher # NoTask
   THEN {"WorkerClosed", "TransportFailed"} ELSE {}) \cup
  (Failures \cap {"TransportFailed", "RequestFrameLimit"})

ReceiveErrors ==
  (IF stop # NoStop \/ finisher # NoTask THEN {"Stopped"} ELSE {}) \cup
  (IF worker = "exited" /\ output = <<>> THEN {"WorkerClosed"} ELSE {}) \cup
  (Failures \cap {"TransportFailed"})

SendFails(t) ==
  /\ pc[t] = "writing"
  /\ \E error \in SendErrors : Drive(t, Fail(local[t], error))
  /\ UNCHANGED <<want, then, doomed, outcome, session, channel, clock,
                 written, history>>

ReceiveFails(t) ==
  /\ pc[t] = "reading"
  /\ \E error \in ReceiveErrors : Drive(t, Fail(local[t], error))
  /\ UNCHANGED <<want, then, doomed, outcome, session, channel, clock,
                 written, history>>

(* A stop or the deadline interrupts a pending send or receive. *)
Interrupt(t) ==
  /\ pc[t] \in {"writing", "reading"}
  /\ \E event \in Interrupts : Drive(t, Fail(local[t], event))
  /\ UNCHANGED <<want, then, doomed, outcome, session, channel, clock,
                 written, history>>

Receive(t) ==
  /\ pc[t] = "reading"
  /\ stop = NoStop
  /\ output # <<>>
  /\ LET message == Head(output)
         conv == local[t].conv IN
       /\ output' = Tail(output)
       /\ Drive(t, received(conv, message))
       /\ accepted' = IF conv.pending # 0 /\ IsReplyTo(conv.pending, message)
                      THEN Append(accepted, message.id) ELSE accepted
  /\ UNCHANGED <<want, then, doomed, outcome, session, stop, finisher, worker,
                 clock, written, wire, overrun>>

(* A frame that is malformed or too large: the channel stops the worker's  *)
(* tree before it raises the fault.                                        *)
FrameFault(t) ==
  /\ pc[t] = "reading"
  /\ stop = NoStop
  /\ \E error \in Failures \cap {"FrameInvalid", "ResponseFrameLimit"} :
       then' = [then EXCEPT ![t] = error]
  /\ want' = [want EXCEPT ![t] = "Fault"]
  /\ pc' = [pc EXCEPT ![t] = "lock"]
  /\ UNCHANGED <<local, doomed, outcome, session, channel, clock, written,
                 history>>

-----------------------------------------------------------------------------
(* Stopping the worker: close, abort and finish of the channel. *)

(* Fault: an abort that takes no lock and looks at no earlier stop.        *)
AbortUnlocked(t, reason, next) ==
  /\ then' = [then EXCEPT ![t] = next]
  /\ want' = [want EXCEPT ![t] = reason]
  /\ pc' = [pc EXCEPT ![t] = "killing"]

(* Channel abort(reason); the task goes on as `next` says. *)
Abort(t, reason, next) ==
  /\ then' = [then EXCEPT ![t] = next]
  /\ want' = [want EXCEPT ![t] = reason]
  /\ pc' = [pc EXCEPT ![t] = IF stop # NoStop THEN "stopped" ELSE "lock"]

StopWorker(t) ==
  /\ pc[t] = "ending"
  /\ IF local[t].step.plan = "CloseAfterExit"
     THEN /\ pc' = [pc EXCEPT ![t] = IF stop # NoStop THEN "stopped"
                                                      ELSE "grace"]
          /\ then' = [then EXCEPT ![t] = "settle"]
          /\ UNCHANGED want
     ELSE Abort(t, local[t].step.plan, "settle")
  /\ UNCHANGED <<local, doomed, outcome, session, channel, clock, written,
                 history>>

(* The wait for the worker ends: it left, or the grace period is over. *)
GraceEnds(t) ==
  /\ pc[t] = "grace"
  /\ \/ /\ worker = "exited"
        /\ want' = [want EXCEPT ![t] = "LeaderExited"]
     \/ want' = [want EXCEPT ![t] = "GraceExpired"]
  /\ pc' = [pc EXCEPT ![t] = "lock"]
  /\ UNCHANGED <<local, then, doomed, outcome, session, channel, clock,
                 written, history>>

(* The first task to take the lock stops the tree; a later one returns the *)
(* stop of the first.                                                      *)
TakeLock(t) ==
  /\ pc[t] = "lock"
  /\ finisher = NoTask
  /\ IF stop # NoStop
     THEN /\ pc' = [pc EXCEPT ![t] = "stopped"]
          /\ UNCHANGED finisher
     ELSE /\ pc' = [pc EXCEPT ![t] = "killing"]
          /\ finisher' = t
  /\ UNCHANGED <<local, want, then, doomed, outcome, session, stop, worker,
                 output, clock, written, history>>

(* The tree is gone and its private directory with it, or the host could   *)
(* not confirm both.                                                        *)
Status(reason, confirmed) ==
  CASE reason = "LeaderExited" /\ confirmed ->
         [status |-> "Exited", reason |-> "GraceExpired"]
    [] reason = "LeaderExited" /\ ~confirmed ->
         [status |-> "Unconfirmed", reason |-> "GraceExpired"]
    [] OTHER -> [status |-> IF confirmed THEN "Terminated" ELSE "Unconfirmed",
                 reason |-> reason]

Kill(t) ==
  /\ pc[t] = "killing"
  /\ \E gone, removed \in BOOLEAN :
       /\ stop' = Status(want[t], gone /\ removed)
       /\ worker' = IF gone THEN "exited" ELSE worker
  /\ finisher' = NoTask
  /\ pc' = [pc EXCEPT ![t] = "stopped"]
  /\ UNCHANGED <<local, want, then, doomed, outcome, session, output, clock,
                 written, history>>

-----------------------------------------------------------------------------
(* Host::start, Host::probe and Host::activate. *)

(* A check before the launch, or the launch itself, fails: no worker runs. *)
StartFails ==
  /\ pc[Opener] = "idle"
  /\ \E ending \in {Refused("platform_mismatch"), Failed("incomplete_session")}
                   \cup (IF requested THEN {Cancelled} ELSE {})
                   \cup (IF expired THEN {DeadlinePassed} ELSE {}) :
       Leave(Opener, Outcome("unstarted", ending, NoReport))
  /\ UNCHANGED <<local, want, then, session, channel, clock, written, history>>

Start ==
  /\ pc[Opener] = "idle"
  /\ worker' = "running"
  /\ \E mode \in Modes : Drive(Opener, IF mode = "probe" THEN probe ELSE activate)
  /\ UNCHANGED <<want, then, doomed, outcome, session, stop, finisher, output,
                 clock, written, history>>

(* A worker that stopped while it was probed or activated. *)
OpenerSettles ==
  LET conclusion == local[Opener].step.conclusion IN
  Leave(Opener, Outcome(IF conclusion.kind = "Described" THEN "described"
                                                         ELSE "ended",
                        conclusion.ending, SessionReport(stop, conclusion.ending)))

-----------------------------------------------------------------------------
(* Session::compile, generate, close and cancel. *)

InBody == opened /\ (Scoped => pc[Opener] = "body")

(* Session::ready and Conversation::call.  A call refused by its checks    *)
(* sends nothing and leaves the session ready.                             *)
Call(t) ==
  /\ pc[t] = "idle"
  /\ InBody
  /\ IF report # NoReport \/ busy # NoTask \/ ~Callable(conversation)
     THEN /\ Leave(t, Unavailable)
          /\ UNCHANGED <<local, busy>>
     ELSE \/ /\ Leave(t, Outcome("answered", refuse(conversation).step.answer,
                                 NoReport))
             /\ UNCHANGED <<local, busy>>
          \/ /\ busy' = t
             /\ Drive(t, call(conversation))
             /\ UNCHANGED <<outcome, doomed>>
  /\ UNCHANGED <<want, then, opened, conversation, report, channel, clock,
                 written, history>>

(* A step that returns to the caller with the worker still running. *)
Pause(t) ==
  /\ pc[t] = "paused"
  /\ conversation' = local[t].conv
  /\ Release(t)
  /\ IF t = Opener
     THEN /\ opened' = TRUE
          /\ IF Scoped
             THEN /\ pc' = [pc EXCEPT ![t] = "body"]
                  /\ UNCHANGED <<outcome, doomed>>
             ELSE Leave(t, Outcome("opened", NoEnding, NoReport))
     ELSE /\ Leave(t, Outcome("answered", local[t].step.answer, NoReport))
          /\ UNCHANGED opened
  /\ UNCHANGED <<local, want, then, report, channel, clock, written, history>>

StartClose(t) ==
  /\ pc[t] = "idle"
  /\ InBody
  /\ pc' = [pc EXCEPT ![t] = "waiting"]
  /\ UNCHANGED <<local, want, then, doomed, outcome, session, channel, clock,
                 written, history>>

(* Session::close, once it holds `busy`. *)
Close(t) ==
  /\ pc[t] = "waiting"
  /\ busy = NoTask
  /\ IF report # NoReport
     THEN /\ Leave(t, Outcome("reported", report.ending, report))
          /\ UNCHANGED <<local, want, then, busy>>
     ELSE /\ busy' = t
          /\ UNCHANGED <<doomed, outcome>>
          /\ IF Closable(conversation)
             THEN /\ Drive(t, close(conversation))
                  /\ UNCHANGED <<want, then>>
             ELSE /\ Abort(t, "Fault", "abandon")
                  /\ UNCHANGED local
  /\ UNCHANGED <<opened, conversation, report, channel, clock, written, history>>

(* Session::finish: records the report of the session. *)
Settle(t) ==
  LET conclusion == local[t].step.conclusion
      ending == IF then[t] = "abandon" THEN NoEnding ELSE conclusion.ending
      kind == IF t \in Callers THEN "answered" ELSE "reported" IN
  /\ pc[t] = "stopped"
  /\ then[t] \in {"settle", "abandon"}
  /\ IF t = Opener /\ ~opened
     THEN /\ OpenerSettles
          /\ UNCHANGED <<conversation, report, busy>>
     ELSE /\ conversation' = IF then[t] = "abandon" THEN conversation
                                                    ELSE local[t].conv
          /\ report' = SessionReport(stop, ending)
          /\ Leave(t, Outcome(kind, ending, report'))
          /\ Release(t)
  /\ UNCHANGED <<local, want, then, opened, channel, clock, written, history>>

(* The channel raised the fault of a frame after it stopped the tree. *)
FrameFaulted(t) ==
  /\ pc[t] = "stopped"
  /\ then[t] \in ChannelErrors
  /\ Drive(t, Fail(local[t], then[t]))
  /\ UNCHANGED <<want, then, doomed, outcome, session, channel, clock, written,
                 history>>

-----------------------------------------------------------------------------
(* Cancellation of a task. *)

(* Fault: a cancelled exchange leaves without stopping the worker.         *)
CancelDriveUnstopped(t) ==
  /\ pc[t] \in {"writing", "reading"}
  /\ Leave(t, Raised)
  /\ Release(t)
  /\ UNCHANGED <<local, want, then, opened, conversation, report, channel,
                 clock, written, history>>

(* cleanup_on_cancel in Running::drive: the worker is aborted at once.     *)
CancelDrive(t) ==
  /\ pc[t] \in {"writing", "reading"}
  /\ Abort(t, "Cancelled", "raise")
  /\ UNCHANGED <<local, doomed, outcome, session, channel, clock, written,
                 history>>

(* In Session::close while another task holds `busy`: the acquire raises.  *)
CancelWait(t) ==
  /\ pc[t] = "waiting"
  /\ busy # NoTask
  /\ Leave(t, Raised)
  /\ UNCHANGED <<local, want, then, session, channel, clock, written, history>>

(* The channel's close turns a cancelled wait into an abort. *)
CancelGrace(t) ==
  /\ pc[t] = "grace"
  /\ want' = [want EXCEPT ![t] = "Cancelled"]
  /\ pc' = [pc EXCEPT ![t] = "lock"]
  /\ doomed' = doomed \cup {t}
  /\ UNCHANGED <<local, then, outcome, session, channel, clock, written, history>>

(* The channel's finish is protected: the cancellation waits for its end.  *)
CancelFinish(t) ==
  /\ pc[t] \in {"lock", "killing"}
  /\ then[t] \notin {"raise", "cancel"}
  /\ t \notin doomed
  /\ doomed' = doomed \cup {t}
  /\ UNCHANGED <<pc, local, want, then, outcome, session, channel, clock,
                 written, history>>

(* The cancellation reaches the task: at the end of the cleanup, or after  *)
(* a protected section (the event loop may also let the value through, and *)
(* then Settle returns it).  The conversation of the exchange is dropped.  *)
Raise(t) ==
  /\ pc[t] = "stopped"
  /\ then[t] = "raise" \/ (t \in doomed /\ then[t] # "cancel")
  /\ Leave(t, Raised)
  /\ Release(t)
  /\ UNCHANGED <<local, want, then, opened, conversation, report, channel,
                 clock, written, history>>

(* Host::with_session. *)

(* The caller's function returns or raises once its own tasks are done.    *)
BodyReturns ==
  /\ pc[Opener] = "body"
  /\ \A t \in Others : Idle(t)
  /\ pc' = [pc EXCEPT ![Opener] = "waiting"]
  /\ UNCHANGED <<local, want, then, doomed, outcome, session, channel, clock,
                 written, history>>

CancelBody ==
  /\ pc[Opener] = "body"
  /\ pc' = [pc EXCEPT ![Opener] = "unwinding"]
  /\ UNCHANGED <<local, want, then, doomed, outcome, session, channel, clock,
                 written, history>>

(* Fault: the session is cancelled under the tasks that still use it.      *)
SessionCancelEarly ==
  /\ pc[Opener] = "unwinding"
  /\ report = NoReport
  /\ Abort(Opener, "Cancelled", "cancel")
  /\ UNCHANGED <<local, outcome, doomed, session, channel, clock, written, history>>

(* Session::cancel, after the tasks of the function have been unwound.     *)
SessionCancel ==
  /\ pc[Opener] = "unwinding"
  /\ \A t \in Others : Idle(t)
  /\ IF report = NoReport
     THEN /\ Abort(Opener, "Cancelled", "cancel")
          /\ UNCHANGED <<outcome, doomed>>
     ELSE /\ Leave(Opener, Raised)
          /\ UNCHANGED <<want, then>>
  /\ UNCHANGED <<local, session, channel, clock, written, history>>

SessionCancelled ==
  /\ pc[Opener] = "stopped"
  /\ then[Opener] = "cancel"
  /\ report' = SessionReport(stop, Cancelled)
  /\ Leave(Opener, Raised)
  /\ UNCHANGED <<local, want, then, opened, conversation, busy, channel, clock,
                 written, history>>

-----------------------------------------------------------------------------
(* The worker, the caller's stop signal and the clock. *)

WorkerWrites ==
  /\ worker = "running"
  /\ written < MaxOutput
  /\ \E m \in Messages : output' = Append(output, m)
  /\ written' = written + 1
  /\ UNCHANGED <<driver, session, stop, finisher, worker, clock, history>>

WorkerExits ==
  /\ worker = "running"
  /\ worker' = "exited"
  /\ UNCHANGED <<driver, session, stop, finisher, output, clock, written, history>>

RequestStop ==
  /\ ~requested
  /\ requested' = TRUE
  /\ UNCHANGED <<driver, session, channel, expired, written, history>>

Expire ==
  /\ ~expired
  /\ expired' = TRUE
  /\ UNCHANGED <<driver, session, channel, requested, written, history>>

-----------------------------------------------------------------------------

Drives(t) ==
  \/ Send(t) \/ SendFails(t) \/ Receive(t) \/ ReceiveFails(t)
  \/ Interrupt(t) \/ FrameFault(t) \/ FrameFaulted(t) \/ Pause(t)

Stops_(t) == StopWorker(t) \/ GraceEnds(t) \/ TakeLock(t) \/ Kill(t)

Cancels(t) == CancelDrive(t) \/ CancelWait(t) \/ CancelGrace(t) \/ CancelFinish(t)

Opens == Start \/ StartFails

Finishes(t) == Settle(t) \/ Raise(t) \/ Close(t)

Scope == BodyReturns \/ SessionCancel \/ SessionCancelled

Environment == WorkerWrites \/ WorkerExits \/ RequestStop \/ Expire

(* Every task that used the session has left it. *)
Quiet == (\A t \in Tasks : Idle(t)) /\ UNCHANGED vars

Next ==
  \/ \E t \in Tasks : Drives(t) \/ Stops_(t) \/ Finishes(t) \/ Cancels(t)
  \/ \E t \in Callers : Call(t)
  \/ \E t \in Closers : StartClose(t)
  \/ Opens \/ Scope \/ CancelBody
  \/ Environment
  \/ Quiet

Spec == Init /\ [][Next]_vars

(* The scheduler runs every task that can run, time passes, and a function *)
(* given to with_session returns.  Nothing is assumed of the worker.       *)
Fairness ==
  /\ \A t \in Tasks : WF_vars(Drives(t) \/ Stops_(t) \/ Finishes(t))
  /\ WF_vars(Scope)
  /\ WF_vars(Expire)

FairSpec == Spec /\ Fairness

-----------------------------------------------------------------------------
(* Properties. *)

Points == {"idle", "writing", "reading", "paused", "ending", "grace", "lock",
           "killing", "stopped", "waiting", "body", "unwinding", "done"}

OutcomeKinds == {"none", "unstarted", "described", "ended", "opened", "answered",
                 "unavailable", "reported", "raised"}
Reports == [stop : Stops, ending : Endings]
Outcomes == [kind : OutcomeKinds, ending : Endings, report : Reports]

(* The shape of the state. *)
TypeOK ==
  /\ pc \in [Tasks -> Points]
  /\ local \in [Tasks -> Moves]
  /\ want \in [Tasks -> StopReasons \cup {"LeaderExited"}]
  /\ then \in [Tasks -> {"settle", "abandon", "raise", "cancel"} \cup ChannelErrors]
  /\ doomed \subseteq Tasks
  /\ outcome \in [Tasks -> Outcomes]
  /\ opened \in BOOLEAN
  /\ conversation \in Conversations
  /\ busy \in Tasks \cup {NoTask}
  /\ report \in Reports
  /\ stop \in Stops
  /\ finisher \in Tasks \cup {NoTask}
  /\ worker \in {"none", "running", "exited"}
  /\ output \in Seq(Messages)
  /\ requested \in BOOLEAN
  /\ expired \in BOOLEAN
  /\ written \in 0..MaxOutput
  /\ wire \in Seq(Sent)
  /\ overrun \in Nat
  /\ accepted \in Seq(Nat)

(* The requests among messages, in their order (SelectSeq, in a form that  *)
(* can be reasoned about).                                                 *)
RequestsOf(messages) ==
  LET upto[n \in 0..Len(messages)] ==
        IF n = 0 THEN <<>>
        ELSE IF IsRequest(messages[n]) THEN Append(upto[n - 1], messages[n])
             ELSE upto[n - 1]
  IN upto[Len(messages)]

Requests == RequestsOf(wire)
Last == IF wire = <<>> THEN "start" ELSE wire[Len(wire)].method
Operations == {n \in 1..Len(wire) : wire[n].method = "operation"}

(* One request at a time: the n-th request on the wire has ID n and is     *)
(* written only after the reply to request n - 1 was accepted, whichever   *)
(* tasks call, close and are cancelled.  A cancelled exchange leaves       *)
(* Session.conversation as it was before it, so its ID would be used again *)
(* and its request would still be open: only the abort that precedes the   *)
(* release of `busy` keeps the next exchange off the wire.  And a session  *)
(* serves one operation: the second call of any task is refused before it  *)
(* is written.                                                             *)
LockStep ==
  /\ \A n \in 1..Len(Requests) : Requests[n].id = n
  /\ \A n \in 1..Len(accepted) : accepted[n] = n
  /\ Len(accepted) \in {Len(Requests), Len(Requests) - 1}
  /\ Cardinality(Operations) <= 1

(* After the stop signal or the deadline the host writes at most the       *)
(* message it was already writing: no exit, no shutdown, no next request.  *)
QuietAfterInterrupt == overrun <= 1

(* A report exists only for a worker that the channel has stopped, and it  *)
(* gives that first stop.                                                  *)
ReportGivesTheStop == report # NoReport => stop # NoStop /\ report.stop = stop

(* Every close of a session returns the same report.                       *)
SameReport ==
  \A t \in Tasks : outcome[t].kind = "reported" => outcome[t].report = report

(* The worker was asked to shut down and answered.                         *)
ShutdownAnswered ==
  /\ Requests # <<>>
  /\ Requests[Len(Requests)].method = "shutdown"
  /\ Len(accepted) = Len(Requests)

(* A report without an ending means that the worker answered `shutdown`.   *)
CleanMeansAnswered ==
  (report # NoReport /\ report.ending = NoEnding) => ShutdownAnswered

(* A probe, an activation, a call or a close that does not leave a running *)
(* session behind leaves a stopped worker behind.                          *)
NoOrphan ==
  /\ outcome[Opener].kind \in {"described", "ended", "raised"} => stop # NoStop
  /\ outcome[Opener].kind = "unstarted" => worker = "none"
  /\ \A t \in Callers : outcome[t].kind = "raised" => stop # NoStop

(* Session::close finds a session that it can close: no exchange leaves a  *)
(* conversation in the middle of a request without a report.               *)
AlwaysClosable ==
  (opened /\ busy = NoTask /\ report = NoReport) => Closable(conversation)

(* The channel's first stop is the one every later stop returns.           *)
FirstStopStands == [][stop # NoStop => stop' = stop]_vars

(* A session that refuses its worker ends as refused, whatever then        *)
(* happens to the shutdown: a bad answer, a fault, a stop or the deadline. *)
RefusalStands ==
  [][\A t \in Tasks : local[t].conv.phase = "Refusing" =>
       \/ local'[t].conv = local[t].conv
       \/ local'[t].step.conclusion = EndedEarly(local[t].conv.refusal)]_vars

(* The session keeps the order that the protocol promises to the worker:   *)
(* what is on the wire refines SessionOrder.                               *)
Order == INSTANCE SessionOrder WITH
  last <- Last,
  awaiting <- Len(accepted) # Len(Requests),
  stopped <- stop # NoStop

KeepsSessionOrder == Order!Spec

(* Every task that starts to use the session returns or raises.            *)
EveryTaskFinishes ==
  \A t \in Tasks : pc[t] \notin {"idle", "body"} ~> pc[t] \in {"body", "done"}

(* Host::with_session always ends the session it activated.                *)
ScopedSessionEnds == (Scoped /\ opened) ~> stop # NoStop

-----------------------------------------------------------------------------
(* The inductive invariant behind the safety properties, in named parts.    *)

Exchanging(t) == pc[t] \in {"writing", "reading", "paused", "ending", "grace",
                            "lock", "killing", "stopped"}

(* The channel's lock: one task stops the worker, and only once.           *)
StopIsOwned ==
  /\ \A t \in Tasks : pc[t] = "killing" <=> finisher = t
  /\ finisher # NoTask => stop = NoStop
  /\ \A t \in Tasks : pc[t] = "stopped" => stop # NoStop

(* Before the session exists the opener alone is at work.                  *)
OpenerFirst ==
  /\ ~opened => /\ busy = NoTask
                /\ report = NoReport
                /\ \A t \in Others : pc[t] = "idle"
  /\ pc[Opener] \in {"body", "unwinding", "waiting"} => opened /\ Scoped
  /\ opened /\ ~Scoped => pc[Opener] = "done"
  /\ pc[Opener] = "idle" \/ outcome[Opener].kind = "unstarted" =>
       worker = "none" /\ ~opened /\ Idle(Opener)
  /\ pc[Opener] = "idle" => outcome[Opener].kind # "unstarted"

(* Session.busy: its holder is in an exchange, and an exchange of a session *)
(* that exists holds it, except for the abort of Session::cancel, which     *)
(* runs when no other task of with_session is left.                         *)
BusyIsHeld ==
  /\ \A t \in Tasks : busy = t => Exchanging(t)
  /\ \A t \in Tasks : opened /\ Exchanging(t) => busy = t \/ then[t] = "cancel"
  /\ \A t \in Others : then[t] # "cancel" /\ (t \in Callers => pc[t] # "waiting")
  /\ then[Opener] = "cancel" =>
       /\ opened /\ Scoped /\ busy = NoTask
       /\ pc[Opener] \in {"lock", "killing", "stopped", "done"}
  /\ opened /\ Scoped /\ pc[Opener] \notin {"body", "unwinding"} =>
       \A t \in Others : Idle(t)

(* An exchange that holds `busy`, or the cancellation, is about to make the *)
(* report: there is none yet.                                               *)
ReportIsLast ==
  /\ \A t \in Tasks : opened /\ Exchanging(t) => report = NoReport
  /\ \A t \in Tasks : outcome[t].kind = "reported" => report # NoReport

(* A step that leaves the worker running leaves a session that a close can *)
(* shut down.                                                               *)
Resumable(next) ==
  next.step.then \in {"activated", "answered"} => Closable(next.conv)

PausesClosable ==
  /\ \A t \in Tasks : Resumable(local[t])
  /\ \A t \in Tasks :
       pc[t] = "paused" => local[t].step.then \in {"activated", "answered"}
  /\ opened /\ report = NoReport => Closable(conversation)

SessionInv ==
  /\ StopIsOwned
  /\ OpenerFirst
  /\ BusyIsHeld
  /\ ReportIsLast
  /\ PausesClosable
  /\ ReportGivesTheStop
  /\ SameReport
  /\ NoOrphan

-----------------------------------------------------------------------------
(* The history: the conversation of the task that is in an exchange, or of *)
(* the session between two exchanges, agrees with the wire for as long as  *)
(* the worker is not stopped.                                              *)

(* The phases that wait for a reply, and the message that leads to a phase. *)
Asking == {"Describing", "Initializing", "Refusing", "Calling", "ShuttingDown"}
Led == [Describing |-> "describe", Initializing |-> "initialize",
        Ready |-> "initialized", Calling |-> "operation",
        Called |-> "operation", Refusing |-> "shutdown",
        ShuttingDown |-> "shutdown", Over |-> "exit"]

(* A conversation whose next message is `message`, NoMessage once it is     *)
(* written, agrees with a wire that ends with `last` after `asked` requests *)
(* of which `answered` have their reply.                                    *)
Agrees(conv, message, last, asked, answered) ==
  LET asks == conv.phase \in Asking IN
  /\ conv.pending = IF asks THEN conv.next_id - 1 ELSE 0
  /\ IF message = NoMessage
     THEN conv.phase # "Over" =>
            /\ last = Led[conv.phase]
            /\ conv.next_id = asked + 1
            /\ asked = IF asks THEN answered + 1 ELSE answered
     ELSE /\ conv.phase # "Called"
          /\ message = Message(Led[conv.phase], IF asks THEN asked + 1 ELSE 0)
          /\ message.method \in Order!Follow[last]
          /\ asked = answered
          /\ conv.phase # "Over" =>
               conv.next_id = IF asks THEN asked + 2 ELSE asked + 1

AgreesWithWire(conv, message) ==
  Agrees(conv, message, Last, Len(Requests), Len(accepted))

Active(t) == Exchanging(t) /\ then[t] # "cancel"

WireAgrees ==
  /\ pc[Opener] = "idle" => wire = <<>> /\ accepted = <<>>
  /\ stop = NoStop =>
       /\ \A t \in Tasks :
            Active(t) => AgreesWithWire(local[t].conv, local[t].step.send)
       /\ opened /\ busy = NoTask => AgreesWithWire(conversation, NoMessage)

(* What the last message says of those before it.                           *)
LastTells ==
  /\ Last \in DOMAIN Order!Follow
  /\ Last \in Order!Requests =>
       Requests # <<>> /\ Requests[Len(Requests)].method = Last
  /\ Last \in {"start", "describe", "initialize", "initialized"} =>
       Operations = {}

(* A step has a conclusion exactly when it ends the conversation, and only  *)
(* a probe and an answered shutdown conclude without an ending.             *)
Concludes(next) ==
  /\ next.step.then = "finished" <=> next.step.conclusion # NoConclusion
  /\ next.step.then = "finished" =>
       next.conv.phase = "Over" /\ next.conv.pending = 0
  /\ next.step.conclusion.ending = NoEnding =>
       next.step.conclusion \in {NoConclusion, Described, Closed}
  /\ next.conv.phase = "Refusing" => next.conv.refusal # NoEnding

(* The suspension points from which a task concludes.                       *)
Concluding(t) ==
  \/ pc[t] \in {"ending", "grace"}
  \/ pc[t] \in {"lock", "killing", "stopped"} /\ then[t] = "settle"

StepAgrees(t) ==
  /\ Concludes(local[t])
  /\ pc[t] = "writing" => local[t].step.send # NoMessage
  /\ pc[t] \in {"reading", "paused"} => local[t].step.send = NoMessage
  /\ Concluding(t) => local[t].step.then = "finished"
  /\ then[t] # "abandon"
  /\ Active(t) /\ local[t].step.conclusion = Closed => ShutdownAnswered
  /\ Active(t) /\ opened => /\ local[t].conv.phase # "Describing"
                           /\ local[t].step.conclusion # Described
  /\ pc[t] \in {"idle", "body", "unwinding", "waiting"} =>
       local[t].conv.phase # "Refusing"

(* A message written after a stop or the deadline was the last.             *)
LastOverrun ==
  overrun # 0 => Interrupts # {} /\ \A t \in Tasks : pc[t] # "writing"

HistoryInv ==
  /\ LockStep
  /\ QuietAfterInterrupt
  /\ CleanMeansAnswered
  /\ WireAgrees
  /\ LastTells
  /\ \A t \in Tasks : StepAgrees(t)
  /\ LastOverrun

(* The inductive invariant: the shape of the state, the hand-overs between  *)
(* the tasks and the history.                                               *)
InductiveInv == TypeOK /\ SessionInv /\ HistoryInv
=============================================================================
