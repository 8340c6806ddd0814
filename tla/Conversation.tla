----------------------------- MODULE Conversation -----------------------------
(***************************************************************************)
(* The pure state machine of one MEP session with a worker                 *)
(* (pkgs/morphir-host/worker/session.mbt).  It owns no variable: every     *)
(* operator takes a conversation and returns [conv, step], the next        *)
(* conversation and what the driver does next.                             *)
(*                                                                         *)
(* Payloads are abstracted to what the session decides on: a reply is a    *)
(* "result" or an "error", and the body of a result is "accept" (every     *)
(* check passes), "reject" (the claims or the agreement differ, or the     *)
(* guest says success: false) or "malformed" (the first check of the reply *)
(* fails).  A step of the code sends at most one message, so a step here   *)
(* has one message or NoMessage.                                           *)
(***************************************************************************)
EXTENDS Naturals

Phases == {"Describing", "Initializing", "Refusing", "Ready", "Calling",
           "Called", "ShuttingDown", "Over"}

(* Errors a channel may raise to the session. *)
ChannelErrors == {"WorkerClosed", "FrameInvalid", "RequestFrameLimit",
                  "ResponseFrameLimit", "Stopped", "TransportFailed",
                  "GuestTrapped", "GuestDeadline", "WorkerRefused"}

StopReasons == {"GraceExpired", "Deadline", "Cancelled", "Fault"}

-----------------------------------------------------------------------------
(* Endings, conclusions, messages and steps. *)

Refused(code) == [class |-> "Refused", code |-> code]
Failed(code)  == [class |-> "Failed", code |-> code]
DeadlinePassed == [class |-> "Deadline", code |-> "none"]
Cancelled == [class |-> "Cancelled", code |-> "none"]
NoEnding  == [class |-> "None", code |-> "none"]

Completed    == [class |-> "Completed", code |-> "none"]
Unsuccessful == [class |-> "Unsuccessful", code |-> "none"]

Described == [kind |-> "Described", ending |-> NoEnding]
Closed    == [kind |-> "Closed", ending |-> NoEnding]
EndedEarly(ending) == [kind |-> "EndedEarly", ending |-> ending]
NoConclusion == [kind |-> "None", ending |-> NoEnding]

Message(method, id) == [method |-> method, id |-> id]
NoMessage == Message("none", 0)
IsRequest(message) == message.id # 0

(* `plan` is "CloseAfterExit" or the StopReason of an Abort. *)
Exchange(message) ==
  [then |-> "exchange", send |-> message, plan |-> "CloseAfterExit",
   conclusion |-> NoConclusion, answer |-> NoEnding]
(* Fault: the host forgets to tell the worker that it is initialized.      *)
ActivatedSilently == [Exchange(NoMessage) EXCEPT !.then = "activated"]

Activated ==
  [Exchange(Message("initialized", 0)) EXCEPT !.then = "activated"]
Answered(class) ==
  [Exchange(NoMessage) EXCEPT !.then = "answered", !.answer = class]
Finished(message, plan, conclusion) ==
  [Exchange(message) EXCEPT !.then = "finished", !.plan = plan,
                            !.conclusion = conclusion]

(* The sets these values range over. *)
Codes == {"none", "platform_mismatch", "incomplete_session", "frame_invalid",
          "response_limit", "request_limit", "guest_trap", "describe_failed",
          "worker_runtime_mismatch", "protocol_unavailable", "claims_mismatch",
          "capability_unavailable", "guest", "unexpected_response"}
Methods == {"none", "describe", "initialize", "initialized", "operation",
            "shutdown", "exit"}

Endings == [class : {"None", "Refused", "Failed", "Deadline", "Cancelled",
                     "Completed", "Unsuccessful"}, code : Codes]
Conclusions == [kind : {"None", "Described", "Closed", "EndedEarly"},
                ending : Endings]
Sent == [method : Methods, id : Nat]
Steps == [then : {"exchange", "activated", "answered", "finished"},
          send : Sent, plan : StopReasons \cup {"CloseAfterExit"},
          conclusion : Conclusions, answer : Endings]
Conversations == [phase : Phases, pending : Nat, next_id : Nat,
                  refusal : Endings]
Moves == [conv : Conversations, step : Steps]

-----------------------------------------------------------------------------
(* Starting a conversation. *)

probe ==
  [conv |-> [phase |-> "Describing", pending |-> 1, next_id |-> 2,
             refusal |-> NoEnding],
   step |-> Exchange(Message("describe", 1))]

activate ==
  [conv |-> [phase |-> "Initializing", pending |-> 1, next_id |-> 2,
             refusal |-> NoEnding],
   step |-> Exchange(Message("initialize", 1))]

(* No conversation yet: a placeholder of the same shape. *)
NoConversation == [probe.conv EXCEPT !.phase = "Over", !.pending = 0]

-----------------------------------------------------------------------------
(* Ending a conversation. *)

over(conv, message, plan, conclusion) ==
  [conv |-> [conv EXCEPT !.phase = "Over", !.pending = 0],
   step |-> Finished(message, plan, conclusion)]

exit(conv, conclusion) ==
  over(conv, Message("exit", 0), "CloseAfterExit", conclusion)

shutdown(conv, phase, refusal) ==
  [conv |-> [phase |-> phase, pending |-> conv.next_id,
             next_id |-> conv.next_id + 1, refusal |-> refusal],
   step |-> Exchange(Message("shutdown", conv.next_id))]

(* Fault: a later event replaces the refusal.                              *)
EndingOverwritten(conv, ending) == ending

(* While the session refuses a worker, the refusal stays the ending. *)
Ending(conv, ending) ==
  IF conv.phase = "Refusing" THEN conv.refusal ELSE ending

FaultOf(conv, error) ==
  CASE error = "FrameInvalid" -> "frame_invalid"
    [] error = "TransportFailed" -> "incomplete_session"
    [] error = "ResponseFrameLimit" -> "response_limit"
    [] error = "GuestTrapped" -> "guest_trap"
    [] OTHER -> IF conv.phase = "Describing" THEN "describe_failed"
                                             ELSE "incomplete_session"

transport_fault(conv, error) ==
  Ending(conv,
    CASE error = "RequestFrameLimit" -> Refused("request_limit")
      [] error = "WorkerRefused" -> Refused("worker_runtime_mismatch")
      [] error = "GuestDeadline" -> DeadlinePassed
      [] OTHER -> Failed(FaultOf(conv, error)))

-----------------------------------------------------------------------------
(* A reply to the pending request. *)

initialized(conv, body) ==
  CASE body = "malformed" ->
         exit(conv, EndedEarly(Refused("protocol_unavailable")))
    [] body = "reject" ->
         shutdown(conv, "Refusing", Refused("claims_mismatch"))
    [] OTHER ->
         [conv |-> [conv EXCEPT !.phase = "Ready", !.pending = 0],
          step |-> Activated]

answer(reply) ==
  IF reply.kind = "error" THEN Failed("guest")
  ELSE IF reply.body = "malformed" THEN Failed("unexpected_response")
  ELSE IF reply.body = "reject" THEN Unsuccessful
  ELSE Completed

replied(conv, reply) ==
  LET failed == reply.kind = "error" IN
  CASE conv.phase = "Describing" ->
         exit(conv, IF failed \/ reply.body # "accept"
                    THEN EndedEarly(Failed("describe_failed"))
                    ELSE Described)
    [] conv.phase = "Initializing" ->
         IF failed THEN exit(conv, EndedEarly(Failed("guest")))
                   ELSE initialized(conv, reply.body)
    [] conv.phase = "Refusing" -> exit(conv, EndedEarly(conv.refusal))
    [] conv.phase = "Calling" ->
         [conv |-> [conv EXCEPT !.phase = "Called", !.pending = 0],
          step |-> Answered(answer(reply))]
    [] conv.phase = "ShuttingDown" ->
         exit(conv, IF failed THEN EndedEarly(Failed("guest")) ELSE Closed)
    [] OTHER ->
         over(conv, NoMessage, "Fault",
              EndedEarly(Failed("unexpected_response")))

(* A message from the worker: the size is checked first, then the ID. *)
IsReplyTo(pending, message) ==
  /\ message.kind \in {"result", "error"}
  /\ message.id = pending

received(conv, message) ==
  LET fault(code) ==
        over(conv, NoMessage, "Fault", EndedEarly(Ending(conv, Failed(code))))
  IN IF conv.pending = 0 THEN fault("unexpected_response")
     ELSE IF message.kind = "oversized" THEN fault("response_limit")
     ELSE IF message.kind = "notification"
     THEN [conv |-> conv, step |-> Exchange(NoMessage)]
     ELSE IF IsReplyTo(conv.pending, message) THEN replied(conv, message)
     ELSE fault("unexpected_response")

-----------------------------------------------------------------------------
(* Events other than a received message: "StopRequested", "DeadlinePassed" *)
(* or the error a channel raised.                                          *)

(* Fault: a worker that leaves during `shutdown` counts as closed.         *)
OnLenient(conv, event) ==
  over(conv, NoMessage, "Fault",
       IF event = "WorkerClosed" /\ conv.phase = "ShuttingDown"
       THEN Closed ELSE EndedEarly(Ending(conv, Failed("incomplete_session"))))

on(conv, event) ==
  LET end(plan, ending) == over(conv, NoMessage, plan, EndedEarly(ending)) IN
  CASE event = "StopRequested" -> end("Cancelled", Ending(conv, Cancelled))
    [] event = "DeadlinePassed" -> end("Deadline", Ending(conv, DeadlinePassed))
    [] OTHER -> end("Fault", transport_fault(conv, event))

(* The plan of a Finished step whose last message could not be sent.       *)
after(event) ==
  CASE event = "StopRequested" -> "Cancelled"
    [] event = "DeadlinePassed" -> "Deadline"
    [] OTHER -> "Fault"

-----------------------------------------------------------------------------
(* The operations of a caller.  A call that fails one of the checks before *)
(* it is sent leaves the conversation as it was.                           *)

Callable(conv) == conv.phase = "Ready"

call(conv) ==
  [conv |-> [conv EXCEPT !.phase = "Calling", !.pending = conv.next_id,
                         !.next_id = @ + 1],
   step |-> Exchange(Message("operation", conv.next_id))]

refuse(conv) ==
  [conv |-> conv, step |-> Answered(Refused("capability_unavailable"))]

Closable(conv) == conv.phase \in {"Ready", "Called"}

close(conv) == shutdown(conv, "ShuttingDown", NoEnding)
=============================================================================
